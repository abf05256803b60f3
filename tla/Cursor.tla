------------------------------- MODULE Cursor -------------------------------
(***************************************************************************)
(* The mouse's interrupt handler (virtio_mouse.c), the cursor it moves     *)
(* (cursor.c, with the loops of img.c and framebuffer.c that draw it), and *)
(* the task that redraws the cursor from time to time (cursor_daemon.c).   *)
(* The handler runs to its end with interrupts off; it may interrupt the   *)
(* task between any two pixels.  The screen is the set of pixels that show *)
(* the cursor.                                                             *)
(***************************************************************************)
EXTENDS Integers, FiniteSets

CONSTANTS
  Width, Height, \* of the framebuffer
  CURSOR_SZ,     \* of the cursor, which is square
  Buttons,       \* BTN_LEFT and others
  Steps,         \* relative motions the mouse reports
  MaxRedraws     \* bound on the redraws of the task

\* What every instance assumes of the constants (the MC modules state it).
SizeAssumption ==
  /\ Width \in Nat /\ Height \in Nat /\ CURSOR_SZ \in Nat \ {0}
  \* There is room for the cursor where cursor_init() puts it.
  /\ CURSOR_SZ <= Width - Width \div 2 /\ CURSOR_SZ <= Height - Height \div 2
ButtonsAssumption == Buttons \subseteq {"BTN_LEFT", "BTN_RIGHT", "BTN_MIDDLE"}
StepsAssumption == Steps \subseteq Int /\ MaxRedraws \in Nat

VARIABLES
  cursor,            \* x, y and px, py, the place it was drawn before
  screen,            \* pixels that show the cursor
  mouse,             \* rel_x, rel_y and the buttons
  down, told,        \* buttons that are down, and those whose last change was not dropped
  up,                \* false once the machine has been reset
  pc, at, n, redraws \* of the task: where it draws, pixels done, redraws begun

task == <<pc, at, n, redraws>>
vars == <<cursor, screen, mouse, down, told, up, task>>

Pixels == (0..(Width - 1)) \X (0..(Height - 1))

Init ==
  /\ cursor = [x |-> Width \div 2, y |-> Height \div 2, px |-> 0, py |-> 0]
  /\ screen = {}
  /\ mouse = [rel_x |-> 0, rel_y |-> 0, buttons |-> {}]
  /\ down = {} /\ told = {}
  /\ up = TRUE
  /\ pc = "sleep" /\ at = <<0, 0>> /\ n = 0 /\ redraws = 0

-----------------------------------------------------------------------------
(***************************************************************************)
(* Drawing                                                                 *)
(***************************************************************************)
\* Pixel k of a square, by columns; framebuffer_put_pixel() ignores what is off the screen.
Pixel(p, k) == {<<p[1] + (k \div CURSOR_SZ), p[2] + (k % CURSOR_SZ)>>} \cap Pixels
Square(p)   == UNION {Pixel(p, k) : k \in 0..(CURSOR_SZ * CURSOR_SZ - 1)}

Here(c)  == <<c.x, c.y>>
There(c) == <<c.px, c.py>>

cursor_redraw(s, c) == (s \ Square(There(c))) \cup Square(Here(c))

Clamp(v, most) == IF v < 0 THEN 0 ELSE IF v > most THEN most ELSE v

\* Mutant: the clamp forgets the size of the cursor.
M_moved_off(c, dx, dy) ==
  [x  |-> Clamp(c.x + dx, Width), y  |-> Clamp(c.y + dy, Height),
   px |-> c.x, py |-> c.y]

\* Mutant: the old place is not remembered.
M_moved_forgets(c, dx, dy) ==
  [c EXCEPT !.x = Clamp(c.x + dx, Width - CURSOR_SZ),
            !.y = Clamp(c.y + dy, Height - CURSOR_SZ)]

Moved(c, dx, dy) ==
  [x  |-> Clamp(c.x + dx, Width - CURSOR_SZ), y  |-> Clamp(c.y + dy, Height - CURSOR_SZ),
   px |-> c.x, py |-> c.y]

-----------------------------------------------------------------------------
(***************************************************************************)
(* The mouse                                                               *)
(***************************************************************************)
cursor_move(dx, dy) ==
  /\ cursor' = Moved(cursor, dx, dy)
  /\ screen' = cursor_redraw(screen, cursor')

Consume(m) ==
  IF m.rel_x # 0 \/ m.rel_y # 0
  THEN cursor_move(m.rel_x, m.rel_y) /\ mouse' = [m EXCEPT !.rel_x = 0, !.rel_y = 0]
  ELSE UNCHANGED <<cursor, screen>> /\ mouse' = m

\* The wheel is counted too; nobody looks at the count.
EV_REL(code, value) ==
  /\ up
  /\ Consume(CASE code = "REL_X" -> [mouse EXCEPT !.rel_x = @ + value]
               [] code = "REL_Y" -> [mouse EXCEPT !.rel_y = @ + value]
               [] OTHER -> mouse)
  /\ UNCHANGED <<down, told, up, task>>

\* Mutant: a release clears every button.
M_ButtonChange(code, pressed) ==
  mouse' = [mouse EXCEPT !.buttons = IF pressed THEN @ \cup {code} ELSE {}]

ButtonChange(code, pressed) ==
  mouse' = [mouse EXCEPT !.buttons = IF pressed THEN @ \cup {code} ELSE @ \ {code}]

\* The left button resets the machine.
EV_KEY(code, pressed) ==
  /\ up
  /\ pressed = (code \notin down)
  /\ down' = IF pressed THEN down \cup {code} ELSE down \ {code}
  /\ \/ /\ told' = told \ {code}   \* the device had no buffer for it
        /\ UNCHANGED <<mouse, up>>
     \/ /\ told' = told \cup {code}
        /\ ButtonChange(code, pressed)
        /\ up' = ~(code = "BTN_LEFT" /\ pressed)
  /\ UNCHANGED <<cursor, screen, task>>

Motion == \E code \in {"REL_X", "REL_Y", "REL_WHEEL"}, value \in Steps : EV_REL(code, value)

virtio_mouse_handle_irq ==
  Motion \/ \E code \in Buttons, pressed \in BOOLEAN : EV_KEY(code, pressed)

-----------------------------------------------------------------------------
(***************************************************************************)
(* cursor_daemon(): the places are read when each loop over the pixels     *)
(* begins                                                                  *)
(***************************************************************************)
Rest == UNCHANGED <<cursor, mouse, down, told, up>>

Wake ==
  /\ up /\ pc = "sleep" /\ redraws < MaxRedraws
  /\ pc' = "erase" /\ at' = There(cursor) /\ n' = 0 /\ redraws' = redraws + 1
  /\ Rest /\ UNCHANGED screen

\* Mutant: the task erases and leaves the drawing to the handler.
M_erase_only ==
  /\ up /\ pc = "erase"
  /\ screen' = screen \ Pixel(at, n)
  /\ IF n + 1 < CURSOR_SZ * CURSOR_SZ
     THEN n' = n + 1 /\ UNCHANGED <<pc, at>>
     ELSE pc' = "sleep" /\ at' = Here(cursor) /\ n' = 0
  /\ Rest /\ UNCHANGED redraws

Erase ==
  /\ up /\ pc = "erase"
  /\ screen' = screen \ Pixel(at, n)
  /\ IF n + 1 < CURSOR_SZ * CURSOR_SZ
     THEN n' = n + 1 /\ UNCHANGED <<pc, at>>
     ELSE pc' = "draw" /\ at' = Here(cursor) /\ n' = 0
  /\ Rest /\ UNCHANGED redraws

Draw ==
  /\ up /\ pc = "draw"
  /\ screen' = screen \cup Pixel(at, n)
  /\ IF n + 1 < CURSOR_SZ * CURSOR_SZ
     THEN n' = n + 1 /\ UNCHANGED pc
     ELSE n' = 0 /\ pc' = "sleep"
  /\ Rest /\ UNCHANGED <<at, redraws>>

cursor_daemon == Wake \/ Erase \/ Draw

Next == virtio_mouse_handle_irq \/ cursor_daemon

Spec == Init /\ [][Next]_vars

-----------------------------------------------------------------------------
(***************************************************************************)
(* Properties                                                              *)
(***************************************************************************)
TypeOK ==
  /\ cursor \in [x : 0..(Width - CURSOR_SZ), y : 0..(Height - CURSOR_SZ),
                px : 0..(Width - CURSOR_SZ), py : 0..(Height - CURSOR_SZ)]
  /\ screen \subseteq Pixels
  /\ mouse \in [rel_x : {0}, rel_y : {0}, buttons : SUBSET Buttons]
  /\ down \subseteq Buttons /\ told \subseteq Buttons
  /\ up \in BOOLEAN
  /\ pc \in {"sleep", "erase", "draw"} /\ at \in Pixels
  /\ n \in 0..(CURSOR_SZ * CURSOR_SZ - 1) /\ redraws \in 0..MaxRedraws

Drawn == screen # {}

\* Once it has been drawn, the cursor is on the screen as a whole, wherever the mouse took
\* it, whenever the task sleeps: a redraw that the handler interrupted leaves no hole.
CursorIsWhole ==
  pc = "sleep" /\ Drawn =>
    Square(Here(cursor)) \subseteq screen /\ Cardinality(Square(Here(cursor))) = CURSOR_SZ * CURSOR_SZ

\* The buttons are those that are down, but for one whose last change was dropped.
ButtonsFollowTheMouse == mouse.buttons \cap told = down \cap told

\* A cursor that moved leaves nothing at its old place, where it is erased (cursor.c:38).
\* It does not hold with the task, and no run checks it: a move while the task draws leaves
\* at the old place what the task draws after it.
OldIsErased == pc = "sleep" => screen \subseteq Square(Here(cursor))

\* As long as the task has not begun, it does hold: what the handler draws it erases.
NoGhost == redraws = 0 => OldIsErased

\* The cursor is where the mouse is, as a whole, and knows its buttons; and what the
\* handler draws alone leaves nothing behind.
PointerIsSound == TypeOK /\ CursorIsWhole /\ ButtonsFollowTheMouse /\ NoGhost
=============================================================================
