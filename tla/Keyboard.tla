------------------------------ MODULE Keyboard ------------------------------
(***************************************************************************)
(* What the keyboard's interrupt handler does with an event                *)
(* (virtio_keyboard.c) and the keypress it makes of it (lib/keyboard.c).   *)
(* Events wait in a queue (VirtioInput) that drops them when it is full;   *)
(* they carry what was true at the keyboard when they happened, for the    *)
(* properties.  The handler runs with interrupts off and is one step per   *)
(* event.                                                                  *)
(***************************************************************************)
EXTENDS Integers, Sequences, FiniteSets

CONSTANTS
  Modifiers,  \* the bits of the modifier keys of this instance
  Codes,      \* codes of the other keys
  QueueSize   \* bound on the events that wait (16)

KEYPRESS_MODIFIER_CAPSLOCK == 0
KEYPRESS_MODIFIER_LSHIFT   == 1
KEYPRESS_MODIFIER_RSHIFT   == 2
KEYPRESS_MODIFIER_LCTRL    == 3
KEYPRESS_MODIFIER_RCTRL    == 4
KEYPRESS_MODIFIER_LALT     == 5
KEYPRESS_MODIFIER_RALT     == 6
KEYPRESS_MODIFIER_LMETA    == 7
KEYPRESS_MODIFIER_RMETA    == 8

AllModifiers ==
  {KEYPRESS_MODIFIER_CAPSLOCK, KEYPRESS_MODIFIER_LSHIFT, KEYPRESS_MODIFIER_RSHIFT,
   KEYPRESS_MODIFIER_LCTRL, KEYPRESS_MODIFIER_RCTRL, KEYPRESS_MODIFIER_LALT,
   KEYPRESS_MODIFIER_RALT, KEYPRESS_MODIFIER_LMETA, KEYPRESS_MODIFIER_RMETA}

ASSUME ModifiersAssumption == Modifiers \subseteq AllModifiers
ASSUME CodesAssumption == Codes \subseteq Nat
ASSUME QueueAssumption == QueueSize \in Nat \ {0}

KEY_RELEASED == 0
KEY_PRESSED  == 1
Repeat       == 2
Byte         == 0..7    \* the bits of a uint8_t

VARIABLES
  held,       \* modifier keys that are down
  told,       \* those whose last change was queued
  queue,      \* events that wait
  modifiers,  \* kbd->modifiers: the bits that are set
  printed     \* the last keypress that was printed

vars == <<held, told, queue, modifiers, printed>>

None == [keycode |-> -1]

\* make_virtio_keyboard() leaves the modifiers as the page was.
Init ==
  /\ held = {} /\ told = {} /\ queue = <<>>
  /\ modifiers \in SUBSET Modifiers
  /\ printed = None

-----------------------------------------------------------------------------
(***************************************************************************)
(* The keyboard                                                            *)
(***************************************************************************)
Full == Len(queue) = QueueSize

Put(event) == queue' = IF Full THEN queue ELSE Append(queue, event)

ModifierEvent(k, value) ==
  /\ (value = KEY_PRESSED) = (k \notin held)
  /\ held' = IF value = KEY_RELEASED THEN held \ {k} ELSE held \cup {k}
  /\ told' = IF value = Repeat THEN told
             ELSE IF Full THEN told \ {k} ELSE told \cup {k}
  /\ Put([modifier |-> TRUE, key |-> k, value |-> value])
  /\ UNCHANGED <<modifiers, printed>>

CodeEvent(c, value) ==
  /\ Put([modifier |-> FALSE, key |-> c, value |-> value, told |-> told, held |-> told \cap held])
  /\ UNCHANGED <<held, told, modifiers, printed>>

-----------------------------------------------------------------------------
(***************************************************************************)
(* The handler                                                             *)
(***************************************************************************)
IsKeyChange(ev) == ev.value \in {KEY_PRESSED, KEY_RELEASED}

\* Mutant: a bit changes with every event of its key.
M_toggle(bits, bit, state) == IF bit \in bits THEN bits \ {bit} ELSE bits \cup {bit}

KEYPRESS_MODIFIER_SET(bits, bit, state) == IF state THEN bits \cup {bit} ELSE bits \ {bit}

ModifierKey ==
  /\ queue # <<>> /\ Head(queue).modifier /\ IsKeyChange(Head(queue))
  /\ modifiers' = KEYPRESS_MODIFIER_SET(modifiers, Head(queue).key, Head(queue).value = KEY_PRESSED)
  /\ queue' = Tail(queue)
  /\ UNCHANGED <<held, told, printed>>

\* Mutant: the code as the device sent it.
M_wide_keycode(keycode, mods, type) ==
  [keycode |-> keycode, modifiers |-> mods \cap Byte, type |-> type]

\* Mutant: the modifiers are taken as a truth value.
M_bool_modifiers(keycode, mods, type) ==
  [keycode |-> keycode % 256, modifiers |-> IF mods = {} THEN {} ELSE {0}, type |-> type]

\* make_keypress() takes the code and the modifiers as bytes.
make_keypress(keycode, mods, type) ==
  [keycode |-> keycode % 256, modifiers |-> mods \cap Byte, type |-> type]

\* make_keypress() wants a page, keypress_debug() another; both are given back.
\* Without the first the handler returns and the event stays, without the second
\* nothing is printed.
OtherKey ==
  /\ queue # <<>> /\ ~Head(queue).modifier /\ IsKeyChange(Head(queue))
  /\ \E pages \in 0..2 :
       /\ queue' = IF pages = 0 THEN queue ELSE Tail(queue)
       /\ printed' = IF pages < 2 THEN printed
                     ELSE make_keypress(Head(queue).key, modifiers, Head(queue).value)
  /\ UNCHANGED <<held, told, modifiers>>

OtherEvent ==
  /\ queue # <<>> /\ ~IsKeyChange(Head(queue))
  /\ queue' = Tail(queue)
  /\ UNCHANGED <<held, told, modifiers, printed>>

-----------------------------------------------------------------------------
Happens ==
  \E value \in {KEY_RELEASED, KEY_PRESSED, Repeat} :
    \/ \E k \in Modifiers : ModifierEvent(k, value)
    \/ \E c \in Codes : CodeEvent(c, value)

virtio_keyboard_handle_irq == ModifierKey \/ OtherKey \/ OtherEvent

Next == Happens \/ virtio_keyboard_handle_irq

Spec == Init /\ [][Next]_vars

-----------------------------------------------------------------------------
(***************************************************************************)
(* Properties                                                              *)
(***************************************************************************)
Value == {KEY_RELEASED, KEY_PRESSED, Repeat}
Event == [modifier : {TRUE}, key : Modifiers, value : Value]
           \cup [modifier : {FALSE}, key : Codes, value : Value,
                 told : SUBSET Modifiers, held : SUBSET Modifiers]

TypeOK ==
  /\ held \subseteq Modifiers /\ told \subseteq Modifiers
  /\ Len(queue) <= QueueSize /\ \A i \in 1..Len(queue) : queue[i] \in Event
  /\ modifiers \subseteq Modifiers
  /\ printed = None \/ printed \in
       [keycode : 0..255, modifiers : SUBSET (Modifiers \cap Byte), type : {KEY_RELEASED, KEY_PRESSED}]

\* When no event waits, the modifier bits are those of the keys that are held, but for
\* keys that have not moved yet or whose last event was dropped.
ModifiersFollowTheKeys ==
  queue = <<>> => modifiers \cap told = held \cap told

\* What is printed was true when the key moved, however late the handler came to it
\* and however often it gave up: which of the modifiers below bit 8 were held, but for
\* those it could not know of.
KeypressesAreTrue ==
  [][printed' # printed =>
       printed'.modifiers \cap Head(queue).told = Head(queue).held \cap Byte]_vars

\* The modifiers are the current state of the keys (virtio_keyboard.h:28).
\* It does not hold, and no run checks it: see What disagrees in the README.
ModifiersAreCurrent == queue = <<>> => modifiers = held

\* The modifier bits are a set of modifiers, those of the keys.
ModifiersAreSound == TypeOK /\ ModifiersFollowTheKeys
=============================================================================
