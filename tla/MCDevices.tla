----------------------------- MODULE MCDevices -----------------------------
(***************************************************************************)
(* Devices and their data for TLC: the keyboard's events (Keyboard), the   *)
(* mouse and the cursor (Cursor), the set-up of a GPU (VirtioGpu), dates   *)
(* (Calendar) and dynamic arrays (DynArray).  They share no state:         *)
(* `subject` says which one a behaviour is of, and the others stand still. *)
(***************************************************************************)
EXTENDS Keyboard

CONSTANTS
  Width, Height, CURSOR_SZ, Buttons, Steps, MaxRedraws,  \* of Cursor
  GPUQ_SZ, WRAP, PAGE_SIZE, Displays,                    \* of VirtioGpu
  LastDay, LastSecond, Moments,                          \* of Calendar
  Arrays, Pages, Values, MaxElems, Caps, Junk, mb, none, \* of DynArray
  Few                                                    \* some of the values

VARIABLES
  subject,
  cursor, screen, mouse, down, said, up, pc, at, n, redraws,  \* of Cursor
  q, dev, isr, step, cmd, head, resp, pages, attach_sz,       \* of VirtioGpu
  days, date,                                                 \* of Calendar
  arr, mem, use, mailbox                                      \* of DynArray

pointer  == <<cursor, screen, mouse, down, said, up, pc, at, n, redraws>>
gpu      == <<q, dev, isr, step, cmd, head, resp, pages, attach_sz>>
calendar == <<days, date>>
arrays   == <<arr, mem, use, mailbox>>

\* Motion while the task redraws; and the handler with its buttons and no task.
Pointer == INSTANCE Cursor WITH told <- said
Moves   == Pointer!Motion \/ Pointer!cursor_daemon
Handles == Pointer!virtio_mouse_handle_irq

Gpu == INSTANCE VirtioGpu WITH pc <- step

Dates == INSTANCE Calendar

\* Arrays beside a mailbox and the rest of the kernel; and arrays alone, with every value.
Boxes  == INSTANCE DynArray WITH None <- none
Shared == Boxes!NextOf(Few)
Alone  == \E a \in Arrays : Boxes!Call(a, Values)

StepsHere == {-3, -1, 0, 2}

ASSUME CursorConstants ==
  Pointer!SizeAssumption /\ Pointer!StepsAssumption /\ Pointer!ButtonsAssumption
ASSUME GpuConstants    == Gpu!SizeAssumption
ASSUME DatesConstants  == Dates!DaysAssumption /\ Dates!MomentsAssumption
ASSUME ArraysConstants == Boxes!SizeAssumption /\ Boxes!NameAssumption /\ Few \subseteq Values

MCInit ==
  /\ subject \in {"keyboard", "redraw", "mouse", "gpu", "dates", "boxes", "elements"}
  /\ Init /\ (subject # "keyboard" => modifiers = {})
  /\ Pointer!Init /\ Gpu!Init /\ Dates!Init /\ Boxes!Init

MCNext ==
  \/ subject = "keyboard" /\ Next /\ UNCHANGED <<pointer, gpu, calendar, arrays, subject>>
  \/ subject = "redraw"   /\ Moves /\ UNCHANGED <<vars, gpu, calendar, arrays, subject>>
  \/ subject = "mouse"    /\ Handles /\ UNCHANGED <<vars, gpu, calendar, arrays, subject>>
  \/ subject = "gpu"      /\ Gpu!Next /\ UNCHANGED <<vars, pointer, calendar, arrays, subject>>
  \/ subject = "dates"    /\ Dates!Next /\ UNCHANGED <<vars, pointer, gpu, arrays, subject>>
  \/ subject = "boxes"    /\ Shared /\ UNCHANGED <<vars, pointer, gpu, calendar, subject>>
  \/ subject = "elements" /\ Alone /\ UNCHANGED <<vars, pointer, gpu, calendar, subject>>

MCSpec == MCInit /\ [][MCNext]_<<vars, pointer, gpu, calendar, arrays, subject>>

-----------------------------------------------------------------------------
\* See Cursor: the cursor is whole after every redraw and knows its buttons; and what the
\* handler draws alone leaves nothing behind.
PointerIsSound == subject \in {"redraw", "mouse"} => Pointer!PointerIsSound

\* See VirtioGpu: no descriptor is lost, and the device sees the commands in their order.
CommandsAreSound == subject = "gpu" => Gpu!CommandsAreSound

\* See Calendar: the conversions give the date of every day, and undo each other.
CalendarIsRight == subject = "dates" => Dates!CalendarIsRight

\* See DynArray: growing neither leaks a page nor frees one twice.
ArraysAreSound == subject \in {"boxes", "elements"} => Boxes!ArraysAreSound

\* See DynArray: arrays are sequences that keep what was pushed.
ImplementsAbstractVectors == Boxes!ImplementsAbstractVectors
=============================================================================
