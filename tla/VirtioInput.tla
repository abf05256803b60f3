----------------------------- MODULE VirtioInput -----------------------------
(***************************************************************************)
(* A virtio input device and its driver (kernel/src/device/virtio):        *)
(* set-up, the event queue both sides share, and the interrupt handlers of *)
(* virtio_keyboard.c and virtio_mouse.c, which differ only in that the     *)
(* keyboard's gives up when make_keypress() fails.  Each access to shared  *)
(* memory is a step, and the device sees the driver's in their order.      *)
(* Events are numbered as they happen; what they mean to the drivers is in *)
(* Keyboard and Cursor.                                                    *)
(***************************************************************************)
EXTENDS Integers, Sequences, FiniteSets

CONSTANTS
  SIZE,       \* descriptors of the event queue (16)
  WRAP,       \* indices count modulo WRAP (2^16)
  MaxEvents,  \* bound on the events
  MaxFailures \* bound on the calls of make_keypress() that fail; the mouse has none

\* What every instance assumes of the constants (the MC modules state it).
SizeAssumption ==
  SIZE \in Nat \ {0} /\ WRAP \in Nat /\ WRAP > SIZE /\ WRAP % SIZE = 0
BoundAssumption == MaxEvents \in Nat /\ MaxFailures \in Nat

VARIABLES
  status, isr,           \* registers of the device
  avail, used, buffers,  \* memory: the rings, and what each descriptor's buffer holds
  dev,                   \* the device: its place in avail, and the event it works on
  happened, put,         \* events so far, and the last one in the used ring
  pc, last_used_idx, id, \* of the driver
  got, failures          \* the last event handled, and how often make_keypress() failed

driver == <<status, avail, pc, last_used_idx, id, got, failures>>
device == <<used, buffers, dev, happened, put>>
vars   == <<driver, device, isr>>

Descriptors == 0..(SIZE - 1)
None  == -1
Idle  == "idle"

Init ==
  /\ status = {} /\ isr = FALSE
  /\ avail = [idx |-> 0, ring |-> [i \in Descriptors |-> 0]]
  /\ used  = [idx |-> 0, ring |-> [i \in Descriptors |-> 0]]
  /\ buffers = [i \in Descriptors |-> None]
  /\ dev = [at |-> Idle, seen |-> 0, id |-> None]
  /\ happened = 0 /\ put = None
  /\ pc = "device_init" /\ last_used_idx = 0 /\ id = 0
  /\ got = None /\ failures = 0

-----------------------------------------------------------------------------
(***************************************************************************)
(* Set-up: main() panics when a step of it fails                           *)
(***************************************************************************)
virtio_device_init ==
  /\ pc = "device_init"
  /\ \/ status' = {"ACKNOWLEDGE", "DRIVER", "FEATURES_OK"} /\ pc' = "queue_setup"
     \/ status' = {"ACKNOWLEDGE", "DRIVER"} /\ pc' = "panic"
  /\ UNCHANGED <<avail, last_used_idx, id, got, failures, device, isr>>

\* Mutant: the index offers one descriptor more than there are.
M_primes_one_more ==
  /\ pc = "queue_setup"
  /\ avail' = [idx |-> (SIZE + 1) % WRAP, ring |-> [i \in Descriptors |-> i]]
  /\ last_used_idx' = 0
  /\ pc' = "status_queue"
  /\ UNCHANGED <<status, id, got, failures, device, isr>>

\* Each of the two queues wants four pages.
virtio_queue_setup ==
  /\ pc = "queue_setup"
  /\ \/ /\ avail' = [idx |-> SIZE, ring |-> [i \in Descriptors |-> i]]
        /\ last_used_idx' = 0
        /\ pc' = "status_queue"
     \/ pc' = "panic" /\ UNCHANGED <<avail, last_used_idx>>
  /\ UNCHANGED <<status, id, got, failures, device, isr>>

driver_ok ==
  /\ pc = "status_queue"
  /\ \/ status' = status \cup {"DRIVER_OK"} /\ pc' = Idle
     \/ status' = status /\ pc' = "panic"
  /\ UNCHANGED <<avail, last_used_idx, id, got, failures, device, isr>>

-----------------------------------------------------------------------------
(***************************************************************************)
(* The device: it fetches a descriptor for an event or drops the event,    *)
(* fills the buffer, and passes it on through the used ring                *)
(***************************************************************************)
Event ==
  /\ "DRIVER_OK" \in status
  /\ dev.at = Idle /\ happened < MaxEvents
  /\ happened' = happened + 1
  /\ dev' = IF dev.seen = avail.idx THEN dev
            ELSE [at |-> "fill", seen |-> (dev.seen + 1) % WRAP,
                  id |-> avail.ring[dev.seen % SIZE]]
  /\ UNCHANGED <<used, buffers, put, driver, isr>>

Fill ==
  /\ dev.at = "fill"
  /\ buffers' = [buffers EXCEPT ![dev.id] = happened - 1]
  /\ dev' = [dev EXCEPT !.at = "ring"]
  /\ UNCHANGED <<used, happened, put, driver, isr>>

UseRing ==
  /\ dev.at = "ring"
  /\ used' = [used EXCEPT !.ring[used.idx % SIZE] = dev.id]
  /\ dev' = [dev EXCEPT !.at = "index"]
  /\ UNCHANGED <<buffers, happened, put, driver, isr>>

UseIndex ==
  /\ dev.at = "index"
  /\ used' = [used EXCEPT !.idx = (@ + 1) % WRAP]
  /\ put' = happened - 1
  /\ dev' = [dev EXCEPT !.at = "interrupt", !.id = None]
  /\ UNCHANGED <<buffers, happened, driver, isr>>

RaiseInterrupt ==
  /\ dev.at = "interrupt"
  /\ isr' = TRUE
  /\ dev' = [dev EXCEPT !.at = Idle]
  /\ UNCHANGED <<used, buffers, happened, put, driver>>

-----------------------------------------------------------------------------
(***************************************************************************)
(* The interrupt handler                                                   *)
(***************************************************************************)
\* handle_irq() begins with virtio_ack_irq().
handle_irq ==
  /\ pc = Idle /\ isr
  /\ isr' = FALSE
  /\ pc' = "loop"
  /\ UNCHANGED <<status, avail, last_used_idx, id, got, failures, device>>

Drained == last_used_idx = used.idx

\* Mutant: the newest event first.
M_newest ==
  /\ pc = "loop" /\ ~Drained
  /\ id' = used.ring[(used.idx - 1) % SIZE]
  /\ pc' = "handle"
  /\ UNCHANGED <<status, avail, last_used_idx, got, failures, device, isr>>

NextUsed ==
  /\ pc = "loop" /\ ~Drained
  /\ id' = used.ring[last_used_idx % SIZE]
  /\ pc' = "handle"
  /\ UNCHANGED <<status, avail, last_used_idx, got, failures, device, isr>>

HandleEvent ==
  /\ pc = "handle"
  /\ got' = buffers[id]
  /\ pc' = "recycle"
  /\ UNCHANGED <<status, avail, last_used_idx, id, failures, device, isr>>

\* The handler returns; it will find the event there when it is called again.
KeypressFails ==
  /\ pc = "handle"
  /\ failures < MaxFailures
  /\ failures' = failures + 1
  /\ pc' = Idle
  /\ UNCHANGED <<status, avail, last_used_idx, id, got, device, isr>>

Recycle ==
  /\ pc = "recycle"
  /\ avail' = [avail EXCEPT !.ring[avail.idx % SIZE] = id]
  /\ pc' = "advance"
  /\ UNCHANGED <<status, last_used_idx, id, got, failures, device, isr>>

\* Mutant: a call of the handler handles one event.
M_handler_one ==
  /\ pc = "advance"
  /\ avail' = [avail EXCEPT !.idx = (@ + 1) % WRAP]
  /\ last_used_idx' = (last_used_idx + 1) % WRAP
  /\ pc' = Idle
  /\ UNCHANGED <<status, id, got, failures, device, isr>>

\* Mutant: the driver's index is wider than the device's.
M_index_grows ==
  /\ pc = "advance"
  /\ avail' = [avail EXCEPT !.idx = (@ + 1) % WRAP]
  /\ last_used_idx' = last_used_idx + 1
  /\ pc' = "loop"
  /\ UNCHANGED <<status, id, got, failures, device, isr>>

Advance ==
  /\ pc = "advance"
  /\ avail' = [avail EXCEPT !.idx = (@ + 1) % WRAP]
  /\ last_used_idx' = (last_used_idx + 1) % WRAP
  /\ pc' = "loop"
  /\ UNCHANGED <<status, id, got, failures, device, isr>>

Leave ==
  /\ pc = "loop" /\ Drained
  /\ pc' = "notify"
  /\ UNCHANGED <<status, avail, last_used_idx, id, got, failures, device, isr>>

\* Mutant: the interrupt is acknowledged when the ring has been drained.
M_notify_acks ==
  /\ pc = "notify"
  /\ isr' = FALSE
  /\ pc' = Idle
  /\ UNCHANGED <<status, avail, last_used_idx, id, got, failures, device>>

\* The notification tells the device what it looks up anyway.
Notify ==
  /\ pc = "notify"
  /\ pc' = Idle
  /\ UNCHANGED <<status, avail, last_used_idx, id, got, failures, device, isr>>

-----------------------------------------------------------------------------
Finish  == Fill \/ UseRing \/ UseIndex \/ RaiseInterrupt
Device  == Event \/ Finish
Setup   == virtio_device_init \/ virtio_queue_setup \/ driver_ok
Handler == handle_irq \/ NextUsed \/ HandleEvent \/ Recycle \/ Advance
           \/ Leave \/ Notify

Next == Device \/ Setup \/ Handler \/ KeypressFails

Spec == Init /\ [][Next]_vars
\* The interrupts of the device are delivered (Plic), the handler goes on, and the
\* device ends what it has begun.
LiveSpec == Spec /\ WF_vars(Handler) /\ WF_vars(Finish)

-----------------------------------------------------------------------------
(***************************************************************************)
(* Properties                                                              *)
(***************************************************************************)
Numbers == None..(MaxEvents - 1)

TypeOK ==
  /\ status \subseteq {"ACKNOWLEDGE", "DRIVER", "FEATURES_OK", "DRIVER_OK"}
  /\ isr \in BOOLEAN
  /\ avail \in [idx : 0..(WRAP - 1), ring : [Descriptors -> Descriptors]]
  /\ used \in [idx : 0..(WRAP - 1), ring : [Descriptors -> Descriptors]]
  /\ buffers \in [Descriptors -> Numbers]
  /\ dev \in [at : {Idle, "fill", "ring", "index", "interrupt"}, seen : 0..(WRAP - 1),
              id : Descriptors \cup {None}]
  /\ happened \in 0..MaxEvents /\ put \in Numbers /\ got \in Numbers
  /\ pc \in {"device_init", "queue_setup", "status_queue", "panic", Idle, "loop", "handle",
             "recycle", "advance", "notify"}
  /\ last_used_idx \in 0..(WRAP - 1) /\ id \in Descriptors
  /\ failures \in 0..MaxFailures

\* The descriptors between two places of a ring.
Between(ring, from, to) ==
  [n \in 1..((to - from) % WRAP) |-> ring[(from + n - 1) % SIZE]]

Offered == Between(avail.ring, dev.seen, avail.idx)
Waiting == Between(used.ring, last_used_idx, used.idx)
Taken   == IF dev.id = None THEN <<>> ELSE <<dev.id>>

\* From the moment the device may begin, each descriptor is offered to the device, or
\* taken by it, or waits in the used ring, and none is in two places: the rings never
\* overflow, no buffer is filled while its event waits, and none is lost.
DescriptorsHaveOnePlace ==
  "DRIVER_OK" \in status =>
    LET all == Offered \o Taken \o Waiting
    IN Len(all) = SIZE /\ {all[n] : n \in 1..Len(all)} = Descriptors

\* An event that waits while nobody is to handle it has been left there by a handler
\* that gave up: the interrupt of the last event is never lost.
NoEventIsStranded ==
  pc = Idle /\ ~Drained => isr \/ dev.at = "interrupt" \/ failures > 0

Queue  == LET n == IF pc \in {"recycle", "advance"} THEN 1 ELSE 0
          IN [k \in 1..(Len(Waiting) - n) |-> buffers[Waiting[k + n]]]
EventQueue == INSTANCE AbstractEvents WITH Size <- SIZE, queue <- Queue, last <- put

\* Events are handled once each and in the order they happened, whatever device and
\* handler do at the same time.
ImplementsAbstractEvents == EventQueue!Spec

\* If make_keypress() does not fail, every event in the ring is handled.
EventsAreHandled == ~Drained ~> Drained

\* virtio_device_init() sets DRIVER_OK (virtio_common.h:31).
\* It does not hold, and no run checks it: see What disagrees in the README.
InitSetsDriverOk == pc = "queue_setup" => "DRIVER_OK" \in status

\* The rings hold every descriptor once, and the interrupt of what waits is on its way.
QueueIsSound == TypeOK /\ DescriptorsHaveOnePlace /\ NoEventIsStranded
=============================================================================
