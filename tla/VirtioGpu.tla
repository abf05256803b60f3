----------------------------- MODULE VirtioGpu -----------------------------
(***************************************************************************)
(* virtio_gpu.c: the set-up of a virtio GPU, which sends it six commands   *)
(* and waits for the answer of each, and the interrupt handler.  main()    *)
(* keeps the calls in comments, with the interrupts of the GPU to be       *)
(* served after the set-up, which is the order modelled here.              *)
(***************************************************************************)
EXTENDS Integers, Sequences, FiniteSets

CONSTANTS
  GPUQ_SZ,    \* descriptors of the control queue (64)
  WRAP,       \* indices count modulo WRAP (2^16)
  PAGE_SIZE,  \* 4096
  Displays    \* pages that the framebuffer of a display needs

\* What every instance assumes of the constants (the MC modules state it).
SizeAssumption ==
  /\ GPUQ_SZ \in Nat /\ GPUQ_SZ > 1 /\ WRAP \in Nat /\ WRAP > GPUQ_SZ /\ WRAP % GPUQ_SZ = 0
  /\ PAGE_SIZE \in Nat \ {0} /\ Displays \subseteq Nat

Commands == <<"GET_DISPLAY_INFO", "RESOURCE_CREATE_2D", "RESOURCE_ATTACH_BACKING",
              "SET_SCANOUT", "TRANSFER_TO_HOST_2D", "RESOURCE_FLUSH">>

VARIABLES
  q,       \* the queue: free_map, next and addr of each descriptor, avail, used, last_used_idx
  dev,     \* the device: its place in avail, the chain it works on, commands done
  isr,     \* the interrupt status
  pc, cmd, \* of the driver: what it does, for which command
  head,    \* the head of the chain it waits for
  resp,    \* the answer to GET_DISPLAY_INFO, in the driver's buffer
  pages,   \* pages of the framebuffer
  attach_sz

driver == <<pc, cmd, head, pages, attach_sz>>
vars   == <<q, dev, isr, resp, driver>>

Descriptors == 0..(GPUQ_SZ - 1)
None        == -1
Unread      == -2      \* what the stack held before
Default     == 768     \* pages of 1024 by 768 pixels
HeaderSize  == 24
EntrySize   == 16

Init ==
  /\ q = [free_map |-> {}, next |-> [d \in Descriptors |-> None], addr |-> [d \in Descriptors |-> None],
          avail |-> [idx |-> 0, ring |-> [d \in Descriptors |-> 0]],
          used  |-> [idx |-> 0, ring |-> [d \in Descriptors |-> 0]], last_used_idx |-> 0]
  /\ dev = [seen |-> 0, at |-> "idle", chain |-> None, done |-> <<>>]
  /\ isr = FALSE
  /\ pc = "init" /\ cmd = 1 /\ head = None
  /\ resp = Unread /\ pages = 0 /\ attach_sz = 0

-----------------------------------------------------------------------------
(***************************************************************************)
(* The control queue                                                       *)
(***************************************************************************)
Lowest(S) == CHOOSE d \in S : \A e \in S : d <= e

\* A chain has one descriptor or two.
Chain(next, d) == {d, next[d]} \ {None}

\* Mutant: the head of the chain only.
M_free_head(queue, d) == [queue EXCEPT !.free_map = @ \cup {d}]

free_chain(queue, d) == [queue EXCEPT !.free_map = @ \cup Chain(queue.next, d)]

Answered(command) == command = "GET_DISPLAY_INFO"

\* alloc_desc() takes the lowest; a command with an answer takes two, the second for the
\* answer.
WithChain(queue, two) ==
  LET d0  == Lowest(queue.free_map)
      din == Lowest(queue.free_map \ {d0})
  IN [queue EXCEPT !.free_map = @ \ IF two THEN {d0, din} ELSE {d0},
                   !.next[d0] = IF two THEN din ELSE None,
                   !.next[din] = IF two THEN None ELSE @,
                   !.addr[d0] = cmd,
                   !.avail.ring[queue.avail.idx % GPUQ_SZ] = d0]

virtio_queue_setup ==
  /\ pc = "init"
  /\ \/ /\ q' = [q EXCEPT !.free_map = Descriptors, !.avail.ring = [d \in Descriptors |-> d]]
        /\ pc' = "send"
     \/ pc' = "failed" /\ UNCHANGED q    \* no page, or no such device
  /\ UNCHANGED <<dev, isr, resp, cmd, head, pages, attach_sz>>

\* Without descriptors send_cmd() gives -1, for which wait_cmd() would wait for ever.
send_cmd ==
  /\ pc = "send"
  /\ LET need == IF Answered(Commands[cmd]) THEN 2 ELSE 1
     IN IF Cardinality(q.free_map) < need
        THEN head' = None /\ pc' = "wait" /\ UNCHANGED q
        ELSE /\ q' = WithChain(q, need = 2)
             /\ head' = Lowest(q.free_map)
             /\ pc' = "offer"
  /\ UNCHANGED <<dev, isr, resp, cmd, pages, attach_sz>>

Offer ==
  /\ pc = "offer"
  /\ q' = [q EXCEPT !.avail.idx = (@ + 1) % WRAP]
  /\ pc' = "wait"
  /\ UNCHANGED <<dev, isr, resp, cmd, head, pages, attach_sz>>

\* Mutant: the driver goes on at once.
M_does_not_wait ==
  /\ pc = "wait"
  /\ q' = free_chain(q, head)
  /\ pc' = "answered"
  /\ UNCHANGED <<dev, isr, resp, cmd, head, pages, attach_sz>>

\* Mutant: the driver waits for the index to be the number of commands it has sent.
M_counts_commands ==
  /\ pc = "wait"
  /\ q.used.idx = cmd
  /\ q' = [free_chain(q, head) EXCEPT !.last_used_idx = (@ + 1) % WRAP]
  /\ pc' = "answered"
  /\ UNCHANGED <<dev, isr, resp, cmd, head, pages, attach_sz>>

wait_cmd ==
  /\ pc = "wait"
  /\ q.last_used_idx # q.used.idx
  /\ LET id == q.used.ring[q.last_used_idx % GPUQ_SZ]
     IN /\ q' = [free_chain(q, id) EXCEPT !.last_used_idx = (@ + 1) % WRAP]
        \* the inner loop ends with head, or with the last answer there is
        /\ pc' = IF id = head \/ q'.last_used_idx = q.used.idx THEN "answered" ELSE "wait"
  /\ UNCHANGED <<dev, isr, resp, cmd, head, pages, attach_sz>>

-----------------------------------------------------------------------------
(***************************************************************************)
(* virtio_gpu_init() between the commands                                  *)
(***************************************************************************)
attach_size(n) == HeaderSize + 8 + 4 + n * EntrySize

NextCommand == IF cmd < Len(Commands) THEN cmd' = cmd + 1 /\ pc' = "send"
               ELSE cmd' = cmd /\ pc' = "ready"

DisplayInfo ==
  /\ pc = "answered" /\ Commands[cmd] = "GET_DISPLAY_INFO"
  /\ pages' = IF resp = 0 THEN Default ELSE resp
  /\ NextCommand
  /\ UNCHANGED <<q, dev, isr, resp, head, attach_sz>>

\* The next command has one page for a header and an entry for each page of the
\* framebuffer, which are allocated one by one.
Create ==
  /\ pc = "answered" /\ Commands[cmd] = "RESOURCE_CREATE_2D"
  /\ \/ attach_sz' = attach_size(pages) /\ NextCommand
     \/ pc' = "panic" /\ UNCHANGED <<cmd, attach_sz>>
  /\ UNCHANGED <<q, dev, isr, resp, head, pages>>

OtherCommand ==
  /\ pc = "answered" /\ Commands[cmd] \notin {"GET_DISPLAY_INFO", "RESOURCE_CREATE_2D"}
  /\ NextCommand
  /\ UNCHANGED <<q, dev, isr, resp, head, pages, attach_sz>>

virtio_gpu_handle_irq ==
  /\ pc = "ready" /\ isr
  /\ isr' = FALSE
  /\ q' = IF q.last_used_idx = q.used.idx THEN q
          ELSE [free_chain(q, q.used.ring[q.last_used_idx % GPUQ_SZ])
                  EXCEPT !.last_used_idx = (@ + 1) % WRAP]
  /\ UNCHANGED <<dev, resp, driver>>

-----------------------------------------------------------------------------
(***************************************************************************)
(* The device: it takes a chain, answers, and passes it back               *)
(***************************************************************************)
Take ==
  /\ dev.at = "idle" /\ dev.seen # q.avail.idx
  /\ dev' = [dev EXCEPT !.at = "work", !.seen = (@ + 1) % WRAP,
                        !.chain = q.avail.ring[dev.seen % GPUQ_SZ]]
  /\ UNCHANGED <<q, isr, resp, driver>>

\* A display that is off says 0.
Work ==
  /\ dev.at = "work"
  /\ dev' = [dev EXCEPT !.at = "ring", !.done = Append(@, Commands[q.addr[dev.chain]])]
  /\ IF q.next[dev.chain] = None THEN resp' = resp ELSE resp' \in Displays \cup {0}
  /\ UNCHANGED <<q, isr, driver>>

UseRing ==
  /\ dev.at = "ring"
  /\ q' = [q EXCEPT !.used.ring[q.used.idx % GPUQ_SZ] = dev.chain]
  /\ dev' = [dev EXCEPT !.at = "index"]
  /\ UNCHANGED <<isr, resp, driver>>

UseIndex ==
  /\ dev.at = "index"
  /\ q' = [q EXCEPT !.used.idx = (@ + 1) % WRAP]
  /\ isr' = TRUE
  /\ dev' = [dev EXCEPT !.at = "idle", !.chain = None]
  /\ UNCHANGED <<resp, driver>>

-----------------------------------------------------------------------------
Device == Take \/ Work \/ UseRing \/ UseIndex
Driver == virtio_queue_setup \/ send_cmd \/ Offer \/ wait_cmd \/ DisplayInfo \/ Create
          \/ OtherCommand

Next == Device \/ Driver \/ virtio_gpu_handle_irq

Spec == Init /\ [][Next]_vars
\* The hart does not stop, and the device answers.
LiveSpec == Spec /\ WF_vars(Device) /\ WF_vars(Driver)

-----------------------------------------------------------------------------
(***************************************************************************)
(* Properties                                                              *)
(***************************************************************************)
Ring == [idx : 0..(WRAP - 1), ring : [Descriptors -> Descriptors]]

TypeOK ==
  /\ q \in [free_map : SUBSET Descriptors, next : [Descriptors -> Descriptors \cup {None}],
            addr : [Descriptors -> 1..Len(Commands) \cup {None}],
            avail : Ring, used : Ring, last_used_idx : 0..(WRAP - 1)]
  /\ dev.at \in {"idle", "work", "ring", "index"} /\ dev.seen \in 0..(WRAP - 1)
  /\ dev.chain \in Descriptors \cup {None}
  /\ isr \in BOOLEAN
  /\ pc \in {"init", "failed", "panic", "send", "offer", "wait", "answered", "ready"}
  /\ cmd \in 1..Len(Commands) /\ head \in Descriptors \cup {None}
  /\ resp \in Displays \cup {0, Unread} /\ pages \in Displays \cup {0, Default}
  /\ attach_sz \in Nat

\* What the driver does not wait for is free: no descriptor is lost, and a chain on which
\* the device works is the one whose buffers, on the driver's stack, are still there.
DescriptorsAreAccounted ==
  /\ pc \in {"send", "answered", "ready"} => q.free_map = Descriptors
  /\ dev.at # "idle" => pc = "wait" /\ dev.chain = head
                        /\ Chain(q.next, head) \cap q.free_map = {}

\* The device has seen the commands in their order, once each, and the size of the
\* framebuffer is what it said.
CommandsInOrder ==
  /\ \A i \in 1..Len(dev.done) : i <= Len(Commands) /\ dev.done[i] = Commands[i]
  /\ pc = "answered" => Len(dev.done) = cmd
  /\ pc \in {"send", "offer", "wait", "answered", "ready"} /\ cmd > 1 =>
       resp # Unread /\ pages = IF resp = 0 THEN Default ELSE resp

\* If there are pages, the set-up ends.
SetUpEnds == <>(pc \in {"ready", "failed", "panic"})

\* The page for the attach command is enough for 256 pages (virtio_gpu.c:167).
\* It does not hold, and no run checks it: see What disagrees in the README.
AttachFits == pages <= 256 => attach_sz <= PAGE_SIZE

\* The set-up and the device agree about descriptors and commands.
CommandsAreSound == TypeOK /\ DescriptorsAreAccounted /\ CommandsInOrder
=============================================================================
