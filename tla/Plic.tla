-------------------------------- MODULE Plic --------------------------------
(***************************************************************************)
(* The interrupt controller (kernel/src/device/plic.c), how main() sets it *)
(* up, and handle_external_interrupt() in trap_handler.c, with the devices *)
(* as lines that are up while a device wants service.  The harts' part of  *)
(* the controller is that of hart 0 in S mode, the only one in use.        *)
(***************************************************************************)
EXTENDS Integers, Sequences, FiniteSets

CONSTANTS
  KbdIrq, MouseIrq,  \* the sources that are the virtio devices with a driver
  Uart,        \* the source that is the UART
  Others,      \* sources without a driver
  Fifo,        \* bytes the UART keeps
  MaxRaises    \* bound on the requests of each device

ASSUME SourcesAssumption ==
  /\ {KbdIrq, MouseIrq, Uart} \cup Others \subseteq Nat \ {0}
  /\ KbdIrq # MouseIrq /\ Uart \notin {KbdIrq, MouseIrq}
  /\ Others \cap {KbdIrq, MouseIrq, Uart} = {}
ASSUME BoundAssumption == Fifo \in Nat \ {0} /\ MaxRaises \in Nat

VARIABLES
  plic,            \* its registers, and what the driver keeps about it
  pending, claimed,\* what the gateways have let through, and what is in service
  line, fifo, raised,  \* devices that want service, bytes in the UART, requests so far
  ready,           \* sources whose driver the handler can find
  boot,            \* how far main() is
  SIE, loc, irq    \* interrupts of the hart, the handler, and what it has claimed

vars == <<plic, pending, claimed, line, fifo, raised, ready, boot, SIE, loc, irq>>

Virtio == {KbdIrq, MouseIrq}
Irqs == Virtio \cup {Uart} \cup Others
PLIC_DEFAULT_MAX_PRIORITY == 7
PLIC_DEFAULT_IRQ_COUNT    == 1024

-----------------------------------------------------------------------------
(***************************************************************************)
(* plic.c: each function gives the registers after the call                *)
(***************************************************************************)
Usable(i) == plic.is_initialized /\ i < PLIC_DEFAULT_IRQ_COUNT

Clip(n) == IF n > PLIC_DEFAULT_MAX_PRIORITY THEN PLIC_DEFAULT_MAX_PRIORITY ELSE n

plic_init ==
  [is_initialized |-> TRUE, enabled |-> {}, threshold |-> PLIC_DEFAULT_MAX_PRIORITY,
   priority |-> [i \in Irqs |-> 0]]

plic_set_priority(i, n) ==
  IF Usable(i) THEN [plic EXCEPT !.priority[i] = Clip(n)] ELSE plic

plic_set_threshold(n) ==
  IF plic.is_initialized THEN [plic EXCEPT !.threshold = Clip(n)] ELSE plic

plic_enable_interrupt(i) ==
  IF Usable(i) /\ i # 0 THEN [plic EXCEPT !.enabled = @ \cup {i}] ELSE plic

plic_disable_interrupt(i) ==
  IF Usable(i) THEN [plic EXCEPT !.enabled = @ \ {i}] ELSE plic

-----------------------------------------------------------------------------
(***************************************************************************)
(* The controller and the devices                                          *)
(***************************************************************************)
\* The firmware may have left anything in the registers.
Init ==
  /\ plic \in [is_initialized : {FALSE}, enabled : SUBSET Irqs, threshold : {0, 7},
               priority : {[i \in Irqs |-> n] : n \in 0..1}]
  /\ pending = {} /\ claimed = {}
  /\ line = {} /\ fifo = 0 /\ raised = [i \in Irqs |-> 0]
  /\ ready = {Uart}
  /\ boot = 1
  /\ SIE = FALSE /\ loc = "idle" /\ irq = 0

Up(i) == i \in line \/ (i = Uart /\ fifo > 0)

\* A request goes through if none of its source is pending or in service.
Gateway(i) ==
  /\ Up(i) /\ i \notin pending \cup claimed
  /\ pending' = pending \cup {i}
  /\ UNCHANGED <<plic, claimed, line, fifo, raised, ready, boot, SIE, loc, irq>>

Raise(i) ==
  /\ raised[i] < MaxRaises
  /\ raised' = [raised EXCEPT ![i] = @ + 1]
  /\ \/ i = Uart /\ fifo < Fifo /\ fifo' = fifo + 1 /\ line' = line
     \/ i # Uart /\ i \notin line /\ line' = line \cup {i} /\ fifo' = fifo
  /\ UNCHANGED <<plic, pending, claimed, ready, boot, SIE, loc, irq>>

Deliverable ==
  {i \in pending \cap plic.enabled : plic.priority[i] > plic.threshold}
Best == {i \in Deliverable : \A j \in Deliverable :
           \/ plic.priority[i] > plic.priority[j]
           \/ plic.priority[i] = plic.priority[j] /\ i <= j}

-----------------------------------------------------------------------------
(***************************************************************************)
(* main()                                                                  *)
(***************************************************************************)
Call(op, i) == [op |-> op, irq |-> i]

\* Mutant: interrupts are enabled before the last device has its driver.
M_interrupts_early ==
  <<Call("init", 0), Call("priority", Uart), Call("threshold", 0), Call("enable", Uart),
    Call("priority", KbdIrq), Call("enable", KbdIrq), Call("driver", KbdIrq),
    Call("priority", MouseIrq), Call("enable", MouseIrq),
    Call("interrupts", 0), Call("driver", MouseIrq)>>

BootCalls ==
  <<Call("init", 0), Call("priority", Uart), Call("threshold", 0), Call("enable", Uart),
    Call("priority", KbdIrq), Call("enable", KbdIrq), Call("driver", KbdIrq),
    Call("priority", MouseIrq), Call("enable", MouseIrq), Call("driver", MouseIrq),
    Call("interrupts", 0)>>

Boot ==
  /\ boot <= Len(BootCalls)
  /\ loc = "idle"
  /\ LET c == BootCalls[boot]
     IN /\ plic' = CASE c.op = "init"      -> plic_init
                     [] c.op = "priority"  -> plic_set_priority(c.irq, 1)
                     [] c.op = "threshold" -> plic_set_threshold(0)
                     [] c.op = "enable"    -> plic_enable_interrupt(c.irq)
                     [] OTHER              -> plic
        /\ ready' = IF c.op = "driver" THEN ready \cup {c.irq} ELSE ready
        /\ SIE' = (SIE \/ c.op = "interrupts")
  /\ boot' = boot + 1
  /\ UNCHANGED <<pending, claimed, line, fifo, raised, loc, irq>>

-----------------------------------------------------------------------------
(***************************************************************************)
(* handle_external_interrupt()                                             *)
(***************************************************************************)
Go(l) == loc' = l /\ UNCHANGED <<line, fifo, raised, ready, boot>>

Trap ==
  /\ SIE /\ loc = "idle" /\ Deliverable # {}
  /\ SIE' = FALSE
  /\ Go("claim")
  /\ UNCHANGED <<plic, pending, claimed, irq>>

\* plic_claim(): reading the register claims.
Claim ==
  /\ loc = "claim"
  /\ \E i \in IF Best = {} THEN {0} ELSE Best :
       /\ irq' = i
       /\ pending' = pending \ {i} /\ claimed' = claimed \cup ({i} \ {0})
       /\ Go(IF i = 0 THEN "return"
             ELSE IF i = Uart /\ Uart \in ready THEN "uart"
             ELSE IF i \in Virtio \cap ready THEN "virtio" ELSE "complete")
  /\ UNCHANGED <<plic, SIE>>

\* The driver acknowledges the device's interrupt: see VirtioInput.
HandleVirtio ==
  /\ loc = "virtio"
  /\ line' = line \ {irq}
  /\ loc' = "complete"
  /\ UNCHANGED <<plic, pending, claimed, fifo, raised, ready, boot, SIE, irq>>

UartDisable ==
  /\ loc = "uart"
  /\ plic' = plic_disable_interrupt(Uart)
  /\ Go("drain")
  /\ UNCHANGED <<pending, claimed, SIE, irq>>

\* Mutant: a byte is read before the status is.
M_drain_unchecked ==
  /\ loc = "drain"
  /\ fifo' = fifo - 1
  /\ UNCHANGED <<plic, pending, claimed, line, raised, ready, boot, SIE, loc, irq>>

Drain ==
  /\ loc = "drain" /\ fifo > 0
  /\ fifo' = fifo - 1
  /\ UNCHANGED <<plic, pending, claimed, line, raised, ready, boot, SIE, loc, irq>>

\* Mutant: the source stays disabled while the interrupt is completed.
M_complete_before_enable ==
  /\ loc = "drain" /\ fifo = 0
  /\ Go("complete")
  /\ UNCHANGED <<plic, pending, claimed, SIE, irq>>

UartEnable ==
  /\ loc = "drain" /\ fifo = 0
  /\ plic' = plic_enable_interrupt(Uart)
  /\ Go("complete")
  /\ UNCHANGED <<pending, claimed, SIE, irq>>

\* plic_complete(): the controller takes no notice if the source is not enabled.
Complete ==
  /\ loc = "complete"
  /\ IF Usable(irq) /\ irq # 0
     THEN /\ claimed' = IF irq \in plic.enabled THEN claimed \ {irq} ELSE claimed
          /\ Go("return")
     ELSE Go("panic") /\ UNCHANGED claimed
  /\ UNCHANGED <<plic, pending, SIE, irq>>

Return ==
  /\ loc = "return"
  /\ SIE' = TRUE /\ irq' = 0
  /\ Go("idle")
  /\ UNCHANGED <<plic, pending, claimed>>

-----------------------------------------------------------------------------
Hart == Boot \/ Trap \/ Claim \/ HandleVirtio \/ UartDisable \/ Drain \/ UartEnable
          \/ Complete \/ Return
Next == Hart \/ \E i \in Irqs : Gateway(i) \/ Raise(i)

Spec == Init /\ [][Next]_vars
\* The hart does not stop, and the gateways do their work.
LiveSpec == Spec /\ WF_vars(Hart) /\ \A i \in Irqs : WF_vars(Gateway(i))

-----------------------------------------------------------------------------
(***************************************************************************)
(* Properties                                                              *)
(***************************************************************************)
TypeOK ==
  /\ plic \in [is_initialized : BOOLEAN, enabled : SUBSET Irqs, threshold : 0..7,
               priority : [Irqs -> 0..7]]
  /\ pending \subseteq Irqs /\ claimed \subseteq Irqs
  /\ line \subseteq Irqs \ {Uart} /\ fifo \in 0..Fifo
  /\ raised \in [Irqs -> 0..MaxRaises]
  /\ ready \subseteq Irqs
  /\ boot \in 1..(Len(BootCalls) + 1)
  /\ SIE \in BOOLEAN /\ irq \in Irqs \cup {0}
  /\ loc \in {"idle", "claim", "virtio", "uart", "drain", "complete", "return", "panic"}

\* The handler serves one source at a time, and completes what it has claimed before
\* it returns: no source is left in service, which would silence it for ever.
ClaimsAreCompleted ==
  claimed = IF loc \in {"virtio", "uart", "drain", "complete"} THEN {irq} ELSE {}

\* An interrupt is taken only when its device has a driver that serves it, whatever the
\* firmware had enabled: otherwise the line would stay up, and the hart trap for ever.
\* The completion of what was claimed never fails.
HandlersAreReady ==
  /\ loc = "complete" => irq \in ready
  /\ loc # "panic"

\* Once main() is through, every device with a driver gets its service.
RequestsAreServed == \A i \in Virtio \cup {Uart} : Up(i) ~> ~Up(i)

\* A handler and a hart that trust each other: what is claimed is completed, and only
\* what has a driver is ever claimed.
ControllerIsSound == TypeOK /\ ClaimsAreCompleted /\ HandlersAreReady
=============================================================================
