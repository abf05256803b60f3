--------------------------- MODULE ProgressProofs ---------------------------
(***************************************************************************)
(* Proofs about the interrupts that a hart gets: those of devices, through *)
(* the controller (Plic), for any sources, any number of bytes in the UART *)
(* and any requests, whatever the firmware left in the controller's        *)
(* registers; and those of the timer, which end a sleep (Sleep, here       *)
(* Clock), for any widths of the clock's registers, any timer interval and *)
(* any times to sleep.  The modules share no state.                        *)
(***************************************************************************)
EXTENDS Plic, TLAPS

\* Of Sleep.
CONSTANTS Harts, LOW, TICK, Amounts, MaxCalls, MaxTime
VARIABLES now, latch, sleep_end, deadline, hart

Clock == INSTANCE Sleep

-----------------------------------------------------------------------------
(***************************************************************************)
(* The controller's invariant: while main() sets it up no interrupt is     *)
(* taken, and nothing is enabled that will not have a driver.              *)
(***************************************************************************)
Served == Virtio \cup {Uart}

\* What main() has enabled, and what has a driver by now.
BootInv ==
  /\ boot > 1 => /\ plic.is_initialized
                 /\ plic.enabled \subseteq Served
                 /\ \A i \in plic.enabled : i < PLIC_DEFAULT_IRQ_COUNT
  /\ Uart \in ready
  /\ boot > 7 => KbdIrq \in ready
  /\ boot > 10 => MouseIrq \in ready
  /\ SIE \/ loc # "idle" => boot = 12

\* What the handler serves: the UART is disabled while it is drained.
HandlerInv ==
  /\ loc \in {"virtio", "complete"} => irq \in plic.enabled
  /\ loc \in {"uart", "drain"} => irq = Uart /\ Uart < PLIC_DEFAULT_IRQ_COUNT
  /\ loc = "virtio" => irq \in Virtio
  /\ loc # "panic"

IInv == TypeOK /\ ClaimsAreCompleted /\ BootInv /\ HandlerInv

-----------------------------------------------------------------------------
LEMMA Sources ==
  /\ Irqs \subseteq Nat \ {0} /\ Served \subseteq Irqs /\ Virtio \subseteq Irqs
  /\ Uart \in Irqs /\ KbdIrq \in Irqs /\ MouseIrq \in Irqs
  /\ Uart \notin Virtio /\ KbdIrq # MouseIrq
BY SourcesAssumption DEF Irqs, Served, Virtio

LEMMA BootLength == Len(BootCalls) = 11
BY DEF BootCalls

Registers ==
  [is_initialized : BOOLEAN, enabled : SUBSET Irqs, threshold : 0..7, priority : [Irqs -> 0..7]]

\* What the calls of plic.c leave in the registers.
LEMMA InitCall == plic_init \in Registers /\ plic_init.is_initialized /\ plic_init.enabled = {}
BY DEF plic_init, Registers, PLIC_DEFAULT_MAX_PRIORITY

LEMMA PriorityCall ==
  ASSUME plic \in Registers, NEW i \in Irqs, NEW n \in 0..1
  PROVE  LET new == plic_set_priority(i, n)
         IN new \in Registers /\ new.enabled = plic.enabled /\ new.is_initialized = plic.is_initialized
<1>1. Clip(n) \in 0..7
  BY DEF Clip, PLIC_DEFAULT_MAX_PRIORITY
<1> QED
  BY <1>1 DEF plic_set_priority, Registers

LEMMA ThresholdCall ==
  ASSUME plic \in Registers
  PROVE  LET new == plic_set_threshold(0)
         IN new \in Registers /\ new.enabled = plic.enabled /\ new.is_initialized = plic.is_initialized
<1>1. Clip(0) \in 0..7
  BY DEF Clip, PLIC_DEFAULT_MAX_PRIORITY
<1> QED
  BY <1>1 DEF plic_set_threshold, Registers

LEMMA EnableCall ==
  ASSUME plic \in Registers, NEW i \in Irqs
  PROVE  LET new == plic_enable_interrupt(i)
         IN /\ new \in Registers /\ new.is_initialized = plic.is_initialized
            /\ plic.enabled \subseteq new.enabled /\ new.enabled \subseteq plic.enabled \cup {i}
            /\ i \in new.enabled \ plic.enabled => i < PLIC_DEFAULT_IRQ_COUNT
            /\ plic.is_initialized /\ i < PLIC_DEFAULT_IRQ_COUNT => i \in new.enabled
BY Sources DEF plic_enable_interrupt, Registers, Usable

LEMMA DisableCall ==
  ASSUME plic \in Registers, NEW i \in Irqs
  PROVE  LET new == plic_disable_interrupt(i)
         IN /\ new \in Registers /\ new.is_initialized = plic.is_initialized
            /\ new.enabled \subseteq plic.enabled
BY DEF plic_disable_interrupt, Registers

-----------------------------------------------------------------------------
LEMMA InitInv == Init => IInv
<1> SUFFICES ASSUME Init PROVE IInv
  OBVIOUS
<1>1. plic \in Registers /\ boot = 1 /\ SIE = FALSE /\ loc = "idle" /\ irq = 0 /\ claimed = {}
  <2> DEFINE Left == {[i \in Irqs |-> n] : n \in 0..1}
  <2>1. Left \subseteq [Irqs -> 0..7]
    OBVIOUS
  <2>2. plic \in [is_initialized : {FALSE}, enabled : SUBSET Irqs, threshold : {0, 7}, priority : Left]
    BY DEF Init
  <2> HIDE DEF Left
  <2>3. plic \in Registers
    <3>1. PICK on \in SUBSET Irqs, t \in {0, 7}, left \in Left :
            plic = [is_initialized |-> FALSE, enabled |-> on, threshold |-> t, priority |-> left]
      BY <2>2
    <3>2. FALSE \in BOOLEAN /\ t \in 0..7 /\ left \in [Irqs -> 0..7]
      BY <2>1
    <3> QED
      BY <3>1, <3>2 DEF Registers
  <2> QED
    BY <2>3 DEF Init
<1>2. TypeOK
  <2>1. raised \in [Irqs -> 0..MaxRaises] /\ fifo \in 0..Fifo
    BY BoundAssumption DEF Init
  <2>2. boot \in 1..(Len(BootCalls) + 1)
    BY <1>1, BootLength
  <2>3. pending \subseteq Irqs /\ claimed \subseteq Irqs /\ line \subseteq Irqs \ {Uart} /\ ready \subseteq Irqs
    BY Sources DEF Init
  <2> QED
    BY <1>1, <2>1, <2>2, <2>3 DEF TypeOK, Registers
<1>3. ClaimsAreCompleted /\ BootInv /\ HandlerInv
  BY <1>1 DEF Init, ClaimsAreCompleted, BootInv, HandlerInv
<1> QED
  BY <1>2, <1>3 DEF IInv

\* The steps of main() that call the controller.
LEMMA BootStep ==
  ASSUME IInv, Boot
  PROVE  IInv'
<1> DEFINE c == BootCalls[boot]
<1>1. /\ boot \in 1..11 /\ boot' = boot + 1 /\ loc = "idle" /\ SIE = FALSE
      /\ UNCHANGED <<pending, claimed, line, fifo, raised, loc, irq>>
      /\ plic \in Registers /\ ready \subseteq Irqs
  BY BootLength DEF Boot, IInv, TypeOK, BootInv, Registers
<1>2. /\ plic' = CASE c.op = "init"      -> plic_init
                   [] c.op = "priority"  -> plic_set_priority(c.irq, 1)
                   [] c.op = "threshold" -> plic_set_threshold(0)
                   [] c.op = "enable"    -> plic_enable_interrupt(c.irq)
                   [] OTHER              -> plic
      /\ ready' = IF c.op = "driver" THEN ready \cup {c.irq} ELSE ready
      /\ SIE' = (SIE \/ c.op = "interrupts")
  BY DEF Boot
<1>3. /\ c.op \in {"init", "priority", "threshold", "enable", "driver", "interrupts"}
      /\ c.op = "init" <=> boot = 1
      /\ c.op \in {"priority", "enable", "driver"} => c.irq \in Served
      /\ c.op = "driver" => c.irq \in Virtio
      /\ boot = 7 => c.op = "driver" /\ c.irq = KbdIrq
      /\ boot = 10 => c.op = "driver" /\ c.irq = MouseIrq
      /\ c.op = "interrupts" <=> boot = 11
  BY <1>1 DEF BootCalls, Call, Served, Virtio
<1> HIDE DEF c
<1>4. /\ plic' \in Registers
      /\ plic'.is_initialized /\ plic'.enabled \subseteq Served
      /\ \A i \in plic'.enabled : i < PLIC_DEFAULT_IRQ_COUNT
  <2>1. boot # 1 => /\ plic.is_initialized /\ plic.enabled \subseteq Served
                    /\ \A i \in plic.enabled : i < PLIC_DEFAULT_IRQ_COUNT
    BY <1>1 DEF IInv, BootInv
  <2>2. CASE c.op = "init"
    <3>1. plic' = plic_init
      BY <1>2, <2>2
    <3> QED
      BY <3>1, InitCall
  <2>3. CASE c.op = "priority"
    <3>1. plic' = plic_set_priority(c.irq, 1) /\ c.irq \in Irqs /\ boot # 1
      BY <1>2, <1>3, <2>3, Sources
    <3> QED
      BY <1>1, <2>1, <3>1, PriorityCall
  <2>4. CASE c.op = "threshold"
    <3>1. plic' = plic_set_threshold(0) /\ boot # 1
      BY <1>2, <1>3, <2>4
    <3> QED
      BY <1>1, <2>1, <3>1, ThresholdCall
  <2>5. CASE c.op = "enable"
    <3>1. plic' = plic_enable_interrupt(c.irq) /\ c.irq \in Irqs /\ c.irq \in Served /\ boot # 1
      BY <1>2, <1>3, <2>5, Sources
    <3> QED
      BY <1>1, <2>1, <3>1, EnableCall
  <2>6. CASE c.op \in {"driver", "interrupts"}
    <3>1. plic' = plic /\ boot # 1
      BY <1>2, <1>3, <2>6
    <3> QED
      BY <1>1, <2>1, <3>1
  <2> QED
    BY <1>3, <2>2, <2>3, <2>4, <2>5, <2>6
<1>5. ready' \subseteq Irqs /\ ready \subseteq ready'
  BY <1>1, <1>2, <1>3, Sources
<1>6. TypeOK'
  BY <1>1, <1>2, <1>4, <1>5, BootLength DEF IInv, TypeOK, Registers
<1>7. BootInv'
  <2>1. boot' > 7 => KbdIrq \in ready'
    BY <1>1, <1>2, <1>3, <1>5 DEF IInv, BootInv
  <2>2. boot' > 10 => MouseIrq \in ready'
    BY <1>1, <1>2, <1>3, <1>5 DEF IInv, BootInv
  <2>3. SIE' => boot' = 12
    <3>1. SIE' => c.op = "interrupts"
      BY <1>1, <1>2
    <3> QED
      BY <1>1, <1>3, <3>1
  <2> QED
    BY <1>1, <1>4, <1>5, <2>1, <2>2, <2>3 DEF IInv, BootInv
<1>8. ClaimsAreCompleted' /\ HandlerInv'
  BY <1>1 DEF IInv, ClaimsAreCompleted, HandlerInv
<1> QED
  BY <1>6, <1>7, <1>8 DEF IInv

\* The controller and the devices go their way.
LEMMA DeviceStep ==
  ASSUME IInv, NEW i \in Irqs, Gateway(i) \/ Raise(i)
  PROVE  IInv'
<1>1. UNCHANGED <<plic, claimed, ready, boot, SIE, loc, irq>>
  BY DEF Gateway, Raise
<1>2. TypeOK'
  <2>1. CASE Gateway(i)
    BY <2>1, <1>1 DEF Gateway, IInv, TypeOK
  <2>2. CASE Raise(i)
    <3>1. raised' \in [Irqs -> 0..MaxRaises]
      BY <2>2, BoundAssumption DEF Raise, IInv, TypeOK
    <3>2. line' \subseteq Irqs \ {Uart} /\ fifo' \in 0..Fifo
      BY <2>2, BoundAssumption DEF Raise, IInv, TypeOK
    <3> QED
      BY <1>1, <2>2, <3>1, <3>2 DEF Raise, IInv, TypeOK
  <2> QED
    BY <2>1, <2>2
<1>3. ClaimsAreCompleted' /\ BootInv' /\ HandlerInv'
  BY <1>1 DEF IInv, ClaimsAreCompleted, BootInv, HandlerInv
<1> QED
  BY <1>2, <1>3 DEF IInv

-----------------------------------------------------------------------------
(***************************************************************************)
(* The handler.                                                            *)
(***************************************************************************)
LEMMA TrapStep ==
  ASSUME IInv, Trap
  PROVE  IInv'
<1>1. /\ SIE /\ loc = "idle" /\ SIE' = FALSE /\ loc' = "claim"
      /\ UNCHANGED <<plic, pending, claimed, line, fifo, raised, ready, boot, irq>>
  BY DEF Trap, Go
<1>2. TypeOK'
  BY <1>1 DEF IInv, TypeOK
<1>3. ClaimsAreCompleted' /\ BootInv' /\ HandlerInv'
  BY <1>1 DEF IInv, ClaimsAreCompleted, BootInv, HandlerInv
<1> QED
  BY <1>2, <1>3 DEF IInv

\* Only what is enabled is claimed.
LEMMA ClaimStep ==
  ASSUME IInv, Claim
  PROVE  IInv'
<1>1. PICK i \in IF Best = {} THEN {0} ELSE Best :
        /\ irq' = i
        /\ pending' = pending \ {i} /\ claimed' = claimed \cup ({i} \ {0})
        /\ loc' = (IF i = 0 THEN "return"
                   ELSE IF i = Uart /\ Uart \in ready THEN "uart"
                   ELSE IF i \in Virtio \cap ready THEN "virtio" ELSE "complete")
        /\ UNCHANGED <<line, fifo, raised, ready, boot>>
  BY DEF Claim, Go
<1>2. loc = "claim" /\ UNCHANGED <<plic, SIE>>
  BY DEF Claim
<1>3. /\ boot = 12 /\ claimed = {} /\ TypeOK
      /\ plic.enabled \subseteq Served /\ \A k \in plic.enabled : k < PLIC_DEFAULT_IRQ_COUNT
      /\ Served \subseteq ready
  BY <1>2 DEF IInv, ClaimsAreCompleted, BootInv, Served, Virtio
<1>4. i = 0 \/ (i \in plic.enabled /\ i \in Irqs /\ i # 0)
  <2>1. Best \subseteq plic.enabled
    BY DEF Best, Deliverable
  <2> QED
    BY <1>3, <2>1, Sources DEF TypeOK
<1>5. loc' \in {"return", "uart", "virtio", "complete"}
  BY <1>1
<1>6. TypeOK'
  <2>1. pending' \subseteq Irqs /\ claimed' \subseteq Irqs /\ irq' \in Irqs \cup {0}
    BY <1>1, <1>3, <1>4 DEF TypeOK
  <2> QED
    BY <1>1, <1>2, <1>3, <1>5, <2>1 DEF TypeOK
<1>7. ClaimsAreCompleted'
  BY <1>1, <1>3, <1>4 DEF ClaimsAreCompleted
<1>8. BootInv'
  BY <1>1, <1>2, <1>3, <1>5 DEF IInv, BootInv
<1>9. HandlerInv'
  BY <1>1, <1>2, <1>3, <1>4 DEF HandlerInv, Served
<1> QED
  BY <1>6, <1>7, <1>8, <1>9 DEF IInv

LEMMA VirtioStep ==
  ASSUME IInv, HandleVirtio
  PROVE  IInv'
<1>1. /\ loc = "virtio" /\ loc' = "complete" /\ line' = line \ {irq}
      /\ UNCHANGED <<plic, pending, claimed, fifo, raised, ready, boot, SIE, irq>>
  BY DEF HandleVirtio
<1>2. TypeOK'
  BY <1>1 DEF IInv, TypeOK
<1>3. ClaimsAreCompleted' /\ BootInv' /\ HandlerInv'
  BY <1>1 DEF IInv, ClaimsAreCompleted, BootInv, HandlerInv
<1> QED
  BY <1>2, <1>3 DEF IInv

LEMMA UartStep ==
  ASSUME IInv, UartDisable \/ UartEnable
  PROVE  IInv'
<1>1. /\ boot = 12 /\ irq = Uart /\ Uart < PLIC_DEFAULT_IRQ_COUNT /\ TypeOK
      /\ plic \in Registers /\ plic.is_initialized /\ plic.enabled \subseteq Served
      /\ \A i \in plic.enabled : i < PLIC_DEFAULT_IRQ_COUNT
  BY DEF UartDisable, UartEnable, IInv, BootInv, HandlerInv, TypeOK, Registers
<1>2. UNCHANGED <<pending, claimed, line, fifo, raised, ready, boot, SIE, irq>>
  BY DEF UartDisable, UartEnable, Go
<1>3. CASE UartDisable
  <2>1. plic' = plic_disable_interrupt(Uart) /\ loc = "uart" /\ loc' = "drain"
    BY <1>3 DEF UartDisable, Go
  <2>2. /\ plic' \in Registers /\ plic'.is_initialized /\ plic'.enabled \subseteq plic.enabled
    BY <1>1, <2>1, DisableCall, Sources
  <2>3. TypeOK'
    BY <1>1, <1>2, <2>1, <2>2 DEF TypeOK, Registers
  <2>4. BootInv'
    BY <1>1, <1>2, <2>1, <2>2 DEF IInv, BootInv
  <2>5. ClaimsAreCompleted' /\ HandlerInv'
    BY <1>1, <1>2, <2>1 DEF IInv, ClaimsAreCompleted, HandlerInv
  <2> QED
    BY <2>3, <2>4, <2>5 DEF IInv
<1>4. CASE UartEnable
  <2>1. plic' = plic_enable_interrupt(Uart) /\ loc = "drain" /\ loc' = "complete"
    BY <1>4 DEF UartEnable, Go
  <2>2. /\ plic' \in Registers /\ plic'.is_initialized /\ Uart \in plic'.enabled
        /\ plic'.enabled \subseteq plic.enabled \cup {Uart}
    BY <1>1, <2>1, EnableCall, Sources
  <2>3. TypeOK'
    BY <1>1, <1>2, <2>1, <2>2 DEF TypeOK, Registers
  <2>4. BootInv'
    <3>1. plic'.enabled \subseteq Served /\ \A i \in plic'.enabled : i < PLIC_DEFAULT_IRQ_COUNT
      BY <1>1, <2>2 DEF Served
    <3> QED
      BY <1>1, <1>2, <2>1, <2>2, <3>1 DEF IInv, BootInv
  <2>5. ClaimsAreCompleted' /\ HandlerInv'
    BY <1>1, <1>2, <2>1, <2>2 DEF IInv, ClaimsAreCompleted, HandlerInv
  <2> QED
    BY <2>3, <2>4, <2>5 DEF IInv
<1> QED
  BY <1>3, <1>4

LEMMA DrainStep ==
  ASSUME IInv, Drain
  PROVE  IInv'
<1>1. /\ fifo > 0 /\ fifo' = fifo - 1
      /\ UNCHANGED <<plic, pending, claimed, line, raised, ready, boot, SIE, loc, irq>>
  BY DEF Drain
<1>2. TypeOK'
  BY <1>1, BoundAssumption DEF IInv, TypeOK
<1>3. ClaimsAreCompleted' /\ BootInv' /\ HandlerInv'
  BY <1>1 DEF IInv, ClaimsAreCompleted, BootInv, HandlerInv
<1> QED
  BY <1>2, <1>3 DEF IInv

\* What is completed is enabled, and so no longer in service.
LEMMA CompleteStep ==
  ASSUME IInv, Complete
  PROVE  IInv'
<1>1. /\ loc = "complete" /\ irq \in plic.enabled /\ irq < PLIC_DEFAULT_IRQ_COUNT
      /\ plic.is_initialized /\ TypeOK
  BY DEF Complete, IInv, BootInv, HandlerInv
<1>2. irq # 0 /\ Usable(irq)
  BY <1>1, Sources DEF TypeOK, Usable
<1>3. /\ claimed' = claimed \ {irq} /\ loc' = "return"
      /\ UNCHANGED <<plic, pending, line, fifo, raised, ready, boot, SIE, irq>>
  BY <1>1, <1>2 DEF Complete, Go
<1>4. TypeOK'
  BY <1>1, <1>3 DEF TypeOK
<1>5. claimed = {irq}
  BY <1>1 DEF IInv, ClaimsAreCompleted
<1>6. ClaimsAreCompleted' /\ BootInv' /\ HandlerInv'
  BY <1>1, <1>3, <1>5 DEF IInv, ClaimsAreCompleted, BootInv, HandlerInv
<1> QED
  BY <1>4, <1>6 DEF IInv

LEMMA ReturnStep ==
  ASSUME IInv, Return
  PROVE  IInv'
<1>1. /\ loc = "return" /\ loc' = "idle" /\ SIE' = TRUE /\ irq' = 0
      /\ UNCHANGED <<plic, pending, claimed, line, fifo, raised, ready, boot>>
  BY DEF Return, Go
<1>2. TypeOK'
  BY <1>1 DEF IInv, TypeOK
<1>3. ClaimsAreCompleted' /\ BootInv' /\ HandlerInv'
  BY <1>1 DEF IInv, ClaimsAreCompleted, BootInv, HandlerInv
<1> QED
  BY <1>2, <1>3 DEF IInv

-----------------------------------------------------------------------------
LEMMA StepInv == IInv /\ [Next]_vars => IInv'
<1> SUFFICES ASSUME IInv, [Next]_vars PROVE IInv'
  OBVIOUS
<1>1. CASE UNCHANGED vars
  BY <1>1 DEF vars, IInv, TypeOK, ClaimsAreCompleted, BootInv, HandlerInv
<1>2. CASE Hart
  BY <1>2, BootStep, TrapStep, ClaimStep, VirtioStep, UartStep, DrainStep, CompleteStep,
     ReturnStep DEF Hart
<1>3. CASE \E i \in Irqs : Gateway(i) \/ Raise(i)
  BY <1>3, DeviceStep
<1> QED
  BY <1>1, <1>2, <1>3 DEF Next

LEMMA InvImplies == IInv => ControllerIsSound
<1> SUFFICES ASSUME IInv PROVE loc = "complete" => irq \in ready
  BY DEF IInv, ControllerIsSound, HandlersAreReady, HandlerInv
<1>1. ASSUME loc = "complete" PROVE irq \in ready
  <2>1. boot = 12 /\ irq \in plic.enabled /\ plic.enabled \subseteq Served
    BY <1>1 DEF IInv, BootInv, HandlerInv
  <2> QED
    BY <2>1 DEF IInv, BootInv, Served, Virtio
<1> QED
  BY <1>1

-----------------------------------------------------------------------------
\* The handler completes what it claims and nothing else is in service, and whatever the
\* firmware had enabled, no interrupt is taken that has no driver to serve it.
THEOREM ControllerCorrect == Spec => []ControllerIsSound
<1>1. Spec => []IInv
  BY InitInv, StepInv, PTL DEF Spec
<1>2. IInv => ControllerIsSound
  BY InvImplies
<1> QED
  BY <1>1, <1>2, PTL

-----------------------------------------------------------------------------
(***************************************************************************)
(* The clock, with one hart.  With two the theorem is false: they share    *)
(* sleep_end and the clock's latch.                                        *)
(***************************************************************************)
OneHart == \E h : Harts = {h}

(***************************************************************************)
(* The invariant: what the hart has read of the clock lies between the     *)
(* beginning of the call and now.                                          *)
(***************************************************************************)
HartState == [pc : {"run", "low", "high", "decide", "wfi"}, low : 0..(LOW - 1), time : Nat,
         starting : BOOLEAN, amount : Amounts \cup {0}, since : Nat, calls : 0..MaxCalls]

TypeInv ==
  /\ now \in Nat /\ latch \in Nat /\ latch <= now \div LOW /\ sleep_end \in Nat
  /\ deadline \in [Harts -> Nat]
  /\ hart \in [Harts -> HartState]

ClockInv ==
  \A h \in Harts :
    /\ hart[h].since <= now /\ hart[h].time <= now
    /\ hart[h].pc = "high" => /\ hart[h].since <= latch * LOW + hart[h].low
                              /\ latch * LOW + hart[h].low <= now
    /\ hart[h].pc = "decide" => hart[h].since <= hart[h].time

\* The end that is waited for is late enough once it is set.
EndInv ==
  \A h \in Harts :
    hart[h].pc # "run" /\ ~hart[h].starting => hart[h].since + hart[h].amount <= sleep_end

SleepInv == TypeInv /\ ClockInv /\ EndInv

\* What every instance assumes.
Assumptions == Clock!ClockAssumption /\ Clock!BoundAssumption /\ OneHart

-----------------------------------------------------------------------------
(***************************************************************************)
(* The clock's two registers.                                              *)
(***************************************************************************)
LEMMA Halves ==
  ASSUME NEW n \in Nat, NEW d \in Nat \ {0}
  PROVE  \E q \in Nat, r \in 0..(d - 1) : q = n \div d /\ r = n % d /\ q * d + r = n
<1>1. PICK q \in Nat, r \in 0..(d - 1) : q = n \div d /\ r = n % d
  OBVIOUS
<1>2. q * d + r = n
  BY <1>1
<1> QED
  BY <1>1, <1>2

\* The high register does not go back.
LEMMA HalfGrows ==
  ASSUME NEW n \in Nat, NEW d \in Nat \ {0}
  PROVE  n \div d <= (n + 1) \div d
<1>1. PICK q \in Nat, x \in 0..(d - 1) : q = n \div d /\ q * d + x = n
  BY Halves
<1>2. PICK r \in Nat, y \in 0..(d - 1) : r = (n + 1) \div d /\ r * d + y = n + 1
  BY Halves
<1>3. ASSUME r < q PROVE FALSE
  <2>1. r + 1 <= q
    BY <1>1, <1>3
  <2>2. (r + 1) * d <= q * d
    BY <1>1, <2>1
  <2>3. (r + 1) * d = r * d + d
    BY <1>1
  <2>4. q * d \in Nat /\ r * d \in Nat
    BY <1>1
  <2> QED
    BY <1>1, <1>2, <2>2, <2>3, <2>4
<1> QED
  BY <1>1, <1>2, <1>3

-----------------------------------------------------------------------------
LEMMA SleepInitInv == Assumptions /\ Clock!Init => SleepInv
<1> SUFFICES ASSUME Assumptions, Clock!Init PROVE SleepInv
  OBVIOUS
<1>1. LOW \in Nat \ {0} /\ TICK \in Nat \ {0} /\ MaxCalls \in Nat
  BY DEF Assumptions, Clock!ClockAssumption, Clock!BoundAssumption
<1>2. now = 0 /\ latch = 0 /\ sleep_end = 0 /\ 0 <= 0 \div LOW
  BY <1>1, Halves DEF Clock!Init
<1>3. TypeInv
  <2>1. [pc |-> "run", low |-> 0, time |-> 0, starting |-> FALSE, amount |-> 0, since |-> 0,
         calls |-> 0] \in HartState
    BY <1>1 DEF HartState
  <2> QED
    BY <1>1, <1>2, <2>1 DEF Clock!Init, TypeInv
<1>4. ClockInv /\ EndInv
  BY <1>2 DEF Clock!Init, ClockInv, EndInv
<1> QED
  BY <1>3, <1>4 DEF SleepInv

\* What the invariant says of the hart.
LEMMA HartFacts ==
  ASSUME Assumptions, SleepInv, NEW h \in Harts
  PROVE  /\ Harts = {h} /\ LOW \in Nat \ {0} /\ TICK \in Nat \ {0} /\ Amounts \subseteq Nat
         /\ MaxCalls \in Nat
         /\ now \in Nat /\ latch \in Nat /\ latch <= now \div LOW /\ sleep_end \in Nat
         /\ latch * LOW \in Nat
         /\ deadline \in [Harts -> Nat] /\ hart \in [Harts -> HartState] /\ hart[h] \in HartState
         /\ hart[h].amount \in Nat
<1>1. /\ LOW \in Nat \ {0} /\ TICK \in Nat \ {0} /\ Amounts \subseteq Nat /\ MaxCalls \in Nat
      /\ Harts = {h}
  BY DEF Assumptions, Clock!ClockAssumption, Clock!BoundAssumption, OneHart
<1>2. /\ now \in Nat /\ latch \in Nat /\ latch <= now \div LOW /\ sleep_end \in Nat
      /\ deadline \in [Harts -> Nat] /\ hart \in [Harts -> HartState] /\ hart[h] \in HartState
  BY DEF SleepInv, TypeInv
<1>3. hart[h].amount \in Nat
  <2>1. hart[h].amount \in Amounts \cup {0}
    BY <1>2 DEF HartState
  <2>2. CASE hart[h].amount \in Amounts
    <3>1. Amounts \subseteq Nat
      BY <1>1
    <3> QED
      BY <2>2, <3>1, Zenon
  <2> QED
    BY <2>1, <2>2
<1>4. latch * LOW \in Nat
  BY <1>1, <1>2
<1> QED
  BY <1>1, <1>2, <1>3, <1>4, Zenon

\* It is enough to speak of the hart that takes the step, as there is no other.
LEMMA OneIsAll ==
  ASSUME Assumptions, SleepInv, NEW h \in Harts, NEW new \in HartState, Clock!Set(h, new),
         now' \in Nat, latch' \in Nat, latch' <= now' \div LOW, sleep_end' \in Nat,
         deadline' \in [Harts -> Nat],
         new.since <= now' /\ new.time <= now',
         new.pc = "high" => /\ new.since <= latch' * LOW + new.low
                            /\ latch' * LOW + new.low <= now',
         new.pc = "decide" => new.since <= new.time,
         new.pc # "run" /\ ~new.starting => new.since + new.amount <= sleep_end'
  PROVE  SleepInv'
<1>1. /\ hart' \in [Harts -> HartState]
      /\ \A g \in Harts : hart'[g] = new
  BY HartFacts DEF Clock!Set
<1>2. TypeInv'
  BY <1>1 DEF TypeInv
<1>3. ClockInv'
  BY <1>1 DEF ClockInv
<1>4. EndInv'
  BY <1>1 DEF EndInv
<1> QED
  BY <1>2, <1>3, <1>4 DEF SleepInv

-----------------------------------------------------------------------------
(***************************************************************************)
(* The steps of a call.                                                    *)
(***************************************************************************)
LEMMA SleepStep ==
  ASSUME Assumptions, SleepInv, NEW h \in Harts, Clock!sleep(h)
  PROVE  SleepInv'
<1>1. PICK a \in Amounts :
        Clock!Set(h, [hart[h] EXCEPT !.pc = "low", !.starting = TRUE, !.amount = a,
                               !.since = now, !.calls = @ + 1])
  BY DEF Clock!sleep
<1>2. hart[h].calls < MaxCalls /\ UNCHANGED <<now, latch, sleep_end, deadline>>
  BY DEF Clock!sleep
<1> DEFINE new == [hart[h] EXCEPT !.pc = "low", !.starting = TRUE, !.amount = a,
                                  !.since = now, !.calls = @ + 1]
<1>3. /\ new \in HartState /\ new.pc = "low" /\ new.starting = TRUE /\ new.since = now
      /\ new.time = hart[h].time
  <2>1. hart[h].calls + 1 \in 0..MaxCalls /\ hart[h] \in HartState /\ now \in Nat
    BY <1>2, HartFacts DEF HartState
  <2> QED
    BY <2>1 DEF HartState
<1>4. hart[h].time <= now
  BY DEF SleepInv, ClockInv
<1> HIDE DEF new
<1>5. UNCHANGED <<now, latch, sleep_end, deadline>> /\ new.time <= now /\ new.since <= now
  BY <1>2, <1>3, <1>4, HartFacts
<1> QED
  BY <1>1, <1>3, <1>5, HartFacts, OneIsAll DEF new

LEMMA ReadLowStep ==
  ASSUME Assumptions, SleepInv, NEW h \in Harts, Clock!ReadLow(h)
  PROVE  SleepInv'
<1> DEFINE new == [hart[h] EXCEPT !.pc = "high", !.low = now % LOW]
<1>1. /\ Clock!Set(h, new) /\ latch' = now \div LOW /\ UNCHANGED <<now, sleep_end, deadline>>
      /\ hart[h].pc = "low"
  BY DEF Clock!ReadLow
<1>2. PICK q \in Nat, r \in 0..(LOW - 1) : q = now \div LOW /\ r = now % LOW /\ q * LOW + r = now
  BY HartFacts, Halves
<1>3. /\ new \in HartState /\ new.pc = "high" /\ new.low = now % LOW /\ new.since = hart[h].since
      /\ new.time = hart[h].time /\ new.amount = hart[h].amount
      /\ new.starting = hart[h].starting
  BY <1>2, HartFacts DEF HartState
<1>4. /\ hart[h].time <= now /\ hart[h].since <= now
      /\ ~hart[h].starting => hart[h].since + hart[h].amount <= sleep_end
  BY <1>1 DEF SleepInv, ClockInv, EndInv
<1>5. new.since <= latch' * LOW + new.low /\ latch' * LOW + new.low <= now'
  <2>1. latch' * LOW + new.low = now
    <3>1. latch' = q /\ new.low = r
      BY <1>1, <1>2, <1>3
    <3> QED
      BY <1>2, <3>1
  <2> QED
    BY <1>1, <1>3, <1>4, <2>1, HartFacts
<1>6. ~new.starting => new.since + new.amount <= sleep_end'
  BY <1>1, <1>3, <1>4
<1>7. latch' \in Nat /\ latch' <= now' \div LOW
  BY <1>1, <1>2
<1>8. /\ UNCHANGED <<now, sleep_end, deadline>> /\ now' \in Nat /\ sleep_end' \in Nat
      /\ deadline' \in [Harts -> Nat] /\ new.since <= now' /\ new.time <= now'
  BY <1>1, <1>3, <1>4, HartFacts
<1>9. Clock!Set(h, new) /\ new \in HartState /\ new.pc = "high"
  BY <1>1, <1>3
<1> HIDE DEF new
<1> QED
  BY <1>5, <1>6, <1>7, <1>8, <1>9, OneIsAll

LEMMA ReadHighStep ==
  ASSUME Assumptions, SleepInv, NEW h \in Harts, Clock!ReadHigh(h)
  PROVE  SleepInv'
<1> DEFINE new == [hart[h] EXCEPT !.pc = "decide", !.time = latch * LOW + hart[h].low]
<1>1. /\ Clock!Set(h, new) /\ UNCHANGED <<now, latch, sleep_end, deadline>>
      /\ hart[h].pc = "high"
  BY DEF Clock!ReadHigh
<1>2. /\ new \in HartState /\ new.pc = "decide" /\ new.since = hart[h].since
      /\ new.time = latch * LOW + hart[h].low /\ new.amount = hart[h].amount
      /\ new.starting = hart[h].starting
  <2>1. latch * LOW + hart[h].low \in Nat
    BY HartFacts DEF HartState
  <2> QED
    BY <2>1, HartFacts DEF HartState
<1>3. /\ new.since <= new.time /\ new.time <= now /\ new.since <= now
      /\ ~hart[h].starting => hart[h].since + hart[h].amount <= sleep_end
  BY <1>1, <1>2 DEF SleepInv, ClockInv, EndInv
<1>4. ~new.starting => new.since + new.amount <= sleep_end'
  BY <1>1, <1>2, <1>3
<1> HIDE DEF new
<1> QED
  BY <1>1, <1>2, <1>3, <1>4, HartFacts, OneIsAll

LEMMA SetEndStep ==
  ASSUME Assumptions, SleepInv, NEW h \in Harts, Clock!SetEnd(h)
  PROVE  SleepInv'
<1> DEFINE new == [hart[h] EXCEPT !.pc = "low", !.starting = FALSE]
<1>1. /\ Clock!Set(h, new) /\ UNCHANGED <<now, latch, deadline>>
      /\ hart[h].pc = "decide" /\ sleep_end' = hart[h].time + hart[h].amount
  BY DEF Clock!SetEnd
<1>2. /\ new \in HartState /\ new.pc = "low" /\ new.since = hart[h].since
      /\ new.time = hart[h].time /\ new.amount = hart[h].amount
  BY HartFacts DEF HartState
<1>3. new.since <= new.time /\ new.time <= now /\ new.since <= now
  BY <1>1, <1>2 DEF SleepInv, ClockInv
<1>4. sleep_end' \in Nat /\ new.since + new.amount <= sleep_end'
  BY <1>1, <1>2, <1>3, HartFacts DEF HartState
<1> HIDE DEF new
<1> QED
  BY <1>1, <1>2, <1>3, <1>4, HartFacts, OneIsAll

\* A hart that goes on with what it has read, or is woken.
LEMMA GoesOn ==
  ASSUME Assumptions, SleepInv, NEW h \in Harts, NEW pc \in {"run", "low", "wfi", hart[h].pc},
         Clock!Set(h, [hart[h] EXCEPT !.pc = pc]), pc # "run" => hart[h].pc # "run",
         deadline' \in [Harts -> Nat], UNCHANGED <<now, latch, sleep_end>>
  PROVE  SleepInv'
<1> DEFINE new == [hart[h] EXCEPT !.pc = pc]
<1>1. /\ new \in HartState /\ new.pc = pc /\ new.since = hart[h].since /\ new.low = hart[h].low
      /\ new.time = hart[h].time /\ new.amount = hart[h].amount
      /\ new.starting = hart[h].starting
  BY HartFacts DEF HartState
<1>2. /\ new.since <= now' /\ new.time <= now'
      /\ new.pc = "high" => /\ new.since <= latch' * LOW + new.low
                            /\ latch' * LOW + new.low <= now'
      /\ new.pc = "decide" => new.since <= new.time
  BY <1>1 DEF SleepInv, ClockInv
<1>3. new.pc # "run" /\ ~new.starting => new.since + new.amount <= sleep_end'
  BY <1>1 DEF SleepInv, EndInv
<1> HIDE DEF new
<1> QED
  BY <1>1, <1>2, <1>3, HartFacts, OneIsAll DEF new

LEMMA LookStep ==
  ASSUME Assumptions, SleepInv, NEW h \in Harts, Clock!Look(h)
  PROVE  SleepInv'
<1>1. PICK pc \in {"wfi", "run"} : Clock!Set(h, [hart[h] EXCEPT !.pc = pc])
  BY DEF Clock!Look
<1>2. hart[h].pc = "decide" /\ UNCHANGED <<now, latch, sleep_end, deadline>>
  BY DEF Clock!Look
<1> QED
  BY <1>1, <1>2, HartFacts, GoesOn

LEMMA InterruptStep ==
  ASSUME Assumptions, SleepInv, NEW h \in Harts, Clock!TimerInterrupt(h) \/ Clock!OtherInterrupt(h)
  PROVE  SleepInv'
<1> DEFINE pc == IF hart[h].pc = "wfi" THEN "low" ELSE hart[h].pc
<1>1. Clock!Set(h, [hart[h] EXCEPT !.pc = pc]) /\ UNCHANGED <<now, latch, sleep_end>>
  BY DEF Clock!TimerInterrupt, Clock!OtherInterrupt, Clock!Woken
<1>2. deadline' \in [Harts -> Nat]
  BY HartFacts DEF Clock!TimerInterrupt, Clock!OtherInterrupt
<1>3. pc \in {"run", "low", "wfi", hart[h].pc} /\ (pc # "run" => hart[h].pc # "run")
  OBVIOUS
<1> HIDE DEF pc
<1> QED
  BY <1>1, <1>2, <1>3, GoesOn

LEMMA TickStep ==
  ASSUME Assumptions, SleepInv, Clock!Tick
  PROVE  SleepInv'
<1>1. now' = now + 1 /\ UNCHANGED <<latch, sleep_end, deadline, hart>>
  BY DEF Clock!Tick
<1>2. LOW \in Nat \ {0} /\ now \in Nat /\ latch \in Nat /\ latch <= now \div LOW
  BY DEF Assumptions, Clock!ClockAssumption, SleepInv, TypeInv
<1>3. latch <= now' \div LOW
  BY <1>1, <1>2, HalfGrows, Halves
<1>4. TypeInv'
  BY <1>1, <1>2, <1>3 DEF SleepInv, TypeInv
<1>5. ClockInv'
  <2> SUFFICES ASSUME NEW h \in Harts
               PROVE  /\ hart[h].since <= now + 1 /\ hart[h].time <= now + 1
                      /\ hart[h].pc = "high" => /\ hart[h].since <= latch * LOW + hart[h].low
                                                /\ latch * LOW + hart[h].low <= now + 1
                      /\ hart[h].pc = "decide" => hart[h].since <= hart[h].time
    BY <1>1 DEF ClockInv
  <2>1. /\ hart[h].since \in Nat /\ hart[h].time \in Nat /\ hart[h].low \in Nat
        /\ latch * LOW \in Nat
    BY HartFacts DEF HartState
  <2>2. latch * LOW + hart[h].low \in Nat
    BY <2>1
  <2> QED
    BY <1>2, <2>1, <2>2 DEF SleepInv, ClockInv
<1>6. EndInv'
  BY <1>1 DEF SleepInv, EndInv
<1> QED
  BY <1>4, <1>5, <1>6 DEF SleepInv

-----------------------------------------------------------------------------
LEMMA SleepStepInv == Assumptions /\ SleepInv /\ [Clock!Next]_(Clock!vars) => SleepInv'
<1> SUFFICES ASSUME Assumptions, SleepInv, [Clock!Next]_(Clock!vars) PROVE SleepInv'
  OBVIOUS
<1>1. CASE Clock!Tick
  BY <1>1, TickStep
<1>2. ASSUME NEW h \in Harts,
             Clock!sleep(h) \/ Clock!Sleeper(h) \/ Clock!TimerInterrupt(h) \/ Clock!OtherInterrupt(h)
      PROVE  SleepInv'
  BY <1>2, SleepStep, ReadLowStep, ReadHighStep, SetEndStep, LookStep, InterruptStep DEF Clock!Sleeper
<1>3. CASE UNCHANGED Clock!vars
  BY <1>3 DEF Clock!vars, SleepInv, TypeInv, ClockInv, EndInv
<1> QED
  BY <1>1, <1>2, <1>3 DEF Clock!Next

LEMMA SleepInvImplies == Assumptions /\ SleepInv => Clock!TypeOK
<1> SUFFICES ASSUME Assumptions, SleepInv PROVE Clock!TypeOK
  OBVIOUS
<1>1. LOW \in Nat \ {0} /\ now \in Nat /\ now \div LOW \in Nat
  BY Halves DEF Assumptions, Clock!ClockAssumption, SleepInv, TypeInv
<1>2. latch \in 0..(now \div LOW) /\ sleep_end \in Nat /\ deadline \in [Harts -> Nat]
  BY <1>1 DEF SleepInv, TypeInv
<1>3. ASSUME NEW h \in Harts
      PROVE  /\ hart[h].pc \in {"run", "low", "high", "decide", "wfi"}
             /\ hart[h].low \in 0..(LOW - 1) /\ hart[h].time \in 0..now
             /\ hart[h].starting \in BOOLEAN /\ hart[h].amount \in Amounts \cup {0}
             /\ hart[h].since \in 0..now /\ hart[h].calls \in 0..MaxCalls
  BY <1>1 DEF SleepInv, TypeInv, ClockInv, HartState
<1> QED
  BY <1>1, <1>2, <1>3 DEF Clock!TypeOK

\* A hart that returns has looked at the clock, which had reached the end.
LEMMA ReturnsLate ==
  ASSUME Assumptions, SleepInv, Clock!Next, NEW h \in Harts, hart[h].pc # "run", hart'[h].pc = "run"
  PROVE  now >= hart[h].since + hart[h].amount
<1>1. Clock!Look(h) /\ ~(hart[h].time < sleep_end)
  <2>1. ~Clock!Tick
    BY DEF Clock!Tick
  <2>2. PICK g \in Harts : \/ Clock!sleep(g) \/ Clock!Sleeper(g)
                         \/ Clock!TimerInterrupt(g) \/ Clock!OtherInterrupt(g)
    BY <2>1 DEF Clock!Next
  <2>3. g = h /\ hart \in [Harts -> HartState] /\ hart[h] \in HartState
    BY HartFacts
  <2>4. ~Clock!sleep(h)
    BY DEF Clock!sleep
  <2>5. ~Clock!ReadLow(h) /\ ~Clock!ReadHigh(h) /\ ~Clock!SetEnd(h)
    BY <2>3 DEF Clock!ReadLow, Clock!ReadHigh, Clock!SetEnd, Clock!Set, HartState
  <2>6. ~Clock!TimerInterrupt(h) /\ ~Clock!OtherInterrupt(h)
    BY <2>3 DEF Clock!TimerInterrupt, Clock!OtherInterrupt, Clock!Set, Clock!Woken, HartState
  <2>7. Clock!Look(h)
    BY <2>2, <2>3, <2>4, <2>5, <2>6 DEF Clock!Sleeper
  <2>8. ~(hart[h].time < sleep_end)
    BY <2>3, <2>7 DEF Clock!Look, Clock!Set, HartState
  <2> QED
    BY <2>7, <2>8
<1>2. hart[h].pc = "decide" /\ ~hart[h].starting
  BY <1>1 DEF Clock!Look
<1>3. hart[h].since + hart[h].amount <= sleep_end /\ hart[h].time <= now
  BY <1>2 DEF SleepInv, EndInv, ClockInv
<1>4. /\ hart[h].time \in Nat /\ sleep_end \in Nat /\ now \in Nat
      /\ hart[h].since + hart[h].amount \in Nat
  BY HartFacts DEF HartState
<1> QED
  BY <1>1, <1>3, <1>4

-----------------------------------------------------------------------------
\* What the hart has read of the clock is never ahead of the clock.
THEOREM SleepTypeCorrect == Assumptions => (Clock!Spec => []Clock!TypeOK)
<1> SUFFICES ASSUME Assumptions PROVE Clock!Spec => []Clock!TypeOK
  OBVIOUS
<1>1. Clock!Init => SleepInv
  BY SleepInitInv
<1>2. SleepInv /\ [Clock!Next]_(Clock!vars) => SleepInv'
  BY SleepStepInv
<1>3. SleepInv => Clock!TypeOK
  BY SleepInvImplies
<1> QED
  BY <1>1, <1>2, <1>3, PTL DEF Clock!Spec

\* On one hart no sleep is shorter than was asked, wherever the timer and other
\* interrupts cut it, and although the clock is read in two halves.
THEOREM SleepsLongEnoughCorrect == Assumptions => (Clock!Spec => Clock!SleepsLongEnough)
<1> SUFFICES ASSUME Assumptions PROVE Clock!Spec => Clock!SleepsLongEnough
  OBVIOUS
<1>1. Clock!Init => SleepInv
  BY SleepInitInv
<1>2. SleepInv /\ [Clock!Next]_(Clock!vars) => SleepInv'
  BY SleepStepInv
<1>3. SleepInv /\ [Clock!Next]_(Clock!vars) =>
        [\A h \in Harts : hart[h].pc # "run" /\ hart'[h].pc = "run" =>
           now >= hart[h].since + hart[h].amount]_(Clock!vars)
  BY ReturnsLate
<1> QED
  BY <1>1, <1>2, <1>3, PTL DEF Clock!Spec, Clock!SleepsLongEnough
=============================================================================
