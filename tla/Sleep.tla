-------------------------------- MODULE Sleep --------------------------------
(***************************************************************************)
(* sleep_us() and the like (lib/time.c), which wait for a time of the real *)
(* time clock (device/rtc.c) that is in one variable for all callers, and  *)
(* sleep in wfi until the timer of their hart interrupts (trap_handler.c). *)
(* A sleeper keeps its hart: the timer interrupt of the kernel does not    *)
(* yield.  The kernel starts one hart, its locks are made for several.     *)
(***************************************************************************)
EXTENDS Integers, FiniteSets

CONSTANTS
  Harts,
  LOW,      \* values of the low register of the clock (2^32)
  TICK,     \* TICK_INTERVAL_CYCLES
  Amounts,  \* times to sleep, in the clock's units
  MaxCalls, \* bound on the calls of a hart
  MaxTime   \* bound on the time at which harts may still be slow

\* What every instance assumes of the constants (the MC modules state it).
ClockAssumption == LOW \in Nat \ {0} /\ TICK \in Nat \ {0} /\ Amounts \subseteq Nat
BoundAssumption == MaxCalls \in Nat /\ MaxTime \in Nat

VARIABLES
  now, latch, \* of the clock: the time, and the high register as it was with the low one
  sleep_end,
  deadline,   \* when the timer of a hart interrupts
  hart        \* what a hart does; low, starting and amount are locals

vars == <<now, latch, sleep_end, deadline, hart>>

Init ==
  /\ now = 0 /\ latch = 0 /\ sleep_end = 0
  /\ deadline = [h \in Harts |-> TICK]
  /\ hart = [h \in Harts |-> [pc |-> "run", low |-> 0, time |-> 0, starting |-> FALSE,
                              amount |-> 0, since |-> 0, calls |-> 0]]

Set(h, new) == hart' = [hart EXCEPT ![h] = new]

-----------------------------------------------------------------------------
(***************************************************************************)
(* A call                                                                  *)
(***************************************************************************)
sleep(h) ==
  /\ hart[h].pc = "run" /\ hart[h].calls < MaxCalls /\ now < MaxTime
  /\ \E a \in Amounts :
       Set(h, [hart[h] EXCEPT !.pc = "low", !.starting = TRUE, !.amount = a,
                              !.since = now, !.calls = @ + 1])
  /\ UNCHANGED <<now, latch, sleep_end, deadline>>

\* rtc_get_time(): the clock keeps the high register that belongs to the low one.
ReadLow(h) ==
  /\ hart[h].pc = "low"
  /\ Set(h, [hart[h] EXCEPT !.pc = "high", !.low = now % LOW])
  /\ latch' = now \div LOW
  /\ UNCHANGED <<now, sleep_end, deadline>>

ReadHigh(h) ==
  /\ hart[h].pc = "high"
  /\ Set(h, [hart[h] EXCEPT !.pc = "decide", !.time = latch * LOW + hart[h].low])
  /\ UNCHANGED <<now, latch, sleep_end, deadline>>

\* Mutant: the caller sleeps until the time it names.
M_absolute(h) ==
  /\ hart[h].pc = "decide" /\ hart[h].starting
  /\ sleep_end' = hart[h].amount
  /\ Set(h, [hart[h] EXCEPT !.pc = "low", !.starting = FALSE])
  /\ UNCHANGED <<now, latch, deadline>>

SetEnd(h) ==
  /\ hart[h].pc = "decide" /\ hart[h].starting
  /\ sleep_end' = hart[h].time + hart[h].amount
  /\ Set(h, [hart[h] EXCEPT !.pc = "low", !.starting = FALSE])
  /\ UNCHANGED <<now, latch, deadline>>

\* Mutant: the clock is read once.
M_looks_once(h) ==
  /\ hart[h].pc = "decide" /\ ~hart[h].starting
  /\ Set(h, [hart[h] EXCEPT !.pc = IF hart[h].time < sleep_end THEN "decide" ELSE "run"])
  /\ UNCHANGED <<now, latch, sleep_end, deadline>>

\* An interrupt between the look at the clock and wfi is handled before wfi.
Look(h) ==
  /\ hart[h].pc = "decide" /\ ~hart[h].starting
  /\ Set(h, [hart[h] EXCEPT !.pc = IF hart[h].time < sleep_end THEN "wfi" ELSE "run"])
  /\ UNCHANGED <<now, latch, sleep_end, deadline>>

-----------------------------------------------------------------------------
(***************************************************************************)
(* Interrupts and time                                                     *)
(***************************************************************************)
Woken(h) == [hart[h] EXCEPT !.pc = IF @ = "wfi" THEN "low" ELSE @]

TimerInterrupt(h) ==
  /\ now >= deadline[h]
  /\ deadline' = [deadline EXCEPT ![h] = now + TICK]
  /\ Set(h, Woken(h))
  /\ UNCHANGED <<now, latch, sleep_end>>

OtherInterrupt(h) ==
  /\ hart[h].pc = "wfi"
  /\ Set(h, Woken(h))
  /\ UNCHANGED <<now, latch, sleep_end, deadline>>

\* From MaxTime on, time waits for the harts.
Tick ==
  /\ \/ now < MaxTime
     \/ /\ \A h \in Harts : hart[h].pc \in {"run", "wfi"} /\ now < deadline[h]
        /\ \E h \in Harts : hart[h].pc = "wfi"
  /\ now' = now + 1
  /\ UNCHANGED <<latch, sleep_end, deadline, hart>>

-----------------------------------------------------------------------------
Sleeper(h) == ReadLow(h) \/ ReadHigh(h) \/ SetEnd(h) \/ Look(h)

Next ==
  \/ Tick
  \/ \E h \in Harts : sleep(h) \/ Sleeper(h) \/ TimerInterrupt(h) \/ OtherInterrupt(h)

Spec == Init /\ [][Next]_vars
\* Time goes on (Tick waits for the harts now and then, hence SF), harts do not stop, and
\* timers interrupt.
LiveSpec ==
  /\ Spec /\ SF_vars(Tick)
  /\ \A h \in Harts : WF_vars(Sleeper(h)) /\ WF_vars(TimerInterrupt(h))

-----------------------------------------------------------------------------
(***************************************************************************)
(* Properties                                                              *)
(***************************************************************************)
TypeOK ==
  /\ now \in Nat /\ latch \in 0..(now \div LOW) /\ sleep_end \in Nat
  /\ deadline \in [Harts -> Nat]
  /\ \A h \in Harts :
       /\ hart[h].pc \in {"run", "low", "high", "decide", "wfi"}
       /\ hart[h].low \in 0..(LOW - 1) /\ hart[h].time \in 0..now
       /\ hart[h].starting \in BOOLEAN /\ hart[h].amount \in Amounts \cup {0}
       /\ hart[h].since \in 0..now /\ hart[h].calls \in 0..MaxCalls

\* A sleep is no shorter than was asked: the caller waits until the end time (time.c:160).
SleepsLongEnough ==
  [][\A h \in Harts : hart[h].pc # "run" /\ hart'[h].pc = "run" =>
       now >= hart[h].since + hart[h].amount]_vars

\* Every sleep ends: the timer wakes the hart after every look that came too early.
SleepsEnd == \A h \in Harts : hart[h].pc # "run" ~> hart[h].pc = "run"

\* A sleep is as long as was asked and not for ever.
SleepsAreRight == []TypeOK /\ SleepsLongEnough /\ SleepsEnd
=============================================================================
