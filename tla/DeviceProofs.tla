---------------------------- MODULE DeviceProofs ----------------------------
(***************************************************************************)
(* Proofs about devices and their data.                                    *)
(*                                                                         *)
(* First the keyboard (Keyboard), for any set of modifier keys, any codes  *)
(* and a queue of any size: whatever is dropped, repeated or retried, a    *)
(* keypress is printed with the modifiers that were held when its key      *)
(* moved.                                                                  *)
(*                                                                         *)
(* Then dynamic arrays (DynArray), for any number of arrays, pages and     *)
(* elements: a page is what one structure says it is, and the contents of  *)
(* a structure survive its moves from page to page.                        *)
(*                                                                         *)
(* Then the set-up of a GPU (VirtioGpu), for any size of its queue: the    *)
(* invariant says how far the device is with the one command that the      *)
(* driver waits for, and that otherwise the queue is quiet.                *)
(*                                                                         *)
(* Then the cursor (Cursor), for any screen, motions and number of         *)
(* redraws: the invariant says which pixels the task has drawn so far, if  *)
(* the handler has not moved the cursor from under it.                     *)
(*                                                                         *)
(* Then dates (Calendar), for any number of days: the invariant says how   *)
(* many days come before a date, and the loops of the conversions are      *)
(* shown to end where that number says.                                    *)
(***************************************************************************)
EXTENDS MCDevices, FiniteSetTheorems, FunctionTheorems, SequenceTheorems,
        NaturalsInduction, WellFoundedInduction, TLAPS

-----------------------------------------------------------------------------
(***************************************************************************)
(* The invariant: what the modifier bits are now, and will be after each   *)
(* of the events that wait.                                                *)
(***************************************************************************)
After(bits, ev) ==
  IF ev.modifier /\ IsKeyChange(ev)
  THEN KEYPRESS_MODIFIER_SET(bits, ev.key, ev.value = KEY_PRESSED) ELSE bits

\* b[i] are the bits when i of the events in w have been handled.
Course(b, w, bits) ==
  /\ b \in [0..Len(w) -> SUBSET Modifiers]
  /\ b[0] = bits
  /\ \A i \in 1..Len(w) : b[i] = After(b[i - 1], w[i])

\* At the end they agree with the keys, and at each key with what was held then.
Agrees(b, w, t, h) ==
  /\ b[Len(w)] \cap t = h \cap t
  /\ \A i \in 1..Len(w) : ~w[i].modifier => b[i - 1] \cap w[i].told = w[i].held

CourseInv == \E b : Course(b, queue, modifiers) /\ Agrees(b, queue, told, held)

TypeInv == TypeOK /\ queue \in Seq(Event)

IInv == TypeInv /\ CourseInv

-----------------------------------------------------------------------------
LEMMA EventFacts ==
  ASSUME NEW ev \in Event
  PROVE  /\ ev.modifier \in BOOLEAN /\ ev.value \in Value
         /\ ev.modifier => ev.key \in Modifiers
         /\ ~ev.modifier => ev.key \in Codes /\ ev.told \subseteq Modifiers /\ ev.held \subseteq Modifiers
BY DEF Event

LEMMA AfterType ==
  ASSUME NEW bits \in SUBSET Modifiers, NEW ev \in Event
  PROVE  After(bits, ev) \in SUBSET Modifiers
BY EventFacts DEF After, KEYPRESS_MODIFIER_SET

\* The course of a queue that took an event.
Longer(b, len, ev) == [i \in 0..len + 1 |-> IF i = len + 1 THEN After(b[len], ev) ELSE b[i]]

\* An event that is queued.
LEMMA Queued ==
  ASSUME NEW w \in Seq(Event), NEW bits, NEW ev \in Event, NEW b, Course(b, w, bits)
  PROVE  /\ Course(Longer(b, Len(w), ev), Append(w, ev), bits)
         /\ \A i \in 0..Len(w) : Longer(b, Len(w), ev)[i] = b[i]
         /\ Longer(b, Len(w), ev)[Len(w) + 1] = After(b[Len(w)], ev)
<1> DEFINE r == Append(w, ev)
           c == Longer(b, Len(w), ev)
<1>1. /\ Len(w) \in Nat /\ Len(r) = Len(w) + 1
      /\ \A i \in 1..Len(w) : r[i] = w[i]
      /\ r[Len(r)] = ev
  OBVIOUS
<1>2. After(b[Len(w)], ev) \in SUBSET Modifiers
  BY <1>1, AfterType DEF Course
<1>3. c \in [0..Len(r) -> SUBSET Modifiers]
  BY <1>1, <1>2 DEF Course, Longer
<1>4. /\ \A i \in 0..Len(w) : c[i] = b[i]
      /\ c[Len(w) + 1] = After(b[Len(w)], ev)
  BY <1>1 DEF Longer
<1>5. \A i \in 1..Len(r) : c[i] = After(c[i - 1], r[i])
  <2> SUFFICES ASSUME NEW i \in 1..Len(r) PROVE c[i] = After(c[i - 1], r[i])
    OBVIOUS
  <2>1. CASE i = Len(r)
    BY <1>1, <1>4, <2>1
  <2>2. CASE i \in 1..Len(w)
    <3>1. c[i] = b[i] /\ c[i - 1] = b[i - 1]
      BY <1>1, <1>4, <2>2
    <3> QED
      BY <1>1, <2>2, <3>1 DEF Course
  <2> QED
    BY <1>1, <2>1, <2>2
<1>6. c[0] = bits
  BY <1>1, <1>4 DEF Course
<1>7. Course(c, r, bits)
  BY <1>3, <1>5, <1>6 DEF Course
<1> QED
  BY <1>4, <1>7

\* The event that is handled first.
LEMMA Handled ==
  ASSUME NEW w \in Seq(Event), w # <<>>, NEW bits, NEW t, NEW h, NEW b,
         Course(b, w, bits), Agrees(b, w, t, h)
  PROVE  \E c : Course(c, Tail(w), After(bits, Head(w))) /\ Agrees(c, Tail(w), t, h)
<1> DEFINE r == Tail(w)
           c == [i \in 0..Len(r) |-> b[i + 1]]
<1>1. /\ Len(w) \in Nat /\ Len(w) > 0 /\ Len(r) = Len(w) - 1 /\ Head(w) = w[1]
      /\ \A i \in 1..Len(r) : r[i] = w[i + 1]
  OBVIOUS
<1>2. \A i \in 0..Len(r) : c[i] = b[i + 1] /\ i + 1 \in 0..Len(w)
  BY <1>1
<1>3. c \in [0..Len(r) -> SUBSET Modifiers]
  BY <1>1, <1>2 DEF Course
<1>4. c[0] = After(bits, Head(w))
  BY <1>1, <1>2 DEF Course
<1>5. \A i \in 1..Len(r) : c[i] = After(c[i - 1], r[i])
  <2> SUFFICES ASSUME NEW i \in 1..Len(r) PROVE c[i] = After(c[i - 1], r[i])
    OBVIOUS
  <2>1. i + 1 \in 1..Len(w) /\ (i + 1) - 1 = i /\ c[i] = b[i + 1] /\ c[i - 1] = b[i]
    BY <1>1, <1>2
  <2>2. b[i + 1] = After(b[(i + 1) - 1], w[i + 1])
    BY <2>1 DEF Course
  <2> QED
    BY <1>1, <2>1, <2>2
<1>6. c[Len(r)] \cap t = h \cap t
  <2>1. c[Len(r)] = b[Len(w)]
    BY <1>1, <1>2
  <2> QED
    BY <2>1 DEF Agrees
<1>7. \A i \in 1..Len(r) : ~r[i].modifier => c[i - 1] \cap r[i].told = r[i].held
  <2> SUFFICES ASSUME NEW i \in 1..Len(r), ~r[i].modifier
               PROVE  c[i - 1] \cap r[i].told = r[i].held
    OBVIOUS
  <2>1. i + 1 \in 1..Len(w) /\ (i + 1) - 1 = i /\ c[i - 1] = b[i] /\ r[i] = w[i + 1]
    BY <1>1, <1>2
  <2>2. b[(i + 1) - 1] \cap w[i + 1].told = w[i + 1].held
    BY <2>1 DEF Agrees
  <2> QED
    BY <2>1, <2>2
<1> QED
  BY <1>3, <1>4, <1>5, <1>6, <1>7 DEF Course, Agrees
-----------------------------------------------------------------------------
(***************************************************************************)
(* The first state.                                                        *)
(***************************************************************************)
LEMMA InitInv == Init => IInv
<1> SUFFICES ASSUME Init PROVE IInv
  OBVIOUS
<1>1. TypeInv
  <2>1. Len(queue) = 0 /\ queue \in Seq(Event)
    BY DEF Init
  <2> QED
    BY <2>1, QueueAssumption DEF Init, TypeInv, TypeOK
<1>2. CourseInv
  <2> DEFINE b == [i \in 0..Len(queue) |-> modifiers]
  <2>1. queue = <<>> /\ Len(queue) = 0 /\ modifiers \in SUBSET Modifiers /\ told = {} /\ held = {}
    BY DEF Init
  <2>2. b[0] = modifiers /\ b \in [0..Len(queue) -> SUBSET Modifiers]
    BY <2>1
  <2>3. Course(b, queue, modifiers)
    BY <2>1, <2>2 DEF Course
  <2>4. Agrees(b, queue, told, held)
    BY <2>1 DEF Agrees
  <2> QED
    BY <2>3, <2>4 DEF CourseInv
<1> QED
  BY <1>1, <1>2 DEF IInv

(***************************************************************************)
(* The keyboard.                                                           *)
(***************************************************************************)
\* A queue that takes an event, or drops it.
LEMMA PutType ==
  ASSUME TypeInv, NEW ev \in Event, Put(ev)
  PROVE  /\ queue' \in Seq(Event)
         /\ Len(queue') <= QueueSize
         /\ \A i \in 1..Len(queue') : queue'[i] \in Event
<1>1. queue \in Seq(Event) /\ Len(queue) \in Nat /\ Len(queue) <= QueueSize /\ QueueSize \in Nat
  BY QueueAssumption DEF TypeInv, TypeOK
<1>2. CASE Full
  BY <1>1, <1>2 DEF Put
<1>3. CASE ~Full
  <2>1. queue' = Append(queue, ev) /\ Len(queue) # QueueSize
    BY <1>3 DEF Put, Full
  <2>2. queue' \in Seq(Event) /\ Len(queue') = Len(queue) + 1
    BY <1>1, <2>1
  <2> QED
    BY <1>1, <2>1, <2>2
<1> QED
  BY <1>2, <1>3

\* A key that repeats is down, and stays so.
LEMMA RepeatMoves ==
  ASSUME NEW k \in Modifiers, NEW value, value = Repeat, ModifierEvent(k, value)
  PROVE  k \in held /\ held' = held \cup {k} /\ told' = told
<1>1. value # KEY_PRESSED /\ value # KEY_RELEASED
  BY DEF Repeat, KEY_RELEASED, KEY_PRESSED
<1>2. (value = KEY_PRESSED) = (k \notin held)
  BY DEF ModifierEvent
<1>3. k \in held
  BY <1>1, <1>2
<1>4. held' = held \cup {k} /\ told' = told
  BY <1>1 DEF ModifierEvent
<1> QED
  BY <1>3, <1>4

\* The keys that were told of after one has moved.
LEMMA ModifierMoves ==
  ASSUME IInv, NEW k \in Modifiers, NEW value \in Value, ModifierEvent(k, value)
  PROVE  IInv'
<1>0. PICK ev : ev = [modifier |-> TRUE, key |-> k, value |-> value]
  OBVIOUS
<1>1. ev \in Event /\ Put(ev) /\ modifiers' = modifiers /\ printed' = printed
  BY <1>0 DEF Event, ModifierEvent
<1>2. TypeInv /\ held \subseteq Modifiers /\ told \subseteq Modifiers
  BY DEF IInv, TypeInv, TypeOK
<1>3. held' \subseteq Modifiers /\ told' \subseteq Modifiers
  BY <1>2 DEF ModifierEvent
<1>4. TypeInv'
  BY <1>1, <1>2, <1>3, PutType DEF TypeInv, TypeOK
<1>5. PICK b : Course(b, queue, modifiers) /\ Agrees(b, queue, told, held)
  BY DEF IInv, CourseInv
<1>6. CASE Full
  <2>1. queue' = queue
    BY <1>1, <1>6 DEF Put
  <2>2. b[Len(queue)] \cap told = held \cap told
    BY <1>5 DEF Agrees
  <2>3. b[Len(queue)] \cap told' = held' \cap told'
    <3>1. CASE value = Repeat
      <4>1. k \in held /\ held' = held \cup {k} /\ told' = told
        BY <3>1, RepeatMoves
      <4> QED
        BY <2>2, <4>1
    <3>2. CASE value # Repeat
      <4>1. told' = told \ {k} /\ (held' = held \ {k} \/ held' = held \cup {k})
        BY <1>6, <3>2 DEF ModifierEvent
      <4> QED
        BY <2>2, <4>1
    <3> QED
      BY <3>1, <3>2
  <2>4. Agrees(b, queue', told', held')
    BY <1>5, <2>1, <2>3 DEF Agrees
  <2> QED
    BY <1>1, <1>4, <1>5, <2>1, <2>4 DEF IInv, CourseInv
<1>7. CASE ~Full
  <2>1. queue' = Append(queue, ev) /\ queue \in Seq(Event) /\ Len(queue) \in Nat
    BY <1>1, <1>2, <1>7 DEF Put, TypeInv
  <2> DEFINE c == Longer(b, Len(queue), ev)
  <2>2. /\ Course(c, Append(queue, ev), modifiers)
        /\ \A i \in 0..Len(queue) : c[i] = b[i]
        /\ c[Len(queue) + 1] = After(b[Len(queue)], ev)
    <3>1. ev \in Event /\ Course(b, queue, modifiers) /\ queue \in Seq(Event)
      BY <1>1, <1>5, <2>1
    <3>2. Course(c, Append(queue, ev), modifiers) /\ \A i \in 0..Len(queue) : c[i] = b[i]
      BY <3>1, Queued
    <3>3. c[Len(queue) + 1] = After(b[Len(queue)], ev)
      BY <2>1 DEF Longer
    <3> QED
      BY <3>2, <3>3
  <2> HIDE DEF c
  <2>3. Len(queue') = Len(queue) + 1 /\ queue'[Len(queue) + 1] = ev
        /\ \A i \in 1..Len(queue) : queue'[i] = queue[i]
    BY <2>1
  <2>4. b[Len(queue)] \cap told = held \cap told
    BY <1>5 DEF Agrees
  <2>5. c[Len(queue')] \cap told' = held' \cap told'
    <3>1. c[Len(queue')] = After(b[Len(queue)], ev)
      BY <2>2, <2>3
    <3>2. CASE value = Repeat
      <4>1. k \in held /\ held' = held \cup {k} /\ told' = told
        BY <3>2, RepeatMoves
      <4>2. After(b[Len(queue)], ev) = b[Len(queue)]
        BY <1>0, <3>2 DEF After, IsKeyChange, Repeat, KEY_RELEASED, KEY_PRESSED
      <4> QED
        BY <2>4, <3>1, <4>1, <4>2
    <3>3. CASE value = KEY_PRESSED
      <4>1. held' = held \cup {k} /\ told' = told \cup {k}
        BY <1>7, <3>3 DEF ModifierEvent, Repeat, KEY_RELEASED, KEY_PRESSED
      <4>2. After(b[Len(queue)], ev) = b[Len(queue)] \cup {k}
        BY <1>0, <3>3 DEF After, IsKeyChange, KEYPRESS_MODIFIER_SET
      <4> QED
        BY <2>4, <3>1, <4>1, <4>2
    <3>4. CASE value = KEY_RELEASED
      <4>1. held' = held \ {k} /\ told' = told \cup {k}
        BY <1>7, <3>4 DEF ModifierEvent, Repeat, KEY_RELEASED
      <4>2. After(b[Len(queue)], ev) = b[Len(queue)] \ {k}
        BY <1>0, <3>4 DEF After, IsKeyChange, KEYPRESS_MODIFIER_SET, KEY_RELEASED, KEY_PRESSED
      <4> QED
        BY <2>4, <3>1, <4>1, <4>2
    <3> QED
      BY <3>2, <3>3, <3>4 DEF Value
  <2>6. \A i \in 1..Len(queue') : ~queue'[i].modifier => c[i - 1] \cap queue'[i].told = queue'[i].held
    <3> SUFFICES ASSUME NEW i \in 1..Len(queue'), ~queue'[i].modifier
                 PROVE  c[i - 1] \cap queue'[i].told = queue'[i].held
      OBVIOUS
    <3>1. i \in 1..Len(queue) /\ i - 1 \in 0..Len(queue) /\ queue'[i] = queue[i]
      BY <1>0, <2>1, <2>3
    <3> QED
      BY <1>5, <2>2, <3>1 DEF Agrees
  <2>7. Agrees(c, queue', told', held')
    BY <2>5, <2>6 DEF Agrees
  <2> QED
    BY <1>1, <1>4, <2>1, <2>2, <2>7 DEF IInv, CourseInv
<1> QED
  BY <1>6, <1>7

\* Another key moves.
LEMMA CodeMoves ==
  ASSUME IInv, NEW c \in Codes, NEW value \in Value, CodeEvent(c, value)
  PROVE  IInv'
<1>0. PICK ev : ev = [modifier |-> FALSE, key |-> c, value |-> value,
                      told |-> told, held |-> told \cap held]
  OBVIOUS
<1>1. /\ Put(ev) /\ modifiers' = modifiers /\ printed' = printed
      /\ held' = held /\ told' = told
  BY <1>0 DEF CodeEvent
<1>2. TypeInv /\ held \subseteq Modifiers /\ told \subseteq Modifiers
  BY DEF IInv, TypeInv, TypeOK
<1>3. ev \in Event
  BY <1>0, <1>2 DEF Event
<1>4. TypeInv'
  BY <1>1, <1>2, <1>3, PutType DEF TypeInv, TypeOK
<1>5. PICK b : Course(b, queue, modifiers) /\ Agrees(b, queue, told, held)
  BY DEF IInv, CourseInv
<1>6. CASE Full
  BY <1>1, <1>4, <1>5, <1>6 DEF Put, IInv, CourseInv
<1>7. CASE ~Full
  <2>1. queue' = Append(queue, ev) /\ queue \in Seq(Event) /\ Len(queue) \in Nat
    BY <1>1, <1>2, <1>7 DEF Put, TypeInv
  <2> DEFINE d == Longer(b, Len(queue), ev)
  <2>2. /\ Course(d, Append(queue, ev), modifiers)
        /\ \A i \in 0..Len(queue) : d[i] = b[i]
        /\ d[Len(queue) + 1] = After(b[Len(queue)], ev)
    <3>1. ev \in Event /\ Course(b, queue, modifiers) /\ queue \in Seq(Event)
      BY <1>3, <1>5, <2>1
    <3>2. Course(d, Append(queue, ev), modifiers) /\ \A i \in 0..Len(queue) : d[i] = b[i]
      BY <3>1, Queued
    <3>3. d[Len(queue) + 1] = After(b[Len(queue)], ev)
      BY <2>1 DEF Longer
    <3> QED
      BY <3>2, <3>3
  <2> HIDE DEF d
  <2>3. Len(queue') = Len(queue) + 1 /\ queue'[Len(queue) + 1] = ev
        /\ \A i \in 1..Len(queue) : queue'[i] = queue[i]
    BY <2>1
  <2>4. b[Len(queue)] \cap told = held \cap told
    BY <1>5 DEF Agrees
  <2>5. d[Len(queue')] \cap told' = held' \cap told'
    <3>1. After(b[Len(queue)], ev) = b[Len(queue)]
      BY <1>0 DEF After
    <3> QED
      BY <1>1, <2>2, <2>3, <2>4, <3>1
  <2>6. \A i \in 1..Len(queue') : ~queue'[i].modifier => d[i - 1] \cap queue'[i].told = queue'[i].held
    <3> SUFFICES ASSUME NEW i \in 1..Len(queue'), ~queue'[i].modifier
                 PROVE  d[i - 1] \cap queue'[i].told = queue'[i].held
      OBVIOUS
    <3>1. CASE i = Len(queue) + 1
      <4>1. d[i - 1] = b[Len(queue)]
        BY <2>1, <2>2, <3>1
      <4>2. queue'[i].told = told /\ queue'[i].held = told \cap held
        BY <1>0, <2>3, <3>1
      <4> QED
        BY <2>4, <4>1, <4>2
    <3>2. CASE i \in 1..Len(queue)
      <4>1. i - 1 \in 0..Len(queue) /\ queue'[i] = queue[i]
        BY <2>1, <2>3, <3>2
      <4> QED
        BY <1>5, <2>2, <3>2, <4>1 DEF Agrees
    <3> QED
      BY <2>1, <2>3, <3>1, <3>2
  <2>7. Agrees(d, queue', told', held')
    BY <2>5, <2>6 DEF Agrees
  <2> QED
    BY <1>1, <1>4, <2>1, <2>2, <2>7 DEF IInv, CourseInv
<1> QED
  BY <1>6, <1>7

(***************************************************************************)
(* The handler.                                                            *)
(***************************************************************************)
LEMMA TailType ==
  ASSUME TypeInv, queue # <<>>
  PROVE  /\ Head(queue) \in Event /\ Tail(queue) \in Seq(Event)
         /\ Len(Tail(queue)) <= QueueSize
         /\ \A i \in 1..Len(Tail(queue)) : Tail(queue)[i] \in Event
<1>1. queue \in Seq(Event) /\ Len(queue) \in Nat /\ Len(queue) <= QueueSize /\ QueueSize \in Nat
  BY QueueAssumption DEF TypeInv, TypeOK
<1>2. Head(queue) \in Event /\ Tail(queue) \in Seq(Event) /\ Len(Tail(queue)) = Len(queue) - 1
  BY <1>1
<1> QED
  BY <1>1, <1>2

\* The first event is handled: its bit is set, if it is a modifier's.
LEMMA TakesFirst ==
  ASSUME IInv, queue # <<>>, queue' = Tail(queue), modifiers' = After(modifiers, Head(queue)),
         told' = told, held' = held
  PROVE  CourseInv' /\ modifiers' \subseteq Modifiers
<1>1. queue \in Seq(Event) /\ modifiers \in SUBSET Modifiers /\ Head(queue) \in Event
  BY TailType DEF IInv, TypeInv, TypeOK
<1>2. PICK b : Course(b, queue, modifiers) /\ Agrees(b, queue, told, held)
  BY DEF IInv, CourseInv
<1>3. \E c : Course(c, Tail(queue), After(modifiers, Head(queue))) /\ Agrees(c, Tail(queue), told, held)
  BY <1>1, <1>2, Handled
<1>4. CourseInv'
  BY <1>3 DEF CourseInv
<1> QED
  BY <1>1, <1>4, AfterType

LEMMA ModifierKeyStep ==
  ASSUME IInv, ModifierKey
  PROVE  IInv'
<1>1. /\ queue # <<>> /\ queue' = Tail(queue)
      /\ held' = held /\ told' = told /\ printed' = printed
  BY DEF ModifierKey
<1>2. modifiers' = After(modifiers, Head(queue))
  BY DEF ModifierKey, After
<1>3. CourseInv' /\ modifiers' \subseteq Modifiers
  BY <1>1, <1>2, TakesFirst
<1>4. TypeInv'
  BY <1>1, <1>3, TailType DEF IInv, TypeInv, TypeOK
<1> QED
  BY <1>3, <1>4 DEF IInv

LEMMA OtherEventStep ==
  ASSUME IInv, OtherEvent
  PROVE  IInv'
<1>1. /\ queue # <<>> /\ queue' = Tail(queue) /\ modifiers' = modifiers
      /\ held' = held /\ told' = told /\ printed' = printed
  BY DEF OtherEvent
<1>2. modifiers' = After(modifiers, Head(queue))
  BY <1>1 DEF OtherEvent, After
<1>3. CourseInv' /\ modifiers' \subseteq Modifiers
  BY <1>1, <1>2, TakesFirst
<1>4. TypeInv'
  BY <1>1, <1>3, TailType DEF IInv, TypeInv, TypeOK
<1> QED
  BY <1>3, <1>4 DEF IInv

\* A keypress is of its type.
LEMMA KeypressType ==
  ASSUME NEW code \in Codes, NEW mods \in SUBSET Modifiers, NEW type \in {KEY_RELEASED, KEY_PRESSED}
  PROVE  make_keypress(code, mods, type) \in
           [keycode : 0..255, modifiers : SUBSET (Modifiers \cap Byte), type : {KEY_RELEASED, KEY_PRESSED}]
<1>1. code \in Nat
  BY CodesAssumption
<1>2. code % 256 \in 0..255
  BY <1>1
<1>3. mods \cap Byte \in SUBSET (Modifiers \cap Byte)
  OBVIOUS
<1> QED
  BY <1>2, <1>3 DEF make_keypress

LEMMA OtherKeyStep ==
  ASSUME IInv, OtherKey
  PROVE  IInv'
<1>1. /\ queue # <<>> /\ ~Head(queue).modifier /\ IsKeyChange(Head(queue))
      /\ held' = held /\ told' = told /\ modifiers' = modifiers
  BY DEF OtherKey
<1>2. PICK got \in 0..2 :
        /\ queue' = IF got = 0 THEN queue ELSE Tail(queue)
        /\ printed' = IF got < 2 THEN printed
                      ELSE make_keypress(Head(queue).key, modifiers, Head(queue).value)
  BY DEF OtherKey
<1>3. TypeInv /\ modifiers \in SUBSET Modifiers /\ Head(queue) \in Event
  BY <1>1, TailType DEF IInv, TypeInv, TypeOK
<1>4. Head(queue).key \in Codes /\ Head(queue).value \in {KEY_RELEASED, KEY_PRESSED}
  BY <1>1, <1>3, EventFacts DEF IsKeyChange
<1>5. printed' = printed \/ printed' \in
        [keycode : 0..255, modifiers : SUBSET (Modifiers \cap Byte), type : {KEY_RELEASED, KEY_PRESSED}]
  <2>1. make_keypress(Head(queue).key, modifiers, Head(queue).value) \in
          [keycode : 0..255, modifiers : SUBSET (Modifiers \cap Byte), type : {KEY_RELEASED, KEY_PRESSED}]
    BY <1>3, <1>4, KeypressType
  <2>2. CASE got < 2
    BY <1>2, <2>2
  <2>3. CASE ~(got < 2)
    BY <1>2, <2>1, <2>3
  <2> QED
    BY <2>2, <2>3
<1>6. CASE queue' = queue
  <2>1. TypeInv'
    BY <1>1, <1>3, <1>5, <1>6 DEF TypeInv, TypeOK
  <2>2. CourseInv'
    BY <1>1, <1>6 DEF IInv, CourseInv
  <2> QED
    BY <2>1, <2>2 DEF IInv
<1>7. CASE queue' = Tail(queue)
  <2>1. modifiers' = After(modifiers, Head(queue))
    BY <1>1 DEF After
  <2>2. CourseInv' /\ modifiers' \subseteq Modifiers
    BY <1>1, <1>7, <2>1, TakesFirst
  <2>3. TypeInv'
    BY <1>1, <1>3, <1>5, <1>7, <2>2, TailType DEF TypeInv, TypeOK
  <2> QED
    BY <2>2, <2>3 DEF IInv
<1> QED
  BY <1>2, <1>6, <1>7

-----------------------------------------------------------------------------
(***************************************************************************)
(* Every step.                                                             *)
(***************************************************************************)
LEMMA StepInv == IInv /\ [Next]_vars => IInv'
<1> SUFFICES ASSUME IInv, [Next]_vars PROVE IInv'
  OBVIOUS
<1>1. ASSUME NEW value \in {KEY_RELEASED, KEY_PRESSED, Repeat}, NEW k \in Modifiers,
             ModifierEvent(k, value)
      PROVE  IInv'
  BY <1>1, ModifierMoves DEF Value
<1>2. ASSUME NEW value \in {KEY_RELEASED, KEY_PRESSED, Repeat}, NEW c \in Codes,
             CodeEvent(c, value)
      PROVE  IInv'
  BY <1>2, CodeMoves DEF Value
<1>3. CASE ModifierKey
  BY <1>3, ModifierKeyStep
<1>4. CASE OtherKey
  BY <1>4, OtherKeyStep
<1>5. CASE OtherEvent
  BY <1>5, OtherEventStep
<1>6. CASE UNCHANGED vars
  BY <1>6 DEF vars, IInv, TypeInv, TypeOK, CourseInv
<1> QED
  BY <1>1, <1>2, <1>3, <1>4, <1>5, <1>6 DEF Next, Happens, virtio_keyboard_handle_irq

LEMMA Inductive == Spec => []IInv
  BY InitInv, StepInv, PTL DEF Spec

\* What is printed of a key is what was held when it moved.
LEMMA PrintedIsTrue ==
  ASSUME IInv, Next, printed' # printed
  PROVE  printed'.modifiers \cap Head(queue).told = Head(queue).held \cap Byte
<1>1. OtherKey
  BY DEF Next, Happens, virtio_keyboard_handle_irq, ModifierEvent, CodeEvent, ModifierKey, OtherEvent
<1>2. queue # <<>> /\ ~Head(queue).modifier
  BY <1>1 DEF OtherKey
<1>3. printed' = make_keypress(Head(queue).key, modifiers, Head(queue).value)
  BY <1>1 DEF OtherKey
<1>4. printed'.modifiers = modifiers \cap Byte
  BY <1>3 DEF make_keypress
<1>5. PICK b : Course(b, queue, modifiers) /\ Agrees(b, queue, told, held)
  BY DEF IInv, CourseInv
<1>6. queue \in Seq(Event)
  BY DEF IInv, TypeInv
<1>7. 1 \in 1..Len(queue) /\ Head(queue) = queue[1] /\ 1 - 1 = 0
  BY <1>2, <1>6
<1>8. b[1 - 1] \cap queue[1].told = queue[1].held
  BY <1>2, <1>5, <1>7 DEF Agrees
<1>9. modifiers \cap Head(queue).told = Head(queue).held
  BY <1>5, <1>7, <1>8 DEF Course
<1> QED
  BY <1>4, <1>9

LEMMA InvImplies == IInv => ModifiersAreSound
<1> SUFFICES ASSUME IInv PROVE TypeOK /\ ModifiersFollowTheKeys
  BY DEF ModifiersAreSound
<1>1. TypeOK
  BY DEF IInv, TypeInv
<1>2. ASSUME queue = <<>> PROVE modifiers \cap told = held \cap told
  <2>1. PICK b : Course(b, queue, modifiers) /\ Agrees(b, queue, told, held)
    BY DEF IInv, CourseInv
  <2>2. Len(queue) = 0
    BY <1>2
  <2> QED
    BY <2>1, <2>2 DEF Course, Agrees
<1> QED
  BY <1>1, <1>2 DEF ModifiersFollowTheKeys

-----------------------------------------------------------------------------
\* When nothing waits, the modifier bits are those of the keys that are held, but for
\* keys that have not moved or whose last event the full ring dropped.
THEOREM ModifiersCorrect == Spec => []ModifiersAreSound
<1>1. IInv => ModifiersAreSound
  BY InvImplies
<1> QED
  BY <1>1, Inductive, PTL

\* A keypress is printed with the modifiers that were held when its key moved, however
\* late the interrupt handler comes to it and however often it finds no page.
THEOREM KeypressesCorrect == Spec => KeypressesAreTrue
<1>1. IInv /\ [Next]_vars =>
        [printed' # printed =>
           printed'.modifiers \cap Head(queue).told = Head(queue).held \cap Byte]_vars
  BY PrintedIsTrue DEF vars
<1> QED
  BY <1>1, Inductive, PTL DEF Spec, KeypressesAreTrue

-----------------------------------------------------------------------------
LEMMA SameSize ==
  \A S : Boxes!Cardinality(S) = Cardinality(S) /\ Gpu!Cardinality(S) = Cardinality(S)
         /\ Pointer!Cardinality(S) = Cardinality(S)
BY DEF Boxes!Cardinality, Gpu!Cardinality, Pointer!Cardinality, Cardinality

-----------------------------------------------------------------------------
(***************************************************************************)
(* Dynamic arrays.                                                         *)
(***************************************************************************)
(***************************************************************************)
(* The invariant.                                                          *)
(***************************************************************************)
Array == [data : Pages \cup {none}, len : 0..MaxElems, cap : 0..MaxElems,
          is_initialized : BOOLEAN, header : Pages \cup {none}]
Cells == [1..MaxElems -> Values \cup {Junk}]

ArraysType ==
  /\ arr \in [Arrays -> Array]
  /\ use \in [Pages -> {"free", "data", "header", "mailbox", "other"}]
  /\ mem \in [Pages -> Cells]
  /\ mailbox \in Pages \cup {none}

\* An array has its page when it is set up, and only then.
ShapeInv ==
  \A a \in Arrays :
    /\ arr[a].len <= arr[a].cap
    /\ arr[a].is_initialized <=> arr[a].data # none
    /\ ~arr[a].is_initialized => arr[a] = Boxes!NoArray

\* A page is what a structure says it is, and of one structure.
OwnerInv ==
  /\ \A p \in Pages : use[p] = "data"   <=> \E a \in Arrays : arr[a].data = p
  /\ \A p \in Pages : use[p] = "header" <=> \E a \in Arrays : arr[a].header = p
  /\ \A p \in Pages : use[p] = "mailbox" <=> p = mailbox
  /\ \A a, b \in Arrays : arr[a].data = arr[b].data /\ arr[a].data # none => a = b
  /\ \A a, b \in Arrays : arr[a].header = arr[b].header /\ arr[a].header # none => a = b

\* The mailbox's structure is set up with the mailbox.
MailboxInv == mailbox = none => arr[mb] = Boxes!NoArray

ArraysInv == ArraysType /\ ShapeInv /\ OwnerInv /\ MailboxInv

\* What every instance assumes.
ArrayAssumptions == Boxes!SizeAssumption /\ Boxes!NameAssumption

-----------------------------------------------------------------------------
LEMMA NoArrayType ==
  ASSUME ArrayAssumptions
  PROVE  /\ Boxes!NoArray \in Array /\ Boxes!NoArray.data = none /\ Boxes!NoArray.header = none
         /\ Boxes!NoArray.len = 0 /\ Boxes!NoArray.cap = 0 /\ Boxes!NoArray.is_initialized = FALSE
BY DEF ArrayAssumptions, Boxes!SizeAssumption, Boxes!NoArray, Array

LEMMA NoArrayShape ==
  ASSUME ArrayAssumptions, NEW s, s = Boxes!NoArray
  PROVE  /\ s.len <= s.cap
         /\ s.is_initialized <=> s.data # none
         /\ ~s.is_initialized => s = Boxes!NoArray
<1>1. s.is_initialized = FALSE /\ s.data = none
  BY DEF Boxes!NoArray
<1>2. s.len <= s.cap
  BY DEF Boxes!NoArray
<1> QED
  BY <1>1, <1>2, Zenon

LEMMA ArraysStart == ArrayAssumptions /\ Boxes!Init => ArraysInv
<1> SUFFICES ASSUME ArrayAssumptions, Boxes!Init PROVE ArraysInv
  OBVIOUS
<1>1. none \notin Pages /\ MaxElems \in Nat /\ mb \in Arrays
  BY DEF ArrayAssumptions, Boxes!SizeAssumption, Boxes!NameAssumption
<1>2. /\ arr \in [Arrays -> Array] /\ \A a \in Arrays : arr[a] = Boxes!NoArray
      /\ \A p \in Pages : use[p] = "free"
      /\ mailbox = none
  BY NoArrayType DEF Boxes!Init
<1>3. ArraysType
  BY <1>1, <1>2 DEF Boxes!Init, ArraysType, Cells
<1>4. ShapeInv
  BY <1>2, NoArrayShape DEF ShapeInv
<1>5. OwnerInv /\ MailboxInv
  BY <1>1, <1>2, NoArrayType DEF OwnerInv, MailboxInv
<1> QED
  BY <1>3, <1>4, <1>5 DEF ArraysInv

-----------------------------------------------------------------------------
(***************************************************************************)
(* A structure that is set up takes a page for its elements, and may take  *)
(* one for itself.                                                         *)
(***************************************************************************)
LEMMA SetUp ==
  ASSUME ArrayAssumptions, ArraysInv, NEW a \in Arrays, arr[a] = Boxes!NoArray,
         NEW p \in Boxes!Free, NEW h \in Boxes!Free \cup {none}, h # p,
         NEW box \in Boxes!Free \cup {mailbox}, box # p, box # h \/ box = mailbox,
         box # mailbox => mailbox = none /\ a = mb, a = mb => box # mailbox,
         NEW cap \in Nat, Boxes!Fits(cap),
         Boxes!Made(a, p, cap, h), mailbox' = box, mem' = mem,
         use' \in [Pages -> {"free", "data", "header", "mailbox", "other"}],
         \A x \in Pages : use'[x] = IF x = p THEN "data" ELSE IF x = h THEN "header"
                                    ELSE IF x = box THEN "mailbox" ELSE use[x]
  PROVE  ArraysInv'
<1> DEFINE new == [data |-> p, len |-> 0, cap |-> cap, is_initialized |-> TRUE, header |-> h]
<1>1. /\ none \notin Pages /\ MaxElems \in Nat /\ mb \in Arrays
      /\ p \in Pages /\ use[p] = "free" /\ p # none
      /\ h # none => h \in Pages /\ use[h] = "free"
      /\ box # mailbox => box \in Pages /\ use[box] = "free"
      /\ box \in Pages \cup {none}
  BY DEF ArrayAssumptions, Boxes!SizeAssumption, Boxes!NameAssumption, Boxes!Free, ArraysInv,
     ArraysType
<1>2. new \in Array
  BY <1>1 DEF Array, Boxes!Fits
<1>3. /\ arr' \in [Arrays -> Array] /\ arr'[a] = new
      /\ \A b \in Arrays \ {a} : arr'[b] = arr[b]
  BY <1>2 DEF Boxes!Made, ArraysInv, ArraysType
<1>4. /\ new.data = p /\ new.header = h /\ new.len = 0 /\ new.cap = cap
      /\ new.is_initialized = TRUE
  OBVIOUS
<1> HIDE DEF new
<1>5. ArraysType'
  BY <1>1, <1>3 DEF ArraysInv, ArraysType
<1>6. ShapeInv'
  BY <1>1, <1>3, <1>4 DEF ArraysInv, ShapeInv
<1>7. arr[a].data = none /\ arr[a].header = none
  BY NoArrayType
<1>8. OwnerInv'
  <2>1. ASSUME NEW x \in Pages PROVE use'[x] = "data" <=> \E b \in Arrays : arr'[b].data = x
    <3>1. CASE x = p
      BY <1>3, <1>4, <3>1
    <3>2. CASE x # p
      <4>1. use'[x] = "data" <=> use[x] = "data"
        BY <1>1, <3>2 DEF ArraysInv, OwnerInv
      <4>2. \A b \in Arrays : arr'[b].data = x <=> arr[b].data = x
        BY <1>1, <1>3, <1>4, <1>7, <3>2
      <4> QED
        BY <4>1, <4>2 DEF ArraysInv, OwnerInv
    <3> QED
      BY <3>1, <3>2
  <2>2. ASSUME NEW x \in Pages PROVE use'[x] = "header" <=> \E b \in Arrays : arr'[b].header = x
    <3>1. CASE x = h
      BY <1>3, <1>4, <3>1
    <3>2. CASE x # h
      <4>1. use'[x] = "header" <=> use[x] = "header"
        BY <1>1, <3>2 DEF ArraysInv, OwnerInv
      <4>2. \A b \in Arrays : arr'[b].header = x <=> arr[b].header = x
        BY <1>1, <1>3, <1>4, <1>7, <3>2
      <4> QED
        BY <4>1, <4>2 DEF ArraysInv, OwnerInv
    <3> QED
      BY <3>1, <3>2
  <2>3. ASSUME NEW x \in Pages PROVE use'[x] = "mailbox" <=> x = mailbox'
    BY <1>1 DEF ArraysInv, OwnerInv
  <2>4. ASSUME NEW b \in Arrays, NEW c \in Arrays, arr'[b].data = arr'[c].data,
               arr'[b].data # none
        PROVE  b = c
    <3>1. \A d \in Arrays \ {a} : arr'[d].data # p
      BY <1>1, <1>3 DEF ArraysInv, OwnerInv
    <3> QED
      BY <1>3, <1>4, <2>4, <3>1 DEF ArraysInv, OwnerInv
  <2>5. ASSUME NEW b \in Arrays, NEW c \in Arrays, arr'[b].header = arr'[c].header,
               arr'[b].header # none
        PROVE  b = c
    <3>1. h # none => \A d \in Arrays \ {a} : arr'[d].header # h
      BY <1>1, <1>3 DEF ArraysInv, OwnerInv
    <3> QED
      BY <1>3, <1>4, <2>5, <3>1 DEF ArraysInv, OwnerInv
  <2> QED
    BY <2>1, <2>2, <2>3, <2>4, <2>5 DEF OwnerInv
<1>9. MailboxInv'
  <2>1. CASE a = mb
    BY <1>1, <2>1 DEF MailboxInv
  <2>2. CASE a # mb
    BY <1>1, <1>3, <2>2 DEF ArraysInv, MailboxInv
  <2> QED
    BY <2>1, <2>2
<1> QED
  BY <1>5, <1>6, <1>8, <1>9 DEF ArraysInv

LEMMA InitStep ==
  ASSUME ArrayAssumptions, ArraysInv, NEW a \in Arrays, a # mb, NEW cap \in Caps,
         Boxes!dyn_array_init(a, cap)
  PROVE  ArraysInv'
<1>1. PICK p \in Boxes!Free : use' = [use EXCEPT ![p] = "data"] /\ Boxes!Made(a, p, cap, none)
  BY DEF Boxes!dyn_array_init
<1>2. arr[a] = Boxes!NoArray /\ Boxes!Fits(cap) /\ mem' = mem /\ mailbox' = mailbox
  BY DEF Boxes!dyn_array_init
<1>3. /\ none \notin Pages /\ p \in Pages /\ p # none /\ cap \in Nat /\ use[p] = "free"
      /\ p # mailbox
  BY DEF ArrayAssumptions, Boxes!SizeAssumption, Boxes!NameAssumption, Boxes!Free, ArraysInv,
     OwnerInv
<1>4. /\ use' \in [Pages -> {"free", "data", "header", "mailbox", "other"}]
      /\ \A x \in Pages : use'[x] = IF x = p THEN "data" ELSE IF x = none THEN "header"
                                    ELSE IF x = mailbox THEN "mailbox" ELSE use[x]
  BY <1>1, <1>3 DEF ArraysInv, ArraysType, OwnerInv
<1> QED
  BY <1>1, <1>2, <1>3, <1>4, SetUp

LEMMA MakeStep ==
  ASSUME ArrayAssumptions, ArraysInv, NEW a \in Arrays, a # mb, NEW cap \in Caps,
         Boxes!make_dyn_array(a, cap)
  PROVE  ArraysInv'
<1>1. PICK h, p \in Boxes!Free : /\ h # p
                                 /\ use' = [use EXCEPT ![h] = "header", ![p] = "data"]
                                 /\ Boxes!Made(a, p, cap, h)
  BY DEF Boxes!make_dyn_array
<1>2. arr[a] = Boxes!NoArray /\ Boxes!Fits(cap) /\ mem' = mem /\ mailbox' = mailbox
  BY DEF Boxes!make_dyn_array
<1>3. /\ none \notin Pages /\ p \in Pages /\ h \in Pages /\ cap \in Nat
      /\ use[p] = "free" /\ use[h] = "free" /\ p # mailbox /\ h # mailbox
  BY DEF ArrayAssumptions, Boxes!SizeAssumption, Boxes!NameAssumption, Boxes!Free, ArraysInv,
     OwnerInv
<1>4. /\ use' \in [Pages -> {"free", "data", "header", "mailbox", "other"}]
      /\ \A x \in Pages : use'[x] = IF x = p THEN "data" ELSE IF x = h THEN "header"
                                    ELSE IF x = mailbox THEN "mailbox" ELSE use[x]
  BY <1>1, <1>3 DEF ArraysInv, ArraysType, OwnerInv
<1> QED
  BY <1>1, <1>2, <1>3, <1>4, SetUp

\* Three pages are three different ones.
LEMMA ThreePages ==
  ASSUME NEW m, NEW h, NEW p, Cardinality({m, h, p}) = 3
  PROVE  m # h /\ m # p /\ h # p
<1>1. ASSUME NEW x, NEW y PROVE Cardinality({x, y}) <= 2
  <2>1. IsFiniteSet({x}) /\ Cardinality({x}) = 1 /\ {x, y} = {x} \cup {y}
    BY FS_Singleton
  <2> QED
    BY <2>1, FS_AddElement
<1>2. ASSUME m = h \/ m = p \/ h = p PROVE FALSE
  <2>1. {m, h, p} = {m, p} \/ {m, h, p} = {m, h}
    BY <1>2
  <2>2. Cardinality({m, p}) <= 2 /\ Cardinality({m, h}) <= 2
    BY <1>1
  <2> QED
    BY <2>1, <2>2
<1> QED
  BY <1>2

LEMMA MailboxStep ==
  ASSUME ArrayAssumptions, ArraysInv, Boxes!make_mailbox
  PROVE  ArraysInv'
<1>1. PICK m, h, p \in Boxes!Free :
        /\ Cardinality({m, h, p}) = 3
        /\ use' = [use EXCEPT ![m] = "mailbox", ![h] = "header", ![p] = "data"]
        /\ mailbox' = m
        /\ \E cap \in Caps : Boxes!Fits(cap) /\ Boxes!Made(mb, p, cap, h)
  BY SameSize DEF Boxes!make_mailbox
<1>2. PICK cap \in Caps : Boxes!Fits(cap) /\ Boxes!Made(mb, p, cap, h)
  BY <1>1
<1>3. m # h /\ m # p /\ h # p
  BY <1>1, ThreePages
<1>4. /\ mailbox = none /\ mem' = mem /\ arr[mb] = Boxes!NoArray /\ mb \in Arrays
  BY DEF Boxes!make_mailbox, ArraysInv, MailboxInv, ArrayAssumptions, Boxes!NameAssumption
<1>5. /\ none \notin Pages /\ p \in Pages /\ h \in Pages /\ m \in Pages /\ cap \in Nat
      /\ m # mailbox
  BY <1>4 DEF ArrayAssumptions, Boxes!SizeAssumption, Boxes!NameAssumption, Boxes!Free
<1>6. /\ use' \in [Pages -> {"free", "data", "header", "mailbox", "other"}]
      /\ \A x \in Pages : use'[x] = IF x = p THEN "data" ELSE IF x = h THEN "header"
                                    ELSE IF x = m THEN "mailbox" ELSE use[x]
  BY <1>1, <1>3, <1>5 DEF ArraysInv, ArraysType
<1> QED
  BY <1>1, <1>2, <1>3, <1>4, <1>5, <1>6, SetUp

-----------------------------------------------------------------------------
\* A structure that is freed gives back its pages, which no other has.
LEMMA FreeStep ==
  ASSUME ArrayAssumptions, ArraysInv, NEW a \in Arrays, Boxes!dyn_array_free(a)
  PROVE  ArraysInv'
<1>1. /\ a # mb /\ mem' = mem /\ mailbox' = mailbox
      /\ use' = [x \in Pages |-> IF x \in {arr[a].data, arr[a].header} THEN "free" ELSE use[x]]
      /\ arr' = [arr EXCEPT ![a] = Boxes!NoArray]
  BY DEF Boxes!dyn_array_free
<1>2. none \notin Pages /\ mb \in Arrays
  BY DEF ArrayAssumptions, Boxes!NameAssumption
<1>3. /\ arr' \in [Arrays -> Array] /\ arr'[a] = Boxes!NoArray
      /\ \A b \in Arrays \ {a} : arr'[b] = arr[b]
  BY <1>1, NoArrayType DEF ArraysInv, ArraysType
<1>4. ArraysType'
  BY <1>1, <1>3 DEF ArraysInv, ArraysType
<1>5. ShapeInv'
  <2> SUFFICES ASSUME NEW b \in Arrays
               PROVE  /\ arr'[b].len <= arr'[b].cap
                      /\ arr'[b].is_initialized <=> arr'[b].data # none
                      /\ ~arr'[b].is_initialized => arr'[b] = Boxes!NoArray
    BY DEF ShapeInv
  <2>1. CASE b = a
    BY <1>3, <2>1, NoArrayShape
  <2>2. CASE b # a
    BY <1>3, <2>2 DEF ArraysInv, ShapeInv
  <2> QED
    BY <2>1, <2>2
<1>6. OwnerInv'
  <2>1. ASSUME NEW x \in Pages PROVE use'[x] = "data" <=> \E b \in Arrays : arr'[b].data = x
    <3>1. CASE x = arr[a].data
      <4>1. \A b \in Arrays : arr'[b].data # x
        BY <1>2, <1>3, <3>1, NoArrayType DEF ArraysInv, OwnerInv
      <4>2. use'[x] = "free"
        BY <1>1, <3>1
      <4> QED
        BY <4>1, <4>2
    <3>2. CASE x = arr[a].header
      <4>1. use[x] = "header" /\ use'[x] = "free"
        BY <1>1, <3>2 DEF ArraysInv, OwnerInv
      <4>2. \A b \in Arrays : arr[b].data # x
        BY <4>1 DEF ArraysInv, OwnerInv
      <4>3. \A b \in Arrays : arr'[b].data # x
        BY <1>2, <1>3, <4>2, NoArrayType
      <4> QED
        BY <4>1, <4>3
    <3>3. CASE x \notin {arr[a].data, arr[a].header}
      <4>1. use'[x] = use[x]
        BY <1>1, <3>3
      <4>2. \A b \in Arrays : arr'[b].data = x <=> arr[b].data = x
        BY <1>2, <1>3, <3>3, NoArrayType
      <4> QED
        BY <4>1, <4>2 DEF ArraysInv, OwnerInv
    <3> QED
      BY <3>1, <3>2, <3>3
  <2>2. ASSUME NEW x \in Pages PROVE use'[x] = "header" <=> \E b \in Arrays : arr'[b].header = x
    <3>1. CASE x = arr[a].header
      <4>1. \A b \in Arrays : arr'[b].header # x
        BY <1>2, <1>3, <3>1, NoArrayType DEF ArraysInv, OwnerInv
      <4>2. use'[x] = "free"
        BY <1>1, <3>1
      <4> QED
        BY <4>1, <4>2
    <3>2. CASE x = arr[a].data
      <4>1. use[x] = "data" /\ use'[x] = "free"
        BY <1>1, <3>2 DEF ArraysInv, OwnerInv
      <4>2. \A b \in Arrays : arr[b].header # x
        BY <4>1 DEF ArraysInv, OwnerInv
      <4>3. \A b \in Arrays : arr'[b].header # x
        BY <1>2, <1>3, <4>2, NoArrayType
      <4> QED
        BY <4>1, <4>3
    <3>3. CASE x \notin {arr[a].data, arr[a].header}
      <4>1. use'[x] = use[x]
        BY <1>1, <3>3
      <4>2. \A b \in Arrays : arr'[b].header = x <=> arr[b].header = x
        BY <1>2, <1>3, <3>3, NoArrayType
      <4> QED
        BY <4>1, <4>2 DEF ArraysInv, OwnerInv
    <3> QED
      BY <3>1, <3>2, <3>3
  <2>3. ASSUME NEW x \in Pages PROVE use'[x] = "mailbox" <=> x = mailbox'
    <3>1. x \in {arr[a].data, arr[a].header} => use[x] \in {"data", "header"}
      BY DEF ArraysInv, OwnerInv
    <3> QED
      BY <1>1, <3>1 DEF ArraysInv, OwnerInv
  <2>4. \A b, c \in Arrays : arr'[b].data = arr'[c].data /\ arr'[b].data # none => b = c
    BY <1>3, NoArrayType DEF ArraysInv, OwnerInv
  <2>5. \A b, c \in Arrays : arr'[b].header = arr'[c].header /\ arr'[b].header # none => b = c
    BY <1>3, NoArrayType DEF ArraysInv, OwnerInv
  <2> QED
    BY <2>1, <2>2, <2>3, <2>4, <2>5 DEF OwnerInv
<1>7. MailboxInv'
  BY <1>1, <1>2, <1>3 DEF ArraysInv, MailboxInv
<1> QED
  BY <1>4, <1>5, <1>6, <1>7 DEF ArraysInv

-----------------------------------------------------------------------------
(***************************************************************************)
(* Elements.                                                               *)
(***************************************************************************)
\* An array that keeps its page.
LEMMA SamePage ==
  ASSUME ArrayAssumptions, ArraysInv, NEW a \in Arrays, arr[a].is_initialized,
         NEW len \in 0..arr[a].cap, arr' = [arr EXCEPT ![a].len = len],
         mem' \in [Pages -> Cells], use' = use, mailbox' = mailbox
  PROVE  ArraysInv'
<1>1. arr \in [Arrays -> Array] /\ arr[a] \in Array
  BY DEF ArraysInv, ArraysType
<1>2. len \in 0..MaxElems
  BY <1>1 DEF Array, ArrayAssumptions, Boxes!SizeAssumption
<1>3. /\ arr' \in [Arrays -> Array] /\ arr'[a].len = len /\ arr'[a].cap = arr[a].cap
      /\ arr'[a].data = arr[a].data /\ arr'[a].header = arr[a].header
      /\ arr'[a].is_initialized = arr[a].is_initialized
      /\ \A b \in Arrays \ {a} : arr'[b] = arr[b]
  BY <1>1, <1>2 DEF Array
<1>4. \A b \in Arrays : arr'[b].data = arr[b].data /\ arr'[b].header = arr[b].header
  BY <1>3
<1>5. ArraysType'
  BY <1>3 DEF ArraysInv, ArraysType
<1>6. ShapeInv'
  <2> SUFFICES ASSUME NEW b \in Arrays
               PROVE  /\ arr'[b].len <= arr'[b].cap
                      /\ arr'[b].is_initialized <=> arr'[b].data # none
                      /\ ~arr'[b].is_initialized => arr'[b] = Boxes!NoArray
    BY DEF ShapeInv
  <2>1. CASE b = a
    <3>1. arr'[a].len <= arr'[a].cap
      BY <1>1, <1>3 DEF Array
    <3>2. arr[a].data # none
      BY DEF ArraysInv, ShapeInv
    <3> QED
      BY <1>3, <2>1, <3>1, <3>2, Zenon
  <2>2. CASE b # a
    BY <1>3, <2>2 DEF ArraysInv, ShapeInv
  <2> QED
    BY <2>1, <2>2
<1>7. OwnerInv'
  BY <1>4 DEF ArraysInv, OwnerInv
<1>8. MailboxInv'
  <2>1. a = mb => mailbox # none
    <3>1. arr[a] # Boxes!NoArray
      BY NoArrayType, Zenon
    <3> QED
      BY <3>1 DEF ArraysInv, MailboxInv
  <2> QED
    BY <1>3, <2>1 DEF ArraysInv, MailboxInv, ArrayAssumptions, Boxes!NameAssumption
<1> QED
  BY <1>5, <1>6, <1>7, <1>8 DEF ArraysInv

LEMMA InPlaceStep ==
  ASSUME ArrayAssumptions, ArraysInv, NEW a \in Arrays, NEW v \in Values, Boxes!PushInPlace(a, v)
  PROVE  ArraysInv'
<1>1. /\ arr[a].is_initialized /\ arr[a].len < arr[a].cap
      /\ arr' = [arr EXCEPT ![a].len = @ + 1]
      /\ mem' = [mem EXCEPT ![arr[a].data][arr[a].len + 1] = v]
      /\ use' = use /\ mailbox' = mailbox
  BY DEF Boxes!PushInPlace, Boxes!Push
<1>2. /\ arr \in [Arrays -> Array] /\ arr[a].len \in 0..MaxElems /\ arr[a].cap \in 0..MaxElems
      /\ mem \in [Pages -> Cells] /\ MaxElems \in Nat
  BY DEF ArraysInv, ArraysType, Array, ArrayAssumptions, Boxes!SizeAssumption
<1>3. mem' \in [Pages -> Cells]
  BY <1>1, <1>2 DEF Cells
<1>4. arr[a].len + 1 \in 0..arr[a].cap /\ arr' = [arr EXCEPT ![a].len = arr[a].len + 1]
  BY <1>1, <1>2
<1> QED
  BY <1>1, <1>3, <1>4, SamePage

LEMMA ClearStep ==
  ASSUME ArrayAssumptions, ArraysInv, NEW a \in Arrays, Boxes!dyn_array_clear(a)
  PROVE  ArraysInv'
<1>1. /\ arr[a].is_initialized /\ arr' = [arr EXCEPT ![a].len = 0]
      /\ mem' = mem /\ use' = use /\ mailbox' = mailbox
  BY DEF Boxes!dyn_array_clear
<1>2. mem' \in [Pages -> Cells] /\ 0 \in 0..arr[a].cap
  BY <1>1 DEF ArraysInv, ArraysType, Array, ArrayAssumptions, Boxes!SizeAssumption
<1> QED
  BY <1>1, <1>2, SamePage

\* What becomes of an array that grows.
LEMMA GrownArray ==
  ASSUME ArrayAssumptions, ArraysInv, NEW a \in Arrays, NEW p \in Boxes!Free,
         arr[a].is_initialized,
         arr[a].len = arr[a].cap, Boxes!Fits(2 * arr[a].cap),
         arr' = [arr EXCEPT ![a].data = p, ![a].cap = 2 * @, ![a].len = @ + 1]
  PROVE  /\ arr' \in [Arrays -> Array]
         /\ arr'[a].data = p /\ arr'[a].header = arr[a].header
         /\ arr'[a].len = arr[a].len + 1 /\ arr'[a].len <= arr'[a].cap
         /\ arr'[a].is_initialized = arr[a].is_initialized
         /\ \A b \in Arrays \ {a} : arr'[b] = arr[b]
<1>1. /\ arr \in [Arrays -> Array] /\ arr[a] \in Array /\ MaxElems \in Nat /\ p \in Pages
  BY DEF ArraysInv, ArraysType, ArrayAssumptions, Boxes!SizeAssumption, Boxes!Free
<1>2. /\ arr[a].len \in Nat /\ 2 * arr[a].cap \in 0..MaxElems /\ arr[a].len + 1 <= 2 * arr[a].cap
      /\ arr[a].len + 1 \in 0..MaxElems
  BY <1>1 DEF Array, Boxes!Fits
<1> DEFINE new == [arr[a] EXCEPT !.data = p, !.cap = 2 * arr[a].cap, !.len = arr[a].len + 1]
<1>3. arr' = [arr EXCEPT ![a] = new]
  BY <1>1 DEF Array
<1>4. /\ new \in Array /\ new.data = p /\ new.header = arr[a].header
      /\ new.len = arr[a].len + 1 /\ new.cap = 2 * arr[a].cap
      /\ new.is_initialized = arr[a].is_initialized
  BY <1>1, <1>2 DEF Array
<1> HIDE DEF new
<1>5. /\ arr' \in [Arrays -> Array] /\ arr'[a] = new
      /\ \A b \in Arrays \ {a} : arr'[b] = arr[b]
  <2>1. new \in Array /\ arr \in [Arrays -> Array]
    BY <1>1, <1>4
  <2> QED
    BY <1>3, <2>1
<1>6. new.len <= new.cap
  BY <1>2, <1>4
<1> QED
  BY <1>4, <1>5, <1>6, Zenon

LEMMA GrowStep ==
  ASSUME ArrayAssumptions, ArraysInv, NEW a \in Arrays, NEW v \in Values, Boxes!PushGrows(a, v)
  PROVE  ArraysInv'
<1>1. /\ arr[a].is_initialized /\ arr[a].len = arr[a].cap /\ Boxes!Fits(2 * arr[a].cap)
      /\ mailbox' = mailbox
  BY DEF Boxes!PushGrows
<1>2. PICK p \in Boxes!Free :
        /\ mem' = [mem EXCEPT ![p] = Boxes!Grown(a, p, v)]
        /\ use' = [use EXCEPT ![p] = "data", ![arr[a].data] = "free"]
        /\ arr' = [arr EXCEPT ![a].data = p, ![a].cap = 2 * @, ![a].len = @ + 1]
  BY DEF Boxes!PushGrows
<1>3. /\ none \notin Pages /\ mb \in Arrays /\ p \in Pages /\ use[p] = "free"
      /\ arr[a].data \in Pages /\ use[arr[a].data] = "data" /\ arr[a].data # none
      /\ arr[a].len \in 0..MaxElems /\ MaxElems \in Nat
      /\ mem \in [Pages -> Cells]
  BY <1>1 DEF ArrayAssumptions, Boxes!NameAssumption, Boxes!SizeAssumption, Boxes!Free, ArraysInv,
     ArraysType, ShapeInv,
              OwnerInv, Array
<1>4. /\ arr' \in [Arrays -> Array]
      /\ arr'[a].data = p /\ arr'[a].header = arr[a].header
      /\ arr'[a].len <= arr'[a].cap
      /\ arr'[a].is_initialized = arr[a].is_initialized
      /\ \A b \in Arrays \ {a} : arr'[b] = arr[b]
  BY <1>1, <1>2, GrownArray
<1>5. /\ use' \in [Pages -> {"free", "data", "header", "mailbox", "other"}]
      /\ \A x \in Pages : use'[x] = IF x = arr[a].data THEN "free" ELSE IF x = p THEN "data"
                                    ELSE use[x]
  BY <1>2, <1>3 DEF ArraysInv, ArraysType
<1>6. ArraysType'
  <2>1. Boxes!Grown(a, p, v) \in Cells
    BY <1>3 DEF Boxes!Grown, Cells
  <2> QED
    BY <1>1, <1>2, <1>3, <1>4, <1>5, <2>1 DEF ArraysInv, ArraysType
<1>7. ShapeInv'
  <2> SUFFICES ASSUME NEW b \in Arrays
               PROVE  /\ arr'[b].len <= arr'[b].cap
                      /\ arr'[b].is_initialized <=> arr'[b].data # none
                      /\ ~arr'[b].is_initialized => arr'[b] = Boxes!NoArray
    BY DEF ShapeInv
  <2>1. CASE b = a
    <3>1. p # none
      BY <1>3
    <3> QED
      BY <1>1, <1>4, <2>1, <3>1, Zenon
  <2>2. CASE b # a
    BY <1>4, <2>2 DEF ArraysInv, ShapeInv
  <2> QED
    BY <2>1, <2>2
<1>8. OwnerInv'
  <2>1. ASSUME NEW x \in Pages PROVE use'[x] = "data" <=> \E b \in Arrays : arr'[b].data = x
    <3>1. CASE x = p
      BY <1>3, <1>4, <1>5, <3>1
    <3>2. CASE x = arr[a].data
      <4>1. \A b \in Arrays : arr'[b].data # x
        BY <1>3, <1>4, <3>2 DEF ArraysInv, OwnerInv
      <4> QED
        BY <1>5, <3>2, <4>1
    <3>3. CASE x # p /\ x # arr[a].data
      <4>1. use'[x] = use[x]
        BY <1>5, <3>3
      <4>2. \A b \in Arrays : arr'[b].data = x <=> arr[b].data = x
        BY <1>4, <3>3
      <4> QED
        BY <4>1, <4>2 DEF ArraysInv, OwnerInv
    <3> QED
      BY <3>1, <3>2, <3>3
  <2>2. ASSUME NEW x \in Pages PROVE use'[x] = "header" <=> \E b \in Arrays : arr'[b].header = x
    <3>1. \A b \in Arrays : arr'[b].header = arr[b].header
      BY <1>4
    <3>2. use'[x] = "header" <=> use[x] = "header"
      BY <1>3, <1>5
    <3> QED
      BY <3>1, <3>2 DEF ArraysInv, OwnerInv
  <2>3. ASSUME NEW x \in Pages PROVE use'[x] = "mailbox" <=> x = mailbox'
    BY <1>1, <1>3, <1>5 DEF ArraysInv, OwnerInv
  <2>4. ASSUME NEW b \in Arrays, NEW c \in Arrays, arr'[b].data = arr'[c].data,
               arr'[b].data # none
        PROVE  b = c
    <3>1. \A d \in Arrays \ {a} : arr'[d].data # p
      BY <1>3, <1>4 DEF ArraysInv, OwnerInv
    <3> QED
      BY <1>4, <2>4, <3>1 DEF ArraysInv, OwnerInv
  <2>5. \A b, c \in Arrays : arr'[b].header = arr'[c].header /\ arr'[b].header # none => b = c
    <3>1. \A b \in Arrays : arr'[b].header = arr[b].header
      BY <1>4
    <3> QED
      BY <3>1 DEF ArraysInv, OwnerInv
  <2> QED
    BY <2>1, <2>2, <2>3, <2>4, <2>5 DEF OwnerInv
<1>9. MailboxInv'
  <2>1. a = mb => mailbox # none
    <3>1. arr[a] # Boxes!NoArray
      BY <1>1, NoArrayType, Zenon
    <3> QED
      BY <3>1 DEF ArraysInv, MailboxInv
  <2> QED
    BY <1>1, <1>3, <1>4, <2>1 DEF ArraysInv, MailboxInv
<1> QED
  BY <1>6, <1>7, <1>8, <1>9 DEF ArraysInv

\* The rest of the kernel only touches pages of its own.
LEMMA OtherStep ==
  ASSUME ArrayAssumptions, ArraysInv, Boxes!Other
  PROVE  ArraysInv'
<1>1. PICK p \in Pages :
        /\ use[p] \in {"free", "other"}
        /\ use' = [use EXCEPT ![p] = IF @ = "free" THEN "other" ELSE "free"]
        /\ mem' = [mem EXCEPT ![p] = [i \in 1..MaxElems |-> Junk]]
  BY DEF Boxes!Other
<1>2. arr' = arr /\ mailbox' = mailbox
  BY DEF Boxes!Other
<1>3. /\ use' \in [Pages -> {"free", "data", "header", "mailbox", "other"}]
      /\ use'[p] \in {"free", "other"} /\ \A x \in Pages \ {p} : use'[x] = use[x]
  BY <1>1 DEF ArraysInv, ArraysType
<1>4. ArraysType'
  BY <1>1, <1>2, <1>3 DEF ArraysInv, ArraysType, Cells
<1>5. ShapeInv' /\ MailboxInv'
  BY <1>2 DEF ArraysInv, ShapeInv, MailboxInv
<1>6. OwnerInv'
  <2>1. \A x \in Pages, u \in {"data", "header", "mailbox"} : use'[x] = u <=> use[x] = u
    BY <1>1, <1>3
  <2> QED
    BY <1>2, <2>1 DEF ArraysInv, OwnerInv
<1> QED
  BY <1>4, <1>5, <1>6 DEF ArraysInv

-----------------------------------------------------------------------------
LEMMA ArraysKept == ArrayAssumptions /\ ArraysInv /\ [Boxes!Next]_(Boxes!vars) => ArraysInv'
<1> SUFFICES ASSUME ArrayAssumptions, ArraysInv, [Boxes!Next]_(Boxes!vars) PROVE ArraysInv'
  OBVIOUS
<1>1. CASE Boxes!make_mailbox
  BY <1>1, MailboxStep
<1>2. CASE Boxes!Other
  BY <1>2, OtherStep
<1>3. ASSUME NEW a \in Arrays, Boxes!Call(a, Values) PROVE ArraysInv'
  BY <1>3, InitStep, MakeStep, FreeStep, ClearStep, InPlaceStep, GrowStep
  DEF Boxes!Call, Boxes!dyn_array_push
<1>4. CASE UNCHANGED Boxes!vars
  BY <1>4 DEF Boxes!vars, ArraysInv, ArraysType, ShapeInv, OwnerInv, MailboxInv
<1> QED
  BY <1>1, <1>2, <1>3, <1>4 DEF Boxes!Next, Boxes!NextOf

\* One owner, counted.
LEMMA OneOwner ==
  ASSUME NEW S
  PROVE  /\ (\E a \in S : S = {a}) => Cardinality(S) = 1
         /\ S = {} => Cardinality(S) = 0
BY FS_Singleton, FS_EmptySet

LEMMA ArraysHold == ArrayAssumptions /\ ArraysInv => Boxes!ArraysAreSound
<1> SUFFICES ASSUME ArrayAssumptions, ArraysInv PROVE Boxes!TypeOK /\ Boxes!PagesHaveOneOwner
  BY DEF Boxes!ArraysAreSound
<1>1. none \notin Pages /\ MaxElems \in Nat
  BY DEF ArrayAssumptions, Boxes!NameAssumption, Boxes!SizeAssumption
<1>2. Boxes!TypeOK
  <2>1. ASSUME NEW a \in Arrays
        PROVE  /\ arr[a].data \in Pages \cup {none} /\ arr[a].header \in Pages \cup {none}
               /\ arr[a].cap \in 0..MaxElems /\ arr[a].len \in 0..arr[a].cap
               /\ arr[a].is_initialized = (arr[a].data # none)
    <3>1. /\ arr[a].data \in Pages \cup {none} /\ arr[a].header \in Pages \cup {none}
          /\ arr[a].cap \in 0..MaxElems /\ arr[a].len \in 0..arr[a].cap
      BY <1>1 DEF ArraysInv, ArraysType, ShapeInv, Array
    <3>2. arr[a].is_initialized \in BOOLEAN /\ (arr[a].is_initialized <=> arr[a].data # none)
      BY DEF ArraysInv, ArraysType, ShapeInv, Array
    <3>3. arr[a].is_initialized = (arr[a].data # none)
      BY <3>2, Zenon
    <3> QED
      BY <3>1, <3>3, Zenon
  <2> QED
    BY <2>1 DEF Boxes!TypeOK, ArraysInv, ArraysType, Cells
<1>3. ASSUME NEW p \in Pages
      PROVE  /\ use[p] = "data"   <=> Cardinality({a \in Arrays : arr[a].data = p}) = 1
             /\ use[p] = "header" <=> Cardinality({a \in Arrays : arr[a].header = p}) = 1
  <2> DEFINE D == {a \in Arrays : arr[a].data = p}
             H == {a \in Arrays : arr[a].header = p}
  <2>1. /\ use[p] = "data"   => \E a \in D : D = {a}
        /\ use[p] # "data"   => D = {}
    BY <1>1 DEF ArraysInv, OwnerInv
  <2>2. /\ use[p] = "header" => \E a \in H : H = {a}
        /\ use[p] # "header" => H = {}
    BY <1>1 DEF ArraysInv, OwnerInv
  <2> HIDE DEF D, H
  <2>3. use[p] = "data" <=> Cardinality(D) = 1
    BY <2>1, OneOwner
  <2>4. use[p] = "header" <=> Cardinality(H) = 1
    BY <2>2, OneOwner
  <2> QED
    BY <2>3, <2>4 DEF D, H
<1>4. \A p \in Pages : use[p] = "mailbox" <=> p = mailbox
  BY DEF ArraysInv, OwnerInv
<1> QED
  BY <1>2, <1>3, <1>4, SameSize DEF Boxes!PagesHaveOneOwner

-----------------------------------------------------------------------------
(***************************************************************************)
(* The arrays are sequences.                                               *)
(***************************************************************************)
\* The values of an array that is set up, and of one that is not.
LEMMA ContentsFacts ==
  ASSUME ArrayAssumptions, ArraysInv, NEW a \in Arrays
  PROVE  /\ Boxes!Contents(a) \in Seq(Values \cup {Junk})
         /\ Len(Boxes!Contents(a)) = arr[a].len /\ arr[a].len \in 0..MaxElems /\ MaxElems \in Nat
         /\ \A i \in 1..arr[a].len : Boxes!Contents(a)[i] = mem[arr[a].data][i]
<1>1. /\ arr[a].len \in Nat /\ arr[a].len \in 0..MaxElems /\ MaxElems \in Nat
      /\ arr[a].len <= arr[a].cap /\ arr[a].cap \in 0..MaxElems
  BY DEF ArraysInv, ArraysType, ShapeInv, Array, ArrayAssumptions, Boxes!SizeAssumption
<1>2. arr[a].len # 0 => arr[a].data \in Pages
  <2>1. ~arr[a].is_initialized => arr[a].len = 0
    BY NoArrayType DEF ArraysInv, ShapeInv
  <2> QED
    BY <2>1 DEF ArraysInv, ArraysType, ShapeInv, Array
<1>3. ASSUME NEW i \in 1..arr[a].len
      PROVE  /\ Boxes!dyn_array_get(a, i - 1) = mem[arr[a].data][i]
             /\ Boxes!dyn_array_get(a, i - 1) \in Values \cup {Junk}
  <2>1. i - 1 < arr[a].len /\ (i - 1) + 1 = i /\ i \in 1..MaxElems /\ arr[a].data \in Pages
    BY <1>1, <1>2
  <2>2. Boxes!dyn_array_get(a, i - 1) = mem[arr[a].data][i]
    BY <2>1 DEF Boxes!dyn_array_get
  <2>3. mem[arr[a].data][i] \in Values \cup {Junk}
    BY <2>1 DEF ArraysInv, ArraysType, Cells
  <2> QED
    BY <2>2, <2>3
<1>4. Boxes!Contents(a) \in [1..arr[a].len -> Values \cup {Junk}]
  BY <1>3 DEF Boxes!Contents
<1> QED
  BY <1>1, <1>3, <1>4 DEF Boxes!Contents

-----------------------------------------------------------------------------
LEMMA InitRefines == ArrayAssumptions /\ Boxes!Init => Boxes!Vector!Init
<1> SUFFICES ASSUME ArrayAssumptions, Boxes!Init PROVE Boxes!Vector!Init
  OBVIOUS
<1>1. \A a \in Arrays : arr[a].len = 0 /\ arr[a].is_initialized = FALSE
  BY NoArrayType DEF Boxes!Init
<1>2. \A a \in Arrays : Boxes!Contents(a) = <<>>
  BY <1>1 DEF Boxes!Contents
<1>3. Boxes!made = {}
  BY <1>1, Zenon DEF Boxes!made
<1> QED
  BY <1>2, <1>3 DEF Boxes!Vector!Init, Boxes!vector

\* An array that a call does not touch keeps its values.
LEMMA Kept ==
  ASSUME ArrayAssumptions, ArraysInv, ArraysInv', NEW b \in Arrays, arr'[b] = arr[b],
         arr[b].data \in Pages => mem'[arr[b].data] = mem[arr[b].data]
  PROVE  Boxes!Contents(b)' = Boxes!Contents(b)
<1>1. arr[b].len = 0 \/ arr[b].data \in Pages
  <2>1. ~arr[b].is_initialized => arr[b].len = 0
    BY NoArrayType DEF ArraysInv, ShapeInv
  <2> QED
    BY <2>1 DEF ArraysInv, ArraysType, ShapeInv, Array
<1>2. /\ arr[b].len \in Nat
      /\ \A i \in 1..arr[b].len : Boxes!dyn_array_get(b, i - 1)' = Boxes!dyn_array_get(b, i - 1)
  BY <1>1 DEF Boxes!dyn_array_get, ArraysInv, ArraysType, Array
<1> QED
  BY <1>2 DEF Boxes!Contents

\* Made anew, or emptied.
LEMMA EmptyRefines ==
  ASSUME ArrayAssumptions, ArraysInv, ArraysInv', NEW a \in Arrays, arr'[a].len = 0,
         \A b \in Arrays \ {a} : arr'[b] = arr[b], mem' = mem
  PROVE  Boxes!Vector!Make(a) \/ Boxes!Vector!Free(a)
<1>1. Boxes!Contents(a)' = <<>>
  BY DEF Boxes!Contents
<1>2. \A b \in Arrays \ {a} : Boxes!Contents(b)' = Boxes!Contents(b)
  BY Kept
<1>3. Boxes!vector' = [Boxes!vector EXCEPT ![a] = <<>>]
  BY <1>1, <1>2 DEF Boxes!vector
<1>4. Boxes!made' = Boxes!made \cup {a} \/ Boxes!made' = Boxes!made \ {a}
  <2>1. \A b \in Arrays \ {a} : arr'[b].is_initialized <=> arr[b].is_initialized
    OBVIOUS
  <2>2. CASE arr'[a].is_initialized
    BY <2>1, <2>2 DEF Boxes!made
  <2>3. CASE ~arr'[a].is_initialized
    BY <2>1, <2>3 DEF Boxes!made
  <2> QED
    BY <2>2, <2>3
<1> QED
  BY <1>3, <1>4 DEF Boxes!Vector!Make, Boxes!Vector!Free

\* A value is pushed, and the others are where they were, also on a new page.
LEMMA PushRefines ==
  ASSUME ArrayAssumptions, ArraysInv, ArraysInv', NEW a \in Arrays, NEW v \in Values,
         arr[a].is_initialized, arr'[a].is_initialized = arr[a].is_initialized,
         arr'[a].len = arr[a].len + 1,
         \A b \in Arrays \ {a} : arr'[b] = arr[b],
         \A b \in Arrays \ {a} : arr[b].data \in Pages => mem'[arr[b].data] = mem[arr[b].data],
         \A i \in 1..arr[a].len : mem'[arr'[a].data][i] = mem[arr[a].data][i],
         mem'[arr'[a].data][arr[a].len + 1] = v
  PROVE  Boxes!Vector!Push(a, v)
<1>1. /\ Boxes!Contents(a) \in Seq(Values \cup {Junk}) /\ Len(Boxes!Contents(a)) = arr[a].len
      /\ arr[a].len \in Nat /\ MaxElems \in Nat
      /\ \A i \in 1..arr[a].len : Boxes!Contents(a)[i] = mem[arr[a].data][i]
  BY ContentsFacts
<1>2. /\ Boxes!Contents(a)' \in Seq(Values \cup {Junk}) /\ Len(Boxes!Contents(a)') = arr'[a].len
      /\ arr'[a].len \in 0..MaxElems
      /\ \A i \in 1..arr'[a].len : Boxes!Contents(a)'[i] = mem'[arr'[a].data][i]
  <2>1. arr'[a].len \in Nat /\ arr'[a].len \in 0..MaxElems
    BY <1>1 DEF ArraysInv, ArraysType, Array
  <2>2. ASSUME NEW i \in 1..arr'[a].len
        PROVE  /\ Boxes!dyn_array_get(a, i - 1)' = mem'[arr'[a].data][i]
               /\ mem'[arr'[a].data][i] \in Values \cup {Junk}
    <3>1. Boxes!dyn_array_get(a, i - 1)' = mem'[arr'[a].data][i]
      <4>1. i - 1 < arr'[a].len /\ (i - 1) + 1 = i
        BY <2>1
      <4> QED
        BY <4>1 DEF Boxes!dyn_array_get
    <3>2. CASE i \in 1..arr[a].len
      <4>1. Boxes!Contents(a)[i] \in Values \cup {Junk}
        BY <1>1, <3>2
      <4> QED
        BY <1>1, <3>1, <3>2, <4>1
    <3>3. CASE i = arr[a].len + 1
      BY <3>1, <3>3
    <3> QED
      BY <1>1, <3>2, <3>3
  <2>3. /\ Boxes!Contents(a)' = [i \in 1..arr'[a].len |-> Boxes!dyn_array_get(a, i - 1)']
        /\ \A i \in 1..arr'[a].len : Boxes!dyn_array_get(a, i - 1)' \in Values \cup {Junk}
    BY <2>2 DEF Boxes!Contents
  <2>4. Boxes!Contents(a)' \in [1..arr'[a].len -> Values \cup {Junk}]
    BY <2>3
  <2> QED
    BY <2>1, <2>2, <2>3, <2>4
<1>3. Boxes!Contents(a)' = Append(Boxes!Contents(a), v)
  <2> DEFINE s == Boxes!Contents(a)
             t == Boxes!Contents(a)'
  <2>1. /\ Append(s, v) \in Seq(Values \cup {Junk}) /\ Len(Append(s, v)) = Len(s) + 1
        /\ \A i \in 1..Len(s) : Append(s, v)[i] = s[i]
        /\ Append(s, v)[Len(s) + 1] = v
    BY <1>1, AppendProperties
  <2>2. Len(t) = Len(Append(s, v))
    BY <1>1, <1>2, <2>1
  <2>3. \A i \in 1..Len(t) : t[i] = Append(s, v)[i]
    BY <1>1, <1>2, <2>1
  <2> HIDE DEF s, t
  <2> QED
    BY <1>2, <2>1, <2>2, <2>3, SeqEqual DEF s, t
<1>4. \A b \in Arrays \ {a} : Boxes!Contents(b)' = Boxes!Contents(b)
  BY Kept
<1>5. Boxes!vector' = [Boxes!vector EXCEPT ![a] = Append(@, v)]
  BY <1>3, <1>4 DEF Boxes!vector
<1>6. Boxes!made' = Boxes!made /\ a \in Boxes!made
  BY Zenon DEF Boxes!made
<1>7. Len(Boxes!vector[a]) < MaxElems
  BY <1>1, <1>2 DEF Boxes!vector
<1> QED
  BY <1>5, <1>6, <1>7 DEF Boxes!Vector!Push

LEMMA StepRefines ==
  ArrayAssumptions /\ ArraysInv /\ ArraysInv' /\ [Boxes!Next]_(Boxes!vars) => Boxes!Vector!Step
<1> SUFFICES ASSUME ArrayAssumptions, ArraysInv, ArraysInv', [Boxes!Next]_(Boxes!vars)
             PROVE  Boxes!Vector!Step
  OBVIOUS
<1>1. ASSUME NEW a \in Arrays, arr'[a].len = 0, mem' = mem,
             \A b \in Arrays \ {a} : arr'[b] = arr[b]
      PROVE  Boxes!Vector!Step
  BY <1>1, EmptyRefines DEF Boxes!Vector!Step, Boxes!Vector!Next
<1>2. arr \in [Arrays -> Array] /\ mb \in Arrays
  BY DEF ArraysInv, ArraysType, ArrayAssumptions, Boxes!NameAssumption
<1>3. CASE Boxes!make_mailbox
  <2>1. arr'[mb].len = 0 /\ (\A b \in Arrays \ {mb} : arr'[b] = arr[b]) /\ mem' = mem
    BY <1>2, <1>3 DEF Boxes!make_mailbox, Boxes!Made
  <2> QED
    BY <1>1, <1>2, <2>1
<1>4. CASE Boxes!Other
  <2>1. PICK p \in Pages : use[p] \in {"free", "other"}
                           /\ mem' = [mem EXCEPT ![p] = [i \in 1..MaxElems |-> Junk]]
    BY <1>4 DEF Boxes!Other
  <2>2. arr' = arr
    BY <1>4 DEF Boxes!Other
  <2>3. \A b \in Arrays : arr[b].data \in Pages => mem'[arr[b].data] = mem[arr[b].data]
    BY <2>1 DEF ArraysInv, ArraysType, OwnerInv
  <2>4. \A b \in Arrays : Boxes!Contents(b)' = Boxes!Contents(b)
    BY <2>2, <2>3, Kept
  <2> QED
    BY <2>2, <2>4 DEF Boxes!Vector!Step, Boxes!vector, Boxes!made
<1>5. ASSUME NEW a \in Arrays, Boxes!Call(a, Values) PROVE Boxes!Vector!Step
  <2>1. ASSUME NEW cap \in Caps, Boxes!dyn_array_init(a, cap) \/ Boxes!make_dyn_array(a, cap)
        PROVE  Boxes!Vector!Step
    <3>1. arr'[a].len = 0 /\ (\A b \in Arrays \ {a} : arr'[b] = arr[b]) /\ mem' = mem
      BY <1>2, <2>1 DEF Boxes!dyn_array_init, Boxes!make_dyn_array, Boxes!Made
    <3> QED
      BY <1>1, <3>1
  <2>2. CASE Boxes!dyn_array_free(a)
    <3>1. arr'[a].len = 0 /\ (\A b \in Arrays \ {a} : arr'[b] = arr[b]) /\ mem' = mem
      BY <1>2, <2>2, NoArrayType DEF Boxes!dyn_array_free
    <3> QED
      BY <1>1, <3>1
  <2>3. CASE Boxes!dyn_array_clear(a)
    <3>1. arr'[a].len = 0 /\ (\A b \in Arrays \ {a} : arr'[b] = arr[b]) /\ mem' = mem
      BY <1>2, <2>3 DEF Boxes!dyn_array_clear, Array
    <3> QED
      BY <1>1, <3>1
  <2>4. ASSUME NEW v \in Values, Boxes!PushInPlace(a, v) PROVE Boxes!Vector!Push(a, v)
    <3>1. /\ arr[a].is_initialized /\ arr[a].len < arr[a].cap
          /\ arr' = [arr EXCEPT ![a].len = @ + 1]
          /\ mem' = [mem EXCEPT ![arr[a].data][arr[a].len + 1] = v]
      BY <2>4 DEF Boxes!PushInPlace, Boxes!Push
    <3>2. /\ arr[a].data \in Pages /\ mem \in [Pages -> Cells]
          /\ arr[a].len \in Nat /\ arr[a].len + 1 \in 1..MaxElems /\ MaxElems \in Nat
      BY <3>1 DEF ArraysInv, ArraysType, ShapeInv, Array, ArrayAssumptions, Boxes!SizeAssumption
    <3>3. /\ arr'[a].len = arr[a].len + 1 /\ arr'[a].data = arr[a].data
          /\ arr'[a].is_initialized = arr[a].is_initialized
          /\ \A b \in Arrays \ {a} : arr'[b] = arr[b]
      BY <1>2, <3>1 DEF Array
    <3>4. /\ \A x \in Pages \ {arr[a].data} : mem'[x] = mem[x]
          /\ mem'[arr[a].data] = [mem[arr[a].data] EXCEPT ![arr[a].len + 1] = v]
      BY <3>1, <3>2
    <3>5. \A b \in Arrays \ {a} : arr[b].data \in Pages => mem'[arr[b].data] = mem[arr[b].data]
      <4>1. \A b \in Arrays \ {a} : arr[b].data # none => arr[b].data # arr[a].data
        BY DEF ArraysInv, OwnerInv
      <4> QED
        BY <3>4, <4>1 DEF ArrayAssumptions, Boxes!NameAssumption
    <3>6. /\ \A i \in 1..arr[a].len : mem'[arr'[a].data][i] = mem[arr[a].data][i]
          /\ mem'[arr'[a].data][arr[a].len + 1] = v
      <4>1. mem[arr[a].data] \in [1..MaxElems -> Values \cup {Junk}]
        BY <3>2 DEF Cells
      <4>2. mem'[arr'[a].data] = [mem[arr[a].data] EXCEPT ![arr[a].len + 1] = v]
        BY <3>3, <3>4
      <4>3. \A i \in 1..arr[a].len : i \in 1..MaxElems /\ i # arr[a].len + 1
        BY <3>2
      <4> QED
        BY <3>2, <4>1, <4>2, <4>3
    <3> QED
      BY <3>1, <3>3, <3>5, <3>6, PushRefines
  <2>5. ASSUME NEW v \in Values, Boxes!PushGrows(a, v) PROVE Boxes!Vector!Push(a, v)
    <3>1. PICK p \in Boxes!Free :
            /\ mem' = [mem EXCEPT ![p] = Boxes!Grown(a, p, v)]
            /\ arr' = [arr EXCEPT ![a].data = p, ![a].cap = 2 * @, ![a].len = @ + 1]
      BY <2>5 DEF Boxes!PushGrows
    <3>2. arr[a].is_initialized /\ arr[a].len = arr[a].cap /\ Boxes!Fits(2 * arr[a].cap)
      BY <2>5 DEF Boxes!PushGrows
    <3>3. /\ arr'[a].len = arr[a].len + 1 /\ arr'[a].data = p /\ arr'[a].len <= arr'[a].cap
          /\ arr'[a].is_initialized = arr[a].is_initialized
          /\ \A b \in Arrays \ {a} : arr'[b] = arr[b]
      BY <3>1, <3>2, GrownArray
    <3>4. /\ p \in Pages /\ use[p] = "free" /\ mem \in [Pages -> Cells] /\ MaxElems \in Nat
          /\ arr[a].len \in Nat /\ arr[a].len + 1 \in 1..MaxElems
      <4>1. arr'[a].len \in 0..MaxElems /\ arr[a].len \in Nat /\ MaxElems \in Nat
        BY DEF ArraysInv, ArraysType, Array, ArrayAssumptions, Boxes!SizeAssumption
      <4> QED
        BY <3>3, <4>1 DEF ArraysInv, ArraysType, Boxes!Free
    <3>5. \A b \in Arrays \ {a} : arr[b].data \in Pages => mem'[arr[b].data] = mem[arr[b].data]
      BY <3>1, <3>4 DEF ArraysInv, OwnerInv
    <3>6. /\ \A i \in 1..arr[a].len : mem'[arr'[a].data][i] = mem[arr[a].data][i]
          /\ mem'[arr'[a].data][arr[a].len + 1] = v
      <4>1. mem'[p] = Boxes!Grown(a, p, v)
        BY <3>1, <3>4
      <4> QED
        BY <3>3, <3>4, <4>1 DEF Boxes!Grown
    <3> QED
      BY <3>2, <3>3, <3>5, <3>6, PushRefines
  <2> QED
    BY <1>5, <2>1, <2>2, <2>3, <2>4, <2>5 DEF Boxes!Call, Boxes!dyn_array_push, Boxes!Vector!Step,
       Boxes!Vector!Next
<1>6. CASE UNCHANGED Boxes!vars
  <2>1. arr' = arr /\ mem' = mem
    BY <1>6 DEF Boxes!vars
  <2>2. \A b \in Arrays : Boxes!Contents(b)' = Boxes!Contents(b)
    BY <2>1, Kept
  <2> QED
    BY <2>1, <2>2 DEF Boxes!Vector!Step, Boxes!vector, Boxes!made
<1> QED
  BY <1>3, <1>4, <1>5, <1>6 DEF Boxes!Next, Boxes!NextOf

-----------------------------------------------------------------------------
\* Every page belongs to one structure or is free: growing neither leaks a page nor frees one
\* twice, and an array's length stays within its capacity.
THEOREM ArraysCorrect == ArrayAssumptions => (Boxes!Spec => []Boxes!ArraysAreSound)
<1> SUFFICES ASSUME ArrayAssumptions PROVE Boxes!Spec => []Boxes!ArraysAreSound
  OBVIOUS
<1>1. Boxes!Init => ArraysInv
  BY ArraysStart
<1>2. ArraysInv /\ [Boxes!Next]_(Boxes!vars) => ArraysInv'
  BY ArraysKept
<1>3. ArraysInv => Boxes!ArraysAreSound
  BY ArraysHold
<1> QED
  BY <1>1, <1>2, <1>3, PTL DEF Boxes!Spec

\* The arrays are sequences that keep what was pushed, in order, whatever becomes of the
\* pages they once had.
THEOREM VectorsRefined == ArrayAssumptions => (Boxes!Spec => Boxes!ImplementsAbstractVectors)
<1> SUFFICES ASSUME ArrayAssumptions PROVE Boxes!Spec => Boxes!ImplementsAbstractVectors
  OBVIOUS
<1>1. Boxes!Init => ArraysInv
  BY ArraysStart
<1>2. ArraysInv /\ [Boxes!Next]_(Boxes!vars) => ArraysInv'
  BY ArraysKept
<1>3. Boxes!Init => Boxes!Vector!Init
  BY InitRefines
<1>4. ArraysInv /\ ArraysInv' /\ [Boxes!Next]_(Boxes!vars)
        => [Boxes!Vector!Next]_<<Boxes!made, Boxes!vector>>
  BY StepRefines DEF Boxes!Vector!Step
<1> QED
  BY <1>1, <1>2, <1>3, <1>4, PTL DEF Boxes!Spec, Boxes!ImplementsAbstractVectors,
     Boxes!Vector!Spec

-----------------------------------------------------------------------------
(***************************************************************************)
(* The set-up of a GPU.                                                    *)
(***************************************************************************)
Queues == [free_map : SUBSET Gpu!Descriptors,
           next : [Gpu!Descriptors -> Gpu!Descriptors \cup {Gpu!None}],
           addr : [Gpu!Descriptors -> 1..6 \cup {Gpu!None}],
           avail : Gpu!Ring, used : Gpu!Ring, last_used_idx : 0..(WRAP - 1)]
Names == {Gpu!Commands[i] : i \in 1..6}

GpuType ==
  /\ Gpu!TypeOK
  /\ dev \in [seen : 0..(WRAP - 1), at : {"idle", "work", "ring", "index"},
              chain : Gpu!Descriptors \cup {Gpu!None}, done : Seq(Names)]

\* The device has answered everything, and its answers have been read.
Quiet ==
  /\ dev.at = "idle" /\ dev.seen = q.avail.idx
  /\ q.used.idx = q.avail.idx /\ q.last_used_idx = q.avail.idx

\* The command's chain is taken; that of the first command has a second descriptor.
Chained ==
  /\ head \in Gpu!Descriptors /\ q.addr[head] = cmd
  /\ q.free_map = Gpu!Descriptors \ Gpu!Chain(q.next, head)
  /\ q.next[head] # Gpu!None <=> cmd = 1

\* The device before, at and after the command that the driver waits for.
Coming == dev.at = "idle" /\ dev.seen = q.last_used_idx /\ q.used.idx = q.last_used_idx
Worked ==
  /\ dev.at # "idle" /\ dev.seen = q.avail.idx /\ dev.chain = head
  /\ q.used.idx = q.last_used_idx
  /\ dev.at = "index" => q.used.ring[q.used.idx % GPUQ_SZ] = head
Gone ==
  /\ dev.at = "idle" /\ dev.seen = q.avail.idx /\ q.used.idx = q.avail.idx
  /\ q.used.ring[q.last_used_idx % GPUQ_SZ] = head

Phase ==
  /\ step \notin {"offer", "wait"} => Quiet
  /\ step \in {"send", "answered", "ready"} => q.free_map = Gpu!Descriptors
  /\ step = "offer" => Quiet /\ Chained /\ q.avail.ring[q.avail.idx % GPUQ_SZ] = head
  /\ step = "wait" => /\ Chained /\ q.avail.idx = (q.last_used_idx + 1) % WRAP
                      /\ q.avail.ring[q.last_used_idx % GPUQ_SZ] = head
                      /\ Coming \/ Worked \/ Gone

\* How many commands the device has done.
Progress ==
  CASE step \in {"answered", "ready", "panic"} -> cmd
    [] step = "wait" /\ (dev.at \in {"ring", "index"} \/ q.used.idx # q.last_used_idx) -> cmd
    [] OTHER -> cmd - 1

DoneInv ==
  /\ Len(dev.done) = Progress
  /\ \A i \in 1..Len(dev.done) : dev.done[i] = Gpu!Commands[i]

AnswerInv ==
  /\ Len(dev.done) > 0 => resp # Gpu!Unread
  /\ cmd > 1 => pages = IF resp = 0 THEN Gpu!Default ELSE resp
  /\ step = "ready" => cmd = 6
  /\ step \in {"init", "failed"} => cmd = 1

GpuInv == GpuType /\ Phase /\ DoneInv /\ AnswerInv

-----------------------------------------------------------------------------
LEMMA IndexIs ==
  ASSUME Gpu!SizeAssumption, NEW i \in 0..(WRAP - 1)
  PROVE  /\ (i + 1) % WRAP \in 0..(WRAP - 1) /\ (i + 1) % WRAP # i
         /\ i % GPUQ_SZ \in Gpu!Descriptors
<1>1. PICK w \in Nat, count \in Nat : w = WRAP /\ count = GPUQ_SZ /\ count > 1 /\ w > count
  BY DEF Gpu!SizeAssumption
<1>2. i + 1 \in 0..w /\ i \in 0..(w - 1)
  BY <1>1
<1>3. (i + 1) % w = IF i + 1 = w THEN 0 ELSE i + 1
  BY <1>1, <1>2
<1>4. i % count \in 0..(count - 1)
  BY <1>1, <1>2
<1> QED
  BY <1>1, <1>2, <1>3, <1>4 DEF Gpu!Descriptors

LEMMA CommandsAre ==
  /\ Len(Gpu!Commands) = 6 /\ Gpu!Commands \in [1..6 -> Names]
  /\ \A i \in 1..6 : /\ Gpu!Answered(Gpu!Commands[i]) <=> i = 1
                     /\ Gpu!Commands[i] = "RESOURCE_CREATE_2D" <=> i = 2
<1>1. Len(Gpu!Commands) = 6 /\ DOMAIN Gpu!Commands = 1..6
  BY DEF Gpu!Commands
<1>2. \A i \in 1..6 : /\ Gpu!Commands[i] = "GET_DISPLAY_INFO" <=> i = 1
                      /\ Gpu!Commands[i] = "RESOURCE_CREATE_2D" <=> i = 2
  BY DEF Gpu!Commands
<1>3. Gpu!Commands \in [1..6 -> Names]
  BY <1>1 DEF Names, Gpu!Commands
<1> QED
  BY <1>1, <1>2, <1>3 DEF Gpu!Answered

\* Of all the descriptors the first two are taken.
LEMMA FirstTwo ==
  ASSUME Gpu!SizeAssumption
  PROVE  /\ Gpu!Lowest(Gpu!Descriptors) = 0 /\ Gpu!Lowest(Gpu!Descriptors \ {0}) = 1
         /\ 0 \in Gpu!Descriptors /\ 1 \in Gpu!Descriptors /\ Cardinality(Gpu!Descriptors) >= 2
         /\ Gpu!None \notin Gpu!Descriptors
<1>1. PICK count \in Nat : count = GPUQ_SZ /\ count > 1
  BY DEF Gpu!SizeAssumption
<1>2. Gpu!Descriptors = 0..(count - 1)
  BY <1>1 DEF Gpu!Descriptors
<1>3. Cardinality(0..(count - 1)) = count
  BY <1>1, FS_Interval
<1>4. ASSUME NEW x \in Gpu!Descriptors, \A e \in Gpu!Descriptors : x <= e PROVE x = 0
  BY <1>1, <1>2, <1>4
<1>5. ASSUME NEW x \in Gpu!Descriptors \ {0}, \A e \in Gpu!Descriptors \ {0} : x <= e PROVE x = 1
  BY <1>1, <1>2, <1>5
<1>6. /\ 0 \in Gpu!Descriptors /\ \A e \in Gpu!Descriptors : 0 <= e
      /\ 1 \in Gpu!Descriptors \ {0} /\ \A e \in Gpu!Descriptors \ {0} : 1 <= e
  BY <1>1, <1>2
<1>7. Gpu!Lowest(Gpu!Descriptors) = 0 /\ Gpu!Lowest(Gpu!Descriptors \ {0}) = 1
  BY <1>4, <1>5, <1>6 DEF Gpu!Lowest
<1> QED
  BY <1>1, <1>2, <1>3, <1>6, <1>7 DEF Gpu!None

LEMMA GpuInit == ASSUME Gpu!SizeAssumption, Gpu!Init PROVE GpuInv
<1>1. PICK count \in Nat, w \in Nat : count = GPUQ_SZ /\ count > 1 /\ w = WRAP /\ w > count
  BY DEF Gpu!SizeAssumption
<1>2. 0 \in 0..(WRAP - 1) /\ 0 \in Gpu!Descriptors
  BY <1>1 DEF Gpu!Descriptors
<1>3. q \in Queues
  BY <1>2 DEF Gpu!Init, Queues, Gpu!Ring
<1>4. dev.done = <<>> /\ dev.done \in Seq(Names) /\ Len(dev.done) = 0
  BY DEF Gpu!Init
<1>5. GpuType
  BY <1>2, <1>3, <1>4, CommandsAre DEF Gpu!Init, GpuType, Gpu!TypeOK, Queues
<1> QED
  BY <1>4, <1>5 DEF Gpu!Init, GpuInv, Phase, Quiet, DoneInv, Progress, AnswerInv

\* What the invariant says of types, without the records.
LEMMA TypeIs ==
  ASSUME Gpu!SizeAssumption
  PROVE  Gpu!TypeOK <=> /\ q \in Queues
                        /\ dev.at \in {"idle", "work", "ring", "index"}
                        /\ dev.seen \in 0..(WRAP - 1)
                        /\ dev.chain \in Gpu!Descriptors \cup {Gpu!None}
                        /\ isr \in BOOLEAN
                        /\ step \in {"init", "failed", "panic", "send", "offer", "wait",
                                     "answered", "ready"}
                        /\ cmd \in 1..6 /\ head \in Gpu!Descriptors \cup {Gpu!None}
                        /\ resp \in Displays \cup {0, Gpu!Unread}
                        /\ pages \in Displays \cup {0, Gpu!Default}
                        /\ attach_sz \in Nat
BY CommandsAre DEF Gpu!TypeOK, Queues

LEMMA TypeNext ==
  ASSUME Gpu!SizeAssumption, q' \in Queues, isr' \in BOOLEAN,
         dev' \in [seen : 0..(WRAP - 1), at : {"idle", "work", "ring", "index"},
                   chain : Gpu!Descriptors \cup {Gpu!None}, done : Seq(Names)],
         step' \in {"init", "failed", "panic", "send", "offer", "wait", "answered", "ready"},
         cmd' \in 1..6, head' \in Gpu!Descriptors \cup {Gpu!None},
         resp' \in Displays \cup {0, Gpu!Unread}, pages' \in Displays \cup {0, Gpu!Default},
         attach_sz' \in Nat
  PROVE  GpuType'
<1>1. /\ dev'.at \in {"idle", "work", "ring", "index"} /\ dev'.seen \in 0..(WRAP - 1)
      /\ dev'.chain \in Gpu!Descriptors \cup {Gpu!None}
  OBVIOUS
<1>2. Len(Gpu!Commands) = 6
  BY CommandsAre
<1>3. q' \in [free_map : SUBSET Gpu!Descriptors,
               next : [Gpu!Descriptors -> Gpu!Descriptors \cup {Gpu!None}],
              addr : [Gpu!Descriptors -> 1..Len(Gpu!Commands) \cup {Gpu!None}],
              avail : Gpu!Ring, used : Gpu!Ring, last_used_idx : 0..(WRAP - 1)]
  BY <1>2 DEF Queues
<1> QED
  BY <1>1, <1>2, <1>3 DEF GpuType, Gpu!TypeOK

LEMMA TypeNow ==
  ASSUME Gpu!SizeAssumption, GpuType
  PROVE  /\ q \in Queues /\ isr \in BOOLEAN
         /\ dev \in [seen : 0..(WRAP - 1), at : {"idle", "work", "ring", "index"},
                     chain : Gpu!Descriptors \cup {Gpu!None}, done : Seq(Names)]
         /\ cmd \in 1..6 /\ head \in Gpu!Descriptors \cup {Gpu!None}
         /\ resp \in Displays \cup {0, Gpu!Unread} /\ pages \in Displays \cup {0, Gpu!Default}
         /\ attach_sz \in Nat
BY TypeIs DEF GpuType

-----------------------------------------------------------------------------
(***************************************************************************)
(* The driver.                                                             *)
(***************************************************************************)
LEMMA SetupKeeps ==
  ASSUME Gpu!SizeAssumption, GpuInv, Gpu!virtio_queue_setup
  PROVE  GpuInv'
<1>1. /\ Gpu!TypeOK /\ step = "init" /\ Quiet /\ cmd = 1 /\ q \in Queues
      /\ UNCHANGED <<dev, isr, resp, cmd, head, pages, attach_sz>>
  BY TypeIs DEF GpuInv, GpuType, Phase, AnswerInv, Gpu!virtio_queue_setup
<1>2. /\ q' \in Queues /\ step' \in {"send", "failed"}
      /\ q'.avail.idx = q.avail.idx /\ q'.used.idx = q.used.idx
      /\ q'.last_used_idx = q.last_used_idx
      /\ step' = "send" => q'.free_map = Gpu!Descriptors
  <2>1. CASE step' = "failed" /\ UNCHANGED q
    BY <1>1, <2>1
  <2>2. CASE /\ q' = [q EXCEPT !.free_map = Gpu!Descriptors,
                               !.avail.ring = [d \in Gpu!Descriptors |-> d]]
             /\ step' = "send"
    BY <1>1, <2>2 DEF Queues, Gpu!Ring
  <2> QED
    BY <2>1, <2>2 DEF Gpu!virtio_queue_setup
<1>3. GpuType'
  BY <1>1, <1>2, TypeNow, TypeNext DEF GpuInv
<1>4. Phase'
  BY <1>1, <1>2 DEF Phase, Quiet
<1>5. DoneInv' /\ AnswerInv'
  BY <1>1, <1>2 DEF GpuInv, DoneInv, Progress, AnswerInv
<1> QED
  BY <1>3, <1>4, <1>5 DEF GpuInv

\* There are always enough descriptors.
LEMMA SendIs ==
  ASSUME Gpu!SizeAssumption, GpuInv, Gpu!send_cmd
  PROVE  /\ step' = "offer" /\ head' = 0 /\ q' \in Queues
         /\ q'.addr[0] = cmd /\ q'.free_map = Gpu!Descriptors \ Gpu!Chain(q'.next, 0)
         /\ q'.next[0] # Gpu!None <=> cmd = 1
         /\ q'.avail.ring[q.avail.idx % GPUQ_SZ] = 0
         /\ q'.avail.idx = q.avail.idx /\ q'.used = q.used /\ q'.last_used_idx = q.last_used_idx
<1>1. q \in Queues /\ cmd \in 1..6 /\ q.free_map = Gpu!Descriptors
  BY TypeIs DEF GpuInv, GpuType, Phase, Gpu!send_cmd
<1>2. PICK two \in BOOLEAN : two <=> cmd = 1
  OBVIOUS
<1>3. q' = Gpu!WithChain(q, two) /\ head' = Gpu!Lowest(q.free_map) /\ step' = "offer"
  <2>1. PICK need : need = IF Gpu!Answered(Gpu!Commands[cmd]) THEN 2 ELSE 1
    OBVIOUS
  <2>2. need \in {1, 2} /\ (need = 2 <=> two)
    BY <1>1, <1>2, <2>1, CommandsAre
  <2>3. Cardinality(q.free_map) >= 2 /\ Cardinality(Gpu!Descriptors) \in Nat
    BY <1>1, FirstTwo, FS_Interval, FS_CardinalityType DEF Gpu!Descriptors, Gpu!SizeAssumption
  <2>4. ~(Cardinality(q.free_map) < need)
    BY <1>1, <2>2, <2>3
  <2>5. (need = 2) = two
    BY <2>2
  <2> QED
    BY <2>1, <2>4, <2>5, SameSize DEF Gpu!send_cmd
<1>4. PICK i : i = q.avail.idx % GPUQ_SZ /\ i \in Gpu!Descriptors
  BY <1>1, IndexIs DEF Queues, Gpu!Ring
<1>5. q' = [q EXCEPT !.free_map = @ \ IF two THEN {0, 1} ELSE {0},
                     !.next[0] = IF two THEN 1 ELSE Gpu!None,
                     !.next[1] = IF two THEN Gpu!None ELSE @,
                     !.addr[0] = cmd,
                     !.avail.ring[i] = 0]
  BY <1>1, <1>3, <1>4, FirstTwo DEF Gpu!WithChain
<1>6. PICK nx, ad, av : /\ nx = [q.next EXCEPT ![0] = IF two THEN 1 ELSE Gpu!None,
                                               ![1] = IF two THEN Gpu!None ELSE @]
                        /\ ad = [q.addr EXCEPT ![0] = cmd]
                        /\ av = [q.avail EXCEPT !.ring = [q.avail.ring EXCEPT ![i] = 0]]
  OBVIOUS
<1>7. /\ q' = [free_map |-> Gpu!Descriptors \ IF two THEN {0, 1} ELSE {0},
                next |-> nx, addr |-> ad,
               avail |-> av, used |-> q.used, last_used_idx |-> q.last_used_idx]
  BY <1>1, <1>5, <1>6 DEF Queues
<1>8. /\ nx \in [Gpu!Descriptors -> Gpu!Descriptors \cup {Gpu!None}]
      /\ nx[0] = IF two THEN 1 ELSE Gpu!None
  BY <1>1, <1>6, FirstTwo DEF Queues
<1>9. ad \in [Gpu!Descriptors -> 1..6 \cup {Gpu!None}] /\ ad[0] = cmd
  BY <1>1, <1>6, FirstTwo DEF Queues
<1>10. av \in Gpu!Ring /\ av.ring[i] = 0 /\ av.idx = q.avail.idx
  BY <1>1, <1>4, <1>6, FirstTwo DEF Queues, Gpu!Ring
<1>11. q' \in Queues
  BY <1>1, <1>7, <1>8, <1>9, <1>10 DEF Queues
<1>12. q'.free_map = Gpu!Descriptors \ Gpu!Chain(q'.next, 0)
  BY <1>7, <1>8 DEF Gpu!Chain, Gpu!None
<1>13. q'.next[0] # Gpu!None <=> cmd = 1
  BY <1>2, <1>7, <1>8 DEF Gpu!None
<1> QED
  BY <1>1, <1>3, <1>4, <1>7, <1>9, <1>10, <1>11, <1>12, <1>13, FirstTwo

LEMMA SendKeeps ==
  ASSUME Gpu!SizeAssumption, GpuInv, Gpu!send_cmd
  PROVE  GpuInv'
<1>1. /\ Gpu!TypeOK /\ step = "send" /\ Quiet
      /\ UNCHANGED <<dev, isr, resp, cmd, pages, attach_sz>>
  BY DEF GpuInv, GpuType, Phase, Gpu!send_cmd
<1>2. GpuType'
  BY <1>1, SendIs, TypeNow, TypeNext, FirstTwo DEF GpuInv
<1>3. Phase'
  BY <1>1, SendIs, FirstTwo DEF Phase, Quiet, Chained
<1>4. DoneInv' /\ AnswerInv'
  BY <1>1, SendIs DEF GpuInv, DoneInv, Progress, AnswerInv
<1> QED
  BY <1>2, <1>3, <1>4 DEF GpuInv

LEMMA OfferKeeps ==
  ASSUME Gpu!SizeAssumption, GpuInv, Gpu!Offer
  PROVE  GpuInv'
<1>1. /\ Gpu!TypeOK /\ q \in Queues /\ step = "offer" /\ Quiet /\ Chained
      /\ q.avail.ring[q.avail.idx % GPUQ_SZ] = head
      /\ UNCHANGED <<dev, isr, resp, cmd, head, pages, attach_sz>> /\ step' = "wait"
  BY TypeIs DEF GpuInv, GpuType, Phase, Gpu!Offer
<1>2. PICK i : i = (q.avail.idx + 1) % WRAP /\ i \in 0..(WRAP - 1) /\ i # q.avail.idx
  BY <1>1, IndexIs DEF Queues, Gpu!Ring
<1>3. q' = [q EXCEPT !.avail = [q.avail EXCEPT !.idx = i]]
  BY <1>1, <1>2 DEF Gpu!Offer, Queues, Gpu!Ring
<1>4. /\ q' \in Queues /\ q'.avail.idx = i /\ q'.avail.ring = q.avail.ring
      /\ q'.free_map = q.free_map /\ q'.next = q.next /\ q'.addr = q.addr /\ q'.used = q.used
      /\ q'.last_used_idx = q.last_used_idx
  BY <1>1, <1>2, <1>3 DEF Queues, Gpu!Ring
<1>5. GpuType'
  BY <1>1, <1>4, TypeNow, TypeNext DEF GpuInv
<1>6. Phase'
  BY <1>1, <1>2, <1>4 DEF Phase, Quiet, Chained, Coming
<1>7. DoneInv' /\ AnswerInv'
  BY <1>1, <1>4 DEF GpuInv, DoneInv, Progress, AnswerInv, Quiet
<1> QED
  BY <1>5, <1>6, <1>7 DEF GpuInv

\* The answer is that of the driver's chain, which is free again.
LEMMA WaitKeeps ==
  ASSUME Gpu!SizeAssumption, GpuInv, Gpu!wait_cmd
  PROVE  GpuInv'
<1>1. /\ Gpu!TypeOK /\ q \in Queues /\ step = "wait" /\ Gone /\ Chained
      /\ q.avail.idx = (q.last_used_idx + 1) % WRAP
      /\ UNCHANGED <<dev, isr, resp, cmd, head, pages, attach_sz>>
  BY TypeIs DEF GpuInv, GpuType, Phase, Gpu!wait_cmd, Coming, Worked
<1>2. PICK i : i = (q.last_used_idx + 1) % WRAP /\ i \in 0..(WRAP - 1) /\ i # q.last_used_idx
  BY <1>1, IndexIs DEF Queues, Gpu!Ring
<1>3. /\ q' = [Gpu!free_chain(q, head) EXCEPT !.last_used_idx = (@ + 1) % WRAP]
      /\ step' = "answered"
  BY <1>1 DEF Gpu!wait_cmd, Gone
<1>4. PICK f : f = q.free_map \cup Gpu!Chain(q.next, head) /\ f = Gpu!Descriptors
  BY <1>1 DEF Chained, Gpu!Chain, Queues
<1>5. q' = [q EXCEPT !.free_map = f, !.last_used_idx = i]
  BY <1>1, <1>2, <1>3, <1>4 DEF Gpu!free_chain, Queues
<1>6. /\ q' \in Queues /\ q'.free_map = Gpu!Descriptors /\ q'.last_used_idx = i
      /\ q'.avail = q.avail /\ q'.used = q.used
  BY <1>1, <1>2, <1>4, <1>5 DEF Queues
<1>7. GpuType'
  BY <1>1, <1>3, <1>6, TypeNow, TypeNext DEF GpuInv
<1>8. Phase'
  BY <1>1, <1>2, <1>3, <1>6 DEF Phase, Quiet, Gone
<1>9. DoneInv' /\ AnswerInv'
  BY <1>1, <1>2, <1>3, <1>6 DEF GpuInv, DoneInv, Progress, AnswerInv, Gone
<1> QED
  BY <1>7, <1>8, <1>9 DEF GpuInv

LEMMA GoesOn ==
  ASSUME Gpu!SizeAssumption, GpuInv, Gpu!NextCommand, step = "answered", UNCHANGED <<q, dev, isr,
         resp, head>>,
         pages' \in Displays \cup {0, Gpu!Default}, attach_sz' \in Nat,
         pages' = IF resp = 0 THEN Gpu!Default ELSE resp
  PROVE  GpuInv'
<1>1. /\ GpuType /\ Quiet /\ q.free_map = Gpu!Descriptors /\ cmd \in 1..6 /\ Len(Gpu!Commands) = 6
      /\ Len(dev.done) = cmd
  BY TypeNow, CommandsAre DEF GpuInv, Phase, DoneInv, Progress
<1>2. \/ cmd < 6 /\ cmd' = cmd + 1 /\ step' = "send"
      \/ cmd = 6 /\ cmd' = cmd /\ step' = "ready"
  BY <1>1 DEF Gpu!NextCommand
<1>3. GpuType'
  BY <1>1, <1>2, TypeNow, TypeNext
<1>4. Phase'
  BY <1>1, <1>2 DEF Phase, Quiet
<1>5. DoneInv'
  BY <1>1, <1>2 DEF GpuInv, DoneInv, Progress
<1>6. AnswerInv'
  BY <1>1, <1>2 DEF GpuInv, AnswerInv
<1> QED
  BY <1>3, <1>4, <1>5, <1>6 DEF GpuInv

LEMMA InfoKeeps ==
  ASSUME Gpu!SizeAssumption, GpuInv, Gpu!DisplayInfo
  PROVE  GpuInv'
<1>1. GpuType /\ Len(dev.done) = cmd /\ cmd \in 1..6 /\ resp # Gpu!Unread
  BY TypeNow DEF GpuInv, DoneInv, Progress, AnswerInv, Gpu!DisplayInfo
<1>2. resp \in Displays \cup {0} /\ attach_sz \in Nat
  BY <1>1, TypeNow
<1>3. pages' = IF resp = 0 THEN Gpu!Default ELSE resp
  BY DEF Gpu!DisplayInfo
<1>4. pages' \in Displays \cup {0, Gpu!Default}
  BY <1>2, <1>3
<1> QED
  BY <1>2, <1>3, <1>4, GoesOn DEF Gpu!DisplayInfo

LEMMA OtherKeeps ==
  ASSUME Gpu!SizeAssumption, GpuInv, Gpu!OtherCommand
  PROVE  GpuInv'
<1>1. cmd \in 1..6 /\ pages \in Displays \cup {0, Gpu!Default} /\ attach_sz \in Nat
  BY TypeNow DEF GpuInv
<1>2. cmd # 1
  BY <1>1, CommandsAre DEF Gpu!OtherCommand, Gpu!Answered
<1>3. pages' = IF resp = 0 THEN Gpu!Default ELSE resp
  BY <1>1, <1>2 DEF Gpu!OtherCommand, GpuInv, AnswerInv
<1> QED
  BY <1>1, <1>3, GoesOn DEF Gpu!OtherCommand

LEMMA CreateKeeps ==
  ASSUME Gpu!SizeAssumption, GpuInv, Gpu!Create
  PROVE  GpuInv'
<1>1. cmd \in 1..6 /\ pages \in Displays \cup {0, Gpu!Default} /\ attach_sz \in Nat
  BY TypeNow DEF GpuInv
<1>2. cmd = 2
  BY <1>1, CommandsAre DEF Gpu!Create
<1>3. pages' = IF resp = 0 THEN Gpu!Default ELSE resp
  BY <1>1, <1>2 DEF Gpu!Create, GpuInv, AnswerInv
<1>4. CASE attach_sz' = Gpu!attach_size(pages) /\ Gpu!NextCommand
  <2>1. pages \in Nat
    BY <1>1 DEF Gpu!SizeAssumption, Gpu!Default
  <2>2. attach_sz' \in Nat
    BY <1>4, <2>1 DEF Gpu!attach_size, Gpu!HeaderSize, Gpu!EntrySize
  <2> QED
    BY <1>1, <1>3, <1>4, <2>2, GoesOn DEF Gpu!Create
<1>5. CASE step' = "panic" /\ UNCHANGED <<cmd, attach_sz>>
  <2>1. /\ GpuType /\ Quiet /\ step = "answered" /\ UNCHANGED <<q, dev, isr, resp, head, pages>>
    BY DEF GpuInv, Phase, Gpu!Create
  <2>2. GpuType'
    BY <1>5, <2>1, TypeNow, TypeNext
  <2>3. Phase' /\ DoneInv' /\ AnswerInv'
    BY <1>1, <1>2, <1>5, <2>1 DEF GpuInv, Phase, Quiet, DoneInv, Progress, AnswerInv
  <2> QED
    BY <2>2, <2>3 DEF GpuInv
<1> QED
  BY <1>4, <1>5 DEF Gpu!Create

\* The set-up has left no answer for the handler.
LEMMA IrqKeeps ==
  ASSUME Gpu!SizeAssumption, GpuInv, Gpu!virtio_gpu_handle_irq
  PROVE  GpuInv'
<1>1. GpuType /\ step = "ready" /\ Quiet
  BY DEF GpuInv, Phase, Gpu!virtio_gpu_handle_irq
<1>2. isr' = FALSE /\ UNCHANGED <<q, dev, resp, step, cmd, head, pages, attach_sz>>
  BY <1>1 DEF Gpu!virtio_gpu_handle_irq, Gpu!driver, Quiet
<1>3. GpuType'
  <2>1. step' \in {"init", "failed", "panic", "send", "offer", "wait", "answered", "ready"}
    BY <1>1, <1>2
  <2> QED
    BY <1>1, <1>2, <2>1, TypeNow, TypeNext
<1>4. Phase' /\ DoneInv' /\ AnswerInv'
  BY <1>2 DEF GpuInv, Phase, Quiet, Chained, Coming, Worked, Gone, DoneInv, Progress, AnswerInv
<1> QED
  BY <1>3, <1>4 DEF GpuInv

-----------------------------------------------------------------------------
(***************************************************************************)
(* The device.                                                             *)
(***************************************************************************)
LEMMA TakeKeeps ==
  ASSUME Gpu!SizeAssumption, GpuInv, Gpu!Take
  PROVE  GpuInv'
<1>1. /\ GpuType /\ q \in Queues /\ step = "wait" /\ Chained /\ Coming
      /\ q.avail.idx = (q.last_used_idx + 1) % WRAP
      /\ q.avail.ring[q.last_used_idx % GPUQ_SZ] = head
  BY TypeNow DEF GpuInv, Phase, Gpu!Take, Quiet, Worked, Gone
<1>2. /\ dev' = [dev EXCEPT !.at = "work", !.seen = (@ + 1) % WRAP,
                            !.chain = q.avail.ring[dev.seen % GPUQ_SZ]]
      /\ UNCHANGED <<q, isr, resp, step, cmd, head, pages, attach_sz>>
  BY DEF Gpu!Take, Gpu!driver
<1>3. /\ dev'.at = "work" /\ dev'.seen = q.avail.idx /\ dev'.chain = head /\ dev'.done = dev.done
      /\ dev' \in [seen : 0..(WRAP - 1), at : {"idle", "work", "ring", "index"},
                   chain : Gpu!Descriptors \cup {Gpu!None}, done : Seq(Names)]
  BY <1>1, <1>2, TypeNow DEF Coming, Chained, Queues, Gpu!Ring
<1>4. GpuType'
  BY <1>1, <1>2, <1>3, TypeNow, TypeNext
<1>5. Phase'
  BY <1>1, <1>2, <1>3 DEF Phase, Chained, Coming, Worked
<1>6. DoneInv' /\ AnswerInv'
  BY <1>1, <1>2, <1>3 DEF GpuInv, DoneInv, Progress, AnswerInv, Coming
<1> QED
  BY <1>4, <1>5, <1>6 DEF GpuInv

LEMMA WorkKeeps ==
  ASSUME Gpu!SizeAssumption, GpuInv, Gpu!Work
  PROVE  GpuInv'
<1>1. /\ GpuType /\ q \in Queues /\ step = "wait" /\ Chained /\ Worked /\ dev.at = "work"
      /\ cmd \in 1..6
  BY TypeNow DEF GpuInv, Phase, Gpu!Work, Quiet, Coming, Gone
<1>2. /\ dev' = [dev EXCEPT !.at = "ring", !.done = Append(@, Gpu!Commands[cmd])]
      /\ IF cmd = 1 THEN resp' \in Displays \cup {0} ELSE resp' = resp
      /\ UNCHANGED <<q, isr, step, cmd, head, pages, attach_sz>>
  BY <1>1 DEF Gpu!Work, Worked, Chained, Gpu!driver
<1>3. PICK d : d = dev.done /\ d \in Seq(Names) /\ Len(d) = cmd - 1
               /\ \A i \in 1..Len(d) : d[i] = Gpu!Commands[i]
  BY <1>1, TypeNow DEF GpuInv, DoneInv, Progress, Worked
<1>4. PICK e : e = Append(d, Gpu!Commands[cmd]) /\ e \in Seq(Names) /\ Len(e) = cmd
               /\ \A i \in 1..Len(e) : e[i] = Gpu!Commands[i]
  <2>1. Gpu!Commands[cmd] \in Names
    BY <1>1, CommandsAre
  <2>2. PICK c, k : c = Gpu!Commands[cmd] /\ c \in Names /\ k = cmd /\ k \in Nat /\ Len(d) = k - 1
    BY <1>1, <1>3, <2>1
  <2>3. PICK e : e = Append(d, c)
    OBVIOUS
  <2>4. e \in Seq(Names) /\ Len(e) = k /\ e[k] = c /\ \A i \in 1..Len(d) : e[i] = d[i]
    BY <1>3, <2>2, <2>3
  <2>5. \A i \in 1..k : i \in 1..Len(d) \/ i = k
    BY <2>2
  <2> QED
    BY <1>3, <2>2, <2>3, <2>4, <2>5
<1>5. /\ dev'.at = "ring" /\ dev'.seen = dev.seen /\ dev'.chain = dev.chain /\ dev'.done = e
      /\ dev' \in [seen : 0..(WRAP - 1), at : {"idle", "work", "ring", "index"},
                   chain : Gpu!Descriptors \cup {Gpu!None}, done : Seq(Names)]
  BY <1>1, <1>2, <1>3, <1>4, TypeNow
<1>6. resp' \in Displays \cup {0} /\ (cmd > 1 => resp' = resp)
  <2>1. cmd > 1 => resp \in Displays \cup {0}
    BY <1>1, <1>3, TypeNow DEF GpuInv, AnswerInv
  <2> QED
    BY <1>1, <1>2, <2>1
<1>7. GpuType'
  BY <1>1, <1>2, <1>5, <1>6, TypeNow, TypeNext
<1>8. Phase'
  BY <1>1, <1>2, <1>5 DEF GpuInv, Phase, Chained, Worked
<1>9. resp' # Gpu!Unread
  BY <1>6 DEF Gpu!SizeAssumption, Gpu!Unread
<1>10. DoneInv' /\ AnswerInv'
  BY <1>1, <1>2, <1>4, <1>5, <1>6, <1>9 DEF GpuInv, DoneInv, Progress, AnswerInv
<1> QED
  BY <1>7, <1>8, <1>10 DEF GpuInv

LEMMA RingKeeps ==
  ASSUME Gpu!SizeAssumption, GpuInv, Gpu!UseRing
  PROVE  GpuInv'
<1>1. /\ GpuType /\ q \in Queues /\ step = "wait" /\ Chained /\ Worked /\ dev.at = "ring"
      /\ q.last_used_idx \in 0..(WRAP - 1)
  BY TypeNow DEF GpuInv, Phase, Gpu!UseRing, Quiet, Coming, Gone, Queues
<1>2. PICK i : i = q.used.idx % GPUQ_SZ /\ i \in Gpu!Descriptors
  BY <1>1, IndexIs DEF Worked
<1>3. PICK r : r = [q.used.ring EXCEPT ![i] = head] /\ r \in [Gpu!Descriptors -> Gpu!Descriptors]
               /\ r[i] = head
  <2>1. PICK f : f = q.used.ring /\ f \in [Gpu!Descriptors -> Gpu!Descriptors]
    BY <1>1 DEF Queues, Gpu!Ring
  <2>2. head \in Gpu!Descriptors
    BY <1>1 DEF Chained
  <2>3. PICK r : r = [f EXCEPT ![i] = head]
    OBVIOUS
  <2>4. r \in [Gpu!Descriptors -> Gpu!Descriptors] /\ r[i] = head
    BY <1>2, <2>1, <2>2, <2>3
  <2> QED
    BY <2>1, <2>3, <2>4
<1>4. /\ q' = [q EXCEPT !.used = [q.used EXCEPT !.ring = r]]
      /\ dev' = [dev EXCEPT !.at = "index"]
      /\ UNCHANGED <<isr, resp, step, cmd, head, pages, attach_sz>>
  BY <1>1, <1>2, <1>3 DEF Gpu!UseRing, Gpu!driver, Worked
<1>5. /\ q' \in Queues /\ q'.used.ring = r /\ q'.used.idx = q.used.idx
      /\ q'.avail = q.avail /\ q'.next = q.next /\ q'.addr = q.addr
      /\ q'.free_map = q.free_map /\ q'.last_used_idx = q.last_used_idx
  BY <1>1, <1>3, <1>4 DEF Queues, Gpu!Ring
<1>6. /\ dev'.at = "index" /\ dev'.seen = dev.seen /\ dev'.chain = dev.chain
      /\ dev'.done = dev.done
      /\ dev' \in [seen : 0..(WRAP - 1), at : {"idle", "work", "ring", "index"},
                   chain : Gpu!Descriptors \cup {Gpu!None}, done : Seq(Names)]
  BY <1>1, <1>4, TypeNow
<1>7. GpuType'
  BY <1>1, <1>4, <1>5, <1>6, TypeNow, TypeNext
<1>8. Phase'
  BY <1>1, <1>2, <1>3, <1>4, <1>5, <1>6 DEF GpuInv, Phase, Chained, Worked
<1>9. DoneInv' /\ AnswerInv'
  BY <1>1, <1>4, <1>5, <1>6 DEF GpuInv, DoneInv, Progress, AnswerInv
<1> QED
  BY <1>7, <1>8, <1>9 DEF GpuInv

LEMMA IndexKeeps ==
  ASSUME Gpu!SizeAssumption, GpuInv, Gpu!UseIndex
  PROVE  GpuInv'
<1>1. /\ GpuType /\ q \in Queues /\ step = "wait" /\ Chained /\ Worked /\ dev.at = "index"
      /\ q.last_used_idx \in 0..(WRAP - 1) /\ q.avail.idx = (q.last_used_idx + 1) % WRAP
  BY TypeNow DEF GpuInv, Phase, Gpu!UseIndex, Quiet, Coming, Gone, Queues
<1>2. PICK i : i = (q.used.idx + 1) % WRAP /\ i \in 0..(WRAP - 1) /\ i # q.last_used_idx
               /\ i = q.avail.idx
  BY <1>1, IndexIs DEF Worked
<1>3. /\ q' = [q EXCEPT !.used = [q.used EXCEPT !.idx = i]]
      /\ dev' = [dev EXCEPT !.at = "idle", !.chain = Gpu!None] /\ isr' = TRUE
      /\ UNCHANGED <<resp, step, cmd, head, pages, attach_sz>>
  BY <1>1, <1>2 DEF Gpu!UseIndex, Gpu!driver, Queues, Gpu!Ring
<1>4. /\ q' \in Queues /\ q'.used.ring = q.used.ring /\ q'.used.idx = i
      /\ q'.avail = q.avail /\ q'.next = q.next /\ q'.addr = q.addr
      /\ q'.free_map = q.free_map /\ q'.last_used_idx = q.last_used_idx
  BY <1>1, <1>2, <1>3 DEF Queues, Gpu!Ring
<1>5. /\ dev'.at = "idle" /\ dev'.seen = dev.seen /\ dev'.done = dev.done
      /\ dev' \in [seen : 0..(WRAP - 1), at : {"idle", "work", "ring", "index"},
                   chain : Gpu!Descriptors \cup {Gpu!None}, done : Seq(Names)]
  BY <1>1, <1>3, TypeNow
<1>6. GpuType'
  BY <1>1, <1>3, <1>4, <1>5, TypeNow, TypeNext
<1>7. Phase'
  BY <1>1, <1>2, <1>3, <1>4, <1>5 DEF GpuInv, Phase, Chained, Worked, Gone
<1>8. DoneInv' /\ AnswerInv'
  BY <1>1, <1>2, <1>3, <1>4, <1>5 DEF GpuInv, DoneInv, Progress, AnswerInv
<1> QED
  BY <1>6, <1>7, <1>8 DEF GpuInv

-----------------------------------------------------------------------------
LEMMA GpuStep == ASSUME Gpu!SizeAssumption, GpuInv, [Gpu!Next]_(Gpu!vars) PROVE GpuInv'
<1>1. CASE UNCHANGED Gpu!vars
  BY <1>1 DEF Gpu!vars, Gpu!driver, GpuInv, GpuType, Gpu!TypeOK, Phase, Quiet, Chained, Coming,
     Worked, Gone,
              DoneInv, Progress, AnswerInv
<1>2. CASE Gpu!Next
  BY <1>2, SetupKeeps, SendKeeps, OfferKeeps, WaitKeeps, InfoKeeps, CreateKeeps, OtherKeeps,
     IrqKeeps, TakeKeeps, WorkKeeps, RingKeeps, IndexKeeps DEF Gpu!Next, Gpu!Device, Gpu!Driver
<1> QED
  BY <1>1, <1>2

LEMMA GpuImplies == ASSUME Gpu!SizeAssumption, GpuInv PROVE Gpu!CommandsAreSound
<1>1. GpuType /\ Gpu!TypeOK /\ cmd \in 1..6 /\ q \in Queues /\ Len(Gpu!Commands) = 6
  BY TypeNow, CommandsAre DEF GpuInv, GpuType
<1>2. Gpu!DescriptorsAreAccounted
  BY <1>1 DEF GpuInv, Phase, Quiet, Coming, Worked, Gone, Chained, Gpu!DescriptorsAreAccounted
<1>3. Gpu!CommandsInOrder
  BY <1>1 DEF GpuInv, DoneInv, Progress, AnswerInv, Gpu!CommandsInOrder
<1> QED
  BY <1>1, <1>2, <1>3 DEF Gpu!CommandsAreSound

\* No descriptor is lost, and the device has done the commands that were answered, in order.
THEOREM CommandsCorrect == ASSUME Gpu!SizeAssumption PROVE Gpu!Spec => []Gpu!CommandsAreSound
<1>1. Gpu!Init => GpuInv
  BY GpuInit
<1>2. GpuInv /\ [Gpu!Next]_(Gpu!vars) => GpuInv'
  BY GpuStep
<1>3. GpuInv => Gpu!CommandsAreSound
  BY GpuImplies
<1> QED
  BY <1>1, <1>2, <1>3, PTL DEF Gpu!Spec

-----------------------------------------------------------------------------
(***************************************************************************)
(* The cursor.                                                             *)
(***************************************************************************)
Area == CURSOR_SZ * CURSOR_SZ
Corners == (0..(Width - CURSOR_SZ)) \X (0..(Height - CURSOR_SZ))

\* While the task draws, its pixels up to n show the cursor if it is still there; and
\* before it begins only the handler has drawn.
CursorInv ==
  /\ Pointer!TypeOK /\ Pointer!ButtonsFollowTheMouse
  /\ pc = "sleep" => screen = {} \/ Pointer!Square(Pointer!Here(cursor)) \subseteq screen
  /\ pc = "draw" => \/ Pointer!Square(Pointer!Here(cursor)) \subseteq screen
                    \/ /\ at = Pointer!Here(cursor)
                       /\ \A k \in 0..(n - 1) : Pointer!Pixel(at, k) \subseteq screen
  /\ redraws = 0 => pc = "sleep" /\ screen \subseteq Pointer!Square(Pointer!Here(cursor))

LEMMA SizesAre ==
  ASSUME Pointer!SizeAssumption
  PROVE  /\ Width \in Nat /\ Height \in Nat /\ CURSOR_SZ \in Nat \ {0} /\ Area \in Nat \ {0}
         /\ Width - CURSOR_SZ \in Nat /\ Height - CURSOR_SZ \in Nat
         /\ Width \div 2 \in 0..(Width - CURSOR_SZ) /\ Height \div 2 \in 0..(Height - CURSOR_SZ)
<1>1. Width \in Nat /\ Height \in Nat /\ CURSOR_SZ \in Nat \ {0}
  BY DEF Pointer!SizeAssumption
<1>2. CURSOR_SZ <= Width - Width \div 2 /\ CURSOR_SZ <= Height - Height \div 2
  BY DEF Pointer!SizeAssumption
<1>3. Width \div 2 \in Nat /\ Height \div 2 \in Nat
  BY <1>1
<1>4. Area \in Nat \ {0}
  BY <1>1 DEF Area
<1> QED
  BY <1>1, <1>2, <1>3, <1>4

LEMMA PixelOf ==
  ASSUME NEW m \in Nat \ {0}, NEW i \in 0..(m - 1), NEW j \in 0..(m - 1)
  PROVE  /\ i * m + j \in 0..(m * m - 1)
         /\ (i * m + j) \div m = i /\ (i * m + j) % m = j
<1>1. (i * m + j) \div m = i /\ (i * m + j) % m = j
  BY Z3
<1>2. i * m \in Nat /\ i * m + m <= m * m
  BY Z3
<1> QED
  BY <1>1, <1>2

LEMMA PlaceOf ==
  ASSUME NEW m \in Nat \ {0}, NEW k \in 0..(m * m - 1)
  PROVE  k \div m \in 0..(m - 1) /\ k % m \in 0..(m - 1)
<1>1. k % m \in 0..(m - 1) /\ k \div m \in Int /\ k = m * (k \div m) + (k % m)
  BY Z3
<1>2. PICK i \in Int : i = k \div m
  BY <1>1
<1>3. i >= 0 /\ i < m
  BY <1>1, <1>2, Z3
<1> QED
  BY <1>1, <1>2, <1>3

\* A square that fits is a product of intervals, and is on the screen as a whole.
LEMMA SquareIs ==
  ASSUME Pointer!SizeAssumption, NEW p \in Corners
  PROVE  /\ Pointer!Square(p) = (p[1]..(p[1] + CURSOR_SZ - 1)) \X (p[2]..(p[2] + CURSOR_SZ - 1))
         /\ Pointer!Square(p) \subseteq Pointer!Pixels
         /\ Cardinality(Pointer!Square(p)) = Area
<1> DEFINE xs == p[1]..(p[1] + CURSOR_SZ - 1)
           ys == p[2]..(p[2] + CURSOR_SZ - 1)
<1>1. /\ p[1] \in 0..(Width - CURSOR_SZ) /\ p[2] \in 0..(Height - CURSOR_SZ)
      /\ Width \in Nat /\ Height \in Nat /\ CURSOR_SZ \in Nat \ {0}
      /\ Width - CURSOR_SZ \in Nat /\ Height - CURSOR_SZ \in Nat
  BY SizesAre DEF Corners
<1>2. xs \X ys \subseteq Pointer!Pixels
  BY <1>1 DEF Pointer!Pixels
<1>3. Pointer!Square(p) \subseteq xs \X ys
  <2> SUFFICES ASSUME NEW k \in 0..(CURSOR_SZ * CURSOR_SZ - 1)
               PROVE  Pointer!Pixel(p, k) \subseteq xs \X ys
    BY DEF Pointer!Square
  <2>1. k \div CURSOR_SZ \in 0..(CURSOR_SZ - 1) /\ k % CURSOR_SZ \in 0..(CURSOR_SZ - 1)
    BY <1>1, PlaceOf
  <2>2. p[1] + (k \div CURSOR_SZ) \in xs /\ p[2] + (k % CURSOR_SZ) \in ys
    BY <1>1, <2>1
  <2> QED
    BY <2>2 DEF Pointer!Pixel
<1>4. xs \X ys \subseteq Pointer!Square(p)
  <2> SUFFICES ASSUME NEW x \in xs, NEW y \in ys PROVE <<x, y>> \in Pointer!Square(p)
    OBVIOUS
  <2> DEFINE i == x - p[1]
             j == y - p[2]
             k == i * CURSOR_SZ + j
  <2>1. i \in 0..(CURSOR_SZ - 1) /\ j \in 0..(CURSOR_SZ - 1)
    BY <1>1
  <2>2. k \in 0..(CURSOR_SZ * CURSOR_SZ - 1) /\ k \div CURSOR_SZ = i /\ k % CURSOR_SZ = j
    BY <1>1, <2>1, PixelOf
  <2>3. p[1] + i = x /\ p[2] + j = y
    BY <1>1
  <2>4. <<x, y>> \in Pointer!Pixels
    BY <1>2
  <2> HIDE DEF i, j, k
  <2>5. <<x, y>> \in Pointer!Pixel(p, k)
    BY <2>2, <2>3, <2>4 DEF Pointer!Pixel
  <2> QED
    BY <2>2, <2>5 DEF Pointer!Square
<1>5. Cardinality(xs \X ys) = CURSOR_SZ * CURSOR_SZ
  <2>1. /\ IsFiniteSet(xs) /\ IsFiniteSet(ys) /\ Cardinality(xs) = CURSOR_SZ
        /\ Cardinality(ys) = CURSOR_SZ
    <3>1. ASSUME NEW c \in Nat
          PROVE  /\ IsFiniteSet(c..(c + CURSOR_SZ - 1))
                 /\ Cardinality(c..(c + CURSOR_SZ - 1)) = CURSOR_SZ
      <4>1. c \in Int /\ c + CURSOR_SZ - 1 \in Int /\ ~(c > c + CURSOR_SZ - 1)
            /\ (c + CURSOR_SZ - 1) - c + 1 = CURSOR_SZ
        BY <1>1
      <4> QED
        BY <4>1, FS_Interval
    <3>2. p[1] \in Nat /\ p[2] \in Nat
      BY <1>1
    <3> QED
      BY <3>1, <3>2
  <2>2. Cardinality(xs \X ys) = Cardinality(xs) * Cardinality(ys)
    BY <2>1, FS_Product
  <2> QED
    BY <2>1, <2>2
<1> QED
  BY <1>2, <1>3, <1>4, <1>5 DEF Area

LEMMA PixelsAre ==
  ASSUME Pointer!SizeAssumption, NEW p
  PROVE  /\ \A k \in 0..(Area - 1) : Pointer!Pixel(p, k) \subseteq Pointer!Square(p)
         /\ \A k : Pointer!Pixel(p, k) \subseteq Pointer!Pixels
         /\ \A s : (\A k \in 0..(Area - 1) : Pointer!Pixel(p, k) \subseteq s)
                     => Pointer!Square(p) \subseteq s
         /\ Pointer!Square(p) \subseteq Pointer!Pixels
BY DEF Pointer!Square, Pointer!Pixel, Area

-----------------------------------------------------------------------------
\* Where the cursor is and was.
Shape == [x : 0..(Width - CURSOR_SZ), y : 0..(Height - CURSOR_SZ),
          px : 0..(Width - CURSOR_SZ), py : 0..(Height - CURSOR_SZ)]

LEMMA CornersAre ==
  ASSUME Pointer!SizeAssumption, NEW c \in Shape
  PROVE  /\ Pointer!Here(c) \in Corners /\ Pointer!There(c) \in Corners
         /\ Pointer!Here(c) \in Pointer!Pixels /\ Pointer!There(c) \in Pointer!Pixels
<1>1. Pointer!Here(c) \in Corners /\ Pointer!There(c) \in Corners
  BY DEF Shape, Pointer!Here, Pointer!There, Corners
<1>2. Corners \subseteq Pointer!Pixels
  BY SizesAre DEF Corners, Pointer!Pixels
<1> QED
  BY <1>1, <1>2

LEMMA MovedIs ==
  ASSUME Pointer!SizeAssumption, NEW c \in Shape, NEW dx \in Int, NEW dy \in Int
  PROVE  /\ Pointer!Moved(c, dx, dy) \in Shape
         /\ Pointer!There(Pointer!Moved(c, dx, dy)) = Pointer!Here(c)
<1>1. ASSUME NEW most \in Nat, NEW v \in Int PROVE Pointer!Clamp(v, most) \in 0..most
  BY DEF Pointer!Clamp
<1>2. Width - CURSOR_SZ \in Nat /\ Height - CURSOR_SZ \in Nat
  BY SizesAre
<1>3. c.x + dx \in Int /\ c.y + dy \in Int /\ c.x \in 0..(Width - CURSOR_SZ)
      /\ c.y \in 0..(Height - CURSOR_SZ)
  BY <1>2 DEF Shape
<1>4. /\ Pointer!Clamp(c.x + dx, Width - CURSOR_SZ) \in 0..(Width - CURSOR_SZ)
      /\ Pointer!Clamp(c.y + dy, Height - CURSOR_SZ) \in 0..(Height - CURSOR_SZ)
  BY <1>1, <1>2, <1>3
<1> QED
  BY <1>3, <1>4 DEF Pointer!Moved, Shape, Pointer!There, Pointer!Here

LEMMA TypesAre ==
  ASSUME CursorInv
  PROVE  /\ cursor \in Shape /\ screen \subseteq Pointer!Pixels
         /\ mouse \in [rel_x : {0}, rel_y : {0}, buttons : SUBSET Buttons]
         /\ down \subseteq Buttons /\ said \subseteq Buttons /\ up \in BOOLEAN
         /\ pc \in {"sleep", "erase", "draw"} /\ at \in Pointer!Pixels
         /\ n \in 0..(Area - 1) /\ redraws \in 0..MaxRedraws
BY DEF CursorInv, Pointer!TypeOK, Shape, Area

LEMMA CursorStarts ==
  ASSUME Pointer!SizeAssumption, Pointer!StepsAssumption, Pointer!Init
  PROVE  CursorInv
<1>1. /\ Width \div 2 \in 0..(Width - CURSOR_SZ) /\ Height \div 2 \in 0..(Height - CURSOR_SZ)
      /\ Width \in Nat /\ Height \in Nat /\ CURSOR_SZ \in Nat \ {0} /\ Area \in Nat \ {0}
      /\ Width - CURSOR_SZ \in Nat /\ Height - CURSOR_SZ \in Nat
  BY SizesAre
<1>2. cursor \in [x : 0..(Width - CURSOR_SZ), y : 0..(Height - CURSOR_SZ),
                  px : 0..(Width - CURSOR_SZ), py : 0..(Height - CURSOR_SZ)]
  BY <1>1 DEF Pointer!Init
<1>3. at \in Pointer!Pixels
  BY <1>1 DEF Pointer!Init, Pointer!Pixels
<1>4. n \in 0..(CURSOR_SZ * CURSOR_SZ - 1) /\ redraws \in 0..MaxRedraws
  BY <1>1 DEF Pointer!Init, Area, Pointer!StepsAssumption
<1>5. Pointer!TypeOK
  BY <1>2, <1>3, <1>4 DEF Pointer!Init, Pointer!TypeOK
<1> QED
  BY <1>5 DEF CursorInv, Pointer!Init, Pointer!ButtonsFollowTheMouse

-----------------------------------------------------------------------------
\* Wherever the task is, the cursor is whole after a move.
LEMMA MotionKeeps ==
  ASSUME Pointer!SizeAssumption, Pointer!StepsAssumption, CursorInv, Pointer!Motion
  PROVE  CursorInv'
<1>1. PICK code \in {"REL_X", "REL_Y", "REL_WHEEL"}, value \in Steps : Pointer!EV_REL(code, value)
  BY DEF Pointer!Motion
<1> DEFINE m == CASE code = "REL_X" -> [mouse EXCEPT !.rel_x = @ + value]
                  [] code = "REL_Y" -> [mouse EXCEPT !.rel_y = @ + value]
                  [] OTHER -> mouse
<1>2. Pointer!Consume(m) /\ UNCHANGED <<down, said, up, Pointer!task>>
  BY <1>1 DEF Pointer!EV_REL
<1>3. /\ value \in Int
      /\ m \in [rel_x : Int, rel_y : Int, buttons : SUBSET Buttons]
      /\ m.buttons = mouse.buttons
  BY TypesAre DEF Pointer!StepsAssumption
<1>4. UNCHANGED <<down, said, up, pc, at, n, redraws>>
  BY <1>2 DEF Pointer!task
<1> HIDE DEF m
<1>5. CASE m.rel_x # 0 \/ m.rel_y # 0
  <2>1. /\ cursor' = Pointer!Moved(cursor, m.rel_x, m.rel_y)
        /\ screen' = (screen \ Pointer!Square(Pointer!There(cursor')))
                       \cup Pointer!Square(Pointer!Here(cursor'))
        /\ mouse' = [m EXCEPT !.rel_x = 0, !.rel_y = 0]
    BY <1>2, <1>5 DEF Pointer!Consume, Pointer!cursor_move, Pointer!cursor_redraw
  <2>2. cursor' \in Shape /\ Pointer!There(cursor') = Pointer!Here(cursor)
    BY <1>3, <2>1, TypesAre, MovedIs
  <2>3. /\ mouse' \in [rel_x : {0}, rel_y : {0}, buttons : SUBSET Buttons]
        /\ mouse'.buttons = mouse.buttons
    BY <1>3, <2>1
  <2>4. screen' \subseteq Pointer!Pixels
    BY <2>1, TypesAre, PixelsAre
  <2>5. Pointer!TypeOK'
    BY <1>4, <2>2, <2>3, <2>4, TypesAre DEF Pointer!TypeOK, Shape, Area
  <2>6. Pointer!Square(Pointer!Here(cursor')) \subseteq screen'
    BY <2>1
  <2>7. redraws = 0 => screen' \subseteq Pointer!Square(Pointer!Here(cursor'))
    BY <2>1, <2>2 DEF CursorInv
  <2>8. Pointer!ButtonsFollowTheMouse'
    BY <1>4, <2>3 DEF CursorInv, Pointer!ButtonsFollowTheMouse
  <2> QED
    BY <1>4, <2>5, <2>6, <2>7, <2>8 DEF CursorInv
<1>6. CASE ~(m.rel_x # 0 \/ m.rel_y # 0)
  <2>1. cursor' = cursor /\ screen' = screen /\ mouse' = m
    BY <1>2, <1>6 DEF Pointer!Consume
  <2>2. mouse' \in [rel_x : {0}, rel_y : {0}, buttons : SUBSET Buttons]
    BY <1>3, <1>6, <2>1
  <2>3. Pointer!TypeOK'
    BY <1>4, <2>1, <2>2, TypesAre DEF Pointer!TypeOK, Shape, Area
  <2>4. Pointer!ButtonsFollowTheMouse'
    BY <1>3, <1>4, <2>1 DEF CursorInv, Pointer!ButtonsFollowTheMouse
  <2> QED
    BY <1>4, <2>1, <2>3, <2>4 DEF CursorInv
<1> QED
  BY <1>5, <1>6

LEMMA KeyKeeps ==
  ASSUME CursorInv, NEW code \in Buttons, NEW pressed \in BOOLEAN, Pointer!EV_KEY(code, pressed)
  PROVE  CursorInv'
<1>1. /\ pressed = (code \notin down)
      /\ down' = IF pressed THEN down \cup {code} ELSE down \ {code}
      /\ UNCHANGED <<cursor, screen, pc, at, n, redraws>>
      /\ \/ said' = said \ {code} /\ UNCHANGED <<mouse, up>>
         \/ /\ said' = said \cup {code}
            /\ mouse' = [mouse EXCEPT !.buttons = IF pressed THEN mouse.buttons \cup {code}
                                                  ELSE mouse.buttons \ {code}]
            /\ up' \in BOOLEAN
  BY DEF Pointer!EV_KEY, Pointer!ButtonChange, Pointer!task
<1>2. /\ mouse' \in [rel_x : {0}, rel_y : {0}, buttons : SUBSET Buttons]
      /\ \/ said' = said \ {code} /\ mouse'.buttons = mouse.buttons
         \/ /\ said' = said \cup {code}
            /\ mouse'.buttons = IF pressed THEN mouse.buttons \cup {code}
                                ELSE mouse.buttons \ {code}
  BY <1>1, TypesAre
<1>3. Pointer!TypeOK'
  BY <1>1, <1>2, TypesAre DEF Pointer!TypeOK, Shape, Area
<1>4. Pointer!ButtonsFollowTheMouse'
  BY <1>1, <1>2 DEF CursorInv, Pointer!ButtonsFollowTheMouse
<1> QED
  BY <1>1, <1>3, <1>4 DEF CursorInv

-----------------------------------------------------------------------------
\* The task draws the cursor where it was when the drawing began; if the handler has moved
\* it since, the handler has drawn it.
LEMMA TaskKeeps ==
  ASSUME Pointer!SizeAssumption, Pointer!StepsAssumption, CursorInv, Pointer!cursor_daemon
  PROVE  CursorInv'
<1>1. /\ cursor' = cursor /\ mouse' = mouse /\ down' = down /\ said' = said /\ up' = up
      /\ redraws' # 0 /\ redraws' \in 0..MaxRedraws
  BY TypesAre DEF Pointer!cursor_daemon, Pointer!Wake, Pointer!Erase, Pointer!Draw, Pointer!Rest,
     CursorInv, Pointer!StepsAssumption
<1>2. Pointer!ButtonsFollowTheMouse'
  BY <1>1 DEF CursorInv, Pointer!ButtonsFollowTheMouse
<1>3. /\ cursor \in Shape /\ screen \subseteq Pointer!Pixels /\ n \in 0..(Area - 1)
      /\ Area \in Nat \ {0} /\ CURSOR_SZ * CURSOR_SZ = Area /\ at \in Pointer!Pixels
      /\ Pointer!Here(cursor) \in Pointer!Pixels /\ Pointer!There(cursor) \in Pointer!Pixels
      /\ Pointer!Pixel(at, n) \subseteq Pointer!Pixels
  BY TypesAre, SizesAre, CornersAre, PixelsAre DEF Area
<1>4. ASSUME screen' \subseteq Pointer!Pixels, at' \in Pointer!Pixels, n' \in 0..(Area - 1),
             pc' \in {"sleep", "erase", "draw"}
      PROVE  Pointer!TypeOK'
  BY <1>1, <1>4, TypesAre DEF Pointer!TypeOK, Shape, Area
<1>5. CASE Pointer!Wake
  <2>1. screen' = screen /\ pc' = "erase" /\ at' \in Pointer!Pixels /\ n' = 0
    BY <1>3, <1>5 DEF Pointer!Wake
  <2>2. Pointer!TypeOK'
    BY <1>3, <1>4, <2>1
  <2> QED
    BY <1>1, <1>2, <2>1, <2>2 DEF CursorInv
<1>6. CASE Pointer!Erase
  <2>1. /\ screen' \subseteq Pointer!Pixels
        /\ \/ n + 1 < Area /\ n' = n + 1 /\ pc' = "erase" /\ at' = at
           \/ pc' = "draw" /\ at' = Pointer!Here(cursor) /\ n' = 0
    BY <1>3, <1>6 DEF Pointer!Erase
  <2>2. Pointer!TypeOK'
    BY <1>3, <1>4, <2>1
  <2>3. pc' = "draw" => at' = Pointer!Here(cursor') /\ 0..(n' - 1) = {}
    BY <1>1, <2>1
  <2>4. pc' # "sleep"
    BY <2>1
  <2> QED
    BY <1>1, <1>2, <2>2, <2>3, <2>4 DEF CursorInv
<1>7. CASE Pointer!Draw
  <2>1. /\ screen' = screen \cup Pointer!Pixel(at, n) /\ at' = at /\ pc = "draw"
        /\ \/ n + 1 < Area /\ n' = n + 1 /\ pc' = "draw"
           \/ n + 1 = Area /\ n' = 0 /\ pc' = "sleep"
    BY <1>3, <1>7 DEF Pointer!Draw
  <2>2. Pointer!TypeOK'
    BY <1>3, <1>4, <2>1
  <2>3. CASE Pointer!Square(Pointer!Here(cursor)) \subseteq screen
    BY <1>1, <1>2, <2>1, <2>2, <2>3 DEF CursorInv
  <2>4. CASE /\ at = Pointer!Here(cursor)
             /\ \A k \in 0..(n - 1) : Pointer!Pixel(at, k) \subseteq screen
    <3>1. \A k \in 0..n : Pointer!Pixel(at, k) \subseteq screen'
      <4>1. \A k \in 0..n : k \in 0..(n - 1) \/ k = n
        BY <1>3
      <4> QED
        BY <2>1, <2>4, <4>1
    <3>2. CASE n' = n + 1 /\ pc' = "draw"
      <4>1. n' - 1 = n
        BY <1>3, <3>2
      <4> QED
        BY <1>1, <1>2, <2>1, <2>2, <2>4, <3>1, <3>2, <4>1 DEF CursorInv
    <3>3. CASE n + 1 = Area /\ pc' = "sleep"
      <4>1. Area - 1 = n
        BY <1>3, <3>3
      <4>2. Pointer!Square(at) \subseteq screen'
        BY <3>1, <4>1, PixelsAre
      <4> QED
        BY <1>1, <1>2, <2>2, <2>4, <3>3, <4>2 DEF CursorInv
    <3> QED
      BY <2>1, <3>2, <3>3
  <2> QED
    BY <2>1, <2>3, <2>4 DEF CursorInv
<1> QED
  BY <1>5, <1>6, <1>7 DEF Pointer!cursor_daemon

LEMMA CursorKept ==
  ASSUME Pointer!SizeAssumption, Pointer!StepsAssumption, CursorInv, [Pointer!Next]_(Pointer!vars)
  PROVE  CursorInv'
<1>1. CASE Pointer!virtio_mouse_handle_irq
  BY <1>1, MotionKeeps, KeyKeeps DEF Pointer!virtio_mouse_handle_irq
<1>2. CASE Pointer!cursor_daemon
  BY <1>2, TaskKeeps
<1>3. CASE UNCHANGED Pointer!vars
  BY <1>3 DEF Pointer!vars, Pointer!task, CursorInv, Pointer!TypeOK, Pointer!ButtonsFollowTheMouse
<1> QED
  BY <1>1, <1>2, <1>3 DEF Pointer!Next

LEMMA CursorHolds ==
  ASSUME Pointer!SizeAssumption, CursorInv
  PROVE  Pointer!PointerIsSound
<1>1. Cardinality(Pointer!Square(Pointer!Here(cursor))) = CURSOR_SZ * CURSOR_SZ
  BY TypesAre, CornersAre, SquareIs DEF Area
<1> QED
  BY <1>1, SameSize DEF CursorInv, Pointer!PointerIsSound, Pointer!CursorIsWhole, Pointer!Drawn,
     Pointer!NoGhost, Pointer!OldIsErased

\* The cursor is on the screen as a whole whenever the task sleeps.
THEOREM PointerCorrect ==
  ASSUME Pointer!SizeAssumption, Pointer!StepsAssumption
  PROVE  Pointer!Spec => []Pointer!PointerIsSound
<1>1. Pointer!Init => CursorInv
  BY CursorStarts
<1>2. CursorInv /\ [Pointer!Next]_(Pointer!vars) => CursorInv'
  BY CursorKept
<1>3. CursorInv => Pointer!PointerIsSound
  BY CursorHolds
<1> QED
  BY <1>1, <1>2, <1>3, PTL DEF Pointer!Spec

-----------------------------------------------------------------------------
(***************************************************************************)
(* Dates.                                                                  *)
(***************************************************************************)
\* A set of natural numbers has a least one.
LEMMA NatMin ==
  ASSUME NEW T, T \subseteq Nat, T # {}
  PROVE  \E v \in T : \A u \in T : v <= u
<1> DEFINE R == OpToRel(<, Nat)
<1>1. \A x, y \in Nat : x < y => <<x, y>> \in R
  BY DEF OpToRel
<1>2. PICK x \in T : \A y \in T : ~(<<y, x>> \in R)
  BY NatLessThanWellFounded, WFMin
<1> HIDE DEF R
<1>3. ASSUME NEW y \in T PROVE x <= y
  <2>1. x \in Nat /\ y \in Nat /\ ~(y < x)
    BY <1>1, <1>2
  <2> QED
    BY <2>1
<1> QED
  BY <1>3

\* The days of the years before y, and of the months before mo in y.
DaysTo(y) == 365 * y + (y + 3) \div 4 - (y + 99) \div 100 + (y + 399) \div 400
MonthStart == <<0, 31, 59, 90, 120, 151, 181, 212, 243, 273, 304, 334, 365>>
LeapDays(mo, y) == IF mo > 1 /\ Dates!IS_LEAP_YEAR(y) THEN 1 ELSE 0
DaysUpTo(mo, y) == MonthStart[mo + 1] + LeapDays(mo, y)

DateInv ==
  /\ days \in Nat
  /\ date \in [year : Nat, month : 0..11, day : Nat \ {0}, weekday : 0..6]
  /\ date.year >= 1970 /\ date.day <= Dates!get_days_in_month(date.month, date.year)
  /\ days = DaysTo(date.year) - DaysTo(1970) + DaysUpTo(date.month, date.year) + date.day - 1
  /\ date.weekday = (days + 4) % 7

LEMMA YearIs ==
  ASSUME NEW y \in Nat
  PROVE  /\ DaysTo(y) \in Nat /\ Dates!DaysInYear(y) \in {365, 366}
         /\ DaysTo(y + 1) = DaysTo(y) + Dates!DaysInYear(y)
<1>1. (y + 4) \div 4 = (y + 3) \div 4 + (IF y % 4 = 0 THEN 1 ELSE 0)
  OBVIOUS
<1>2. (y + 100) \div 100 = (y + 99) \div 100 + (IF y % 100 = 0 THEN 1 ELSE 0)
  OBVIOUS
<1>3. (y + 400) \div 400 = (y + 399) \div 400 + (IF y % 400 = 0 THEN 1 ELSE 0)
  OBVIOUS
<1>4. y % 400 = 0 => y % 100 = 0
  OBVIOUS
<1>5. y % 100 = 0 => y % 4 = 0
  OBVIOUS
<1>6. /\ y + 1 + 3 = y + 4 /\ y + 1 + 99 = y + 100 /\ y + 1 + 399 = y + 400
  OBVIOUS
<1>7. DaysTo(y) \in Nat
  BY DEF DaysTo
<1>8. DaysTo(y + 1) = DaysTo(y) + Dates!DaysInYear(y)
  BY <1>1, <1>2, <1>3, <1>4, <1>5, <1>6 DEF DaysTo, Dates!DaysInYear, Dates!IS_LEAP_YEAR
<1> QED
  BY <1>7, <1>8 DEF Dates!DaysInYear

\* The later the year, the more days before it: a year is one of them.
LEMMA YearsGrow ==
  ASSUME NEW y \in Nat, NEW z \in Nat, y < z
  PROVE  DaysTo(y) + Dates!DaysInYear(y) <= DaysTo(z) /\ z - y <= DaysTo(z) - DaysTo(y)
<1>1. \A a, b \in Nat : a < b => DaysTo(a) < DaysTo(b)
  BY DEF DaysTo
<1>2. z = y + 1 \/ y + 1 < z
  OBVIOUS
<1>3. DaysTo(y) + Dates!DaysInYear(y) <= DaysTo(z)
  BY <1>1, <1>2, y + 1 \in Nat, YearIs
<1>4. /\ (z + 3) \div 4 >= (y + 3) \div 4
      /\ (z + 399) \div 400 >= (y + 399) \div 400
      /\ (z + 99) \div 100 - (y + 99) \div 100 <= z - y
  OBVIOUS
<1>5. z - y <= DaysTo(z) - DaysTo(y)
  BY <1>4 DEF DaysTo
<1> QED
  BY <1>3, <1>5

LEMMA MonthIs ==
  ASSUME NEW y \in Nat
  PROVE  /\ DaysUpTo(0, y) = 0 /\ DaysUpTo(12, y) = Dates!DaysInYear(y)
         /\ \A v \in 0..12 : DaysUpTo(v, y) \in Nat
         /\ \A v \in 0..11 : /\ Dates!get_days_in_month(v, y) \in 28..31
                              /\ DaysUpTo(v + 1, y) = DaysUpTo(v, y) + Dates!get_days_in_month(v, y)
<1>1. \A mo \in 0..12 : MonthStart[mo + 1] \in Nat
  BY DEF MonthStart
<1>2. \A mo \in 0..11 : Dates!days_in_month[mo + 1] \in 28..31
  BY DEF Dates!days_in_month
<1>3. \A mo \in 0..11 : MonthStart[mo + 2] = MonthStart[mo + 1] + Dates!days_in_month[mo + 1]
  BY DEF MonthStart, Dates!days_in_month
<1>4. MonthStart[1] = 0 /\ MonthStart[13] = 365 /\ Dates!days_in_month[2] = 28
  BY DEF MonthStart, Dates!days_in_month
<1>5. \A mo \in 0..11 : /\ Dates!get_days_in_month(mo, y) \in 28..31
                        /\ DaysUpTo(mo + 1, y) = DaysUpTo(mo, y) + Dates!get_days_in_month(mo, y)
  <2> SUFFICES ASSUME NEW mo \in 0..11
               PROVE /\ Dates!get_days_in_month(mo, y) \in 28..31
                     /\ DaysUpTo(mo + 1, y) = DaysUpTo(mo, y) + Dates!get_days_in_month(mo, y)
    OBVIOUS
  <2>1. mo + 1 + 1 = mo + 2 /\ MonthStart[mo + 1] \in Nat /\ Dates!days_in_month[mo + 1] \in 28..31
    BY <1>1, <1>2
  <2>2. MonthStart[mo + 2] = MonthStart[mo + 1] + Dates!days_in_month[mo + 1]
    BY <1>3
  <2>3. mo = 1 => Dates!days_in_month[mo + 1] = 28
    BY <1>4
  <2> QED
    BY <2>1, <2>2, <2>3 DEF DaysUpTo, LeapDays, Dates!get_days_in_month, Dates!FEBRUARY
<1>6. DaysUpTo(0, y) = 0 /\ DaysUpTo(12, y) = Dates!DaysInYear(y)
  BY <1>4 DEF DaysUpTo, LeapDays, Dates!DaysInYear
<1>7. \A mo \in 0..12 : DaysUpTo(mo, y) \in Nat
  BY <1>1 DEF DaysUpTo, LeapDays
<1> QED
  BY <1>5, <1>6, <1>7

-----------------------------------------------------------------------------
\* A calendar day by day keeps count.
LEMMA LastIs ==
  ASSUME DateInv
  PROVE  Dates!LastOfMonth(date) <=> date.day = Dates!get_days_in_month(date.month, date.year)
<1>1. /\ Dates!days_in_month[1] = 31 /\ Dates!days_in_month[2] = 28 /\ Dates!days_in_month[3] = 31
      /\ Dates!days_in_month[4] = 30 /\ Dates!days_in_month[5] = 31 /\ Dates!days_in_month[6] = 30
      /\ Dates!days_in_month[7] = 31 /\ Dates!days_in_month[8] = 31 /\ Dates!days_in_month[9] = 30
      /\ Dates!days_in_month[10] = 31 /\ Dates!days_in_month[11] = 30 /\ Dates!days_in_month[12] = 31
  BY DEF Dates!days_in_month
<1>2. date.month \in 0..11 /\ date.year \in Nat /\ date.day \in Nat
  BY DEF DateInv
<1>3. CASE date.month = 1
  <2>1. date.year % 400 = 0 => date.year % 100 = 0
    BY <1>2
  <2>2. date.year % 100 = 0 => date.year % 4 = 0
    BY <1>2
  <2>3. date.day <= Dates!get_days_in_month(1, date.year)
    BY <1>3 DEF DateInv
  <2> QED
    BY <1>1, <1>2, <1>3, <2>1, <2>2, <2>3 DEF Dates!LastOfMonth, Dates!LeapDay, Dates!IS_LEAP_YEAR,
       Dates!get_days_in_month, Dates!FEBRUARY
<1>4. CASE date.month \in {3, 5, 8, 10}
  BY <1>1, <1>4 DEF Dates!LastOfMonth, Dates!get_days_in_month, Dates!FEBRUARY
<1>5. CASE date.month \in {0, 2, 4, 6, 7, 9, 11}
  BY <1>1, <1>5 DEF Dates!LastOfMonth, Dates!get_days_in_month, Dates!FEBRUARY
<1> QED
  BY <1>2, <1>3, <1>4, <1>5

LEMMA DatesStart == Dates!Init => DateInv
<1> SUFFICES ASSUME Dates!Init PROVE DateInv
  OBVIOUS
<1>1. /\ days = 0 /\ date.year = 1970 /\ date.month = 0 /\ date.day = 1 /\ date.weekday = 4
      /\ date \in [year : Nat, month : 0..11, day : Nat \ {0}, weekday : 0..6]
  BY DEF Dates!Init, Dates!EPOCH_YEAR, Dates!JANUARY, Dates!THURSDAY
<1>2. DaysTo(1970) \in Nat /\ DaysUpTo(0, 1970) = 0 /\ Dates!get_days_in_month(0, 1970) \in 28..31
  BY YearIs, MonthIs
<1>3. date.weekday = (days + 4) % 7
  BY <1>1
<1> QED
  BY <1>1, <1>2, <1>3 DEF DateInv

LEMMA DatesKept == DateInv /\ [Dates!Next]_(Dates!vars) => DateInv'
<1> SUFFICES ASSUME DateInv, Dates!Tomorrow PROVE DateInv'
  BY DEF Dates!Next, Dates!vars, DateInv
<1>0. PICK y \in Nat, mo \in 0..11, d \in Nat : y = date.year /\ mo = date.month /\ d = date.day
  BY DEF DateInv
<1> DEFINE z == IF Dates!LastOfMonth(date) /\ mo = 11 THEN y + 1 ELSE y
           nx == IF Dates!LastOfMonth(date) THEN (mo + 1) % 12 ELSE mo
           e == IF Dates!LastOfMonth(date) THEN 1 ELSE d + 1
<1>1. /\ y \in Nat /\ y >= 1970 /\ mo \in 0..11 /\ d \in Nat \ {0} /\ days \in Nat
      /\ d <= Dates!get_days_in_month(mo, y)
      /\ days = DaysTo(y) - DaysTo(1970) + DaysUpTo(mo, y) + d - 1
      /\ date.weekday \in 0..6 /\ date.weekday = (days + 4) % 7
  BY <1>0 DEF DateInv
<1>2. /\ days' = days + 1
      /\ date' = [weekday |-> (date.weekday + 1) % 7, day |-> e, month |-> nx, year |-> z]
  BY <1>0 DEF Dates!Tomorrow, Dates!DECEMBER
<1>3. Dates!LastOfMonth(date) <=> d = Dates!get_days_in_month(mo, y)
  BY <1>0, LastIs
<1>4. /\ DaysTo(y) \in Nat /\ DaysTo(1970) \in Nat /\ DaysTo(y + 1) = DaysTo(y) + Dates!DaysInYear(y)
      /\ Dates!DaysInYear(y) \in {365, 366}
  BY <1>1, YearIs
<1>5. /\ Dates!get_days_in_month(mo, y) \in 28..31 /\ DaysUpTo(mo, y) \in Nat
      /\ DaysUpTo(mo + 1, y) = DaysUpTo(mo, y) + Dates!get_days_in_month(mo, y)
  <2>1. mo \in 0..12
    BY <1>1
  <2>2. \A v \in 0..11 : Dates!get_days_in_month(v, y) \in 28..31
    BY MonthIs
  <2>3. \A v \in 0..12 : DaysUpTo(v, y) \in Nat
    BY MonthIs
  <2>4. \A v \in 0..11 : DaysUpTo(v + 1, y) = DaysUpTo(v, y) + Dates!get_days_in_month(v, y)
    BY MonthIs
  <2> QED
    BY <1>1, <2>1, <2>2, <2>3, <2>4
<1>6. DaysUpTo(12, y) = Dates!DaysInYear(y) /\ DaysUpTo(0, y + 1) = 0
  BY <1>1, MonthIs
<1>7. /\ z \in Nat /\ z >= 1970 /\ nx \in 0..11 /\ e \in Nat \ {0}
      /\ e <= Dates!get_days_in_month(nx, z)
      /\ days + 1 = DaysTo(z) - DaysTo(1970) + DaysUpTo(nx, z) + e - 1
  <2>1. CASE ~Dates!LastOfMonth(date)
    BY <1>1, <1>3, <1>4, <1>5, <2>1
  <2>2. CASE Dates!LastOfMonth(date) /\ mo = 11
    <3>1. z = y + 1 /\ nx = 0 /\ e = 1 /\ mo + 1 = 12
      BY <1>1, <2>2
    <3>2. Dates!get_days_in_month(0, y + 1) \in 28..31
      BY <1>1, MonthIs
    <3> HIDE DEF z, nx, e
    <3> QED
      BY <1>1, <1>3, <1>4, <1>5, <1>6, <2>2, <3>1, <3>2
  <2>3. CASE Dates!LastOfMonth(date) /\ mo # 11
    <3>1. z = y /\ nx = mo + 1 /\ nx \in 0..11 /\ e = 1
      BY <1>1, <2>3
    <3> HIDE DEF z, nx, e
    <3>2. Dates!get_days_in_month(nx, y) \in 28..31 /\ DaysUpTo(nx, y) \in Nat
      <4>1. nx \in 0..12
        BY <3>1
      <4>2. \A v \in 0..11 : Dates!get_days_in_month(v, y) \in 28..31
        BY MonthIs
      <4>3. \A v \in 0..12 : DaysUpTo(v, y) \in Nat
        BY MonthIs
      <4> QED
        BY <3>1, <4>1, <4>2, <4>3
    <3> QED
      BY <1>1, <1>3, <1>4, <1>5, <2>3, <3>1, <3>2
  <2> QED
    BY <2>1, <2>2, <2>3
<1>8. (date.weekday + 1) % 7 = (days + 1 + 4) % 7 /\ (date.weekday + 1) % 7 \in 0..6
  BY <1>1
<1> HIDE DEF z, nx, e
<1>9. /\ date'.year = z /\ date'.month = nx /\ date'.day = e /\ date'.weekday = (date.weekday + 1) % 7
      /\ date' \in [year : Nat, month : 0..11, day : Nat \ {0}, weekday : 0..6]
  BY <1>2, <1>7, <1>8
<1>10. days' \in Nat
  BY <1>1, <1>2
<1> QED
  BY <1>2, <1>7, <1>8, <1>9, <1>10 DEF DateInv

-----------------------------------------------------------------------------
(***************************************************************************)
(* The loops of the conversions.  That there are functions which satisfy   *)
(* their recursive definitions is shown by what they come to.              *)
(***************************************************************************)
\* The year of the day that comes x days after the beginning of y.
Place(y, x) == CHOOSE z \in Nat : y <= z /\ DaysTo(z) <= DaysTo(y) + x /\ DaysTo(y) + x < DaysTo(z + 1)

LEMMA PlaceIs ==
  ASSUME NEW y \in Nat, NEW x \in Nat
  PROVE  /\ Place(y, x) \in Nat
         /\ \A z \in Nat : /\ y <= z
                           /\ DaysTo(z) <= DaysTo(y) + x
                           /\ DaysTo(y) + x < DaysTo(z + 1)
                           => Place(y, x) = z
<1> DEFINE In(z) == y <= z /\ DaysTo(z) <= DaysTo(y) + x /\ DaysTo(y) + x < DaysTo(z + 1)
           T == {z \in Nat : y <= z /\ DaysTo(y) + x < DaysTo(z + 1)}
<1>1. y + x \in T
  <2>1. y + x + 1 \in Nat /\ y < y + x + 1
    OBVIOUS
  <2>2. (y + x + 1) - y <= DaysTo(y + x + 1) - DaysTo(y)
    BY <2>1, YearsGrow
  <2>3. DaysTo(y + x + 1) \in Nat /\ DaysTo(y) \in Nat
    BY <2>1, YearIs
  <2> QED
    BY <2>1, <2>2, <2>3
<1>2. PICK z \in T : \A w \in T : z <= w
  BY <1>1, NatMin
<1>3. In(z)
  <2>1. CASE z = y
    BY <1>2, <2>1, YearIs
  <2>2. CASE z # y
    <3>1. z - 1 \in Nat /\ y <= z - 1 /\ (z - 1) + 1 = z /\ z - 1 \notin T
      BY <1>2, <2>2
    <3>2. DaysTo(z) \in Nat /\ DaysTo(y) \in Nat
      BY <1>2, YearIs
    <3>3. ~(DaysTo(y) + x < DaysTo(z))
      BY <3>1
    <3> QED
      BY <1>2, <3>2, <3>3
  <2> QED
    BY <2>1, <2>2
<1>4. ASSUME NEW a \in Nat, NEW b \in Nat, In(a), In(b) PROVE ~(a < b)
  <2> SUFFICES ASSUME a < b PROVE FALSE
    OBVIOUS
  <2>1. DaysTo(a) + Dates!DaysInYear(a) <= DaysTo(b) /\ DaysTo(a + 1) = DaysTo(a) + Dates!DaysInYear(a)
    BY <1>4, YearsGrow, YearIs
  <2>2. DaysTo(a) \in Nat /\ DaysTo(b) \in Nat /\ DaysTo(y) \in Nat /\ DaysTo(a + 1) \in Nat
    BY YearIs, a + 1 \in Nat
  <2> QED
    BY <1>4, <2>1, <2>2
<1>5. Place(y, x) \in Nat /\ In(Place(y, x))
  BY <1>2, <1>3 DEF Place
<1>6. \A a, b \in Nat : In(a) /\ In(b) => a = b
  <2> HIDE DEF In
  <2> QED
    BY <1>4
<1> QED
  BY <1>5, <1>6

\* The loop over the years: one pass of it, and where it ends.
LEMMA YearPass ==
  ASSUME NEW s \in [year : Nat, days : Nat]
  PROVE  Dates!YearOf[s] =
           IF s.days >= Dates!DaysInYear(s.year)
           THEN Dates!YearOf[[year |-> s.year + 1, days |-> s.days - Dates!DaysInYear(s.year)]]
           ELSE s
<1> DEFINE S == [year : Nat, days : Nat]
           F(f) == [x \in S |->
                      IF x.days >= Dates!DaysInYear(x.year)
                      THEN f[[year |-> x.year + 1, days |-> x.days - Dates!DaysInYear(x.year)]]
                      ELSE x]
           W(y, l) == [year |-> Place(y, l), days |-> DaysTo(y) + l - DaysTo(Place(y, l))]
           w == [x \in S |-> W(x.year, x.days)]
<1>1. ASSUME NEW x \in S PROVE w[x] = F(w)[x]
  <2>1. PICK a \in Nat, l \in Nat : x.year = a /\ x.days = l /\ x = [year |-> a, days |-> l]
    OBVIOUS
  <2>2. /\ DaysTo(a) \in Nat /\ Dates!DaysInYear(a) \in {365, 366}
        /\ DaysTo(a + 1) = DaysTo(a) + Dates!DaysInYear(a)
    BY YearIs
  <2>3. CASE l >= Dates!DaysInYear(a)
    <3> DEFINE r == [year |-> a + 1, days |-> l - Dates!DaysInYear(a)]
    <3>1. r \in S /\ r.year = a + 1 /\ r.days = l - Dates!DaysInYear(a)
      BY <2>2, <2>3
    <3>2. DaysTo(a + 1) + (l - Dates!DaysInYear(a)) = DaysTo(a) + l
      BY <2>2
    <3>3. \A z \in Nat : a + 1 <= z => a <= z
      OBVIOUS
    <3>4. \A z \in Nat : a <= z /\ DaysTo(a) + l < DaysTo(z + 1) => a + 1 <= z
      BY <2>2, <2>3
    <3>5. Place(a + 1, l - Dates!DaysInYear(a)) = Place(a, l)
      BY <3>2, <3>3, <3>4 DEF Place
    <3>6. W(a + 1, l - Dates!DaysInYear(a)) = W(a, l)
      <4>1. Place(a, l) \in Nat
        BY PlaceIs
      <4>2. DaysTo(Place(a, l)) \in Nat
        BY <4>1, YearIs
      <4> QED
        BY <2>2, <3>2, <3>5, <4>1, <4>2
    <3>7. w[r] = W(a + 1, l - Dates!DaysInYear(a)) /\ w[x] = W(a, l)
      <4> HIDE DEF W
      <4> QED
        BY <2>1, <3>1
    <3>8. F(w)[x] = w[r]
      <4> HIDE DEF w
      <4> QED
        BY <2>1, <2>3
    <3> QED
      BY <3>6, <3>7, <3>8
  <2>4. CASE ~(l >= Dates!DaysInYear(a))
    <3>1. Place(a, l) = a
      <4>1. a <= a /\ DaysTo(a) <= DaysTo(a) + l /\ DaysTo(a) + l < DaysTo(a + 1)
        BY <2>2, <2>4
      <4> QED
        BY <4>1, PlaceIs, Zenon
    <3> QED
      BY <2>1, <2>2, <2>4, <3>1
  <2> QED
    BY <2>3, <2>4
<1>2. w = F(w)
  BY <1>1
<1>3. Dates!YearOf = CHOOSE f : f = F(f)
  BY DEF Dates!YearOf, Dates!Years
<1>4. Dates!YearOf = F(Dates!YearOf)
  <2> HIDE DEF F, w
  <2> QED
    BY <1>2, <1>3
<1> QED
  BY <1>4

LEMMA YearFound ==
  ASSUME NEW y \in Nat, NEW l \in Nat, l < Dates!DaysInYear(y), NEW j \in Nat, j <= y
  PROVE  Dates!YearOf[[year |-> y - j, days |-> DaysTo(y) - DaysTo(y - j) + l]] = [year |-> y, days |-> l]
<1> DEFINE Before(i) == [year |-> y - i, days |-> DaysTo(y) - DaysTo(y - i) + l]
           R(i) == Dates!YearOf[Before(i)] = [year |-> y, days |-> l]
           T == {i \in Nat : i <= y /\ ~R(i)}
<1>1. ASSUME T # {} PROVE FALSE
  <2>1. PICK i \in T : \A k \in T : i <= k
    BY <1>1, NatMin
  <2>2. i \in Nat /\ i <= y /\ y - i \in Nat
    BY <2>1
  <2>3. /\ DaysTo(y) \in Nat /\ DaysTo(y - i) \in Nat /\ Dates!DaysInYear(y - i) \in {365, 366}
        /\ DaysTo((y - i) + 1) = DaysTo(y - i) + Dates!DaysInYear(y - i)
    BY <2>2, YearIs
  <2>4. CASE i = 0
    <3>1. y - i = y
      BY <2>4
    <3>2. Before(i) = [year |-> y, days |-> l] /\ Before(i) \in [year : Nat, days : Nat]
      BY <2>3, <3>1
    <3>3. PICK x : x = Before(i)
      OBVIOUS
    <3>4. x \in [year : Nat, days : Nat] /\ x.year = y /\ x.days = l
      BY <3>2, <3>3
    <3>5. Dates!YearOf[x] = x
      <4>1. ~(x.days >= Dates!DaysInYear(x.year))
        BY <2>3, <3>4, <3>1
      <4> QED
        BY <3>4, <4>1, YearPass
    <3> QED
      BY <2>1, <3>2, <3>3, <3>5
  <2>5. CASE i # 0
    <3>1. y - i < y /\ i - 1 \in Nat /\ i - 1 <= y /\ y - (i - 1) = (y - i) + 1
      BY <2>2, <2>5
    <3>2. DaysTo(y - i) + Dates!DaysInYear(y - i) <= DaysTo(y)
      BY <2>2, <3>1, YearsGrow
    <3>3. PICK x : x = Before(i)
      OBVIOUS
    <3>4. /\ x \in [year : Nat, days : Nat] /\ x.year = y - i
          /\ x.days = DaysTo(y) - DaysTo(y - i) + l /\ x.days >= Dates!DaysInYear(x.year)
      BY <2>2, <2>3, <3>2, <3>3
    <3>5. [year |-> x.year + 1, days |-> x.days - Dates!DaysInYear(x.year)] = Before(i - 1)
      BY <2>3, <3>1, <3>4
    <3>6. Dates!YearOf[x] = Dates!YearOf[Before(i - 1)]
      BY <3>4, <3>5, YearPass
    <3>7. R(i - 1)
      BY <2>1, <3>1
    <3> QED
      BY <2>1, <3>3, <3>6, <3>7
  <2> QED
    BY <2>4, <2>5
<1> QED
  BY <1>1

\* What counts the days of years from e on.
LEMMA Counts ==
  ASSUME NEW e \in Nat, NEW f, f[e] = 0,
         \A x \in Nat : x > e => f[x] = f[x - 1] + Dates!DaysInYear(x - 1),
         NEW y \in Nat, y >= e
  PROVE  f[y] = DaysTo(y) - DaysTo(e)
<1> DEFINE T == {x \in Nat : x >= e /\ f[x] # DaysTo(x) - DaysTo(e)}
<1>1. ASSUME T # {} PROVE FALSE
  <2>1. PICK x \in T : \A u \in T : x <= u
    BY <1>1, NatMin
  <2>2. x # e
    <3>1. DaysTo(e) - DaysTo(e) = 0
      BY YearIs
    <3> QED
      BY <2>1, <3>1
  <2>3. x \in Nat /\ x > e /\ x - 1 \in Nat /\ x - 1 >= e /\ ~(x <= x - 1) /\ (x - 1) + 1 = x
    BY <2>1, <2>2
  <2>4. f[x - 1] = DaysTo(x - 1) - DaysTo(e)
    BY <2>1, <2>3
  <2>5. /\ DaysTo(x) = DaysTo(x - 1) + Dates!DaysInYear(x - 1) /\ DaysTo(x - 1) \in Nat
        /\ Dates!DaysInYear(x - 1) \in {365, 366}
    BY <2>3, YearIs
  <2>6. DaysTo(e) \in Nat /\ f[x] = f[x - 1] + Dates!DaysInYear(x - 1)
    BY <2>3, YearIs
  <2> QED
    BY <2>1, <2>4, <2>5, <2>6
<1> QED
  BY <1>1

\* The days before a year.
LEMMA DaysBeforeIs ==
  ASSUME NEW e \in Nat, e = Dates!EPOCH_YEAR, NEW y \in Nat, y >= e
  PROVE  Dates!DaysBefore[y] = DaysTo(y) - DaysTo(e)
<1> DEFINE F(f) == [x \in Nat |-> IF x <= e THEN 0 ELSE f[x - 1] + Dates!DaysInYear(x - 1)]
           w == [x \in Nat |-> IF x <= e THEN 0 ELSE DaysTo(x) - DaysTo(e)]
<1>1. ASSUME NEW x \in Nat PROVE w[x] = F(w)[x]
  <2>1. CASE x <= e
    BY <2>1
  <2>2. CASE x > e
    <3>1. x - 1 \in Nat /\ (x - 1) + 1 = x
      BY <2>2
    <3>2. /\ DaysTo(x) = DaysTo(x - 1) + Dates!DaysInYear(x - 1) /\ DaysTo(x - 1) \in Nat
          /\ Dates!DaysInYear(x - 1) \in {365, 366}
      BY <3>1, YearIs
    <3>3. DaysTo(e) \in Nat
      BY YearIs
    <3>4. w[x - 1] = DaysTo(x - 1) - DaysTo(e)
      <4>1. CASE x - 1 = e
        BY <3>1, <3>2, <3>3, <4>1
      <4>2. CASE x - 1 # e
        BY <2>2, <3>1, <4>2
      <4> QED
        BY <4>1, <4>2
    <3>5. w[x] = DaysTo(x) - DaysTo(e) /\ F(w)[x] = w[x - 1] + Dates!DaysInYear(x - 1)
      BY <2>2
    <3> QED
      BY <3>2, <3>3, <3>4, <3>5
  <2> QED
    BY <2>1, <2>2
<1>2. w = F(w)
  BY <1>1
<1>3. Dates!DaysBefore = CHOOSE f : f = F(f)
  BY DEF Dates!DaysBefore
<1>4. Dates!DaysBefore = F(Dates!DaysBefore)
  <2> HIDE DEF F, w
  <2> QED
    BY <1>2, <1>3
<1>5. PICK f : f = Dates!DaysBefore /\ f = F(f)
  BY <1>4
<1>6. f[e] = 0 /\ \A x \in Nat : x > e => f[x] = f[x - 1] + Dates!DaysInYear(x - 1)
  BY <1>5
<1> HIDE DEF F
<1> QED
  BY <1>5, <1>6, Counts

\* The loop over the months: one pass of it, and where it ends.
MonthState == [year : Nat, month : 0..12, days : Nat]

Passed(x) == [x EXCEPT !.month = x.month + 1,
                       !.days = x.days - Dates!get_days_in_month(x.month, x.year)]

LEMMA PassedIs ==
  ASSUME NEW x \in MonthState, x.month <= 11, x.days >= Dates!get_days_in_month(x.month, x.year)
  PROVE  /\ Passed(x) \in MonthState /\ Passed(x).month = x.month + 1 /\ Passed(x).year = x.year
         /\ Passed(x).days = x.days - Dates!get_days_in_month(x.month, x.year)
<1>1. x.month \in 0..11 /\ x.year \in Nat
  BY DEF MonthState
<1>2. \A v \in 0..11 : Dates!get_days_in_month(v, x.year) \in 28..31
  BY <1>1, MonthIs
<1>3. Dates!get_days_in_month(x.month, x.year) \in 28..31
  BY <1>1, <1>2
<1>4. x.month + 1 \in 0..12 /\ x.days - Dates!get_days_in_month(x.month, x.year) \in Nat
  BY <1>1, <1>3 DEF MonthState
<1>5. PICK nx \in 0..12, r \in Nat : nx = x.month + 1 /\ r = x.days - Dates!get_days_in_month(x.month, x.year)
  BY <1>4
<1>6. Passed(x) = [x EXCEPT !.month = nx, !.days = r]
  BY <1>5 DEF Passed
<1> QED
  BY <1>5, <1>6 DEF MonthState

\* Where the loop ends that comes to x: at the first month from there on that the days do
\* not fill, and what is left of them there.
Ends(x, v) == v = 12 \/ x.days + DaysUpTo(x.month, x.year) < DaysUpTo(v + 1, x.year)
EndOf(x) == CHOOSE v \in x.month..12 : Ends(x, v) /\ \A u \in x.month..12 : Ends(x, u) => v <= u
Rest(x, v) == x.days + DaysUpTo(x.month, x.year) - DaysUpTo(v, x.year)
Ended(x) == [year |-> x.year, month |-> EndOf(x), days |-> Rest(x, EndOf(x))]

LEMMA EndOfIs ==
  ASSUME NEW x \in MonthState
  PROVE  /\ EndOf(x) \in x.month..12 /\ Ends(x, EndOf(x))
         /\ \A u \in x.month..12 : Ends(x, u) => EndOf(x) <= u
<1>1. x.month \in 0..12
  BY DEF MonthState
<1>2. PICK T : T = {v \in x.month..12 : Ends(x, v)}
  OBVIOUS
<1>3. T \subseteq Nat /\ 12 \in T
  BY <1>1, <1>2 DEF Ends
<1>4. PICK v \in T : \A u \in T : v <= u
  BY <1>3, NatMin
<1>5. v \in x.month..12 /\ Ends(x, v) /\ \A u \in x.month..12 : Ends(x, u) => v <= u
  BY <1>2, <1>4
<1> QED
  BY <1>5 DEF EndOf

LEMMA MonthPass ==
  ASSUME NEW s \in MonthState
  PROVE  Dates!MonthOf[s] =
           IF s.month <= 11 /\ s.days >= Dates!get_days_in_month(s.month, s.year)
           THEN Dates!MonthOf[Passed(s)] ELSE s
<1> DEFINE F(f) == [x \in MonthState |->
                      IF x.month <= 11 /\ x.days >= Dates!get_days_in_month(x.month, x.year)
                      THEN f[Passed(x)] ELSE x]
           w == [x \in MonthState |-> Ended(x)]
<1>1. ASSUME NEW x \in MonthState PROVE w[x] = F(w)[x]
  <2>1. x.month \in 0..12 /\ x.year \in Nat /\ x.days \in Nat
    BY DEF MonthState
  <2>2. \A v \in 0..12 : DaysUpTo(v, x.year) \in Nat
    BY <2>1, MonthIs
  <2>3. \A v \in 0..11 : /\ DaysUpTo(v + 1, x.year) = DaysUpTo(v, x.year) + Dates!get_days_in_month(v, x.year)
                          /\ Dates!get_days_in_month(v, x.year) \in 28..31
    BY <2>1, MonthIs
  <2>4. CASE x.month <= 11 /\ x.days >= Dates!get_days_in_month(x.month, x.year)
    <3>1. PICK p : p = Passed(x)
      OBVIOUS
    <3>2. /\ p \in MonthState /\ p.month = x.month + 1 /\ p.year = x.year
          /\ p.days = x.days - Dates!get_days_in_month(x.month, x.year)
      BY <2>4, <3>1, PassedIs
    <3>3. p.days + DaysUpTo(p.month, p.year) = x.days + DaysUpTo(x.month, x.year)
      BY <2>1, <2>2, <2>3, <2>4, <3>2
    <3>4. \A v : Ends(p, v) <=> Ends(x, v)
      BY <3>2, <3>3 DEF Ends
    <3>5. ~Ends(x, x.month)
      BY <2>1, <2>2, <2>3, <2>4 DEF Ends
    <3>6. \A v \in x.month..12 : Ends(x, v) => v \in p.month..12
      BY <2>1, <2>4, <3>2, <3>5
    <3>7. \A v \in p.month..12 : v \in x.month..12
      BY <2>1, <3>2
    <3>8. EndOf(p) = EndOf(x)
      <4>1. EndOf(p) \in x.month..12 /\ Ends(x, EndOf(p))
        BY <3>2, <3>4, <3>7, EndOfIs
      <4>2. EndOf(x) \in p.month..12 /\ Ends(p, EndOf(x))
        BY <3>4, <3>6, EndOfIs
      <4>3. EndOf(x) <= EndOf(p) /\ EndOf(p) <= EndOf(x)
        BY <3>2, <4>1, <4>2, EndOfIs
      <4> QED
        BY <2>1, <4>1, <4>2, <4>3, <3>2
    <3>9. Ended(p) = Ended(x)
      <4>1. PICK e : e = EndOf(x)
        OBVIOUS
      <4>2. e \in 0..12
        BY <2>1, <4>1, EndOfIs
      <4>3. DaysUpTo(e, x.year) \in Nat
        BY <2>2, <4>2
      <4>4. /\ p.days \in Nat /\ x.days \in Nat
            /\ DaysUpTo(p.month, p.year) \in Nat /\ DaysUpTo(x.month, x.year) \in Nat
        BY <2>1, <2>2, <3>2 DEF MonthState
      <4>5. Rest(p, e) = Rest(x, e)
        BY <3>2, <3>3, <4>3, <4>4 DEF Rest
      <4> QED
        BY <3>2, <3>8, <4>1, <4>5 DEF Ended
    <3>10. w[x] = Ended(x) /\ w[p] = Ended(p)
      BY <3>2
    <3>11. F(w)[x] = w[p]
      <4> HIDE DEF w
      <4> QED
        BY <2>4, <3>1
    <3> QED
      BY <3>9, <3>10, <3>11
  <2>5. CASE ~(x.month <= 11 /\ x.days >= Dates!get_days_in_month(x.month, x.year))
    <3>1. Ends(x, x.month)
      BY <2>1, <2>2, <2>3, <2>5 DEF Ends
    <3>2. x.month \in x.month..12
      BY <2>1
    <3>3. EndOf(x) = x.month
      <4>1. EndOf(x) \in x.month..12 /\ EndOf(x) <= x.month
        BY <3>1, <3>2, EndOfIs
      <4> QED
        BY <2>1, <4>1
    <3>4. DaysUpTo(x.month, x.year) \in Nat
      BY <2>1, <2>2
    <3>5. Ended(x) = x
      BY <2>1, <3>3, <3>4 DEF Ended, Rest, MonthState
    <3> QED
      BY <2>5, <3>5
  <2> QED
    BY <2>4, <2>5
<1>2. w = F(w)
  BY <1>1
<1>3. Dates!MonthOf = CHOOSE f : f = F(f)
  <2>1. MonthState = [year : Nat, month : 0..(11 + 1), days : Nat]
    BY 11 + 1 = 12 DEF MonthState
  <2> QED
    BY <2>1 DEF Dates!MonthOf, Dates!Months, Dates!JANUARY, Dates!DECEMBER, Passed
<1>4. Dates!MonthOf = F(Dates!MonthOf)
  <2> HIDE DEF F, w
  <2> QED
    BY <1>2, <1>3
<1> QED
  BY <1>4

LEMMA MonthFound ==
  ASSUME NEW y \in Nat, NEW mo \in 0..11, NEW l \in Nat, l < Dates!get_days_in_month(mo, y)
  PROVE  Dates!MonthOf[[year |-> y, month |-> 0, days |-> DaysUpTo(mo, y) + l]] =
           [year |-> y, month |-> mo, days |-> l]
<1>1. \A v \in 0..12 : DaysUpTo(v, y) \in Nat
  BY MonthIs
<1>2. \A v \in 0..11 : /\ DaysUpTo(v + 1, y) = DaysUpTo(v, y) + Dates!get_days_in_month(v, y)
                        /\ Dates!get_days_in_month(v, y) \in 28..31
  BY MonthIs
<1> DEFINE From(v) == [year |-> y, month |-> v, days |-> DaysUpTo(mo, y) - DaysUpTo(v, y) + l]
           R(v) == Dates!MonthOf[From(v)] = [year |-> y, month |-> mo, days |-> l]
<1>3. R(mo)
  <2>1. DaysUpTo(mo, y) - DaysUpTo(mo, y) + l = l
    <3>1. mo \in 0..12
      OBVIOUS
    <3> QED
      BY <1>1, <3>1
  <2>2. PICK x : x = [year |-> y, month |-> mo, days |-> l]
    OBVIOUS
  <2>3. x \in MonthState /\ x.days = l /\ x.month = mo /\ x.year = y /\ From(mo) = x
    BY <2>1, <2>2 DEF MonthState
  <2>4. ~(x.days >= Dates!get_days_in_month(x.month, x.year))
    BY <1>2, <2>3
  <2>5. Dates!MonthOf[x] = x
    BY <2>3, <2>4, MonthPass
  <2> QED
    BY <2>2, <2>3, <2>5
<1>4. ASSUME NEW v \in 0..11, v < mo, DaysUpTo(v + 1, y) <= DaysUpTo(mo, y), R(v + 1) PROVE R(v)
  <2>1. /\ DaysUpTo(v, y) \in Nat /\ DaysUpTo(mo, y) \in Nat /\ DaysUpTo(v + 1, y) \in Nat
        /\ DaysUpTo(v + 1, y) = DaysUpTo(v, y) + Dates!get_days_in_month(v, y)
        /\ Dates!get_days_in_month(v, y) \in 28..31
    <3>1. v \in 0..12 /\ mo \in 0..12 /\ v + 1 \in 0..12
      OBVIOUS
    <3> QED
      BY <1>1, <1>2, <3>1
  <2>2. PICK x : x = From(v)
    OBVIOUS
  <2>3. /\ x \in MonthState /\ x.month = v /\ x.year = y
        /\ x.days = DaysUpTo(mo, y) - DaysUpTo(v, y) + l
    BY <1>4, <2>1, <2>2 DEF MonthState
  <2>4. x.month <= 11 /\ x.days >= Dates!get_days_in_month(x.month, x.year)
    BY <1>4, <2>1, <2>3
  <2>5. /\ Passed(x) \in MonthState /\ Passed(x).month = v + 1 /\ Passed(x).year = y
        /\ Passed(x).days = DaysUpTo(mo, y) - DaysUpTo(v + 1, y) + l
    BY <2>1, <2>3, <2>4, PassedIs
  <2>6. Passed(x) = From(v + 1)
    BY <2>5 DEF MonthState
  <2>7. Dates!MonthOf[x] = Dates!MonthOf[Passed(x)]
    BY <2>3, <2>4, MonthPass
  <2> QED
    BY <1>4, <2>2, <2>6, <2>7
<1>5. PICK T : T = {v \in 0..11 : v <= mo /\ DaysUpTo(mo - v, y) <= DaysUpTo(mo, y) /\ R(mo - v)}
  <2> HIDE DEF R
  <2> QED
    OBVIOUS
<1> DEFINE Below == {v \in Nat : v <= mo /\ v \notin T}
<1>6. Below = {}
  <2> SUFFICES ASSUME Below # {} PROVE FALSE
    OBVIOUS
  <2>1. PICK v \in Below : \A u \in Below : v <= u
    <3>1. Below \subseteq Nat
      OBVIOUS
    <3> QED
      BY <3>1, NatMin
  <2>2. CASE v = 0
    <3>1. mo - 0 = mo /\ DaysUpTo(mo, y) <= DaysUpTo(mo, y) /\ 0 \in 0..11 /\ 0 <= mo
      BY <1>1
    <3> HIDE DEF R
    <3> QED
      BY <1>3, <1>5, <2>1, <2>2, <3>1
  <2>3. CASE v # 0
    <3>1. v - 1 \in Nat /\ v - 1 <= mo /\ ~(v <= v - 1) /\ v \in 0..11
      BY <2>1, <2>3
    <3>2. v - 1 \in T
      BY <2>1, <3>1
    <3>3. mo - (v - 1) = (mo - v) + 1 /\ mo - v \in 0..11 /\ mo - v < mo /\ v <= mo
      BY <2>1, <2>3
    <3>4. R((mo - v) + 1) /\ DaysUpTo((mo - v) + 1, y) <= DaysUpTo(mo, y)
      <4> HIDE DEF R
      <4> QED
        BY <1>5, <3>2, <3>3
    <3>5. R(mo - v)
      <4> HIDE DEF R
      <4> QED
        BY <1>4, <3>3, <3>4
    <3>6. DaysUpTo(mo - v, y) <= DaysUpTo(mo, y)
      <4>1. /\ DaysUpTo((mo - v) + 1, y) = DaysUpTo(mo - v, y) + Dates!get_days_in_month(mo - v, y)
            /\ Dates!get_days_in_month(mo - v, y) \in 28..31
        BY <1>2, <3>3
      <4>2. DaysUpTo(mo - v, y) \in Nat /\ DaysUpTo(mo, y) \in Nat
        <5>1. mo - v \in 0..12 /\ mo \in 0..12
          BY <3>3
        <5> QED
          BY <1>1, <5>1
      <4> QED
        BY <3>4, <4>1, <4>2
    <3>7. v \in T
      <4> HIDE DEF R
      <4> QED
        BY <1>5, <3>1, <3>3, <3>5, <3>6
    <3> QED
      BY <2>1, <3>7
  <2> QED
    BY <2>2, <2>3
<1>7. R(0)
  <2>1. mo \in T
    BY <1>6
  <2>2. mo - mo = 0
    OBVIOUS
  <2> HIDE DEF R
  <2> QED
    BY <1>5, <2>1, <2>2
<1>8. DaysUpTo(mo, y) - DaysUpTo(0, y) + l = DaysUpTo(mo, y) + l
  <2>1. DaysUpTo(0, y) = 0 /\ mo \in 0..12
    BY MonthIs
  <2> QED
    BY <1>1, <2>1
<1> QED
  BY <1>7, <1>8

\* The days before a month of a year.
LEMMA DaysOfMonthsIs ==
  ASSUME NEW y \in Nat, NEW mo \in 0..11
  PROVE  Dates!DaysOfMonths(mo, y) = DaysUpTo(mo, y)
<1> DEFINE F(f) == [v \in 0..11 |-> IF v = 0 THEN 0 ELSE f[v - 1] + Dates!get_days_in_month(v - 1, y)]
           w == [v \in 0..11 |-> DaysUpTo(v, y)]
<1>1. \A v \in 0..11 : DaysUpTo(v + 1, y) = DaysUpTo(v, y) + Dates!get_days_in_month(v, y)
  BY MonthIs
<1>2. DaysUpTo(0, y) = 0
  BY MonthIs
<1>3. w = F(w)
  <2> SUFFICES ASSUME NEW v \in 0..11 PROVE w[v] = F(w)[v]
    OBVIOUS
  <2>1. CASE v = 0
    BY <1>2, <2>1
  <2>2. CASE v # 0
    <3>1. v - 1 \in 0..11 /\ (v - 1) + 1 = v
      BY <2>2
    <3>2. w[v] = DaysUpTo(v, y) /\ w[v - 1] = DaysUpTo(v - 1, y)
      BY <3>1
    <3>3. F(w)[v] = w[v - 1] + Dates!get_days_in_month(v - 1, y)
      BY <2>2
    <3> QED
      BY <1>1, <3>1, <3>2, <3>3
  <2> QED
    BY <2>1, <2>2
<1>4. PICK f : f = (CHOOSE g : g = F(g)) /\ f = F(f)
  <2> HIDE DEF F, w
  <2> QED
    BY <1>3
<1>5. Dates!DaysOfMonths(mo, y) = f[mo]
  BY <1>4 DEF Dates!DaysOfMonths, Dates!JANUARY, Dates!DECEMBER
<1>6. f[0] = 0 /\ \A v \in 0..10 : f[v + 1] = f[v] + Dates!get_days_in_month(v, y)
  <2>1. f[0] = 0
    BY <1>4
  <2>2. ASSUME NEW v \in 0..10 PROVE f[v + 1] = f[v] + Dates!get_days_in_month(v, y)
    <3>1. v + 1 \in 0..11 /\ v + 1 # 0 /\ (v + 1) - 1 = v
      OBVIOUS
    <3> QED
      BY <1>4, <3>1
  <2> QED
    BY <2>1, <2>2
<1> HIDE DEF F, w
<1>7. \A v \in 0..10 : f[v] = DaysUpTo(v, y) => f[v + 1] = DaysUpTo(v + 1, y)
  BY <1>1, <1>6
<1>8. f[0] = DaysUpTo(0, y)
  BY <1>2, <1>6
<1>9. \A v \in 0..11 : f[v] = DaysUpTo(v, y)
  <2>1. f[1] = DaysUpTo(1, y)
    BY <1>7, <1>8, 0 \in 0..10, 0 + 1 = 1
  <2>2. f[2] = DaysUpTo(2, y)
    BY <1>7, <2>1, 1 \in 0..10, 1 + 1 = 2
  <2>3. f[3] = DaysUpTo(3, y)
    BY <1>7, <2>2, 2 \in 0..10, 2 + 1 = 3
  <2>4. f[4] = DaysUpTo(4, y)
    BY <1>7, <2>3, 3 \in 0..10, 3 + 1 = 4
  <2>5. f[5] = DaysUpTo(5, y)
    BY <1>7, <2>4, 4 \in 0..10, 4 + 1 = 5
  <2>6. f[6] = DaysUpTo(6, y)
    BY <1>7, <2>5, 5 \in 0..10, 5 + 1 = 6
  <2>7. f[7] = DaysUpTo(7, y)
    BY <1>7, <2>6, 6 \in 0..10, 6 + 1 = 7
  <2>8. f[8] = DaysUpTo(8, y)
    BY <1>7, <2>7, 7 \in 0..10, 7 + 1 = 8
  <2>9. f[9] = DaysUpTo(9, y)
    BY <1>7, <2>8, 8 \in 0..10, 8 + 1 = 9
  <2>10. f[10] = DaysUpTo(10, y)
    BY <1>7, <2>9, 9 \in 0..10, 9 + 1 = 10
  <2>11. f[11] = DaysUpTo(11, y)
    BY <1>7, <2>10, 10 \in 0..10, 10 + 1 = 11
  <2> QED
    BY <1>8, <2>1, <2>2, <2>3, <2>4, <2>5, <2>6, <2>7, <2>8, <2>9, <2>10, <2>11
<1> QED
  BY <1>5, <1>9

-----------------------------------------------------------------------------
LEMMA DatesRight ==
  ASSUME Dates!MomentsAssumption, DateInv
  PROVE  Dates!CalendarIsRight
<1>0. PICK e \in Nat : e = Dates!EPOCH_YEAR /\ e = 1970
  BY DEF Dates!EPOCH_YEAR
<1>1. PICK y \in Nat, mo \in 0..11, d \in Nat \ {0} : y = date.year /\ mo = date.month /\ d = date.day
  BY DEF DateInv
<1>2. /\ date = [year |-> y, month |-> mo, day |-> d, weekday |-> date.weekday]
      /\ date.weekday = (days + 4) % 7 /\ days \in Nat
      /\ y >= e /\ d <= Dates!get_days_in_month(mo, y)
      /\ days = DaysTo(y) - DaysTo(e) + DaysUpTo(mo, y) + d - 1
  BY <1>0, <1>1 DEF DateInv
<1>3. DaysTo(y) \in Nat /\ DaysTo(e) \in Nat
  BY YearIs
<1>4. \A v \in 0..12 : DaysUpTo(v, y) \in Nat
  BY MonthIs
<1>5. PICK l \in Nat : l = DaysUpTo(mo, y) + (d - 1) /\ l < Dates!DaysInYear(y)
  <2>1. \A v \in 0..11 : /\ DaysUpTo(v + 1, y) = DaysUpTo(v, y) + Dates!get_days_in_month(v, y)
                          /\ Dates!get_days_in_month(v, y) \in 28..31
    BY MonthIs
  <2>2. DaysUpTo(mo, y) \in Nat
    <3>1. mo \in 0..12
      OBVIOUS
    <3> QED
      BY <1>4, <3>1
  <2>3. DaysUpTo(mo, y) + (d - 1) < DaysUpTo(mo + 1, y)
    BY <1>2, <2>1, <2>2
  <2>4. \A v \in 0..12 : DaysUpTo(v, y) <= DaysUpTo(12, y)
    BY DEF DaysUpTo, LeapDays, MonthStart
  <2>5. mo + 1 \in 0..12 /\ DaysUpTo(12, y) = Dates!DaysInYear(y)
    BY MonthIs
  <2>6. DaysUpTo(mo + 1, y) <= Dates!DaysInYear(y) /\ DaysUpTo(mo + 1, y) \in Nat
    BY <1>4, <2>4, <2>5
  <2>7. Dates!DaysInYear(y) \in {365, 366}
    BY YearIs
  <2> QED
    BY <2>2, <2>3, <2>6, <2>7
<1>6. Dates!YearOf[[year |-> e, days |-> days]] = [year |-> y, days |-> l]
  <2>1. y - e \in Nat /\ y - e <= y /\ y - (y - e) = e
    BY <1>2
  <2>2. days = DaysTo(y) - DaysTo(e) + l
    <3>1. DaysUpTo(mo, y) \in Nat
      <4>1. mo \in 0..12
        OBVIOUS
      <4> QED
        BY <1>4, <4>1
    <3> QED
      BY <1>2, <1>3, <1>5, <3>1
  <2>3. Dates!YearOf[[year |-> y - (y - e), days |-> DaysTo(y) - DaysTo(y - (y - e)) + l]] = [year |-> y, days |-> l]
    BY <1>5, <2>1, YearFound
  <2> QED
    BY <2>1, <2>2, <2>3
<1>7. Dates!MonthOf[[year |-> y, month |-> 0, days |-> l]] = [year |-> y, month |-> mo, days |-> d - 1]
  <2>1. d - 1 \in Nat /\ d - 1 < Dates!get_days_in_month(mo, y)
    <3>1. \A v \in 0..11 : Dates!get_days_in_month(v, y) \in 28..31
      BY MonthIs
    <3> QED
      BY <1>2, <3>1
  <2> QED
    BY <1>5, <2>1, MonthFound
<1>8. ASSUME NEW s
      PROVE  Dates!Converted(s) =
               [hours |-> s \div 3600, minutes |-> (s % 3600) \div 60, seconds |-> (s % 3600) % 60,
                year |-> y, month |-> mo, day |-> d, weekday |-> date.weekday]
  <2>1. (d - 1) + 1 = d
    OBVIOUS
  <2>2. PICK a, b : a = Dates!YearOf[[year |-> e, days |-> days]]
                    /\ b = Dates!MonthOf[[year |-> a.year, month |-> 0, days |-> a.days]]
    OBVIOUS
  <2>3. a.year = y /\ a.days = l /\ b.month = mo /\ b.days = d - 1
    BY <1>6, <1>7, <2>2
  <2>4. Dates!Converted(s) =
          [hours |-> s \div 3600, minutes |-> (s % 3600) \div 60, seconds |-> (s % 3600) % 60,
           year |-> a.year, month |-> b.month, day |-> b.days + 1, weekday |-> (days + 4) % 7]
    BY <1>0, <2>2 DEF Dates!Converted, Dates!unix_time_to_time, Dates!JANUARY, Dates!SECONDS_IN_HOUR, Dates!SECONDS_IN_MINUTE
  <2> QED
    BY <1>2, <2>1, <2>3, <2>4
<1>9. Dates!DatesAreRight
  BY <1>2, <1>8 DEF Dates!DatesAreRight
<1>10. Dates!ConversionsAreInverse
  <2> SUFFICES ASSUME NEW s \in Moments
               PROVE  Dates!time_to_unix_time(Dates!Converted(s)) = [days |-> days, second |-> s]
    BY DEF Dates!ConversionsAreInverse, Dates!Reached
  <2>1. s \in Nat
    <3>1. Dates!SECONDS_IN_DAY \in Nat
      BY DEF Dates!SECONDS_IN_DAY
    <3> QED
      BY <3>1 DEF Dates!MomentsAssumption
  <2>2. (s \div 3600) * 3600 + ((s % 3600) \div 60) * 60 + ((s % 3600) % 60) = s
    <3>1. PICK h \in Nat, r \in Nat : h = s \div 3600 /\ r = s % 3600 /\ h * 3600 + r = s
      BY <2>1
    <3>2. (r \div 60) * 60 + (r % 60) = r /\ r \div 60 \in Nat /\ r % 60 \in Nat
      OBVIOUS
    <3> QED
      BY <3>1, <3>2
  <2>3. PICK tm : tm = Dates!Converted(s)
    OBVIOUS
  <2>4. /\ tm.hours = s \div 3600 /\ tm.minutes = (s % 3600) \div 60 /\ tm.seconds = (s % 3600) % 60
        /\ tm.year = y /\ tm.month = mo /\ tm.day = d
    BY <1>8, <2>3
  <2>5. Dates!time_to_unix_time(tm) =
          [days |-> Dates!DaysBefore[y] + Dates!DaysOfMonths(mo, y) + d - 1, second |-> s]
    <3>1. Dates!SECONDS_IN_HOUR = 3600 /\ Dates!SECONDS_IN_MINUTE = 60
      BY DEF Dates!SECONDS_IN_HOUR, Dates!SECONDS_IN_MINUTE
    <3>2. tm.hours * Dates!SECONDS_IN_HOUR + tm.minutes * Dates!SECONDS_IN_MINUTE + tm.seconds = s
      <4>1. PICK a \in Nat, b \in Nat, c \in Nat : a = tm.hours /\ b = tm.minutes /\ c = tm.seconds
        BY <2>1, <2>4
      <4> QED
        BY <2>2, <2>4, <3>1, <4>1
    <3>3. tm.year = y /\ tm.month = mo /\ tm.day = d
      BY <2>4
    <3> QED
      BY <3>2, <3>3 DEF Dates!time_to_unix_time
  <2>6. Dates!DaysBefore[y] = DaysTo(y) - DaysTo(e) /\ Dates!DaysOfMonths(mo, y) = DaysUpTo(mo, y)
    BY <1>0, <1>2, DaysBeforeIs, DaysOfMonthsIs
  <2> QED
    BY <1>2, <2>3, <2>5, <2>6
<1> QED
  BY <1>9, <1>10 DEF Dates!CalendarIsRight

\* The conversions agree with a calendar that counts days one by one, on all of them.
THEOREM DatesCorrect == ASSUME Dates!MomentsAssumption PROVE Dates!Spec => []Dates!CalendarIsRight
<1>1. Dates!Init => DateInv
  BY DatesStart
<1>2. DateInv /\ [Dates!Next]_(Dates!vars) => DateInv'
  BY DatesKept
<1>3. DateInv => Dates!CalendarIsRight
  BY DatesRight
<1> QED
  BY <1>1, <1>2, <1>3, PTL DEF Dates!Spec

-----------------------------------------------------------------------------
(***************************************************************************)
(* The same in the behaviours of MCDevices, where something else may be    *)
(* the subject.                                                            *)
(***************************************************************************)
MCInv == ArraysInv /\ GpuInv /\ CursorInv /\ DateInv

\* A step is one of each part, or leaves it alone.
LEMMA MCStep ==
  ASSUME [MCNext]_<<vars, pointer, gpu, calendar, arrays, subject>>
  PROVE  /\ [Boxes!Next]_(Boxes!vars) /\ [Gpu!Next]_(Gpu!vars) /\ [Pointer!Next]_(Pointer!vars)
         /\ [Dates!Next]_(Dates!vars)
<1>1. Shared \/ Alone => Boxes!Next
  BY ArraysConstants DEF Shared, Alone, Boxes!Next, Boxes!NextOf, Boxes!Call
<1>2. Moves \/ Handles => Pointer!Next
  BY DEF Moves, Handles, Pointer!Next, Pointer!virtio_mouse_handle_irq
<1>3. /\ Shared \/ Alone \/ UNCHANGED arrays
      /\ Gpu!Next \/ UNCHANGED gpu
      /\ Moves \/ Handles \/ UNCHANGED pointer
      /\ Dates!Next \/ UNCHANGED calendar
  BY DEF MCNext
<1>4. /\ UNCHANGED arrays => UNCHANGED Boxes!vars
      /\ UNCHANGED gpu => UNCHANGED Gpu!vars
      /\ UNCHANGED pointer => UNCHANGED Pointer!vars
      /\ UNCHANGED calendar => UNCHANGED Dates!vars
  BY DEF arrays, gpu, pointer, calendar, Dates!vars, Boxes!vars, Gpu!vars, Gpu!driver, Pointer!vars, Pointer!task
<1> QED
  BY <1>1, <1>2, <1>3, <1>4

LEMMA MCInvariance == MCSpec => []MCInv
<1>1. MCInit => MCInv
  BY CursorConstants, GpuConstants, ArraysConstants, ArraysStart, GpuInit, CursorStarts, DatesStart
     DEF MCInit, MCInv, ArrayAssumptions
<1>2. MCInv /\ [MCNext]_<<vars, pointer, gpu, calendar, arrays, subject>> => MCInv'
  BY CursorConstants, GpuConstants, ArraysConstants, MCStep, ArraysKept, GpuStep, CursorKept, DatesKept
     DEF MCInv, ArrayAssumptions
<1> QED
  BY <1>1, <1>2, PTL DEF MCSpec

\* The cursor in the run's behaviours.
THEOREM PointerHere == MCSpec => []PointerIsSound
<1>1. MCInv => PointerIsSound
  BY CursorHolds, CursorConstants DEF MCInv, PointerIsSound
<1> QED
  BY <1>1, MCInvariance, PTL

\* The commands of a GPU in the run's behaviours.
THEOREM CommandsHere == MCSpec => []CommandsAreSound
<1>1. MCInv => CommandsAreSound
  BY GpuImplies, GpuConstants DEF MCInv, CommandsAreSound
<1> QED
  BY <1>1, MCInvariance, PTL

\* The conversions of dates in the run's behaviours.
THEOREM DatesHere == MCSpec => []CalendarIsRight
<1>1. MCInv => CalendarIsRight
  BY DatesRight, DatesConstants DEF MCInv, CalendarIsRight
<1> QED
  BY <1>1, MCInvariance, PTL

\* The arrays in the run's behaviours.
THEOREM ArraysHere == MCSpec => []ArraysAreSound
<1>1. MCInv => ArraysAreSound
  BY ArraysHold, ArraysConstants DEF MCInv, ArraysAreSound, ArrayAssumptions
<1> QED
  BY <1>1, MCInvariance, PTL

\* What the arrays of the run implement.
THEOREM VectorsHere == MCSpec => ImplementsAbstractVectors
<1>1. MCInit => Boxes!Vector!Init
  BY InitRefines, ArraysConstants DEF MCInit, ArrayAssumptions
<1>2. MCInv /\ MCInv' /\ [MCNext]_<<vars, pointer, gpu, calendar, arrays, subject>>
        => [Boxes!Vector!Next]_<<Boxes!made, Boxes!vector>>
  BY StepRefines, MCStep, ArraysConstants DEF MCInv, ArrayAssumptions, Boxes!Vector!Step
<1> QED
  BY <1>1, <1>2, MCInvariance, PTL
     DEF MCSpec, ImplementsAbstractVectors, Boxes!ImplementsAbstractVectors, Boxes!Vector!Spec
=============================================================================
