---------------------------- MODULE MemoryProofs ----------------------------
(***************************************************************************)
(* Proofs about memory.                                                    *)
(*                                                                         *)
(* First the page allocator (Buddy) and the heap on it (Kalloc), for any   *)
(* regions, any calls and any largest order from 1 to 10, the one of the   *)
(* code.  The invariant has two halves.  Whatever was merged with          *)
(* whatever, all blocks lie among the pages that init() hands out: what    *)
(* MergeFrom takes for two halves of a block does not overlap, and both    *)
(* are listed or freed.  And until two blocks of more than a page have     *)
(* been merged the books are exact: no page is in two blocks, the bitmap   *)
(* is the callers' pages, and the counters are numbers of pages.  The sums *)
(* of the runs' properties are these numbers, as blocks have no page in    *)
(* common.                                                                 *)
(*                                                                         *)
(* Then the memory of processes (UserMem), for any slots, pools, sizes of  *)
(* pages and programs, and mixes of calls.  Every page in use for a slot   *)
(* has a name, the sum is the number of names, and a step changes the      *)
(* names of one slot by as many as it takes or gives back.  For the images *)
(* the invariant says what a loop has done so far, seen from its end, and  *)
(* that the parent of a copy stands still.                                 *)
(*                                                                         *)
(* Last the statements with which the page allocator changes its linked    *)
(* lists (BuddyIrq, here Lists): memory represents sequences of pages, and *)
(* what a statement does to it is said of the sequences.  The theorems     *)
(* about them are in ListProofs.                                           *)
(***************************************************************************)
EXTENDS MCMemory, FunctionTheorems, FiniteSetTheorems, TLAPS

-----------------------------------------------------------------------------
(***************************************************************************)
(* Numbers.                                                                *)
(***************************************************************************)
LEMMA NatHasMin ==
  ASSUME NEW T, T \subseteq Nat, T # {}
  PROVE  \E x \in T : \A y \in T : x <= y
<1> DEFINE R == OpToRel(<, Nat)
<1>1. \A x, y \in Nat : x < y => <<x, y>> \in R
  BY DEF OpToRel
<1>2. PICK x \in T : \A y \in T : ~(<<y, x>> \in R)
  BY NatLessThanWellFounded, WFMin
<1> HIDE DEF R
<1>3. ASSUME NEW y \in T PROVE x <= y
  <2>1. x \in Nat /\ y \in Nat /\ ~(y < x)
    BY <1>1, <1>2
  <2> QED
    BY <2>1
<1> QED
  BY <1>3

LEMMA MinIs ==
  ASSUME NEW T, T \subseteq Nat, T # {}
  PROVE  Min(T) \in T /\ Min(T) \in Nat /\ \A y \in T : Min(T) <= y
<1>1. Min(T) \in T /\ \A y \in T : Min(T) <= y
  BY NatHasMin DEF Min
<1> QED
  BY <1>1

Powers ==
  /\ Size(0) = 1 /\ Size(1) = 2 /\ Size(2) = 4 /\ Size(3) = 8 /\ Size(4) = 16
  /\ Size(5) = 32 /\ Size(6) = 64 /\ Size(7) = 128 /\ Size(8) = 256
  /\ Size(9) = 512 /\ Size(10) = 1024

LEMMA PowersAre == Powers
BY SMT DEF Powers, Size

LEMMA Sizes1 ==
  /\ Size(0) = 1
  /\ \A k \in 0..10 : Size(k) \in Nat \ {0}
  /\ \A k, l \in 0..10 : k < l => 2 * Size(k) <= Size(l)
  /\ \A k \in 0..9 : Size(k + 1) = 2 * Size(k)
  /\ \A k \in 1..10 : Size(k) % 2 = 0 /\ Size(k) >= 2
BY PowersAre DEF Powers

\* An offset that is beyond the first part of a block is in one of the upper halves.
LEMMA UpperHalf ==
  ASSUME NEW o \in 0..10, NEW f \in 0..10, NEW d \in Nat, Size(o) <= d, d < Size(f)
  PROVE  \E k \in o..(f - 1) : Size(k) <= d /\ d < 2 * Size(k)
<1> DEFINE T == {k \in 0..10 : d < Size(k)}
<1>1. Min(T) \in T /\ \A k \in T : Min(T) <= k
  <2>1. T \subseteq Nat /\ T # {}
    OBVIOUS
  <2> QED
    BY <2>1, MinIs
<1> DEFINE m == Min(T)
<1>2. m \in 0..10 /\ d < Size(m) /\ m <= f
  BY <1>1
<1>3. m > o
  <2>1. CASE m = o
    BY <2>1, <1>2, Sizes1
  <2>2. CASE m < o
    <3>1. 2 * Size(m) <= Size(o) /\ Size(m) \in Nat /\ Size(o) \in Nat
      BY <2>2, <1>2, Sizes1
    <3> QED
      BY <3>1, <1>2
  <2> QED
    BY <1>2, <2>1, <2>2
<1>4. m - 1 \in 0..9 /\ ~(m - 1 \in T)
  BY <1>1, <1>2, <1>3
<1> HIDE DEF m
<1>5. Size(m - 1) <= d /\ d < 2 * Size(m - 1)
  <2>1. ~(d < Size(m - 1)) /\ Size(m) = 2 * Size(m - 1) /\ Size(m - 1) \in Nat
    <3>1. Size((m - 1) + 1) = 2 * Size(m - 1) /\ Size(m - 1) \in Nat /\ (m - 1) + 1 = m
      BY <1>4, Sizes1
    <3> QED
      BY <1>4, <3>1
  <2> QED
    BY <2>1, <1>2
<1> QED
  BY <1>2, <1>3, <1>4, <1>5

-----------------------------------------------------------------------------
(***************************************************************************)
(* Lists.                                                                  *)
(***************************************************************************)
Elems(s)   == {s[i] : i \in DOMAIN s}
OneEach(s) == \A i, j \in DOMAIN s : s[i] = s[j] => i = j

LEMMA Consed ==
  ASSUME NEW s \in Seq(Nat), NEW p \in Nat
  PROVE  /\ <<p>> \o s \in Seq(Nat)
         /\ Elems(<<p>> \o s) = {p} \cup Elems(s)
         /\ OneEach(s) /\ p \notin Elems(s) => OneEach(<<p>> \o s)
<1> DEFINE t == <<p>> \o s
<1>1. /\ t \in Seq(Nat) /\ Len(t) = Len(s) + 1 /\ t[1] = p
      /\ \A i \in 1..Len(s) : t[i + 1] = s[i]
  OBVIOUS
<1>2. \A i \in 2..Len(t) : t[i] = s[i - 1] /\ i - 1 \in 1..Len(s)
  BY <1>1
<1>3. DOMAIN t = 1..Len(t) /\ DOMAIN s = 1..Len(s) /\ Len(s) \in Nat
  BY <1>1
<1> HIDE DEF t
<1>4. Elems(t) = {p} \cup Elems(s)
  <2>1. ASSUME NEW i \in DOMAIN t PROVE t[i] \in {p} \cup Elems(s)
    <3>1. i = 1 \/ i \in 2..Len(t)
      BY <1>1, <1>3
    <3> QED
      BY <1>1, <1>2, <1>3, <3>1 DEF Elems
  <2>2. p \in Elems(t)
    <3>1. 1 \in DOMAIN t
      BY <1>1, <1>3
    <3> QED
      BY <1>1, <3>1 DEF Elems
  <2>3. ASSUME NEW i \in DOMAIN s PROVE s[i] \in Elems(t)
    <3>1. i + 1 \in DOMAIN t /\ t[i + 1] = s[i]
      BY <1>1, <1>3
    <3> QED
      BY <3>1 DEF Elems
  <2> QED
    BY <2>1, <2>2, <2>3 DEF Elems
<1>5. ASSUME OneEach(s), p \notin Elems(s) PROVE OneEach(t)
  <2> SUFFICES ASSUME NEW i \in DOMAIN t, NEW j \in DOMAIN t, t[i] = t[j]
               PROVE  i = j
    BY DEF OneEach
  <2>1. \A x \in 2..Len(t) : t[x] # p
    BY <1>2, <1>3, <1>5 DEF Elems
  <2>2. (i = 1 \/ i \in 2..Len(t)) /\ (j = 1 \/ j \in 2..Len(t))
    BY <1>1, <1>3
  <2>3. CASE i = 1 \/ j = 1
    BY <1>1, <2>1, <2>2, <2>3
  <2>4. CASE i \in 2..Len(t) /\ j \in 2..Len(t)
    <3>1. s[i - 1] = s[j - 1] /\ i - 1 \in DOMAIN s /\ j - 1 \in DOMAIN s
      BY <1>2, <1>3, <2>4
    <3>2. i - 1 = j - 1
      BY <1>5, <3>1 DEF OneEach
    <3> QED
      BY <2>4, <3>2
  <2> QED
    BY <2>2, <2>3, <2>4
<1> QED
  BY <1>1, <1>4, <1>5 DEF t

LEMMA Shifted ==
  ASSUME NEW l \in Nat, NEW n \in 1..l
  PROVE  /\ \A i \in 1..(l - 1) : /\ (IF i < n THEN i ELSE i + 1) \in 1..l
                                 /\ (IF i < n THEN i ELSE i + 1) # n
         /\ \A i, j \in 1..(l - 1) :
              (IF i < n THEN i ELSE i + 1) = (IF j < n THEN j ELSE j + 1) => i = j
         /\ \A j \in 1..l : /\ j < n => j \in 1..(l - 1)
                           /\ j > n => j - 1 \in 1..(l - 1) /\ ~(j - 1 < n) /\ (j - 1) + 1 = j
OBVIOUS

\* What is left of a list without the entry at n.
LEMMA Dropped ==
  ASSUME NEW s \in Seq(Nat), NEW n \in DOMAIN s, NEW t \in Seq(Nat), Len(t) = Len(s) - 1,
         \A i \in 1..Len(t) : t[i] = IF i < n THEN s[i] ELSE s[i + 1]
  PROVE  /\ Elems(t) \subseteq Elems(s)
         /\ OneEach(s) => OneEach(t) /\ Elems(t) = Elems(s) \ {s[n]}
<1>1. /\ DOMAIN t = 1..Len(t) /\ DOMAIN s = 1..Len(s) /\ Len(s) \in Nat /\ Len(t) \in Nat
      /\ n \in 1..Len(s) /\ Len(t) = Len(s) - 1
  OBVIOUS
<1> DEFINE At(i) == IF i < n THEN i ELSE i + 1
<1>s. /\ \A i \in DOMAIN t : At(i) \in DOMAIN s /\ At(i) # n
      /\ \A i, j \in DOMAIN t : At(i) = At(j) => i = j
      /\ \A j \in DOMAIN s : /\ j < n => j \in DOMAIN t
                            /\ j > n => j - 1 \in DOMAIN t /\ ~(j - 1 < n) /\ (j - 1) + 1 = j
  <2>1. DOMAIN t = 1..(Len(s) - 1) /\ DOMAIN s = 1..Len(s)
    BY <1>1
  <2>2. PICK l \in Nat : l = Len(s)
    BY <1>1
  <2>3. n \in 1..l /\ DOMAIN t = 1..(l - 1) /\ DOMAIN s = 1..l
    BY <1>1, <2>1, <2>2
  <2>4. \A i \in 1..(l - 1) : At(i) \in 1..l /\ At(i) # n
    BY <2>3, Shifted
  <2>5. \A i, j \in 1..(l - 1) : At(i) = At(j) => i = j
    BY <2>3, Shifted
  <2>6. \A j \in 1..l : /\ j < n => j \in 1..(l - 1)
                       /\ j > n => j - 1 \in 1..(l - 1) /\ ~(j - 1 < n) /\ (j - 1) + 1 = j
    BY <2>3, Shifted
  <2> HIDE DEF At
  <2> QED
    BY <2>3, <2>4, <2>5, <2>6
<1>2. \A i \in DOMAIN t : At(i) \in DOMAIN s /\ At(i) # n /\ t[i] = s[At(i)]
  <2> SUFFICES ASSUME NEW i \in DOMAIN t PROVE t[i] = s[At(i)]
    BY <1>s
  <2>1. t[i] = IF i < n THEN s[i] ELSE s[i + 1]
    BY <1>1
  <2> QED
    BY <2>1
<1> HIDE DEF At
<1>3. Elems(t) \subseteq Elems(s)
  BY <1>2 DEF Elems
<1>4. ASSUME OneEach(s) PROVE OneEach(t) /\ Elems(t) = Elems(s) \ {s[n]}
  <2>1. OneEach(t)
    <3> SUFFICES ASSUME NEW i \in DOMAIN t, NEW j \in DOMAIN t, t[i] = t[j] PROVE i = j
      BY DEF OneEach
    <3>1. At(i) = At(j)
      BY <1>2, <1>4 DEF OneEach
    <3> QED
      BY <1>s, <3>1
  <2>2. s[n] \notin Elems(t)
    <3> SUFFICES ASSUME NEW i \in DOMAIN t, t[i] = s[n] PROVE FALSE
      BY DEF Elems
    <3>1. At(i) = n
      BY <1>2, <1>4 DEF OneEach
    <3> QED
      BY <1>2, <3>1
  <2>3. ASSUME NEW j \in DOMAIN s, j # n PROVE s[j] \in Elems(t)
    <3>1. CASE j < n
      <4>1. j \in DOMAIN t /\ At(j) = j
        BY <1>s, <3>1 DEF At
      <4> QED
        BY <1>2, <4>1 DEF Elems
    <3>2. CASE j > n
      <4>1. j - 1 \in DOMAIN t /\ At(j - 1) = j
        BY <1>s, <3>2 DEF At
      <4> QED
        BY <1>2, <4>1 DEF Elems
    <3>3. j \in Nat /\ n \in Nat
      BY <1>1
    <3> QED
      BY <2>3, <3>1, <3>2, <3>3
  <2> QED
    BY <1>3, <2>1, <2>2, <2>3 DEF Elems
<1> QED
  BY <1>3, <1>4

LEMMA Tailed ==
  ASSUME NEW s \in Seq(Nat), s # <<>>
  PROVE  /\ Tail(s) \in Seq(Nat) /\ Head(s) \in Elems(s) /\ Head(s) \in Nat
         /\ Elems(Tail(s)) \subseteq Elems(s)
         /\ OneEach(s) => OneEach(Tail(s)) /\ Elems(Tail(s)) = Elems(s) \ {Head(s)}
<1>1. 1 \in DOMAIN s /\ Head(s) = s[1] /\ Tail(s) \in Seq(Nat) /\ Len(Tail(s)) = Len(s) - 1
  OBVIOUS
<1>2. \A i \in 1..Len(Tail(s)) : Tail(s)[i] = IF i < 1 THEN s[i] ELSE s[i + 1]
  OBVIOUS
<1>3. Head(s) \in Elems(s) /\ Head(s) \in Nat
  BY <1>1 DEF Elems
<1>4. /\ Elems(Tail(s)) \subseteq Elems(s)
      /\ OneEach(s) => OneEach(Tail(s)) /\ Elems(Tail(s)) = Elems(s) \ {s[1]}
  BY <1>1, <1>2, Dropped
<1> QED
  BY <1>1, <1>3, <1>4

\* The entry that is unlinked, and what is left.
LEMMA WithoutWhere ==
  ASSUME NEW s \in Seq(Nat), NEW p \in Elems(s)
  PROVE  \E n \in 1..Len(s) :
           /\ s[n] = p /\ Without(s, p) \in Seq(Nat) /\ Len(Without(s, p)) = Len(s) - 1
           /\ \A i \in 1..(Len(s) - 1) : Without(s, p)[i] = IF i < n THEN s[i] ELSE s[i + 1]
<1> DEFINE T == {j \in DOMAIN s : s[j] = p} \cup {Len(s) + 1}
           n == Min(T)
           t == Without(s, p)
<1>1. n \in DOMAIN s /\ s[n] = p
  <2>1. T \subseteq Nat /\ T # {}
    OBVIOUS
  <2>2. n \in T /\ \A j \in T : n <= j
    BY <2>1, MinIs
  <2> HIDE DEF n
  <2>3. PICK j \in 1..Len(s) : s[j] = p
    BY DEF Elems
  <2>4. n <= j
    BY <2>2, <2>3
  <2>5. n # Len(s) + 1
    BY <2>3, <2>4
  <2> QED
    BY <2>2, <2>5
<1>2. t = SubSeq(s, 1, n - 1) \o SubSeq(s, n + 1, Len(s))
  BY DEF Without
<1> HIDE DEF n
<1>3. /\ t \in Seq(Nat) /\ Len(t) = Len(s) - 1
      /\ \A i \in 1..Len(t) : t[i] = IF i < n THEN s[i] ELSE s[i + 1]
  <2>1. n \in 1..Len(s) /\ Len(s) \in Nat
    BY <1>1
  <2> DEFINE a == SubSeq(s, 1, n - 1)
             b == SubSeq(s, n + 1, Len(s))
  <2>2. a \in Seq(Nat) /\ Len(a) = n - 1 /\ \A i \in 1..(n - 1) : a[i] = s[i]
    BY <2>1
  <2>3. b \in Seq(Nat) /\ Len(b) = Len(s) - n /\ \A i \in 1..(Len(s) - n) : b[i] = s[n + i]
    BY <2>1
  <2> HIDE DEF a, b
  <2>4. t = a \o b
    BY <1>2 DEF a, b
  <2> HIDE DEF t
  <2>5. t \in Seq(Nat) /\ Len(t) = Len(s) - 1
    BY <2>1, <2>2, <2>3, <2>4
  <2>6. ASSUME NEW i \in 1..Len(t) PROVE t[i] = IF i < n THEN s[i] ELSE s[i + 1]
    <3>1. CASE i < n
      BY <2>1, <2>2, <2>3, <2>4, <2>5, <3>1
    <3>2. CASE ~(i < n)
      <4>1. i \in n..(Len(s) - 1)
        BY <2>1, <2>5, <3>2
      <4>2. i - (n - 1) \in 1..(Len(s) - n) /\ n + (i - (n - 1)) = i + 1
        BY <2>1, <4>1
      <4>3. t[i] = b[i - (n - 1)]
        <5>1. Len(a) = n - 1 /\ i > Len(a) /\ i <= Len(a) + Len(b) /\ i \in Nat
          BY <2>1, <2>2, <2>3, <4>1
        <5>2. (a \o b)[i] = b[i - Len(a)]
          BY <2>2, <2>3, <5>1
        <5> QED
          BY <2>4, <5>1, <5>2
      <4>4. b[i - (n - 1)] = s[n + (i - (n - 1))]
        BY <2>3, <4>2
      <4> QED
        BY <3>2, <4>2, <4>3, <4>4
    <3> QED
      BY <3>1, <3>2
  <2> QED
    BY <2>5, <2>6
<1> HIDE DEF t
<1>4. n \in 1..Len(s) /\ \A i \in 1..(Len(s) - 1) : t[i] = IF i < n THEN s[i] ELSE s[i + 1]
  <2>1. n \in 1..Len(s)
    BY <1>1
  <2>2. 1..(Len(s) - 1) = 1..Len(t)
    BY <1>3
  <2> QED
    BY <1>3, <2>1, <2>2
<1>5. s[n] = p /\ t \in Seq(Nat) /\ Len(t) = Len(s) - 1
  BY <1>1, <1>3
<1>6. \E m \in 1..Len(s) :
        /\ s[m] = p /\ t \in Seq(Nat) /\ Len(t) = Len(s) - 1
        /\ \A i \in 1..(Len(s) - 1) : t[i] = IF i < m THEN s[i] ELSE s[i + 1]
  BY <1>4, <1>5
<1> QED
  BY <1>6 DEF t

LEMMA Unlinked ==
  ASSUME NEW s \in Seq(Nat), NEW p \in Elems(s)
  PROVE  /\ Without(s, p) \in Seq(Nat)
         /\ Elems(Without(s, p)) \subseteq Elems(s)
         /\ OneEach(s) => /\ OneEach(Without(s, p))
                          /\ Elems(Without(s, p)) = Elems(s) \ {p}
<1>1. PICK t : t = Without(s, p)
  OBVIOUS
<1>2. PICK n \in 1..Len(s) :
        /\ s[n] = p /\ t \in Seq(Nat) /\ Len(t) = Len(s) - 1
        /\ \A i \in 1..(Len(s) - 1) : t[i] = IF i < n THEN s[i] ELSE s[i + 1]
  BY <1>1, WithoutWhere
<1>3. n \in DOMAIN s /\ \A i \in 1..Len(t) : t[i] = IF i < n THEN s[i] ELSE s[i + 1]
  <2>1. n \in DOMAIN s
    BY <1>2
  <2>2. 1..Len(t) = 1..(Len(s) - 1)
    BY <1>2
  <2> QED
    BY <1>2, <2>1, <2>2
<1>4. /\ Elems(t) \subseteq Elems(s)
      /\ OneEach(s) => OneEach(t) /\ Elems(t) = Elems(s) \ {s[n]}
  BY <1>2, <1>3, Dropped
<1> QED
  BY <1>1, <1>2, <1>4

LEMMA CountElems ==
  ASSUME NEW s \in Seq(Nat), OneEach(s)
  PROVE  Cardinality(Elems(s)) = Len(s)
<1>1. Len(s) \in Nat /\ DOMAIN s = 1..Len(s)
  OBVIOUS
<1>2. IsFiniteSet(1..Len(s)) /\ Cardinality(1..Len(s)) = Len(s)
  <2>1. PICK n \in Nat : n = Len(s)
    BY <1>1
  <2>2. IsFiniteSet(1..n) /\ Cardinality(1..n) = IF 1 > n THEN 0 ELSE n - 1 + 1
    BY FS_Interval
  <2>3. (IF 1 > n THEN 0 ELSE n - 1 + 1) = n
    OBVIOUS
  <2> QED
    BY <2>1, <2>2, <2>3
<1>3. s \in Bijection(1..Len(s), Elems(s))
  <2>1. s \in [1..Len(s) -> Elems(s)]
    BY <1>1 DEF Elems
  <2>2. \A y \in Elems(s) : \E x \in 1..Len(s) : s[x] = y
    BY <1>1 DEF Elems
  <2> QED
    BY <1>1, <2>1, <2>2 DEF Bijection, Injection, Surjection, OneEach, IsInjective
<1>4. ExistsBijection(1..Len(s), Elems(s))
  BY <1>3 DEF ExistsBijection
<1> QED
  BY <1>2, <1>4, FS_Bijection

-----------------------------------------------------------------------------
(***************************************************************************)
(* Blocks.                                                                 *)
(***************************************************************************)
\* In the code it is 10.
Small == BUDDY_MAX_ORDER \in 1..10

LEMMA OrderFacts ==
  ASSUME Small
  PROVE  /\ BUDDY_MAX_ORDER \in 1..10 /\ BUDDY_MAX_ORDER \in Nat
         /\ Orders = 0..BUDDY_MAX_ORDER
         /\ Orders \subseteq 0..10 /\ Orders \subseteq Nat /\ 0 \in Orders
         /\ \A k \in Orders : Size(k) \in Nat \ {0}
<1>1. BUDDY_MAX_ORDER \in 1..10
  BY DEF Small
<1>2. Orders = 0..BUDDY_MAX_ORDER /\ Orders \subseteq 0..10 /\ Orders \subseteq Nat /\ 0 \in Orders
  BY <1>1 DEF Orders
<1>3. \A k \in Orders : Size(k) \in Nat \ {0}
  BY <1>2, Sizes1
<1> QED
  BY <1>1, <1>2, <1>3

LEMMA SpanFacts ==
  ASSUME Small, NEW p \in Int, NEW k \in Orders
  PROVE  /\ \A q : q \in Span(p, k) <=> q \in Int /\ p <= q /\ q < p + Size(k)
         /\ p \in Span(p, k)
         /\ IsFiniteSet(Span(p, k)) /\ Cardinality(Span(p, k)) = Size(k)
<1>1. Size(k) \in Nat \ {0}
  BY OrderFacts
<1>2. Span(p, k) = p..(p + Size(k) - 1)
  BY DEF Span
<1>3. IsFiniteSet(p..(p + Size(k) - 1)) /\ Cardinality(p..(p + Size(k) - 1)) = Size(k)
  <2>1. p + Size(k) - 1 \in Int /\ ~(p > p + Size(k) - 1)
        /\ (p + Size(k) - 1) - p + 1 = Size(k)
    BY <1>1
  <2> HIDE DEF Size
  <2> QED
    BY <2>1, FS_Interval
<1> QED
  BY <1>1, <1>2, <1>3

PagesOf(S) == UNION {Pages(b) : b \in S}

\* The sum of the sizes of blocks that have no page in common is the number of pages.
LEMMA SumIsCount ==
  ASSUME Small, NEW S, S \subseteq Blocks, Disjoint(S), NEW X, IsFiniteSet(X), PagesOf(S) \subseteq X
  PROVE  MapThenSumSet(LAMBDA b : Size(b.order), S) = Cardinality(PagesOf(S))
<1> DEFINE pick(s)  == CHOOSE x \in s : TRUE
           Step(f)  == [s \in SUBSET S |->
                          IF s = {} THEN 0 ELSE Size(pick(s).order) + f[s \ {pick(s)}]]
           C        == [s \in SUBSET S |-> Cardinality(PagesOf(s))]
           F        == CHOOSE f : f = Step(f)
<1>1. MapThenSumSet(LAMBDA b : Size(b.order), S) = F[S]
  BY DEF MapThenSumSet, MapThenFoldSet
<1>2. ASSUME NEW s \in SUBSET S
      PROVE  IsFiniteSet(PagesOf(s)) /\ Cardinality(PagesOf(s)) \in Nat
  <2>1. PagesOf(s) \in SUBSET X
    BY DEF PagesOf
  <2> QED
    BY <2>1, FS_Subset, FS_CardinalityType
<1>3. ASSUME NEW s \in SUBSET S, NEW x \in s
      PROVE  /\ Size(x.order) \in Nat \ {0}
             /\ C[s] = Size(x.order) + C[s \ {x}]
  <2>1. x.page \in Nat /\ x.order \in Orders
    BY DEF Blocks
  <2>2. /\ Size(x.order) \in Nat \ {0}
        /\ IsFiniteSet(Pages(x)) /\ Cardinality(Pages(x)) = Size(x.order)
    BY <2>1, OrderFacts, SpanFacts DEF Pages
  <2>3. PagesOf(s) = Pages(x) \cup PagesOf(s \ {x})
    BY DEF PagesOf
  <2>4. Pages(x) \cap PagesOf(s \ {x}) = {}
    BY DEF PagesOf, Disjoint
  <2>5. s \ {x} \in SUBSET S
    OBVIOUS
  <2>6. Cardinality(PagesOf(s)) = Size(x.order) + Cardinality(PagesOf(s \ {x}))
    <3>1. IsFiniteSet(PagesOf(s \ {x})) /\ Cardinality(PagesOf(s \ {x})) \in Nat
      BY <1>2, <2>5
    <3>2. Cardinality(Pages(x) \cup PagesOf(s \ {x})) =
            Cardinality(Pages(x)) + Cardinality(PagesOf(s \ {x})) - Cardinality({})
      BY <2>2, <2>4, <3>1, FS_Union
    <3>3. Cardinality({}) = 0
      BY FS_EmptySet
    <3> QED
      BY <2>2, <2>3, <3>1, <3>2, <3>3
  <2> QED
    BY <2>2, <2>5, <2>6
<1>4. C[{}] = 0
  <2>1. PagesOf({}) = {}
    BY DEF PagesOf
  <2> QED
    BY <2>1, FS_EmptySet
<1>5. \A s \in SUBSET S : s # {} => pick(s) \in s
  OBVIOUS
<1>6. C = Step(C)
  <2> SUFFICES ASSUME NEW s \in SUBSET S
               PROVE  C[s] = IF s = {} THEN 0 ELSE Size(pick(s).order) + C[s \ {pick(s)}]
    OBVIOUS
  <2>1. CASE s = {}
    BY <1>4, <2>1
  <2>2. CASE s # {}
    BY <1>3, <1>5, <2>2
  <2> QED
    BY <2>1, <2>2
<1> HIDE DEF C
<1>7. F = Step(F)
  BY <1>6
<1> HIDE DEF F
<1>8. ASSUME NEW s \in SUBSET S
      PROVE  F[s] = IF s = {} THEN 0 ELSE Size(pick(s).order) + F[s \ {pick(s)}]
  BY <1>7
<1> HIDE DEF pick
<1>9. \A s \in SUBSET S : F[s] = C[s]
  <2> DEFINE Bad == {s \in SUBSET S : F[s] # C[s]}
             T   == {C[s] : s \in Bad}
  <2> SUFFICES ASSUME Bad # {} PROVE FALSE
    OBVIOUS
  <2>1. T \subseteq Nat /\ T # {}
    BY <1>2 DEF C
  <2>2. PICK n \in T : \A m \in T : n <= m
    BY <2>1, NatHasMin
  <2>3. PICK s \in Bad : n = C[s]
    BY <2>2
  <2>4. s # {}
    BY <1>4, <1>8, <2>3
  <2> DEFINE x == pick(s)
  <2>5. x \in s /\ s \ {x} \in SUBSET S
    BY <1>5, <2>4
  <2>6. /\ Size(x.order) \in Nat \ {0} /\ C[s] = Size(x.order) + C[s \ {x}]
        /\ F[s] = Size(x.order) + F[s \ {x}]
    BY <1>3, <1>8, <2>4, <2>5
  <2> HIDE DEF x
  <2>7. C[s \ {x}] \in Nat
    BY <1>2, <2>5 DEF C
  <2>8. s \ {x} \notin Bad
    <3>1. ~(n <= C[s \ {x}])
      BY <2>3, <2>6, <2>7
    <3> QED
      BY <2>2, <3>1
  <2>9. F[s \ {x}] = C[s \ {x}]
    BY <2>5, <2>8
  <2>10. F[s] = C[s]
    BY <2>6, <2>9
  <2> QED
    BY <2>3, <2>10
<1> QED
  BY <1>1, <1>9 DEF C

\* The recursion of MergeFrom is what it says.
LEMMA MergeIs ==
  ASSUME Small, NEW b \in Blocks
  PROVE  \A k \in Orders :
           MergeFrom(b, k) = IF k <= b.order THEN b.page
                             ELSE Smaller(MergeFrom(b, k - 1), Buddy(MergeFrom(b, k - 1), k - 1))
<1> DEFINE Rule(f, l) == IF l <= b.order THEN b.page
                         ELSE Smaller(f[l - 1], Buddy(f[l - 1], l - 1))
           place      == CHOOSE f : f = [l \in Orders |-> Rule(f, l)]
           Good(f, n) == \A l \in 0..n : f[l] = Rule(f, l)
           T          == {n \in Orders : ~\E f : Good(f, n)}
<1>1. b.order \in Nat /\ Orders = 0..BUDDY_MAX_ORDER /\ BUDDY_MAX_ORDER \in Nat
  BY OrderFacts DEF Blocks
<1>2. ASSUME T # {} PROVE FALSE
  <2>1. T \subseteq Nat
    BY OrderFacts
  <2>2. PICK n \in T : \A m \in T : n <= m
    BY <1>2, <2>1, NatHasMin
  <2>3. n \in 0..BUDDY_MAX_ORDER
    BY <1>1
  <2>4. n # 0
    <3>1. Good([l \in {0} |-> b.page], 0)
      <4>1. \A l \in 0..0 : l = 0
        OBVIOUS
      <4> QED
        BY <1>1, <4>1
    <3> QED
      BY <3>1, <2>2
  <2>5. n - 1 \in Orders /\ n - 1 \notin T
    <3>1. n - 1 \in Orders /\ ~(n <= n - 1)
      BY <1>1, <2>3, <2>4
    <3> QED
      BY <2>2, <3>1
  <2>6. PICK f : Good(f, n - 1)
    BY <2>5
  <2> DEFINE g == [l \in 0..n |-> IF l = n THEN Rule(f, n) ELSE f[l]]
  <2>7. /\ \A l \in 0..(n - 1) : g[l] = f[l]
        /\ g[n] = Rule(f, n)
    BY <2>3
  <2> HIDE DEF g
  <2>8. ASSUME NEW l \in 0..n PROVE g[l] = Rule(g, l)
    <3>1. l > b.order => l - 1 \in 0..(n - 1)
      BY <1>1, <2>3
    <3>2. Rule(g, l) = Rule(f, l)
      BY <1>1, <2>3, <2>7, <3>1
    <3>3. CASE l = n
      BY <2>7, <3>2, <3>3
    <3>4. CASE l # n
      <4>1. l \in 0..(n - 1)
        BY <2>3, <3>4
      <4> QED
        BY <2>6, <2>7, <3>2, <4>1
    <3> QED
      BY <3>3, <3>4
  <2>9. Good(g, n)
    BY <2>8
  <2> QED
    BY <2>2, <2>9
<1>3. PICK f : Good(f, BUDDY_MAX_ORDER)
  BY <1>1, <1>2
<1> DEFINE h == [l \in Orders |-> f[l]]
<1>4. h = [l \in Orders |-> Rule(h, l)]
  <2> SUFFICES ASSUME NEW l \in Orders PROVE h[l] = Rule(h, l)
    OBVIOUS
  <2>1. f[l] = Rule(f, l)
    BY <1>1, <1>3
  <2>2. l > b.order => l - 1 \in Orders
    BY <1>1
  <2> QED
    BY <1>1, <2>1, <2>2
<1> HIDE DEF h
<1>5. place = [l \in Orders |-> Rule(place, l)]
  BY <1>4
<1>6. \A k \in Orders : MergeFrom(b, k) = place[k]
  BY DEF MergeFrom
<1> HIDE DEF place
<1>7. ASSUME NEW k \in Orders
      PROVE  MergeFrom(b, k) = IF k <= b.order THEN b.page
                               ELSE Smaller(MergeFrom(b, k - 1), Buddy(MergeFrom(b, k - 1), k - 1))
  <2>1. place[k] = Rule(place, k)
    BY <1>5
  <2>2. k > b.order => k - 1 \in Orders
    BY <1>1
  <2> QED
    BY <1>1, <1>6, <2>1, <2>2
<1> QED
  BY <1>7

-----------------------------------------------------------------------------
(***************************************************************************)
(* The invariant.                                                          *)
(***************************************************************************)
FreePages == PagesOf(FreeBlocks)
LivePages == PagesOf(live)

\* The pages that are handed out.
Home == bitmap_pages(region)..(region.pages - 1)

\* Of init(): what is behind is listed, and a single page is the last one.
Initial ==
  phase = "init" =>
    /\ live = {} /\ ~merged
    /\ FreePages \subseteq 0..(current - 1)
    /\ Listed(0) # {} => current >= region.pages

Exact ==
  /\ phase # "halted"
  /\ \A k \in Orders : OneEach(free_lists[k])
  /\ Disjoint(FreeBlocks) /\ Disjoint(live) /\ FreePages \cap LivePages = {}
  /\ bitmap = BitmapPages(region) \cup LivePages
  /\ free_pages = Cardinality(FreePages)
  /\ allocated_pages = Cardinality(LivePages)

\* Blocks of two pages and more are where a buddy may be sought.
Even(S) == region.base % 2 = 0 => \A b \in S : b.order >= 1 => b.page % 2 = 0

Paired ==
  /\ Even(FreeBlocks) /\ Even(live)
  /\ region.base % 2 = 0 => \A p \in Listed(0) : Buddy(p, 0) \notin Listed(0)

IInv ==
  /\ TypeOK
  /\ BlocksInRegion
  /\ bitmap_pages(region) <= current
  /\ Initial
  /\ ~merged => Exact /\ Paired

-----------------------------------------------------------------------------
LEMMA RegionFacts ==
  ASSUME TypeOK
  PROVE  /\ region.base \in Nat /\ region.pages \in Nat \ {0}
         /\ bitmap_pages(region) \in Nat /\ bitmap_pages(region) <= region.pages
         /\ bitmap_size_words(region) \in Nat
         /\ region.pages <= bitmap_size_words(region) * WORD_BITS
         /\ BitmapPages(region) = 0..(bitmap_pages(region) - 1)
         /\ BitmapPages(region) \cap Home = {}
         /\ Home \subseteq 0..(region.pages - 1) /\ Home \subseteq Nat
         /\ IsFiniteSet(Home) /\ IsFiniteSet(0..(region.pages - 1))
<1>1. region.base \in Nat /\ region.pages \in Nat \ {0}
  BY RegionAssumption DEF TypeOK
<1> DEFINE n == region.pages
           w == (n + 64 - 1) \div 64
<1>2. bitmap_size_words(region) = w /\ bitmap_pages(region) = (w * 8 + 4096 - 1) \div 4096
  BY DEF bitmap_pages, bitmap_size_words, CeilDiv, WORD_BITS, PAGE_SIZE
<1>3. n \in Nat \ {0}
  BY <1>1
<1> HIDE DEF n
<1>4. w \in Nat /\ n <= w * 64 /\ w <= n
  BY <1>3
<1> HIDE DEF w
<1>5. bitmap_pages(region) \in Nat /\ bitmap_pages(region) <= n
  BY <1>2, <1>3, <1>4
<1>6. /\ BitmapPages(region) = 0..(bitmap_pages(region) - 1)
      /\ Home = bitmap_pages(region)..(n - 1)
  BY DEF BitmapPages, Home, n
<1>7. IsFiniteSet(Home) /\ IsFiniteSet(0..(n - 1))
  <2>1. 0 \in Int /\ n - 1 \in Int /\ bitmap_pages(region) \in Int
    BY <1>3, <1>5
  <2> QED
    BY <1>6, <2>1, FS_Interval
<1>8. /\ BitmapPages(region) \cap Home = {}
      /\ Home \subseteq 0..(n - 1) /\ Home \subseteq Nat
  BY <1>3, <1>5, <1>6
<1> QED
  BY <1>1, <1>2, <1>4, <1>5, <1>6, <1>7, <1>8 DEF n, WORD_BITS

\* The free blocks of some lists.
FreeOf(fl) == UNION {{[page |-> p, order |-> k] : p \in Elems(fl[k])} : k \in Orders}

LEMMA FreeOfIs ==
  ASSUME Small, NEW fl \in [Orders -> Seq(Nat)]
  PROVE  /\ FreeOf(fl) \subseteq Blocks
         /\ \A f : f \in FreeOf(fl) <=> f \in Blocks /\ f.page \in Elems(fl[f.order])
         /\ \A k \in Orders : \A p \in Elems(fl[k]) :
              /\ p \in Nat /\ [page |-> p, order |-> k] \in FreeOf(fl)
              /\ [page |-> p, order |-> k].page = p /\ [page |-> p, order |-> k].order = k
<1>1. ASSUME NEW k \in Orders, NEW p \in Elems(fl[k])
      PROVE  p \in Nat /\ [page |-> p, order |-> k] \in FreeOf(fl)
  <2>1. fl[k] \in Seq(Nat)
    OBVIOUS
  <2>2. PICK i \in DOMAIN fl[k] : p = fl[k][i]
    BY DEF Elems
  <2>3. p \in Nat
    BY <2>1, <2>2
  <2>4. [page |-> p, order |-> k] \in {[page |-> q, order |-> k] : q \in Elems(fl[k])}
    OBVIOUS
  <2> QED
    BY <2>3, <2>4 DEF FreeOf
<1>2. ASSUME NEW f \in FreeOf(fl)
      PROVE  f \in Blocks /\ f.page \in Elems(fl[f.order])
  <2>1. PICK k \in Orders : \E p \in Elems(fl[k]) : f = [page |-> p, order |-> k]
    BY DEF FreeOf
  <2>2. PICK p \in Elems(fl[k]) : f = [page |-> p, order |-> k]
    BY <2>1
  <2> QED
    BY <1>1, <2>2 DEF Blocks
<1>3. ASSUME NEW f \in Blocks, f.page \in Elems(fl[f.order]) PROVE f \in FreeOf(fl)
  <2>1. f = [page |-> f.page, order |-> f.order] /\ f.order \in Orders
    BY DEF Blocks
  <2> QED
    BY <1>1, <1>3, <2>1
<1> QED
  BY <1>1, <1>2, <1>3

LEMMA FreeIs ==
  ASSUME Small, TypeOK
  PROVE  /\ FreeBlocks \subseteq Blocks
         /\ \A f : f \in FreeBlocks <=> f \in Blocks /\ f.page \in Listed(f.order)
         /\ \A k \in Orders : \A p \in Listed(k) :
              /\ p \in Nat /\ [page |-> p, order |-> k] \in FreeBlocks
              /\ [page |-> p, order |-> k].page = p /\ [page |-> p, order |-> k].order = k
<1>1. FreeBlocks = FreeOf(free_lists) /\ \A k : Listed(k) = Elems(free_lists[k])
  BY DEF FreeBlocks, FreeOf, Listed, Elems
<1>2. free_lists \in [Orders -> Seq(Nat)]
  BY DEF TypeOK
<1> QED
  BY <1>1, <1>2, FreeOfIs

LEMMA BlockFacts ==
  ASSUME Small, NEW b \in Blocks
  PROVE  /\ b.page \in Nat /\ b.order \in Orders /\ b = [page |-> b.page, order |-> b.order]
         /\ b.page \in Pages(b) /\ Pages(b) = Span(b.page, b.order)
         /\ IsFiniteSet(Pages(b)) /\ Cardinality(Pages(b)) = Size(b.order)
<1>1. b.page \in Nat /\ b.order \in Orders /\ b = [page |-> b.page, order |-> b.order]
  BY DEF Blocks
<1> QED
  BY <1>1, SpanFacts DEF Pages

\* The properties of the runs say what the invariant says.
LEMMA InvImplies ==
  ASSUME Small, IInv
  PROVE  BooksAreExact /\ PagesHaveOneUse
<1>1. TypeOK /\ BlocksInRegion
  BY DEF IInv
<1>2. live \subseteq Blocks /\ FreeBlocks \subseteq Blocks
  BY <1>1, FreeIs DEF TypeOK
<1>3. FreePages \subseteq Home /\ LivePages \subseteq Home /\ IsFiniteSet(Home)
  BY <1>1, RegionFacts DEF BlocksInRegion, FreePages, LivePages, PagesOf, Home
<1>4. ASSUME ~merged PROVE BitmapIsExact /\ CountsAreExact /\ PagesHaveOneUse
  <2>1. Exact
    BY <1>4 DEF IInv
  <2>2. BitmapIsExact
    BY <2>1 DEF Exact, BitmapIsExact, LivePages, PagesOf
  <2>3. CountsAreExact
    <3>1. MapThenSumSet(LAMBDA b : Size(b.order), FreeBlocks) = Cardinality(FreePages)
      BY <1>2, <1>3, <2>1, SumIsCount DEF Exact, FreePages
    <3>2. MapThenSumSet(LAMBDA b : Size(b.order), live) = Cardinality(LivePages)
      BY <1>2, <1>3, <2>1, SumIsCount DEF Exact, LivePages
    <3> QED
      BY <2>1, <3>1, <3>2 DEF CountsAreExact, Exact
  <2>4. \A f \in FreeBlocks, b \in live : Pages(f) \cap Pages(b) = {}
    BY <2>1 DEF Exact, FreePages, LivePages, PagesOf
  <2>5. ~Clobbered
    <3>1. ASSUME NEW k \in Orders, NEW b \in live PROVE Listed(k) \cap Pages(b) = {}
      <4> SUFFICES ASSUME NEW p \in Listed(k), p \in Pages(b) PROVE FALSE
        OBVIOUS
      <4> DEFINE f == [page |-> p, order |-> k]
      <4>1. f \in FreeBlocks /\ f \in Blocks /\ f.page = p
        BY <1>1, FreeIs
      <4>2. p \in Pages(f)
        BY <4>1, BlockFacts
      <4> QED
        BY <2>4, <4>1, <4>2
    <3>2. ASSUME NEW k \in Orders, NEW l \in Orders, k # l
          PROVE  Listed(k) \cap Listed(l) = {}
      <4> SUFFICES ASSUME NEW p \in Listed(k), p \in Listed(l) PROVE FALSE
        OBVIOUS
      <4> DEFINE f == [page |-> p, order |-> k]
                 g == [page |-> p, order |-> l]
      <4>1. /\ f \in FreeBlocks /\ f \in Blocks /\ f.page = p /\ f.order = k
            /\ g \in FreeBlocks /\ g \in Blocks /\ g.page = p /\ g.order = l
        BY <1>1, FreeIs
      <4>2. p \in Pages(f) /\ p \in Pages(g) /\ f # g
        BY <3>2, <4>1, BlockFacts
      <4> QED
        BY <2>1, <4>1, <4>2 DEF Exact, Disjoint
    <3>3. ASSUME NEW k \in Orders PROVE Cardinality(Listed(k)) = Len(free_lists[k])
      <4>1. free_lists[k] \in Seq(Nat) /\ OneEach(free_lists[k])
        BY <1>1, <2>1 DEF TypeOK, Exact
      <4>2. Listed(k) = Elems(free_lists[k])
        BY DEF Listed, Elems
      <4> QED
        BY <4>1, <4>2, CountElems
    <3> QED
      BY <3>1, <3>2, <3>3 DEF Clobbered
  <2> QED
    BY <2>1, <2>2, <2>3, <2>4, <2>5 DEF PagesHaveOneUse, Exact
<1>5. PairsAreMerged
  BY DEF IInv, Paired, PairsAreMerged
<1> QED
  BY <1>1, <1>4, <1>5 DEF BooksAreExact, BitmapIsExact, CountsAreExact, PagesHaveOneUse

-----------------------------------------------------------------------------
(***************************************************************************)
(* buddy_alloc_pages                                                       *)
(***************************************************************************)
\* What is left of the lists when the first block of order from has been split.
Split(order, from) ==
  [k \in Orders |->
     IF k = from THEN Tail(free_lists[k])
     ELSE IF k \in order..(from - 1)
     THEN <<Head(free_lists[from]) + Size(k)>> \o free_lists[k]
     ELSE free_lists[k]]

LEMMA SplitLists ==
  ASSUME Small, TypeOK, NEW order \in Orders, NEW from \in Orders, order <= from,
         free_lists[from] # <<>>, free_lists' = Split(order, from)
  PROVE  LET e == Head(free_lists[from])
         IN /\ free_lists' \in [Orders -> Seq(Nat)] /\ e \in Listed(from)
            /\ \A k \in Orders :
                 Listed(k)' \subseteq
                   Listed(k) \cup (IF k \in order..(from - 1) THEN {e + Size(k)} ELSE {})
            /\ (\A k \in Orders : OneEach(free_lists[k])) =>
                 \A k \in Orders :
                   /\ Listed(k)' = IF k = from THEN Listed(k) \ {e}
                                   ELSE IF k \in order..(from - 1) THEN Listed(k) \cup {e + Size(k)}
                                   ELSE Listed(k)
                   /\ k \in order..(from - 1) => (e + Size(k) \notin Listed(k) => OneEach(free_lists'[k]))
                   /\ k \notin order..(from - 1) => OneEach(free_lists'[k])
<1> DEFINE e == Head(free_lists[from])
<1>1. \A k \in Orders : /\ free_lists[k] \in Seq(Nat)
                        /\ Listed(k) = Elems(free_lists[k])
                        /\ Listed(k)' = Elems(free_lists'[k])
  BY DEF TypeOK, Listed, Elems
<1>2. /\ Tail(free_lists[from]) \in Seq(Nat) /\ e \in Elems(free_lists[from]) /\ e \in Nat
      /\ Elems(Tail(free_lists[from])) \subseteq Elems(free_lists[from])
      /\ OneEach(free_lists[from]) =>
           /\ OneEach(Tail(free_lists[from]))
           /\ Elems(Tail(free_lists[from])) = Elems(free_lists[from]) \ {e}
  BY <1>1, Tailed
<1>3. /\ free_lists'[from] = Tail(free_lists[from])
      /\ \A k \in order..(from - 1) :
           k # from /\ free_lists'[k] = <<e + Size(k)>> \o free_lists[k]
      /\ \A k \in Orders \ ({from} \cup order..(from - 1)) : free_lists'[k] = free_lists[k]
  <2>1. \A k \in order..(from - 1) : k # from /\ k \in Orders
    BY OrderFacts
  <2> QED
    BY <2>1 DEF Split
<1> HIDE DEF e
<1>4. ASSUME NEW k \in order..(from - 1)
      PROVE  /\ k \in Orders /\ k # from /\ free_lists'[k] \in Seq(Nat)
             /\ Elems(free_lists'[k]) = Elems(free_lists[k]) \cup {e + Size(k)}
             /\ OneEach(free_lists[k]) /\ e + Size(k) \notin Elems(free_lists[k])
                  => OneEach(free_lists'[k])
  <2>1. k \in Orders /\ k # from
    BY OrderFacts
  <2>2. e + Size(k) \in Nat
    <3>1. Size(k) \in Nat
      BY <2>1, OrderFacts
    <3> QED
      BY <1>2, <3>1
  <2> DEFINE p == e + Size(k)
  <2> HIDE DEF p
  <2>3. /\ <<p>> \o free_lists[k] \in Seq(Nat)
        /\ Elems(<<p>> \o free_lists[k]) = {p} \cup Elems(free_lists[k])
        /\ OneEach(free_lists[k]) /\ p \notin Elems(free_lists[k])
             => OneEach(<<p>> \o free_lists[k])
    BY <1>1, <2>1, <2>2, Consed DEF p
  <2> QED
    BY <1>3, <2>1, <2>3 DEF p
<1>5. free_lists' \in [Orders -> Seq(Nat)]
  <2>1. \A k \in Orders : free_lists'[k] \in Seq(Nat)
    BY <1>1, <1>2, <1>3, <1>4
  <2> QED
    BY <2>1 DEF Split
<1>6. ASSUME NEW k \in Orders
      PROVE  /\ Listed(k)' \subseteq
                  Listed(k) \cup (IF k \in order..(from - 1) THEN {e + Size(k)} ELSE {})
             /\ OneEach(free_lists[k]) =>
                  /\ Listed(k)' = IF k = from THEN Listed(k) \ {e}
                                  ELSE IF k \in order..(from - 1) THEN Listed(k) \cup {e + Size(k)}
                                  ELSE Listed(k)
                  /\ k \in order..(from - 1) => (e + Size(k) \notin Listed(k) => OneEach(free_lists'[k]))
                  /\ k \notin order..(from - 1) => OneEach(free_lists'[k])
  <2>1. CASE k = from
    <3>1. from \notin order..(from - 1)
      BY OrderFacts
    <3> QED
      BY <1>1, <1>2, <1>3, <2>1, <3>1
  <2>2. CASE k \in order..(from - 1)
    BY <1>1, <1>4, <2>2
  <2>3. CASE k # from /\ k \notin order..(from - 1)
    BY <1>1, <1>3, <2>3
  <2> QED
    BY <2>1, <2>2, <2>3
<1> QED
  BY <1>1, <1>2, <1>5, <1>6 DEF e

\* A block is its first part and the upper halves.
LEMMA SplitBlock ==
  ASSUME Small, NEW e \in Nat, NEW o \in Orders, NEW f \in Orders, o <= f
  PROVE  /\ Span(e, o) \subseteq Span(e, f)
         /\ \A k \in o..(f - 1) : /\ k \in Orders /\ e + Size(k) \in Nat
                                  /\ Span(e + Size(k), k) \subseteq Span(e, f)
                                  /\ Span(e + Size(k), k) \cap Span(e, o) = {}
         /\ \A k, l \in o..(f - 1) :
              k # l => Span(e + Size(k), k) \cap Span(e + Size(l), l) = {}
         /\ \A q \in Span(e, f) :
              q \notin Span(e, o) => \E k \in o..(f - 1) : q \in Span(e + Size(k), k)
<1>1. o \in 0..10 /\ f \in 0..10 /\ o..(f - 1) \subseteq Orders /\ Orders \subseteq 0..10
      /\ e \in Int
  BY OrderFacts
<1>2. \A k \in 0..10 : Size(k) \in Nat \ {0}
  BY Sizes1
<1>3. \A k, l \in 0..10 : k < l => 2 * Size(k) <= Size(l)
  BY Sizes1
<1>4. \A k \in Orders : e + Size(k) \in Nat
  BY <1>1, <1>2
<1>5. \A k \in Orders, p \in Nat : \A q : q \in Span(p, k) <=> q \in Int /\ p <= q /\ q < p + Size(k)
  BY SpanFacts
<1>6. Span(e, o) \subseteq Span(e, f)
  <2> SUFFICES ASSUME NEW q \in Span(e, o) PROVE q \in Span(e, f)
    OBVIOUS
  <2>1. Size(o) <= Size(f) /\ Size(o) \in Nat /\ Size(f) \in Nat
    <3>1. o = f \/ o < f
      BY <1>1
    <3> QED
      BY <1>1, <1>2, <1>3, <3>1
  <2>2. q \in Int /\ e <= q /\ q < e + Size(o)
    BY <1>5
  <2>3. q < e + Size(f)
    BY <2>1, <2>2
  <2> QED
    BY <1>5, <2>2, <2>3
<1>7. ASSUME NEW k \in o..(f - 1)
      PROVE  /\ Span(e + Size(k), k) \subseteq Span(e, f)
             /\ Span(e + Size(k), k) \cap Span(e, o) = {}
  <2>1. k \in Orders /\ k \in 0..10 /\ k < f /\ (o = k \/ o < k)
    BY <1>1
  <2>2. /\ Size(k) \in Nat \ {0} /\ Size(f) \in Nat /\ Size(o) \in Nat
        /\ 2 * Size(k) <= Size(f) /\ Size(o) <= Size(k)
    BY <1>1, <1>2, <1>3, <2>1
  <2>3. ASSUME NEW q \in Span(e + Size(k), k)
        PROVE  q \in Int /\ e + Size(k) <= q /\ q < e + 2 * Size(k)
    <3>1. q \in Int /\ e + Size(k) <= q /\ q < (e + Size(k)) + Size(k)
      BY <1>4, <1>5, <2>1
    <3> QED
      BY <2>2, <3>1
  <2>4. ASSUME NEW q \in Span(e + Size(k), k) PROVE q \in Span(e, f)
    <3>1. q \in Int /\ e <= q /\ q < e + Size(f)
      BY <2>2, <2>3
    <3> QED
      BY <1>5, <3>1
  <2>5. ASSUME NEW q \in Span(e + Size(k), k) PROVE q \notin Span(e, o)
    <3>1. ~(q < e + Size(o))
      BY <2>2, <2>3
    <3> QED
      BY <1>5, <3>1
  <2> QED
    BY <2>4, <2>5
<1>8. ASSUME NEW k \in o..(f - 1), NEW l \in o..(f - 1), k < l
      PROVE  Span(e + Size(k), k) \cap Span(e + Size(l), l) = {}
  <2> SUFFICES ASSUME NEW q \in Span(e + Size(k), k), q \in Span(e + Size(l), l)
               PROVE  FALSE
    OBVIOUS
  <2>1. k \in Orders /\ l \in Orders /\ k \in 0..10 /\ l \in 0..10
    BY <1>1
  <2>2. q \in Int /\ q < (e + Size(k)) + Size(k) /\ e + Size(l) <= q
    BY <1>4, <1>5, <2>1
  <2>3. 2 * Size(k) <= Size(l) /\ Size(k) \in Nat /\ Size(l) \in Nat
    BY <1>2, <1>3, <1>8, <2>1
  <2> QED
    BY <2>2, <2>3
<1>9. ASSUME NEW k \in o..(f - 1), NEW l \in o..(f - 1), k # l
      PROVE  Span(e + Size(k), k) \cap Span(e + Size(l), l) = {}
  <2>1. k < l \/ l < k
    BY <1>9, OrderFacts
  <2> QED
    BY <2>1, <1>8
<1>10. ASSUME NEW q \in Span(e, f), q \notin Span(e, o)
       PROVE  \E k \in o..(f - 1) : q \in Span(e + Size(k), k)
  <2>1. q \in Int /\ e <= q /\ q < e + Size(f) /\ ~(q < e + Size(o))
    BY <1>5, <1>10
  <2> DEFINE d == q - e
  <2>2. d \in Nat /\ Size(o) <= d /\ d < Size(f) /\ q = e + d
    BY <1>1, <1>2, <2>1
  <2> HIDE DEF d
  <2>3. PICK k \in o..(f - 1) : Size(k) <= d /\ d < 2 * Size(k)
    BY <1>1, <2>2, UpperHalf
  <2>4. k \in Orders /\ Size(k) \in Nat
    BY <1>1, <1>2
  <2>5. e + Size(k) <= q /\ q < (e + Size(k)) + Size(k)
    BY <2>2, <2>3, <2>4
  <2>6. q \in Span(e + Size(k), k)
    BY <1>4, <1>5, <2>1, <2>4, <2>5
  <2> QED
    BY <2>6
<1> QED
  BY <1>1, <1>4, <1>6, <1>7, <1>9, <1>10

\* What FreeIs says of the next state.
LEMMA FreeIsNext ==
  ASSUME Small, free_lists' \in [Orders -> Seq(Nat)]
  PROVE  /\ FreeBlocks' \subseteq Blocks
         /\ \A f : f \in FreeBlocks' <=> f \in Blocks /\ f.page \in Listed(f.order)'
         /\ \A k \in Orders : Listed(k)' \subseteq Nat
<1>1. FreeBlocks' = FreeOf(free_lists')
  BY DEF FreeBlocks, FreeOf, Listed, Elems
<1>2. \A k : Listed(k)' = Elems(free_lists'[k])
  BY DEF Listed, Elems
<1>3. \A f : f \in FreeOf(free_lists') <=> f \in Blocks /\ f.page \in Elems(free_lists'[f.order])
  BY FreeOfIs
<1>4. \A f : f \in FreeBlocks' <=> f \in Blocks /\ f.page \in Listed(f.order)'
  BY <1>1, <1>2, <1>3
<1>5. \A k \in Orders : Elems(free_lists'[k]) \subseteq Nat
  BY FreeOfIs
<1> QED
  BY <1>2, <1>4, <1>5

LEMMA BuddyOfPage ==
  ASSUME NEW p \in Nat
  PROVE  Buddy(p, 0) = IF p % 2 = 0 THEN p + 1 ELSE p - 1
<1>1. Size(0) = 1
  BY Sizes1
<1>2. p \div 1 = p
  OBVIOUS
<1> QED
  BY <1>1, <1>2 DEF Buddy

LEMMA UpperIsOdd ==
  ASSUME Small, NEW e \in Nat, e % 2 = 0
  PROVE  /\ \A k \in Orders : k >= 1 => (e + Size(k)) % 2 = 0
         /\ Buddy(e + 1, 0) = e
         /\ \A p \in Nat : Buddy(p, 0) = e + 1 => p = e
<1>1. ASSUME NEW k \in Orders, k >= 1 PROVE (e + Size(k)) % 2 = 0
  <2>1. k \in 1..10
    BY <1>1, OrderFacts
  <2>2. Size(k) % 2 = 0 /\ Size(k) \in Nat
    BY <2>1, Sizes1
  <2> QED
    BY <2>2
<1>2. Buddy(e + 1, 0) = e
  BY BuddyOfPage
<1>3. ASSUME NEW p \in Nat, Buddy(p, 0) = e + 1 PROVE p = e
  BY <1>3, BuddyOfPage
<1> QED
  BY <1>1, <1>2, <1>3

LEMMA AllocKeeps ==
  ASSUME Small, IInv, NEW order \in Orders, buddy_alloc_pages(order)
  PROVE  IInv'
<1>a. TypeOK /\ BlocksInRegion
  BY DEF IInv
<1>2. PICK from \in Orders :
        /\ order <= from /\ free_lists[from] # <<>>
        /\ free_lists' = Split(order, from)
        /\ live' = live \cup {[page |-> Head(free_lists[from]), order |-> order]}
        /\ bitmap' = bitmap \cup Pages([page |-> Head(free_lists[from]), order |-> order])
  <2> DEFINE fits == {k \in Orders : k >= order /\ free_lists[k] # <<>>}
  <2>1. fits \subseteq Nat /\ fits # {}
    BY OrderFacts DEF buddy_alloc_pages
  <2>2. Min(fits) \in fits
    BY <2>1, MinIs
  <2>3. /\ free_lists' = Split(order, Min(fits))
        /\ live' = live \cup {[page |-> Head(free_lists[Min(fits)]), order |-> order]}
        /\ bitmap' = bitmap \cup Pages([page |-> Head(free_lists[Min(fits)]), order |-> order])
    BY DEF buddy_alloc_pages, Split
  <2> QED
    BY <2>2, <2>3
<1> DEFINE e  == Head(free_lists[from])
           b  == [page |-> e, order |-> order]
           f0 == [page |-> e, order |-> from]
<1>1. /\ phase = "ready"
      /\ bitmap' = bitmap \cup Pages(b)
      /\ allocated_pages' = allocated_pages + Size(order)
      /\ free_pages' = free_pages - Size(order)
      /\ live' = live \cup {b}
      /\ region' = region /\ phase' = phase /\ current' = current /\ merged' = merged
  BY <1>2 DEF buddy_alloc_pages, Usable
<1>3. /\ free_lists' \in [Orders -> Seq(Nat)] /\ e \in Listed(from)
      /\ \A k \in Orders :
           Listed(k)' \subseteq
             Listed(k) \cup (IF k \in order..(from - 1) THEN {e + Size(k)} ELSE {})
      /\ (\A k \in Orders : OneEach(free_lists[k])) =>
           \A k \in Orders :
             /\ Listed(k)' = IF k = from THEN Listed(k) \ {e}
                             ELSE IF k \in order..(from - 1) THEN Listed(k) \cup {e + Size(k)}
                             ELSE Listed(k)
             /\ k \in order..(from - 1) => (e + Size(k) \notin Listed(k) => OneEach(free_lists'[k]))
             /\ k \notin order..(from - 1) => OneEach(free_lists'[k])
  BY <1>a, <1>1, <1>2, SplitLists
<1>4. e \in Nat /\ f0 \in FreeBlocks /\ f0 \in Blocks /\ f0.page = e /\ f0.order = from
      /\ Pages(f0) = Span(e, from)
  BY <1>a, <1>2, <1>3, FreeIs DEF Pages
<1> HIDE DEF e
<1>5. b \in Blocks /\ b.page = e /\ b.order = order /\ Pages(b) = Span(e, order)
  BY <1>4 DEF Blocks, Pages
<1> HIDE DEF b, f0
<1>6. Pages(f0) \subseteq Home
  BY <1>a, <1>4 DEF BlocksInRegion, Home
<1>7. /\ Span(e, order) \subseteq Span(e, from)
      /\ \A k \in order..(from - 1) : /\ k \in Orders /\ e + Size(k) \in Nat
                             /\ Span(e + Size(k), k) \subseteq Span(e, from)
                             /\ Span(e + Size(k), k) \cap Span(e, order) = {}
      /\ \A k, l \in order..(from - 1) :
           k # l => Span(e + Size(k), k) \cap Span(e + Size(l), l) = {}
      /\ \A q \in Span(e, from) :
           q \notin Span(e, order) => \E k \in order..(from - 1) : q \in Span(e + Size(k), k)
  BY <1>2, <1>4, SplitBlock
<1>8. live \subseteq Blocks /\ FreeBlocks \subseteq Blocks
      /\ \A f : f \in FreeBlocks <=> f \in Blocks /\ f.page \in Listed(f.order)
  BY <1>a, FreeIs DEF TypeOK
<1>9. FreeBlocks' \subseteq Blocks
      /\ \A f : f \in FreeBlocks' <=> f \in Blocks /\ f.page \in Listed(f.order)'
  BY <1>3, FreeIsNext
<1>10. TypeOK'
  <2>1. Size(order) \in Nat
    BY OrderFacts
  <2>2. Pages(b) \subseteq 0..(region.pages - 1)
    BY <1>a, <1>4, <1>5, <1>6, <1>7, RegionFacts
  <2>3. free_pages' \in Int /\ allocated_pages' \in Int
    BY <1>a, <1>1, <2>1 DEF TypeOK
  <2>4. bitmap' \subseteq 0..(region.pages - 1) /\ live' \subseteq Blocks
    BY <1>a, <1>1, <1>5, <2>2 DEF TypeOK
  <2>5. region' \in Regions /\ phase' \in {"init", "ready", "halted"} /\ current' \in Nat
        /\ merged' \in BOOLEAN
    BY <1>a, <1>1 DEF TypeOK
  <2> QED
    BY <1>1, <1>3, <2>3, <2>4, <2>5 DEF TypeOK
<1>11. Home' = Home /\ BitmapPages(region)' = BitmapPages(region)
  BY <1>1 DEF Home
<1>12. ASSUME NEW f \in FreeBlocks', f \notin FreeBlocks
       PROVE  /\ f.order \in order..(from - 1) /\ f.page = e + Size(f.order)
              /\ Pages(f) = Span(e + Size(f.order), f.order)
  <2>1. f \in Blocks /\ f.page \in Listed(f.order)' /\ f.page \notin Listed(f.order)
        /\ f.order \in Orders
    BY <1>8, <1>9, <1>12 DEF Blocks
  <2> QED
    BY <1>3, <2>1 DEF Pages
<1>13. BlocksInRegion'
  <2>1. ASSUME NEW f \in FreeBlocks' PROVE Pages(f) \subseteq Home
    <3>1. CASE f \in FreeBlocks
      BY <1>a, <3>1 DEF BlocksInRegion, Home
    <3>2. CASE f \notin FreeBlocks
      BY <1>4, <1>6, <1>7, <1>12, <3>2
    <3> QED
      BY <3>1, <3>2
  <2>2. ASSUME NEW f \in live' PROVE Pages(f) \subseteq Home
    BY <1>a, <1>1, <1>4, <1>5, <1>6, <1>7 DEF BlocksInRegion, Home
  <2> QED
    BY <1>1, <2>1, <2>2 DEF BlocksInRegion, Home
<1>14. Initial' /\ (bitmap_pages(region) <= current)'
  BY <1>1 DEF Initial, IInv
<1>15. ASSUME ~merged PROVE Exact' /\ Paired'
  <2>1. Exact /\ Paired
    BY <1>15 DEF IInv
  <2>2. /\ Disjoint(FreeBlocks) /\ Disjoint(live) /\ FreePages \cap LivePages = {}
        /\ \A k \in Orders : OneEach(free_lists[k])
    BY <2>1 DEF Exact
  <2>3. ASSUME NEW k \in Orders, NEW p \in Listed(k), k # from \/ p # e
        PROVE  p \notin Span(e, from)
    <3> DEFINE g == [page |-> p, order |-> k]
    <3>1. g \in FreeBlocks /\ g \in Blocks /\ g.page = p /\ g.order = k
      BY <1>a, FreeIs
    <3>2. p \in Pages(g)
      BY <3>1, BlockFacts
    <3>3. g # f0
      BY <1>4, <2>3, <3>1
    <3> QED
      BY <1>4, <2>2, <3>1, <3>2, <3>3 DEF Disjoint
  <2>4. ASSUME NEW k \in order..(from - 1) PROVE e + Size(k) \notin Listed(k)
    <3>1. k \in Orders /\ k # from /\ e + Size(k) \in Span(e, from)
      <4>1. k \in Orders /\ e + Size(k) \in Nat /\ Span(e + Size(k), k) \subseteq Span(e, from)
        BY <1>7
      <4>2. e + Size(k) \in Span(e + Size(k), k)
        BY <4>1, SpanFacts
      <4>3. k # from
        BY <1>2, OrderFacts
      <4> QED
        BY <4>1, <4>2, <4>3
    <3> QED
      BY <2>3, <3>1
  <2>5. \A k \in Orders : Listed(k)' = IF k = from THEN Listed(k) \ {e}
                             ELSE IF k \in order..(from - 1) THEN Listed(k) \cup {e + Size(k)}
                             ELSE Listed(k)
    BY <1>3, <2>2
  <2>6. \A k \in Orders : OneEach(free_lists'[k])
    BY <1>3, <2>2, <2>4
  <2>7. ASSUME NEW f \in FreeBlocks, f # f0 PROVE f \in FreeBlocks'
    <3>1. f \in Blocks /\ f.page \in Listed(f.order) /\ f.order \in Orders
          /\ f = [page |-> f.page, order |-> f.order]
      BY <1>8, BlockFacts
    <3>2. f.order # from \/ f.page # e
      BY <2>7, <3>1 DEF f0
    <3>3. f.page \in Listed(f.order)'
      BY <2>5, <3>1, <3>2
    <3> QED
      BY <1>9, <3>1, <3>3
  <2>8. f0 \notin FreeBlocks'
    <3>1. Listed(from)' = Listed(from) \ {e}
      BY <1>2, <2>5
    <3> QED
      BY <1>4, <1>9, <3>1
  <2>9. ASSUME NEW k \in order..(from - 1)
        PROVE  \E f \in FreeBlocks' : Pages(f) = Span(e + Size(k), k)
    <3> DEFINE g == [page |-> e + Size(k), order |-> k]
    <3>1. k \in Orders /\ e + Size(k) \in Nat /\ k # from
      BY <1>2, <1>7, OrderFacts
    <3>2. g \in Blocks /\ g.page = e + Size(k) /\ g.order = k
      BY <3>1 DEF Blocks
    <3>3. e + Size(k) \in Listed(k)'
      BY <2>5, <3>1
    <3>4. g \in FreeBlocks'
      BY <1>9, <3>2, <3>3
    <3> QED
      BY <3>2, <3>4 DEF Pages
  <2>10. FreePages' = FreePages \ Pages(b)
    <3>1. ASSUME NEW f \in FreeBlocks', NEW q \in Pages(f)
          PROVE  q \in FreePages /\ q \notin Pages(b)
      <4>1. CASE f \in FreeBlocks
        <5>1. f # f0
          BY <2>8
        <5>2. q \notin Pages(f0)
          BY <1>4, <2>2, <4>1, <5>1 DEF Disjoint
        <5> QED
          BY <1>4, <1>5, <1>7, <4>1, <5>2 DEF FreePages, PagesOf
      <4>2. CASE f \notin FreeBlocks
        <5>1. f.order \in order..(from - 1) /\ q \in Span(e + Size(f.order), f.order)
          BY <1>12, <4>2
        <5>2. q \in Pages(f0) /\ q \notin Pages(b)
          BY <1>4, <1>5, <1>7, <5>1
        <5> QED
          BY <1>4, <5>2 DEF FreePages, PagesOf
      <4> QED
        BY <4>1, <4>2
    <3>2. ASSUME NEW f \in FreeBlocks, NEW q \in Pages(f), q \notin Pages(b)
          PROVE  q \in FreePages'
      <4>1. CASE f # f0
        BY <2>7, <4>1 DEF FreePages, PagesOf
      <4>2. CASE f = f0
        <5>1. PICK k \in order..(from - 1) : q \in Span(e + Size(k), k)
          BY <1>4, <1>5, <1>7, <3>2, <4>2
        <5> QED
          BY <2>9, <5>1 DEF FreePages, PagesOf
      <4> QED
        BY <4>1, <4>2
    <3> QED
      BY <3>1, <3>2 DEF FreePages, PagesOf
  <2>11. LivePages' = LivePages \cup Pages(b)
    BY <1>1 DEF LivePages, PagesOf
  <2>12. Pages(b) \subseteq FreePages
    BY <1>4, <1>5, <1>7 DEF FreePages, PagesOf
  <2>13. Disjoint(FreeBlocks')
    <3> SUFFICES ASSUME NEW f \in FreeBlocks', NEW g \in FreeBlocks', f # g
                 PROVE  Pages(f) \cap Pages(g) = {}
      BY DEF Disjoint
    <3>1. CASE f \in FreeBlocks /\ g \in FreeBlocks
      BY <2>2, <3>1 DEF Disjoint
    <3>2. ASSUME NEW x \in FreeBlocks', NEW y \in FreeBlocks', x \in FreeBlocks, y \notin FreeBlocks
          PROVE  Pages(x) \cap Pages(y) = {}
      <4>1. Pages(y) \subseteq Pages(f0)
        BY <1>4, <1>7, <1>12, <3>2
      <4>2. Pages(x) \cap Pages(f0) = {}
        BY <1>4, <2>2, <2>8, <3>2 DEF Disjoint
      <4> QED
        BY <4>1, <4>2
    <3>3. CASE f \notin FreeBlocks /\ g \notin FreeBlocks
      <4>1. f \in Blocks /\ g \in Blocks
        BY <1>9
      <4>2. f.order # g.order
        BY <1>12, <3>3, <4>1, BlockFacts
      <4> QED
        BY <1>7, <1>12, <3>3, <4>2
    <3> QED
      BY <3>1, <3>2, <3>3
  <2>14. Disjoint(live')
    <3>1. \A x \in live : Pages(x) \cap Pages(b) = {}
      BY <2>2, <2>12 DEF LivePages, PagesOf
    <3> QED
      BY <1>1, <2>2, <3>1 DEF Disjoint
  <2>15. FreePages' \cap LivePages' = {}
    BY <2>2, <2>10, <2>11
  <2>16. bitmap' = BitmapPages(region)' \cup LivePages'
    BY <1>1, <1>11, <2>1, <2>11 DEF Exact
  <2>17. free_pages' = Cardinality(FreePages') /\ allocated_pages' = Cardinality(LivePages')
    <3>1. /\ IsFiniteSet(FreePages) /\ Cardinality(FreePages) \in Nat
          /\ IsFiniteSet(LivePages) /\ Cardinality(LivePages) \in Nat
      <4>1. FreePages \subseteq Home /\ LivePages \subseteq Home /\ IsFiniteSet(Home)
        BY <1>a, RegionFacts DEF BlocksInRegion, FreePages, LivePages, PagesOf, Home
      <4> QED
        BY <4>1, FS_Subset, FS_CardinalityType
    <3>2. /\ IsFiniteSet(Pages(b)) /\ Cardinality(Pages(b)) = Size(order)
          /\ Size(order) \in Nat
      BY <1>5, BlockFacts, OrderFacts
    <3>3. Cardinality(FreePages \ Pages(b)) = Cardinality(FreePages) - Size(order)
      <4>1. FreePages \cap Pages(b) = Pages(b)
        BY <2>12
      <4>2. Cardinality(FreePages \ Pages(b)) = Cardinality(FreePages) - Cardinality(Pages(b))
        BY <3>1, <4>1, FS_Difference
      <4> QED
        BY <3>2, <4>2
    <3>4. Cardinality(LivePages \cup Pages(b)) = Cardinality(LivePages) + Size(order)
      <4>1. LivePages \cap Pages(b) = {}
        BY <2>2, <2>12
      <4>2. Cardinality(LivePages \cup Pages(b)) =
              Cardinality(LivePages) + Cardinality(Pages(b)) - Cardinality({})
        BY <3>1, <3>2, <4>1, FS_Union
      <4> QED
        BY <3>1, <3>2, <4>2, FS_EmptySet
    <3> QED
      BY <1>1, <2>1, <2>10, <2>11, <3>3, <3>4 DEF Exact
  <2>18. ASSUME region.base % 2 = 0, from >= 1 PROVE e % 2 = 0
    BY <1>4, <2>1, <2>18 DEF Paired, Even
  <2>19. Even(FreeBlocks)'
    <3> SUFFICES ASSUME region.base % 2 = 0, NEW f \in FreeBlocks', f.order >= 1
                 PROVE  f.page % 2 = 0
      BY <1>1 DEF Even
    <3>1. CASE f \in FreeBlocks
      BY <2>1, <3>1 DEF Paired, Even
    <3>2. CASE f \notin FreeBlocks
      <4>1. f.order \in order..(from - 1) /\ f.order \in Orders /\ f.page = e + Size(f.order)
        BY <1>7, <1>12, <3>2
      <4>2. from >= 1
        BY <1>2, <4>1, OrderFacts
      <4>3. e % 2 = 0
        BY <2>18, <4>2
      <4> QED
        BY <1>4, <4>1, <4>3, UpperIsOdd
    <3> QED
      BY <3>1, <3>2
  <2>20. Even(live)'
    <3>1. order >= 1 => from >= 1
      BY <1>2, OrderFacts
    <3> QED
      BY <1>1, <1>5, <2>1, <2>18, <3>1 DEF Paired, Even
  <2>21. ASSUME region.base % 2 = 0, NEW p \in Listed(0)' PROVE Buddy(p, 0) \notin Listed(0)'
    <3>1. 0 \in Orders /\ \A q \in Listed(0) : Buddy(q, 0) \notin Listed(0)
      BY <2>1, <2>21, OrderFacts DEF Paired
    <3>2. CASE 0 \notin order..(from - 1)
      <4>1. Listed(0)' \subseteq Listed(0)
        BY <1>3, <3>1, <3>2
      <4> QED
        BY <2>21, <3>1, <4>1
    <3>3. CASE 0 \in order..(from - 1)
      <4>1. from >= 1 /\ from # 0
        BY <1>2, <3>3, OrderFacts
      <4>2. Listed(0)' = Listed(0) \cup {e + 1}
        BY <2>5, <3>1, <3>3, <4>1, Sizes1
      <4>3. e \notin Listed(0)'
        <5>1. e \notin Listed(0)
          <6>1. e \in Span(e, from)
            BY <1>2, <1>4, SpanFacts
          <6> QED
            BY <2>3, <3>1, <4>1, <6>1
        <5> QED
          BY <1>4, <4>2, <5>1
      <4>4. Listed(0)' \subseteq Nat
        BY <1>3, <3>1, FreeIsNext
      <4>5. Buddy(e + 1, 0) = e /\ \A q \in Nat : Buddy(q, 0) = e + 1 => q = e
        BY <1>4, <2>18, <2>21, <4>1, UpperIsOdd
      <4>6. CASE p = e + 1
        BY <4>3, <4>5, <4>6
      <4>7. CASE p # e + 1
        BY <2>21, <3>1, <4>2, <4>3, <4>4, <4>5, <4>7
      <4> QED
        BY <4>6, <4>7
    <3> QED
      BY <3>2, <3>3
  <2>22. Paired'
    BY <1>1, <2>19, <2>20, <2>21 DEF Paired
  <2>23. phase' # "halted"
    BY <1>1
  <2> QED
    BY <2>6, <2>13, <2>14, <2>15, <2>16, <2>17, <2>22, <2>23 DEF Exact
<1> QED
  BY <1>1, <1>10, <1>13, <1>14, <1>15 DEF IInv

-----------------------------------------------------------------------------
(***************************************************************************)
(* buddy_free_pages                                                        *)
(***************************************************************************)
\* Aligned or not, a block and the one that is taken for its buddy do not overlap.
LEMMA BuddyIsApart ==
  ASSUME NEW k \in 0..10, NEW p \in Nat
  PROVE  /\ Buddy(p, k) \in Int
         /\ Buddy(p, k) >= p + Size(k) \/ Buddy(p, k) + Size(k) <= p
<1> DEFINE Apart(q, s) == q \in Int /\ (q >= p + s \/ q + s <= p)
           Far(s) == LET i == p \div s
                     IN (IF (i \div s) % 2 = 0 THEN i + s ELSE i - s) * s
<1>1. Buddy(p, k) = Far(Size(k))
  BY DEF Buddy
<1>2. /\ Apart(Far(1), 1) /\ Apart(Far(2), 2) /\ Apart(Far(4), 4) /\ Apart(Far(8), 8)
      /\ Apart(Far(16), 16) /\ Apart(Far(32), 32)
  OBVIOUS
<1>3. /\ Apart(Far(64), 64) /\ Apart(Far(128), 128) /\ Apart(Far(256), 256)
      /\ Apart(Far(512), 512) /\ Apart(Far(1024), 1024)
  OBVIOUS
<1> HIDE DEF Far, Apart
<1>4. Apart(Far(Size(k)), Size(k))
  <2>1. \A s \in {1, 2, 4, 8, 16, 32, 64, 128, 256, 512, 1024} : Apart(Far(s), s)
    BY <1>2, <1>3
  <2>2. Size(k) \in {1, 2, 4, 8, 16, 32, 64, 128, 256, 512, 1024}
    BY PowersAre DEF Powers
  <2> QED
    BY <2>1, <2>2
<1> QED
  BY <1>1, <1>4 DEF Apart

LEMMA StopIs ==
  ASSUME Small, NEW b \in Blocks, NEW bits
  PROVE  /\ MergeStop(b, bits) \in Orders /\ MergeStop(b, bits) >= b.order
         /\ \A k \in b.order..(MergeStop(b, bits) - 1) :
              k \in Orders /\ buddy_block_really_free(Buddy(MergeFrom(b, k), k), k, bits)
         /\ MergeStop(b, bits) # BUDDY_MAX_ORDER =>
              ~buddy_block_really_free(Buddy(MergeFrom(b, MergeStop(b, bits)), MergeStop(b, bits)),
                                       MergeStop(b, bits), bits)
<1> DEFINE Stop(k) == \/ k = BUDDY_MAX_ORDER
                      \/ ~buddy_block_really_free(Buddy(MergeFrom(b, k), k), k, bits)
           T       == {k \in Orders : k >= b.order /\ Stop(k)}
           top     == MergeStop(b, bits)
<1>1. b.order \in Orders /\ Orders = 0..BUDDY_MAX_ORDER /\ BUDDY_MAX_ORDER \in Nat
      /\ Orders \subseteq Nat
  BY BlockFacts, OrderFacts
<1>2. T \subseteq Nat /\ BUDDY_MAX_ORDER \in T
  BY <1>1
<1>3. top = Min(T)
  BY DEF MergeStop
<1>4. top \in T /\ \A y \in T : top <= y
  BY <1>2, <1>3, MinIs
<1> HIDE DEF top
<1>5. ASSUME NEW k \in b.order..(top - 1)
      PROVE  k \in Orders /\ buddy_block_really_free(Buddy(MergeFrom(b, k), k), k, bits)
  <2>1. k \in Orders /\ k >= b.order /\ ~(top <= k)
    BY <1>1, <1>4
  <2>2. k \notin T
    BY <1>4, <2>1
  <2> QED
    BY <2>1, <2>2
<1> QED
  BY <1>4, <1>5 DEF top

\* Whatever is merged with whatever: all that is merged lies in the region.
LEMMA MergedInHome ==
  ASSUME Small, TypeOK, BlocksInRegion, NEW b \in Blocks, NEW bits, Pages(b) \subseteq Home
  PROVE  \A k \in b.order..MergeStop(b, bits) :
           /\ k \in Orders /\ MergeFrom(b, k) \in Nat
           /\ Span(MergeFrom(b, k), k) \subseteq Home
<1> DEFINE top     == MergeStop(b, bits)
           Good(k) == MergeFrom(b, k) \in Nat /\ Span(MergeFrom(b, k), k) \subseteq Home
           T       == {k \in b.order..top : ~Good(k)}
<1>1. /\ top \in Orders /\ top >= b.order
      /\ \A k \in b.order..(top - 1) :
           k \in Orders /\ buddy_block_really_free(Buddy(MergeFrom(b, k), k), k, bits)
  BY StopIs
<1>2. b.order \in Orders /\ b.page \in Nat /\ Orders = 0..BUDDY_MAX_ORDER /\ Orders \subseteq 0..10
      /\ BUDDY_MAX_ORDER \in Nat /\ Pages(b) = Span(b.page, b.order)
  BY BlockFacts, OrderFacts
<1> HIDE DEF top
<1>3. \A k \in b.order..top : k \in Orders
  BY <1>1, <1>2
<1>4. ASSUME T # {} PROVE FALSE
  <2>1. T \subseteq Nat
    BY <1>2, <1>3
  <2>2. PICK k \in T : \A m \in T : k <= m
    BY <1>4, <2>1, NatHasMin
  <2>3. MergeFrom(b, k) = IF k <= b.order THEN b.page
                          ELSE Smaller(MergeFrom(b, k - 1), Buddy(MergeFrom(b, k - 1), k - 1))
    BY <1>3, MergeIs
  <2>4. k # b.order
    BY <1>2, <2>2, <2>3
  <2>5. k - 1 \in b.order..(top - 1) /\ k - 1 \in Orders /\ k - 1 \in 0..9 /\ k \in Orders
        /\ (k - 1) + 1 = k /\ ~(k <= b.order)
    BY <1>1, <1>2, <1>3, <2>2, <2>4
  <2> DEFINE j == k - 1
             m == MergeFrom(b, j)
             q == Buddy(m, j)
             r == MergeFrom(b, k)
  <2>6. Good(j)
    <3>1. j \in b.order..top /\ ~(k <= j)
      BY <1>1, <1>2, <2>5
    <3> QED
      BY <2>2, <3>1
  <2>7. buddy_block_really_free(q, j, bits)
    BY <1>1, <2>5
  <2>8. r = Smaller(m, q)
    BY <2>3, <2>5
  <2>9. /\ j \in Orders /\ k \in Orders /\ j \in 0..10
        /\ Size(j) \in Nat \ {0} /\ Size(k) = 2 * Size(j)
    <3>1. Size(j + 1) = 2 * Size(j) /\ j + 1 = k
      BY <2>5, Sizes1
    <3> QED
      BY <1>2, <2>5, <3>1, OrderFacts
  <2> HIDE DEF j
  <2> HIDE DEF m
  <2>10. m \in Nat /\ Span(m, j) \subseteq Home
    BY <2>6 DEF m
  <2>11. q \in Int /\ (q >= m + Size(j) \/ q + Size(j) <= m)
    BY <2>9, <2>10, BuddyIsApart
  <2> HIDE DEF q
  <2>12. q \in Nat /\ Span(q, j) \subseteq Home
    <3>1. q \in Listed(j)
      BY <2>7 DEF buddy_block_really_free
    <3>2. q \in Nat /\ [page |-> q, order |-> j] \in FreeBlocks
      BY <2>9, <3>1, FreeIs
    <3>3. Pages([page |-> q, order |-> j]) = Span(q, j)
      BY DEF Pages
    <3> QED
      BY <3>2, <3>3 DEF BlocksInRegion, Home
  <2> HIDE DEF r
  <2>13. r \in Nat /\ r \in Home
    <3>1. m \in Home /\ q \in Home
      <4>1. m \in Int /\ q \in Int
        BY <2>10, <2>12
      <4>2. m \in Span(m, j) /\ q \in Span(q, j)
        BY <2>9, <4>1, SpanFacts
      <4> QED
        BY <2>10, <2>12, <4>2
    <3> QED
      BY <2>8, <2>10, <2>12, <3>1 DEF Smaller
  <2>14. \E y \in Nat : y >= r + Size(j) /\ y + Size(j) - 1 \in Home
    <3>1. ASSUME NEW x \in Nat, Span(x, j) \subseteq Home PROVE x + Size(j) - 1 \in Home
      <4>1. x + Size(j) - 1 \in Span(x, j)
        <5>1. x \in Int /\ x + Size(j) - 1 \in Int /\ x <= x + Size(j) - 1
              /\ x + Size(j) - 1 < x + Size(j)
          BY <2>9
        <5> QED
          BY <2>9, <5>1, SpanFacts
      <4> QED
        BY <3>1, <4>1
    <3>2. m + Size(j) - 1 \in Home /\ q + Size(j) - 1 \in Home
      BY <2>10, <2>12, <3>1
    <3> QED
      BY <2>8, <2>9, <2>10, <2>11, <2>12, <3>2 DEF Smaller
  <2>15. Span(r, k) \subseteq Home
    <3> SUFFICES ASSUME NEW x \in Span(r, k) PROVE x \in Home
      OBVIOUS
    <3>1. x \in Int /\ r <= x /\ x < r + Size(k)
      BY <2>9, <2>13, SpanFacts
    <3>2. PICK y \in Nat : y >= r + Size(j) /\ y + Size(j) - 1 \in Home
      BY <2>14
    <3>3. x <= y + Size(j) - 1
      BY <2>9, <2>13, <3>1, <3>2
    <3>4. bitmap_pages(region) \in Nat /\ region.pages \in Nat
      BY RegionFacts
    <3> QED
      BY <2>9, <2>13, <3>1, <3>2, <3>3, <3>4 DEF Home
  <2> QED
    BY <2>2, <2>13, <2>15 DEF r
<1> QED
  BY <1>3, <1>4 DEF top

\* A block takes the place of some that were listed and of pages that were not.
LEMMA JoinedPages ==
  ASSUME NEW F, Disjoint(F), NEW G, G \subseteq F, NEW c, NEW P,
         Pages(c) = P \cup PagesOf(G), P \cap PagesOf(F) = {}
  PROVE  /\ Disjoint((F \ G) \cup {c})
         /\ PagesOf((F \ G) \cup {c}) = PagesOf(F) \cup P
<1>1. ASSUME NEW f \in F \ G PROVE Pages(f) \cap Pages(c) = {}
  <2>1. Pages(f) \cap P = {}
    BY DEF PagesOf
  <2>2. Pages(f) \cap PagesOf(G) = {}
    BY DEF PagesOf, Disjoint
  <2> QED
    BY <2>1, <2>2
<1>2. Disjoint((F \ G) \cup {c})
  BY <1>1 DEF Disjoint
<1>3. PagesOf((F \ G) \cup {c}) = PagesOf(F \ G) \cup Pages(c)
  BY DEF PagesOf
<1>4. PagesOf(F \ G) \cup PagesOf(G) = PagesOf(F)
  BY DEF PagesOf
<1> QED
  BY <1>2, <1>3, <1>4

LEMMA FreeBlocksNext ==
  ASSUME Small, TypeOK, free_lists' \in [Orders -> Seq(Nat)],
         NEW c \in Blocks, NEW G, G \subseteq FreeBlocks,
         \A k \in Orders :
           Listed(k)' = (Listed(k) \ {g.page : g \in {x \in G : x.order = k}})
                          \cup (IF k = c.order THEN {c.page} ELSE {})
  PROVE  FreeBlocks' = (FreeBlocks \ G) \cup {c}
<1>1. /\ \A f : f \in FreeBlocks <=> f \in Blocks /\ f.page \in Listed(f.order)
      /\ \A f : f \in FreeBlocks' <=> f \in Blocks /\ f.page \in Listed(f.order)'
  BY FreeIs, FreeIsNext
<1>2. \A f \in Blocks : f.order \in Orders /\ f = [page |-> f.page, order |-> f.order]
  BY BlockFacts
<1>3. ASSUME NEW f \in FreeBlocks' PROVE f \in (FreeBlocks \ G) \cup {c}
  <2>1. f \in Blocks /\ f.page \in Listed(f.order)' /\ f.order \in Orders
    BY <1>1, <1>2
  <2>2. CASE f.order = c.order /\ f.page = c.page
    BY <1>2, <2>1, <2>2
  <2>3. CASE ~(f.order = c.order /\ f.page = c.page)
    <3>1. f.page \in Listed(f.order) /\ f.page \notin {g.page : g \in {x \in G : x.order = f.order}}
      BY <2>1, <2>3
    <3> QED
      BY <1>1, <2>1, <3>1
  <2> QED
    BY <2>2, <2>3
<1>4. ASSUME NEW f \in FreeBlocks, f \notin G PROVE f \in FreeBlocks'
  <2>1. f \in Blocks /\ f.page \in Listed(f.order) /\ f.order \in Orders
    BY <1>1, <1>2
  <2>2. f.page \notin {g.page : g \in {x \in G : x.order = f.order}}
    BY <1>1, <1>2, <1>4, <2>1
  <2> QED
    BY <1>1, <2>1, <2>2
<1>5. c \in FreeBlocks'
  BY <1>1, <1>2
<1> QED
  BY <1>3, <1>4, <1>5

\* The lists after a block was freed.
LEMMA FreedLists ==
  ASSUME Small, TypeOK, NEW b \in Blocks, NEW top \in Orders, NEW place \in Nat,
         NEW gone, \A k \in b.order..(top - 1) : gone[k] \in Listed(k),
         free_lists' = [k \in Orders |->
           IF k = top THEN <<place>> \o free_lists[k]
           ELSE IF k \in b.order..(top - 1) THEN Without(free_lists[k], gone[k])
           ELSE free_lists[k]]
  PROVE  /\ free_lists' \in [Orders -> Seq(Nat)]
         /\ \A k \in Orders : Listed(k)' \subseteq Listed(k) \cup (IF k = top THEN {place} ELSE {})
         /\ (\A k \in Orders : OneEach(free_lists[k])) /\ place \notin Listed(top) =>
              \A k \in Orders :
                /\ OneEach(free_lists'[k])
                /\ Listed(k)' = IF k = top THEN Listed(k) \cup {place}
                                ELSE IF k \in b.order..(top - 1) THEN Listed(k) \ {gone[k]}
                                ELSE Listed(k)
<1>1. \A k \in Orders : /\ free_lists[k] \in Seq(Nat)
                        /\ Listed(k) = Elems(free_lists[k])
                        /\ Listed(k)' = Elems(free_lists'[k])
  BY DEF TypeOK, Listed, Elems
<1>2. ASSUME NEW k \in Orders
      PROVE  /\ free_lists'[k] \in Seq(Nat)
             /\ Listed(k)' \subseteq Listed(k) \cup (IF k = top THEN {place} ELSE {})
             /\ OneEach(free_lists[k]) /\ (k = top => place \notin Listed(top)) =>
                  /\ OneEach(free_lists'[k])
                  /\ Listed(k)' = IF k = top THEN Listed(k) \cup {place}
                                  ELSE IF k \in b.order..(top - 1) THEN Listed(k) \ {gone[k]}
                                  ELSE Listed(k)
  <2>1. CASE k = top
    <3>1. free_lists'[k] = <<place>> \o free_lists[k]
      BY <2>1
    <3>2. /\ <<place>> \o free_lists[k] \in Seq(Nat)
          /\ Elems(<<place>> \o free_lists[k]) = {place} \cup Elems(free_lists[k])
          /\ OneEach(free_lists[k]) /\ place \notin Elems(free_lists[k])
               => OneEach(<<place>> \o free_lists[k])
      BY <1>1, Consed
    <3> QED
      BY <1>1, <2>1, <3>1, <3>2
  <2>2. CASE k # top /\ k \in b.order..(top - 1)
    <3>1. free_lists'[k] = Without(free_lists[k], gone[k])
      BY <2>2
    <3>2. free_lists[k] \in Seq(Nat) /\ gone[k] \in Elems(free_lists[k])
      BY <1>1, <2>2
    <3>3. /\ Without(free_lists[k], gone[k]) \in Seq(Nat)
          /\ Elems(Without(free_lists[k], gone[k])) \subseteq Elems(free_lists[k])
          /\ OneEach(free_lists[k]) =>
               /\ OneEach(Without(free_lists[k], gone[k]))
               /\ Elems(Without(free_lists[k], gone[k])) = Elems(free_lists[k]) \ {gone[k]}
      BY <3>2, Unlinked
    <3> QED
      BY <1>1, <2>2, <3>1, <3>3
  <2>3. CASE k # top /\ k \notin b.order..(top - 1)
    <3>1. free_lists'[k] = free_lists[k]
      BY <2>3
    <3> QED
      BY <1>1, <2>3, <3>1
  <2> QED
    BY <2>1, <2>2, <2>3
<1>3. free_lists' \in [Orders -> Seq(Nat)]
  BY <1>2
<1> QED
  BY <1>2, <1>3

\* The counters, when pages go from the callers to the lists.
LEMMA PagesBack ==
  ASSUME Small, TypeOK, BlocksInRegion, Exact, NEW b \in Blocks, Pages(b) \subseteq LivePages,
         free_pages' = free_pages + Size(b.order),
         allocated_pages' = allocated_pages - Size(b.order),
         FreePages' = FreePages \cup Pages(b), LivePages' = LivePages \ Pages(b)
  PROVE  /\ free_pages' = Cardinality(FreePages')
         /\ allocated_pages' = Cardinality(LivePages')
<1>1. /\ IsFiniteSet(FreePages) /\ Cardinality(FreePages) \in Nat
      /\ IsFiniteSet(LivePages) /\ Cardinality(LivePages) \in Nat
  <2>1. FreePages \subseteq Home /\ LivePages \subseteq Home /\ IsFiniteSet(Home)
    BY RegionFacts DEF BlocksInRegion, FreePages, LivePages, PagesOf, Home
  <2> QED
    BY <2>1, FS_Subset, FS_CardinalityType
<1>2. /\ IsFiniteSet(Pages(b)) /\ Cardinality(Pages(b)) = Size(b.order)
      /\ Size(b.order) \in Nat
  BY BlockFacts, OrderFacts
<1>3. Cardinality(LivePages \ Pages(b)) = Cardinality(LivePages) - Size(b.order)
  <2>1. LivePages \cap Pages(b) = Pages(b)
    OBVIOUS
  <2>2. Cardinality(LivePages \ Pages(b)) = Cardinality(LivePages) - Cardinality(Pages(b))
    BY <1>1, <2>1, FS_Difference
  <2> QED
    BY <1>2, <2>2
<1>4. Cardinality(FreePages \cup Pages(b)) = Cardinality(FreePages) + Size(b.order)
  <2>1. FreePages \cap Pages(b) = {}
    BY DEF Exact
  <2>2. Cardinality(FreePages \cup Pages(b)) =
          Cardinality(FreePages) + Cardinality(Pages(b)) - Cardinality({})
    BY <1>1, <1>2, <2>1, FS_Union
  <2> QED
    BY <1>1, <1>2, <2>2, FS_EmptySet
<1> QED
  BY <1>3, <1>4 DEF Exact

\* What is listed is really free, as far as the bitmap knows.
LEMMA ListedIsFree ==
  ASSUME Small, TypeOK, BlocksInRegion, Exact, NEW k \in Orders, NEW q \in Listed(k),
         NEW P
  PROVE  buddy_block_really_free(q, k, bitmap \ P)
<1> DEFINE g == [page |-> q, order |-> k]
<1>1. g \in FreeBlocks /\ Pages(g) = Span(q, k)
  BY FreeIs DEF Pages
<1>2. Pages(g) \subseteq Home /\ Pages(g) \subseteq FreePages
  BY <1>1 DEF BlocksInRegion, Home, FreePages, PagesOf
<1>3. Pages(g) \cap bitmap = {}
  BY <1>2, RegionFacts DEF Exact
<1>4. Home \subseteq 0..(bitmap_size_words(region) * WORD_BITS - 1)
  <2>1. /\ region.pages \in Nat \ {0} /\ bitmap_pages(region) \in Nat
        /\ bitmap_size_words(region) \in Nat
        /\ region.pages <= bitmap_size_words(region) * WORD_BITS
    BY RegionFacts
  <2> DEFINE w == bitmap_size_words(region) * WORD_BITS
  <2>2. w \in Nat
    BY <2>1 DEF WORD_BITS
  <2> HIDE DEF w
  <2>3. Home \subseteq 0..(w - 1)
    BY <2>1, <2>2 DEF Home, w
  <2> QED
    BY <2>3 DEF w
<1> QED
  BY <1>1, <1>2, <1>3, <1>4 DEF buddy_block_really_free

\* A block of callers' pages is freed.  The callers' part is the callers'.
LEMMA FreeKeeps ==
  ASSUME Small, IInv, NEW b \in Blocks, FreeBlock(b), Pages(b) \subseteq LivePages,
         (live \subseteq Blocks)', LivePages' \subseteq LivePages,
         ~merged => /\ Disjoint(live)' /\ Even(live)' /\ Even({b})
                    /\ LivePages' = LivePages \ Pages(b)
  PROVE  IInv'
<1> DEFINE bits  == bitmap \ Pages(b)
<1>a. TypeOK /\ BlocksInRegion
  BY DEF IInv
<1>1. PICK top \in Orders : top = MergeStop(b, bits)
  BY StopIs
<1>2. /\ phase = "ready"
      /\ bitmap' = bits
      /\ allocated_pages' = allocated_pages - Size(b.order)
      /\ free_pages' = free_pages + Size(b.order)
      /\ free_lists' = [k \in Orders |->
           IF k = top THEN <<MergeFrom(b, k)>> \o free_lists[k]
           ELSE IF k \in b.order..(top - 1)
           THEN Without(free_lists[k], Buddy(MergeFrom(b, k), k))
           ELSE free_lists[k]]
      /\ merged' = (merged \/ \E k \in b.order..(top - 1) : k > 0)
      /\ region' = region /\ phase' = phase /\ current' = current
  BY <1>1 DEF FreeBlock, Usable
<1>3. /\ top >= b.order
      /\ \A k \in b.order..(top - 1) :
           k \in Orders /\ buddy_block_really_free(Buddy(MergeFrom(b, k), k), k, bits)
      /\ top # BUDDY_MAX_ORDER => ~buddy_block_really_free(Buddy(MergeFrom(b, top), top), top, bits)
  BY <1>1, StopIs
<1>4. LivePages \subseteq Home /\ FreePages \subseteq Home
  BY <1>a DEF BlocksInRegion, LivePages, FreePages, PagesOf, Home
<1>5. \A k \in b.order..top : /\ k \in Orders /\ MergeFrom(b, k) \in Nat
                              /\ Span(MergeFrom(b, k), k) \subseteq Home
  BY <1>a, <1>1, <1>4, MergedInHome
<1>6. b.order \in Orders /\ b.page \in Nat /\ b.page \in Pages(b) /\ Pages(b) = Span(b.page, b.order)
      /\ b = [page |-> b.page, order |-> b.order]
  BY BlockFacts
<1>7. top \in b.order..top
  BY <1>3, <1>6, OrderFacts
<1>8. PICK pl \in Nat : pl = MergeFrom(b, top)
  BY <1>5, <1>7
<1>9. /\ free_lists' \in [Orders -> Seq(Nat)]
      /\ \A k \in Orders : Listed(k)' \subseteq Listed(k) \cup (IF k = top THEN {pl} ELSE {})
      /\ (\A k \in Orders : OneEach(free_lists[k])) /\ pl \notin Listed(top) =>
           \A k \in Orders :
             /\ OneEach(free_lists'[k])
             /\ Listed(k)' = IF k = top THEN Listed(k) \cup {pl}
                             ELSE IF k \in b.order..(top - 1)
                             THEN Listed(k) \ {Buddy(MergeFrom(b, k), k)}
                             ELSE Listed(k)
  <2> DEFINE gone == [k \in Orders |-> Buddy(MergeFrom(b, k), k)]
  <2>0. \A k \in b.order..(top - 1) : k \in Orders /\ gone[k] = Buddy(MergeFrom(b, k), k)
    BY <1>3
  <2>1. \A k \in b.order..(top - 1) : gone[k] \in Listed(k)
    BY <1>3, <2>0 DEF buddy_block_really_free
  <2>2. free_lists' = [k \in Orders |->
           IF k = top THEN <<pl>> \o free_lists[k]
           ELSE IF k \in b.order..(top - 1) THEN Without(free_lists[k], gone[k])
           ELSE free_lists[k]]
    BY <1>2, <1>8, <2>0
  <2> HIDE DEF gone
  <2>3. /\ free_lists' \in [Orders -> Seq(Nat)]
        /\ \A k \in Orders : Listed(k)' \subseteq Listed(k) \cup (IF k = top THEN {pl} ELSE {})
        /\ (\A k \in Orders : OneEach(free_lists[k])) /\ pl \notin Listed(top) =>
             \A k \in Orders :
               /\ OneEach(free_lists'[k])
               /\ Listed(k)' = IF k = top THEN Listed(k) \cup {pl}
                               ELSE IF k \in b.order..(top - 1) THEN Listed(k) \ {gone[k]}
                               ELSE Listed(k)
    BY <1>a, <2>1, <2>2, FreedLists
  <2> QED
    BY <2>0, <2>3
<1>10. Home' = Home /\ BitmapPages(region)' = BitmapPages(region)
  BY <1>2 DEF Home
<1>11. TypeOK'
  <2>1. Size(b.order) \in Nat
    BY <1>6, OrderFacts
  <2>2. free_pages' \in Int /\ allocated_pages' \in Int
    BY <1>a, <1>2, <2>1 DEF TypeOK
  <2>3. bitmap' \subseteq 0..(region.pages - 1)
    BY <1>a, <1>2 DEF TypeOK
  <2>4. region' \in Regions /\ phase' \in {"init", "ready", "halted"} /\ current' \in Nat
        /\ merged' \in BOOLEAN
    BY <1>a, <1>2 DEF TypeOK
  <2> QED
    BY <1>2, <1>9, <2>2, <2>3, <2>4 DEF TypeOK
<1>12. FreeBlocks' \subseteq Blocks
       /\ \A f : f \in FreeBlocks' <=> f \in Blocks /\ f.page \in Listed(f.order)'
  BY <1>9, FreeIsNext
<1>13. FreeBlocks \subseteq Blocks /\ live \subseteq Blocks
       /\ \A f : f \in FreeBlocks <=> f \in Blocks /\ f.page \in Listed(f.order)
  BY <1>a, FreeIs DEF TypeOK
<1>14. BlocksInRegion'
  <2>1. ASSUME NEW f \in FreeBlocks' PROVE Pages(f) \subseteq Home
    <3>1. f \in Blocks /\ f.page \in Listed(f.order)' /\ f.order \in Orders
      BY <1>12 DEF Blocks
    <3>2. CASE f.page \in Listed(f.order)
      BY <1>a, <1>13, <3>1, <3>2 DEF BlocksInRegion, Home
    <3>3. CASE f.page \notin Listed(f.order)
      <4>1. f.order = top /\ f.page = MergeFrom(b, top)
        BY <1>8, <1>9, <3>1, <3>3
      <4> QED
        BY <1>5, <1>7, <4>1 DEF Pages
    <3> QED
      BY <3>2, <3>3
  <2>2. ASSUME NEW f \in live' PROVE Pages(f) \subseteq Home
    BY <1>4 DEF LivePages, PagesOf
  <2> QED
    BY <1>2, <2>1, <2>2 DEF BlocksInRegion, Home
<1>15. Initial' /\ (bitmap_pages(region) <= current)'
  BY <1>2 DEF Initial, IInv
<1>16. ASSUME ~merged' PROVE Exact' /\ Paired'
  <2>1. ~merged /\ \A k \in b.order..(top - 1) : ~(k > 0)
    BY <1>2, <1>16
  <2>2. Exact /\ Paired
    BY <2>1 DEF IInv
  <2>3. /\ Disjoint(live)' /\ Even(live)' /\ Even({b}) /\ LivePages' = LivePages \ Pages(b)
        /\ Disjoint(FreeBlocks) /\ Disjoint(live) /\ FreePages \cap LivePages = {}
        /\ \A k \in Orders : OneEach(free_lists[k])
        /\ bitmap = BitmapPages(region) \cup LivePages
    BY <2>1, <2>2 DEF Exact
  <2>4. ASSUME NEW k \in Orders, NEW q \in Listed(k)
        PROVE  /\ q \in Nat /\ q \in FreePages /\ q \notin Pages(b)
               /\ buddy_block_really_free(q, k, bits)
    <3> DEFINE g == [page |-> q, order |-> k]
    <3>1. q \in Nat /\ g \in FreeBlocks /\ g \in Blocks /\ g.page = q
      BY <1>a, FreeIs
    <3>2. q \in Pages(g)
      BY <3>1, BlockFacts
    <3>3. q \in FreePages
      BY <3>1, <3>2 DEF FreePages, PagesOf
    <3> QED
      BY <1>a, <2>2, <2>3, <3>1, <3>3, ListedIsFree
  <2>5. Pages(b) \cap PagesOf(FreeBlocks) = {}
    BY <2>3 DEF FreePages
  <2> DEFINE Joined(G) ==
        /\ G \subseteq FreeBlocks
        /\ Pages([page |-> pl, order |-> top]) = Pages(b) \cup PagesOf(G)
        /\ \A k \in Orders :
             /\ OneEach(free_lists'[k])
             /\ Listed(k)' = (Listed(k) \ {g.page : g \in {x \in G : x.order = k}})
                               \cup (IF k = top THEN {pl} ELSE {})
        /\ region.base % 2 = 0 =>
             /\ top >= 1 => pl % 2 = 0
             /\ \A p \in Listed(0)' : Buddy(p, 0) \notin Listed(0)'
  <2>6. ASSUME top = b.order PROVE \E G : Joined(G)
    <3>1. pl = b.page
      <4>1. MergeFrom(b, top) = IF top <= b.order THEN b.page
                                ELSE Smaller(MergeFrom(b, top - 1), Buddy(MergeFrom(b, top - 1), top - 1))
        BY MergeIs
      <4>2. top <= b.order
        BY <2>6, OrderFacts
      <4> QED
        BY <1>8, <4>1, <4>2
    <3>2. pl \notin Listed(top)
      BY <1>6, <2>4, <3>1
    <3>3. ASSUME NEW k \in Orders
          PROVE  /\ OneEach(free_lists'[k])
                 /\ Listed(k)' = IF k = top THEN Listed(k) \cup {pl} ELSE Listed(k)
      <4>1. k \notin b.order..(top - 1)
        BY <1>6, <2>6, <3>3, OrderFacts
      <4> QED
        BY <1>9, <2>3, <3>2, <4>1
    <3>4. ASSUME region.base % 2 = 0, NEW p \in Listed(0)' PROVE Buddy(p, 0) \notin Listed(0)'
      <4>1. 0 \in Orders /\ \A q \in Listed(0) : Buddy(q, 0) \notin Listed(0)
        BY <2>2, <3>4, OrderFacts DEF Paired
      <4>2. CASE top # 0
        BY <3>3, <3>4, <4>1, <4>2
      <4>3. CASE top = 0
        <5>1. Listed(0)' = Listed(0) \cup {pl}
          BY <3>3, <4>1, <4>3
        <5>2. Buddy(pl, 0) \notin Listed(0)
          <6>1. ~buddy_block_really_free(Buddy(MergeFrom(b, top), top), top, bits)
            BY <1>3, <4>3, OrderFacts
          <6>2. ~buddy_block_really_free(Buddy(pl, 0), 0, bits)
            BY <1>8, <4>3, <6>1
          <6> QED
            BY <2>4, <4>1, <6>2
        <5>3. p \in Nat
          BY <2>4, <3>4, <4>1, <5>1
        <5>4. Buddy(pl, 0) # pl /\ (Buddy(p, 0) = pl => p = Buddy(pl, 0))
          BY <5>3, BuddyOfPage
        <5> QED
          BY <3>4, <4>1, <5>1, <5>2, <5>4
      <4> QED
        BY <4>2, <4>3
    <3>5. region.base % 2 = 0 /\ top >= 1 => pl % 2 = 0
      BY <2>3, <2>6, <3>1 DEF Even
    <3>6. Pages([page |-> pl, order |-> top]) = Pages(b)
      BY <1>6, <2>6, <3>1
    <3>7. Joined({})
      BY <3>3, <3>4, <3>5, <3>6 DEF PagesOf
    <3> QED
      BY <3>7
  <2>7. ASSUME top # b.order PROVE \E G : Joined(G)
    <3> DEFINE q == Buddy(b.page, 0)
               g == [page |-> q, order |-> 0]
    <3>1. b.order = 0 /\ top = 1 /\ 0 \in b.order..(top - 1) /\ 0 \in Orders /\ 1 \in Orders
      <4>1. top - 1 \in b.order..(top - 1) /\ top \in Nat /\ b.order \in Nat
        BY <1>3, <1>6, <2>7, OrderFacts
      <4>2. ~(top - 1 > 0) /\ top > b.order
        BY <1>3, <2>1, <2>7, <4>1
      <4>3. b.order = 0 /\ top = 1
        BY <4>1, <4>2
      <4> QED
        BY <1>6, <4>3
    <3>2. MergeFrom(b, 0) = b.page
      BY <3>1, MergeIs
    <3>3. pl = Smaller(b.page, q)
      <4>1. MergeFrom(b, 1) = Smaller(MergeFrom(b, 1 - 1), Buddy(MergeFrom(b, 1 - 1), 1 - 1))
        BY <3>1, MergeIs
      <4> QED
        BY <1>8, <3>1, <3>2, <4>1
    <3>4. q \in Listed(0)
      <4>1. buddy_block_really_free(q, 0, bits)
        BY <1>3, <3>1, <3>2
      <4> QED
        BY <4>1 DEF buddy_block_really_free
    <3>5. /\ q \in Nat /\ g \in FreeBlocks /\ g \in Blocks /\ g.page = q /\ g.order = 0
      BY <1>a, <3>1, <3>4, FreeIs
    <3>6. q = IF b.page % 2 = 0 THEN b.page + 1 ELSE b.page - 1
      BY <1>6, BuddyOfPage
    <3> HIDE DEF q
    <3> HIDE DEF g
    <3>7. pl % 2 = 0 /\ ((b.page = pl /\ q = pl + 1) \/ (q = pl /\ b.page = pl + 1))
      <4>1. PICK x \in Nat : x = b.page
        BY <1>6
      <4>2. q = IF x % 2 = 0 THEN x + 1 ELSE x - 1
        BY <3>6, <4>1
      <4>3. pl = IF x < q THEN x ELSE q
        BY <3>3, <4>1 DEF Smaller
      <4>4. pl % 2 = 0 /\ ((x = pl /\ q = pl + 1) \/ (q = pl /\ x = pl + 1))
        <5>1. CASE x % 2 = 0
          <6>1. q = x + 1 /\ pl = x
            BY <4>2, <4>3, <5>1
          <6> QED
            BY <5>1, <6>1
        <5>2. CASE x % 2 # 0
          <6>1. q = x - 1
            BY <4>2, <5>2
          <6>2. pl = x - 1
            BY <4>3, <6>1
          <6>3. (x - 1) % 2 = 0
            BY <5>2
          <6> QED
            BY <6>1, <6>2, <6>3
        <5> QED
          BY <5>1, <5>2
      <4> QED
        BY <4>1, <4>4
    <3>8. Pages(b) = {b.page} /\ Pages(g) = {q} /\ Pages([page |-> pl, order |-> top]) = {pl, pl + 1}
      <4>1. Size(0) = 1 /\ Size(1) = 2
        BY PowersAre DEF Powers
      <4>2. Pages(b) = b.page..(b.page + 1 - 1) /\ Pages(g) = q..(q + 1 - 1)
            /\ Pages([page |-> pl, order |-> top]) = pl..(pl + 2 - 1)
        BY <3>1, <3>5, <4>1 DEF Pages, Span
      <4> QED
        BY <1>6, <3>5, <4>2
    <3>9. pl \notin Listed(1)
      <4>1. ASSUME pl \in Listed(1) PROVE FALSE
        <5> DEFINE h == [page |-> pl, order |-> 1]
        <5>1. h \in FreeBlocks /\ h \in Blocks
          BY <1>a, <3>1, <4>1, FreeIs
        <5>2. b.page \in Pages(h)
          BY <3>1, <3>7, <3>8
        <5>3. b.page \in PagesOf(FreeBlocks)
          BY <5>1, <5>2 DEF PagesOf
        <5> QED
          BY <1>6, <2>5, <5>3
      <4> QED
        BY <4>1
    <3>10. ASSUME NEW k \in Orders
           PROVE  /\ OneEach(free_lists'[k])
                  /\ Listed(k)' = IF k = 1 THEN Listed(k) \cup {pl}
                                  ELSE IF k = 0 THEN Listed(k) \ {q} ELSE Listed(k)
      <4>1. k \in b.order..(top - 1) <=> k = 0
        BY <3>1, OrderFacts
      <4>2. Buddy(MergeFrom(b, 0), 0) = q
        BY <3>2 DEF q
      <4>3. \A l \in Orders :
              /\ OneEach(free_lists'[l])
              /\ Listed(l)' = IF l = top THEN Listed(l) \cup {pl}
                              ELSE IF l \in b.order..(top - 1)
                              THEN Listed(l) \ {Buddy(MergeFrom(b, l), l)}
                              ELSE Listed(l)
        BY <1>9, <2>3, <3>1, <3>9
      <4> QED
        BY <3>1, <4>1, <4>2, <4>3
    <3>11. ASSUME region.base % 2 = 0, NEW p \in Listed(0)' PROVE Buddy(p, 0) \notin Listed(0)'
      <4>1. Listed(0)' = Listed(0) \ {q}
        BY <3>1, <3>10
      <4> QED
        BY <2>2, <3>11, <4>1 DEF Paired
    <3>12. Joined({g})
      <4>1. PagesOf({g}) = {q}
        BY <3>8 DEF PagesOf
      <4>2. \A k \in Orders :
              {x.page : x \in {y \in {g} : y.order = k}} = IF k = 0 THEN {q} ELSE {}
        BY <3>5
      <4>3. Pages([page |-> pl, order |-> top]) = Pages(b) \cup PagesOf({g})
        BY <3>7, <3>8, <4>1
      <4>4. ASSUME NEW k \in Orders
            PROVE  /\ OneEach(free_lists'[k])
                   /\ Listed(k)' = (Listed(k) \ {x.page : x \in {y \in {g} : y.order = k}})
                               \cup (IF k = top THEN {pl} ELSE {})
        <5>1. {x.page : x \in {y \in {g} : y.order = k}} = IF k = 0 THEN {q} ELSE {}
          BY <4>2
        <5>2. /\ OneEach(free_lists'[k])
              /\ Listed(k)' = IF k = 1 THEN Listed(k) \cup {pl}
                              ELSE IF k = 0 THEN Listed(k) \ {q} ELSE Listed(k)
          BY <3>10
        <5> QED
          BY <3>1, <5>1, <5>2
      <4> QED
        BY <3>5, <3>7, <3>11, <4>3, <4>4
    <3> QED
      BY <3>12
  <2>8. PICK G : Joined(G)
    BY <2>6, <2>7
  <2> DEFINE n == [page |-> pl, order |-> top]
  <2>9. n \in Blocks /\ n.page = pl /\ n.order = top
    BY DEF Blocks
  <2>10. FreeBlocks' = (FreeBlocks \ G) \cup {n}
    <3>1. \A k \in Orders :
            Listed(k)' = (Listed(k) \ {g.page : g \in {x \in G : x.order = k}})
                           \cup (IF k = n.order THEN {n.page} ELSE {})
      BY <2>8, <2>9
    <3> HIDE DEF n
    <3> QED
      BY <1>a, <1>9, <2>8, <2>9, <3>1, FreeBlocksNext
  <2>11. Disjoint(FreeBlocks') /\ FreePages' = FreePages \cup Pages(b)
    <3> HIDE DEF n
    <3>1. Pages(n) = Pages(b) \cup PagesOf(G) /\ G \subseteq FreeBlocks
      BY <2>8 DEF n
    <3>2. /\ Disjoint((FreeBlocks \ G) \cup {n})
          /\ PagesOf((FreeBlocks \ G) \cup {n}) = PagesOf(FreeBlocks) \cup Pages(b)
      <4>1. PICK F : F = FreeBlocks
        OBVIOUS
      <4>2. Disjoint(F) /\ G \subseteq F /\ Pages(b) \cap PagesOf(F) = {}
        BY <2>3, <2>5, <3>1, <4>1
      <4>3. Disjoint((F \ G) \cup {n}) /\ PagesOf((F \ G) \cup {n}) = PagesOf(F) \cup Pages(b)
        BY <3>1, <4>2, JoinedPages
      <4> QED
        BY <4>1, <4>3
    <3>3. FreePages' = PagesOf(FreeBlocks')
      BY DEF FreePages, PagesOf
    <3> QED
      BY <2>10, <3>2, <3>3 DEF FreePages
  <2>12. FreePages' \cap LivePages' = {}
    BY <2>3, <2>11
  <2>13. bitmap' = BitmapPages(region)' \cup LivePages'
    <3>1. BitmapPages(region) \cap Pages(b) = {}
      BY <1>a, <1>4, RegionFacts
    <3> QED
      BY <1>2, <1>10, <2>3, <3>1
  <2>14. free_pages' = Cardinality(FreePages') /\ allocated_pages' = Cardinality(LivePages')
    BY <1>a, <1>2, <2>2, <2>3, <2>11, PagesBack
  <2>15. Even(FreeBlocks)'
    <3> SUFFICES ASSUME region.base % 2 = 0, NEW f \in FreeBlocks', f.order >= 1
                 PROVE  f.page % 2 = 0
      BY <1>2 DEF Even
    <3>1. CASE f \in FreeBlocks
      BY <2>2, <3>1 DEF Paired, Even
    <3>2. CASE f = n
      BY <2>8, <2>9, <3>2
    <3> QED
      BY <2>10, <3>1, <3>2
  <2>16. Paired'
    BY <1>2, <2>3, <2>8, <2>15 DEF Paired
  <2> QED
    BY <1>2, <2>3, <2>8, <2>11, <2>12, <2>13, <2>14, <2>16 DEF Exact
<1> QED
  BY <1>2, <1>11, <1>14, <1>15, <1>16 DEF IInv

LEMMA FreePagesKeeps ==
  ASSUME Small, IInv, NEW b \in live, buddy_free_pages(b)
  PROVE  IInv'
<1>1. TypeOK /\ live \subseteq Blocks /\ live' = live \ {b} /\ FreeBlock(b) /\ region' = region
  BY DEF IInv, TypeOK, buddy_free_pages, FreeBlock
<1>2. b \in Blocks /\ Pages(b) \subseteq LivePages /\ LivePages' \subseteq LivePages
  BY <1>1 DEF LivePages, PagesOf
<1>3. (live \subseteq Blocks)'
  BY <1>1
<1>4. ASSUME ~merged
      PROVE  /\ Disjoint(live)' /\ Even(live)' /\ Even({b})
             /\ LivePages' = LivePages \ Pages(b)
  <2>1. Disjoint(live) /\ Even(live)
    BY <1>4 DEF IInv, Exact, Paired
  <2>2. Disjoint(live)'
    BY <1>1, <2>1 DEF Disjoint
  <2>3. Even(live)' /\ Even({b})
    BY <1>1, <2>1 DEF Even
  <2>4. LivePages' = LivePages \ Pages(b)
    BY <1>1, <2>1 DEF LivePages, PagesOf, Disjoint
  <2> QED
    BY <2>2, <2>3, <2>4
<1> QED
  BY <1>1, <1>2, <1>3, <1>4, FreeKeeps

\* While nothing of more than a page has been merged, nobody is accused.
LEMMA DoubleFreeKeeps ==
  ASSUME Small, IInv, NEW b \in live, DoubleFree(b)
  PROVE  IInv'
<1>1. TypeOK /\ BlocksInRegion
  BY DEF IInv
<1>2. /\ ~(Pages(b) \subseteq bitmap) /\ bitmap' \subseteq bitmap
      /\ phase' = "halted" /\ live' \subseteq live
      /\ region' = region /\ current' = current /\ free_lists' = free_lists
      /\ free_pages' = free_pages /\ allocated_pages' = allocated_pages /\ merged' = merged
  BY DEF DoubleFree
<1>3. merged
  <2>1. ASSUME ~merged PROVE FALSE
    <3>1. bitmap = BitmapPages(region) \cup LivePages
      BY <2>1 DEF IInv, Exact
    <3>2. Pages(b) \subseteq LivePages
      BY DEF LivePages, PagesOf
    <3> QED
      BY <1>2, <3>1, <3>2
  <2> QED
    BY <2>1
<1>4. TypeOK'
  BY <1>1, <1>2 DEF TypeOK
<1>5. BlocksInRegion'
  <2>1. FreeBlocks' = FreeBlocks
    BY <1>2 DEF FreeBlocks, Listed
  <2> QED
    BY <1>1, <1>2, <2>1 DEF BlocksInRegion
<1> QED
  BY <1>2, <1>3, <1>4, <1>5 DEF IInv, Initial

-----------------------------------------------------------------------------
(***************************************************************************)
(* buddy_allocator_init                                                    *)
(***************************************************************************)
LEMMA CeilUp ==
  ASSUME NEW k \in 0..10, NEW a \in Nat
  PROVE  /\ CeilDiv(a, Size(k)) * Size(k) \in Nat
         /\ CeilDiv(a, Size(k)) * Size(k) >= a
         /\ k = 0 => CeilDiv(a, Size(k)) * Size(k) = a
         /\ k >= 1 => (CeilDiv(a, Size(k)) * Size(k)) % 2 = 0
<1> DEFINE Up(s) == ((a + s - 1) \div s) * s
           Good(s) == Up(s) \in Nat /\ Up(s) >= a /\ (s # 1 => Up(s) % 2 = 0)
<1>1. CeilDiv(a, Size(k)) * Size(k) = Up(Size(k))
  BY DEF CeilDiv
<1>2. Good(1) /\ Good(2) /\ Good(4) /\ Good(8) /\ Good(16) /\ Good(32)
  OBVIOUS
<1>3. Good(64) /\ Good(128) /\ Good(256) /\ Good(512) /\ Good(1024)
  OBVIOUS
<1>4. Up(1) = a
  OBVIOUS
<1> HIDE DEF Up
<1>5. \A s \in {1, 2, 4, 8, 16, 32, 64, 128, 256, 512, 1024} : Good(s)
  BY <1>2, <1>3
<1> HIDE DEF Good
<1>6. Size(k) \in {1, 2, 4, 8, 16, 32, 64, 128, 256, 512, 1024} /\ (k = 0 => Size(k) = 1)
      /\ (k >= 1 => Size(k) # 1)
  BY PowersAre DEF Powers
<1>7. Good(Size(k))
  BY <1>5, <1>6
<1> QED
  BY <1>1, <1>4, <1>6, <1>7 DEF Good

LEMMA InitOrderIs ==
  ASSUME Small, TypeOK, current < region.pages
  PROVE  /\ InitOrder \in Orders
         /\ InitOrder = 0 => region.pages - current = 1
<1> DEFINE remaining == region.pages - current
           T == {k \in Orders : Size(k) <= remaining}
           D == {BUDDY_MAX_ORDER - k : k \in T}
<1>1. remaining \in Nat \ {0}
  BY RegionFacts DEF TypeOK
<1>2. /\ BUDDY_MAX_ORDER \in 1..10 /\ Orders = 0..BUDDY_MAX_ORDER
      /\ \A k \in Orders : Size(k) \in Nat \ {0}
  BY OrderFacts
<1> HIDE DEF remaining
<1>3. 0 \in T
  <2>1. Size(0) = 1 /\ 0 \in Orders
    BY <1>2, Sizes1
  <2> QED
    BY <1>1, <2>1
<1>4. D \subseteq Nat /\ D # {}
  BY <1>2, <1>3
<1>5. PICK d \in D : \A x \in D : d <= x
  BY <1>4, NatHasMin
<1>6. PICK m \in T : d = BUDDY_MAX_ORDER - m
  BY <1>5
<1>7. \A l \in Orders : Size(l) <= remaining => l <= m
  <2> SUFFICES ASSUME NEW l \in Orders, Size(l) <= remaining PROVE l <= m
    OBVIOUS
  <2>1. BUDDY_MAX_ORDER - m <= BUDDY_MAX_ORDER - l
    BY <1>5, <1>6
  <2> QED
    BY <1>2, <2>1
<1> DEFINE Fits(k) == Size(k) <= remaining /\ \A l \in Orders : Size(l) <= remaining => l <= k
<1>8. InitOrder = CHOOSE k \in Orders : Fits(k)
  BY DEF InitOrder, remaining
<1>9. \E k \in Orders : Fits(k)
  BY <1>6, <1>7
<1>10. InitOrder \in Orders /\ Fits(InitOrder)
  <2> HIDE DEF Fits
  <2> QED
    BY <1>8, <1>9
<1>11. ASSUME InitOrder = 0 PROVE remaining = 1
  <2>1. 1 \in Orders /\ Size(1) = 2
    BY <1>2, PowersAre DEF Powers
  <2>2. ~(Size(1) <= remaining)
    BY <1>10, <1>11, <2>1
  <2> QED
    BY <1>1, <2>1, <2>2
<1> QED
  BY <1>10, <1>11 DEF remaining

LEMMA InitAddKeeps ==
  ASSUME Small, IInv, InitAddBlock
  PROVE  IInv'
<1>a. TypeOK /\ BlocksInRegion /\ bitmap_pages(region) <= current /\ current \in Nat
      /\ current < region.pages
  BY DEF IInv, TypeOK, InitAddBlock
<1>0. /\ region.base \in Nat /\ region.pages \in Nat \ {0} /\ bitmap_pages(region) \in Nat
  BY <1>a, RegionFacts
<1>1. PICK k \in Orders : k = InitOrder
  BY <1>a, InitOrderIs
<1>2. k \in 0..10 /\ Size(k) \in Nat \ {0}
  BY OrderFacts
<1>3. PICK p \in Nat : /\ p = InitPlace(k) /\ p >= current
                       /\ k = 0 => p = current
                       /\ region.base % 2 = 0 /\ k >= 1 => p % 2 = 0
  <2>1. PICK a \in Nat : a = region.base + current
    BY <1>a, <1>0
  <2>2. PICK u \in Nat : /\ u = CeilDiv(a, Size(k)) * Size(k) /\ u >= a
                         /\ (k = 0 => u = a) /\ (k >= 1 => u % 2 = 0)
    BY <1>2, CeilUp
  <2>3. InitPlace(k) = u - region.base
    BY <2>1, <2>2 DEF InitPlace
  <2>4. PICK base \in Nat : base = region.base
    BY <1>0
  <2>5. u - base \in Nat /\ u - base >= current /\ (k = 0 => u - base = current)
    BY <1>a, <2>1, <2>2, <2>4
  <2>6. base % 2 = 0 /\ k >= 1 => (u - base) % 2 = 0
    BY <2>2
  <2> QED
    BY <2>3, <2>4, <2>5, <2>6
<1>4. /\ phase = "init" /\ p + Size(k) <= region.pages
      /\ free_lists' = [free_lists EXCEPT ![k] = <<p>> \o @]
      /\ free_pages' = free_pages + Size(k) /\ current' = p + Size(k)
      /\ region' = region /\ phase' = phase /\ bitmap' = bitmap
      /\ allocated_pages' = allocated_pages /\ live' = live /\ merged' = merged
  BY <1>1, <1>3 DEF InitAddBlock
<1>5. /\ live = {} /\ ~merged /\ FreePages \subseteq 0..(current - 1) /\ Listed(0) = {}
      /\ Exact /\ Paired
  <2>1. ~(current >= region.pages)
    BY <1>a, <1>0
  <2> QED
    BY <1>4, <2>1 DEF IInv, Initial
<1>6. FreePages \cap Span(p, k) = {}
  <2>1. \A q \in Span(p, k) : q \in Int /\ p <= q
    BY SpanFacts
  <2> QED
    BY <1>a, <1>3, <1>5, <2>1
<1> DEFINE n == [page |-> p, order |-> k]
<1>7. n \in Blocks /\ n.page = p /\ n.order = k /\ Pages(n) = Span(p, k)
  BY DEF Blocks, Pages
<1> HIDE DEF n
<1>8. p \notin Listed(k)
  <2> SUFFICES ASSUME p \in Listed(k) PROVE FALSE
    OBVIOUS
  <2>1. n \in FreeBlocks
    BY <1>a, <1>7, FreeIs
  <2>2. p \in FreePages /\ p \in Span(p, k)
    BY <1>7, <2>1, BlockFacts DEF FreePages, PagesOf
  <2> QED
    BY <1>6, <2>2
<1>9. ASSUME NEW l \in Orders
      PROVE  /\ free_lists'[l] \in Seq(Nat) /\ OneEach(free_lists'[l])
             /\ Listed(l)' = Listed(l) \cup (IF l = k THEN {p} ELSE {})
  <2>1. /\ free_lists[l] \in Seq(Nat) /\ OneEach(free_lists[l])
        /\ Listed(l) = Elems(free_lists[l]) /\ Listed(l)' = Elems(free_lists'[l])
    BY <1>a, <1>5 DEF TypeOK, Exact, Listed, Elems
  <2>2. free_lists'[l] = IF l = k THEN <<p>> \o free_lists[l] ELSE free_lists[l]
    BY <1>a, <1>4 DEF TypeOK
  <2>3. CASE l = k
    <3>1. /\ <<p>> \o free_lists[l] \in Seq(Nat)
          /\ Elems(<<p>> \o free_lists[l]) = {p} \cup Elems(free_lists[l])
          /\ OneEach(<<p>> \o free_lists[l])
      BY <1>8, <2>1, <2>3, Consed
    <3> QED
      BY <2>1, <2>2, <2>3, <3>1
  <2>4. CASE l # k
    BY <2>1, <2>2, <2>4
  <2> QED
    BY <2>3, <2>4
<1>10. free_lists' \in [Orders -> Seq(Nat)]
  <2>1. free_lists' = [l \in Orders |-> free_lists'[l]]
    BY <1>a, <1>4 DEF TypeOK
  <2> QED
    BY <1>9, <2>1
<1>11. FreeBlocks' = FreeBlocks \cup {n}
  <2>1. \A l \in Orders :
          Listed(l)' = (Listed(l) \ {g.page : g \in {x \in {} : x.order = l}})
                         \cup (IF l = n.order THEN {n.page} ELSE {})
    BY <1>7, <1>9
  <2>2. FreeBlocks' = (FreeBlocks \ {}) \cup {n}
    BY <1>a, <1>7, <1>10, <2>1, FreeBlocksNext
  <2> QED
    BY <2>2
<1>12. Disjoint(FreeBlocks') /\ FreePages' = FreePages \cup Pages(n)
  <2>1. PICK F : F = FreeBlocks
    OBVIOUS
  <2>2. Disjoint(F) /\ Pages(n) \cap PagesOf(F) = {}
    BY <1>5, <1>6, <1>7, <2>1 DEF Exact, FreePages
  <2> DEFINE G == {}
  <2>3. G \subseteq F /\ Pages(n) = Pages(n) \cup PagesOf(G) /\ F \ G = F
    BY DEF PagesOf
  <2> HIDE DEF G
  <2>4. Disjoint((F \ G) \cup {n}) /\ PagesOf((F \ G) \cup {n}) = PagesOf(F) \cup Pages(n)
    BY <2>2, <2>3, JoinedPages
  <2>5. (F \ G) \cup {n} = FreeBlocks'
    BY <1>11, <2>1, <2>3
  <2> QED
    BY <2>1, <2>4, <2>5 DEF FreePages, PagesOf
<1>13. Pages(n) \subseteq Home /\ Pages(n) \subseteq 0..(current' - 1)
  <2>1. \A q \in Span(p, k) : q \in Int /\ p <= q /\ q < p + Size(k)
    BY SpanFacts
  <2> QED
    BY <1>a, <1>0, <1>2, <1>3, <1>4, <1>7, <2>1 DEF Home
<1>14. TypeOK'
  BY <1>a, <1>2, <1>4, <1>10 DEF TypeOK
<1>15. BlocksInRegion' /\ (bitmap_pages(region) <= current)'
  <2>1. BlocksInRegion'
    BY <1>a, <1>4, <1>11, <1>13 DEF BlocksInRegion, Home
  <2>2. bitmap_pages(region) <= p + Size(k)
    BY <1>a, <1>0, <1>2, <1>3
  <2> QED
    BY <1>4, <2>1, <2>2
<1>16. Initial'
  <2>1. FreePages' \subseteq 0..(current' - 1)
    <3>1. 0..(current - 1) \subseteq 0..(current' - 1)
      BY <1>a, <1>2, <1>3, <1>4
    <3> QED
      BY <1>5, <1>12, <1>13, <3>1
  <2>2. ASSUME Listed(0)' # {} PROVE current' >= region.pages
    <3>1. k = 0
      BY <1>5, <1>9, <2>2, OrderFacts
    <3>2. region.pages - current = 1
      BY <1>a, <1>1, <3>1, InitOrderIs
    <3>3. current' = current + 1
      BY <1>3, <1>4, <3>1, Sizes1
    <3> QED
      BY <1>a, <1>0, <3>2, <3>3
  <2> QED
    BY <1>4, <1>5, <2>1, <2>2 DEF Initial
<1>17. Exact'
  <2>1. LivePages = {} /\ LivePages' = {}
    BY <1>4, <1>5 DEF LivePages, PagesOf
  <2>2. free_pages' = Cardinality(FreePages')
    <3>1. IsFiniteSet(FreePages) /\ Cardinality(FreePages) \in Nat
      <4>1. FreePages \subseteq Home /\ IsFiniteSet(Home)
        BY <1>a, RegionFacts DEF BlocksInRegion, FreePages, PagesOf, Home
      <4> QED
        BY <4>1, FS_Subset, FS_CardinalityType
    <3>2. IsFiniteSet(Pages(n)) /\ Cardinality(Pages(n)) = Size(k)
      BY <1>7, BlockFacts
    <3>3. FreePages \cap Pages(n) = {}
      BY <1>6, <1>7
    <3>4. Cardinality(FreePages \cup Pages(n)) =
            Cardinality(FreePages) + Cardinality(Pages(n)) - Cardinality({})
      BY <3>1, <3>2, <3>3, FS_Union
    <3>5. free_pages = Cardinality(FreePages)
      BY <1>5 DEF Exact
    <3> QED
      BY <1>2, <1>4, <1>12, <3>1, <3>2, <3>4, <3>5, FS_EmptySet
  <2>3. bitmap' = BitmapPages(region)' \cup LivePages'
    BY <1>4, <1>5, <2>1 DEF Exact
  <2>4. allocated_pages' = Cardinality(LivePages')
    BY <1>4, <1>5, <2>1 DEF Exact
  <2>5. Disjoint(live')
    BY <1>4, <1>5 DEF Disjoint
  <2> QED
    BY <1>4, <1>9, <1>12, <2>1, <2>2, <2>3, <2>4, <2>5 DEF Exact
<1>18. Paired'
  <2>1. Even(FreeBlocks)' /\ Even(live)'
    BY <1>3, <1>4, <1>5, <1>7, <1>11 DEF Paired, Even
  <2>2. ASSUME NEW q \in Listed(0)' PROVE Buddy(q, 0) \notin Listed(0)'
    <3>1. Listed(0)' = {p}
      BY <1>5, <1>9, <2>2, OrderFacts
    <3>2. Buddy(p, 0) # p
      BY BuddyOfPage
    <3> QED
      BY <2>2, <3>1, <3>2
  <2> QED
    BY <2>1, <2>2 DEF Paired
<1> QED
  BY <1>14, <1>15, <1>16, <1>17, <1>18 DEF IInv

-----------------------------------------------------------------------------
(***************************************************************************)
(* The page allocator.                                                     *)
(***************************************************************************)
LEMMA InitInv ==
  ASSUME Small, Init
  PROVE  IInv
<1>1. /\ region \in Regions /\ phase = "init" /\ current = bitmap_pages(region)
      /\ free_lists = [k \in Orders |-> <<>>] /\ bitmap = BitmapPages(region)
      /\ free_pages = 0 /\ allocated_pages = 0 /\ live = {} /\ merged = FALSE
  BY DEF Init
<1>2. /\ region.base \in Nat /\ region.pages \in Nat \ {0}
      /\ bitmap_pages(region) \in Nat /\ bitmap_pages(region) <= region.pages
      /\ BitmapPages(region) \subseteq 0..(region.pages - 1)
  <2>1. PICK n \in Nat \ {0} : n = region.pages
    BY <1>1, RegionAssumption
  <2> DEFINE w == (n + 64 - 1) \div 64
  <2>2. bitmap_pages(region) = (w * 8 + 4096 - 1) \div 4096
    BY <2>1 DEF bitmap_pages, bitmap_size_words, CeilDiv, WORD_BITS, PAGE_SIZE
  <2>3. w \in Nat /\ w <= n
    OBVIOUS
  <2> HIDE DEF w
  <2>4. bitmap_pages(region) \in Nat /\ bitmap_pages(region) <= n
    BY <2>2, <2>3
  <2> QED
    BY <1>1, <2>1, <2>4, RegionAssumption DEF BitmapPages
<1>3. ASSUME NEW k \in Orders
      PROVE  free_lists[k] \in Seq(Nat) /\ OneEach(free_lists[k]) /\ Listed(k) = {}
  BY <1>1 DEF OneEach, Listed
<1>4. TypeOK
  <2>1. free_lists \in [Orders -> Seq(Nat)]
    BY <1>1, <1>3
  <2>2. current \in Nat /\ bitmap \subseteq 0..(region.pages - 1) /\ live \subseteq Blocks
    BY <1>1, <1>2
  <2>3. free_pages \in Int /\ allocated_pages \in Int
    BY <1>1
  <2>5. merged \in BOOLEAN
    BY <1>1, Zenon
  <2>4. region \in Regions /\ phase \in {"init", "ready", "halted"}
    BY <1>1
  <2> QED
    BY <2>1, <2>2, <2>3, <2>4, <2>5 DEF TypeOK
<1>5. FreeBlocks = {} /\ FreePages = {} /\ LivePages = {}
  <2>1. FreeBlocks = {}
    BY <1>3 DEF FreeBlocks
  <2> QED
    BY <1>1, <2>1 DEF FreePages, LivePages, PagesOf
<1>6. BlocksInRegion
  BY <1>1, <1>5 DEF BlocksInRegion
<1>7. bitmap_pages(region) <= current
  BY <1>1, <1>2
<1>8. Listed(0) = {}
  BY <1>3, OrderFacts
<1>9. Initial
  BY <1>1, <1>5, <1>8 DEF Initial
<1>10. Exact
  <2>1. Disjoint(FreeBlocks) /\ Disjoint(live)
    BY <1>1, <1>5 DEF Disjoint
  <2> QED
    BY <1>1, <1>3, <1>5, <2>1, FS_EmptySet DEF Exact
<1>11. Paired
  BY <1>1, <1>5, <1>8 DEF Paired, Even
<1> QED
  BY <1>4, <1>6, <1>7, <1>9, <1>10, <1>11 DEF IInv

LEMMA StaysInv ==
  ASSUME Small, IInv, UNCHANGED vars
  PROVE  IInv'
<1>1. /\ region' = region /\ phase' = phase /\ current' = current /\ free_lists' = free_lists
      /\ bitmap' = bitmap /\ free_pages' = free_pages /\ allocated_pages' = allocated_pages
      /\ live' = live /\ merged' = merged
  BY DEF vars
<1>2. FreeBlocks' = FreeBlocks /\ Listed(0)' = Listed(0)
  BY <1>1 DEF FreeBlocks, Listed
<1>3. TypeOK' /\ BlocksInRegion' /\ Initial'
  BY <1>1, <1>2 DEF IInv, TypeOK, BlocksInRegion, Initial, FreePages
<1>4. ~merged => Exact' /\ Paired'
  BY <1>1, <1>2 DEF IInv, Exact, Paired, Even, FreePages, LivePages
<1> QED
  BY <1>1, <1>3, <1>4 DEF IInv

LEMMA InitDoneKeeps ==
  ASSUME Small, IInv, InitDone
  PROVE  IInv'
<1>1. /\ region' = region /\ phase' = "ready" /\ current' = current /\ free_lists' = free_lists
      /\ bitmap' = bitmap /\ free_pages' = free_pages /\ allocated_pages' = allocated_pages
      /\ live' = live /\ merged' = merged
  BY DEF InitDone
<1>2. FreeBlocks' = FreeBlocks /\ Listed(0)' = Listed(0)
  BY <1>1 DEF FreeBlocks, Listed
<1>3. TypeOK' /\ BlocksInRegion' /\ Initial'
  BY <1>1, <1>2 DEF IInv, TypeOK, BlocksInRegion, Initial
<1>4. ~merged => Exact' /\ Paired'
  BY <1>1, <1>2 DEF IInv, Exact, Paired, Even, FreePages, LivePages
<1> QED
  BY <1>1, <1>3, <1>4 DEF IInv

LEMMA StepInv ==
  ASSUME Small, IInv, [Next]_vars
  PROVE  IInv'
<1>1. CASE InitAddBlock
  BY <1>1, InitAddKeeps
<1>2. CASE InitRetry
  BY <1>2, StaysInv DEF InitRetry
<1>3. CASE InitDone
  BY <1>3, InitDoneKeeps
<1>4. ASSUME NEW order \in CallOrders, buddy_alloc_pages(order) PROVE IInv'
  <2>1. order \in Orders
    BY CallAssumption
  <2> QED
    BY <1>4, <2>1, AllocKeeps
<1>5. ASSUME NEW b \in live, buddy_free_pages(b) PROVE IInv'
  BY <1>5, FreePagesKeeps
<1>6. ASSUME NEW b \in live, DoubleFree(b) PROVE IInv'
  BY <1>6, DoubleFreeKeeps
<1>7. CASE UNCHANGED vars
  BY <1>7, StaysInv
<1> QED
  BY <1>1, <1>2, <1>3, <1>4, <1>5, <1>6, <1>7 DEF Next

\* Lists, bitmap and counters agree (the double-free detection neither misses nor accuses,
\* and get_free_page_count() is what can be allocated) until two blocks of more than a page
\* have been merged, and no block ever lies outside the region or in the bitmap.
THEOREM BooksCorrect ==
  ASSUME Small
  PROVE  Spec => []BooksAreExact
<1>1. Init => IInv
  BY InitInv
<1>2. IInv /\ [Next]_vars => IInv'
  BY StepInv
<1>3. IInv => BooksAreExact
  BY InvImplies
<1> QED
  BY <1>1, <1>2, <1>3, PTL DEF Spec

\* Until then no page is in two blocks, free or allocated: what buddy_alloc_pages() returns
\* is the caller's alone.
THEOREM PagesCorrect ==
  ASSUME Small
  PROVE  Spec => []PagesHaveOneUse
<1>1. Init => IInv
  BY InitInv
<1>2. IInv /\ [Next]_vars => IInv'
  BY StepInv
<1>3. IInv => PagesHaveOneUse
  BY InvImplies
<1> QED
  BY <1>1, <1>2, <1>3, PTL DEF Spec

-----------------------------------------------------------------------------
(***************************************************************************)
(* The heap.                                                               *)
(***************************************************************************)
HeapSpec == HeapInit /\ [][HeapNext]_heap

\* No two pieces begin at the same page, whatever has been merged.
OnePiece == \A g, h \in held : g.page = h.page => g = h

HeapInv ==
  /\ IInv
  /\ HeapTypeOK
  /\ OnePiece
  /\ BlocksAreLargeEnough

\* Nobody asks for more than the largest block has: kalloc() would return one that is too
\* small (see BlocksAreLargeEnough).
SizesFit == \A size \in Sizes : CeilDiv(size, PAGE_SIZE) <= Size(BUDDY_MAX_ORDER)

\* What a call of the page allocator adds: a block that begins where no other one lies.
LEMMA AllocGives ==
  ASSUME Small, TypeOK, NEW order \in Orders, buddy_alloc_pages(order)
  PROVE  /\ merged' = merged
         /\ \E b \in Blocks : /\ b.order = order /\ live' = live \cup {b}
                              /\ \A x \in live : b.page \notin Pages(x)
<1>1. PICK from \in Orders :
        /\ free_lists[from] # <<>>
        /\ live' = live \cup {[page |-> Head(free_lists[from]), order |-> order]}
  <2> DEFINE fits == {k \in Orders : k >= order /\ free_lists[k] # <<>>}
  <2>1. fits \subseteq Nat /\ fits # {}
    BY OrderFacts DEF buddy_alloc_pages
  <2>2. Min(fits) \in fits
    BY <2>1, MinIs
  <2>3. live' = live \cup {[page |-> Head(free_lists[Min(fits)]), order |-> order]}
    BY DEF buddy_alloc_pages
  <2> QED
    BY <2>2, <2>3
<1>2. ~Clobbered /\ merged' = merged
  BY DEF buddy_alloc_pages, Usable
<1>3. free_lists[from] \in Seq(Nat) /\ Listed(from) = Elems(free_lists[from])
  BY DEF TypeOK, Listed, Elems
<1>4. PICK e \in Nat : e = Head(free_lists[from]) /\ e \in Listed(from)
  BY <1>1, <1>3, Tailed
<1>5. \A x \in live : e \notin Pages(x)
  BY <1>2, <1>4 DEF Clobbered
<1> DEFINE b == [page |-> e, order |-> order]
<1>6. b \in Blocks /\ b.order = order /\ b.page = e /\ live' = live \cup {b}
  BY <1>1, <1>4 DEF Blocks
<1> QED
  BY <1>2, <1>5, <1>6

LEMMA size_to_orderIs ==
  ASSUME Small, NEW size \in Nat
  PROVE  /\ size_to_order(size) \in Orders
         /\ CeilDiv(size, PAGE_SIZE) <= Size(BUDDY_MAX_ORDER) =>
              Size(size_to_order(size)) >= CeilDiv(size, PAGE_SIZE)
<1> DEFINE enough == {k \in Orders : Size(k) >= CeilDiv(size, PAGE_SIZE)}
<1>1. BUDDY_MAX_ORDER \in Orders /\ Orders \subseteq Nat /\ Size(BUDDY_MAX_ORDER) \in Nat
  BY OrderFacts
<1>2. CeilDiv(size, PAGE_SIZE) \in Nat
  BY DEF CeilDiv, PAGE_SIZE
<1>3. enough # {} => Min(enough) \in enough
  BY <1>1, MinIs
<1>4. CeilDiv(size, PAGE_SIZE) <= Size(BUDDY_MAX_ORDER) => BUDDY_MAX_ORDER \in enough
  BY <1>1, <1>2
<1>5. size_to_order(size) = IF enough = {} THEN BUDDY_MAX_ORDER ELSE Min(enough)
  BY DEF size_to_order
<1>6. ASSUME NEW k \in enough PROVE Size(k) >= CeilDiv(size, PAGE_SIZE)
  OBVIOUS
<1>7. enough \subseteq Orders
  OBVIOUS
<1> HIDE DEF enough
<1> QED
  BY <1>1, <1>3, <1>4, <1>5, <1>6, <1>7

\* The block of a piece is there, and while every page has one use it is the only one.
LEMMA PieceHasBlock ==
  ASSUME Small, HeapTypeOK, NEW h \in held
  PROVE  /\ BlockAt(h.page) \in live /\ BlockAt(h.page).page = h.page
         /\ BlockAt(h.page) \in Blocks /\ h.page \in Nat
<1>1. \E b \in live : b.page = h.page
  <2>1. h.page \in {b.page : b \in live}
    BY DEF HeapTypeOK
  <2> QED
    BY <2>1
<1>2. BlockAt(h.page) \in live /\ BlockAt(h.page).page = h.page
  BY <1>1 DEF BlockAt
<1>3. live \subseteq Blocks
  BY DEF HeapTypeOK, TypeOK
<1> QED
  BY <1>2, <1>3, BlockFacts

LEMMA kalloc_implKeeps ==
  ASSUME Small, SizesFit, HeapInv, NEW size \in Sizes, kalloc_impl(size)
  PROVE  HeapInv'
<1>1. IInv /\ HeapTypeOK /\ TypeOK /\ OnePiece
  BY DEF HeapInv, HeapTypeOK
<1>2. size \in Nat /\ CeilDiv(size, PAGE_SIZE) <= Size(BUDDY_MAX_ORDER)
  BY SizesAssumption DEF SizesFit
<1>3. PICK order \in Orders : /\ order = size_to_order(size)
                              /\ Size(order) >= CeilDiv(size, PAGE_SIZE)
  BY <1>2, size_to_orderIs
<1>4. buddy_alloc_pages(order)
      /\ held' = held \cup {[page |-> b.page, size |-> size] : b \in live' \ live}
  BY <1>3 DEF kalloc_impl
<1>5. IInv'
  BY <1>1, <1>4, AllocKeeps
<1>6. PICK b \in Blocks : /\ b.order = order /\ live' = live \cup {b}
                          /\ \A x \in live : b.page \notin Pages(x)
  BY <1>1, <1>4, AllocGives
<1>7. merged' = merged
  BY <1>1, <1>4, AllocGives
<1>8. b.page \in Nat /\ live \subseteq Blocks /\ b \notin live
      /\ \A x \in live : x.page # b.page
  <2>1. live \subseteq Blocks
    BY <1>1 DEF TypeOK
  <2>2. \A x \in live : x.page \in Pages(x)
    BY <2>1, BlockFacts
  <2> QED
    BY <1>6, <2>1, <2>2, BlockFacts
<1> DEFINE n == [page |-> b.page, size |-> size]
<1>9. held' = held \cup {n}
  <2>1. live' \ live = {b}
    BY <1>6, <1>8
  <2> QED
    BY <1>4, <2>1
<1>10. n.page = b.page /\ n.size = size /\ n \in [page : Nat, size : Sizes]
  BY <1>8
<1> HIDE DEF n
<1>11. \A h \in held : \E x \in live : x.page = h.page
  BY <1>1, PieceHasBlock
<1>12. HeapTypeOK'
  <2>1. TypeOK'
    BY <1>5 DEF IInv
  <2>2. held' \subseteq [page : Nat, size : Sizes]
    BY <1>1, <1>9, <1>10 DEF HeapTypeOK
  <2>3. \A h \in held' : \E x \in live' : x.page = h.page
    BY <1>6, <1>9, <1>10, <1>11
  <2> QED
    BY <2>1, <2>2, <2>3 DEF HeapTypeOK
<1>13. OnePiece'
  <2>1. \A h \in held : h.page # n.page
    BY <1>8, <1>10, <1>11
  <2> QED
    BY <1>1, <1>9, <2>1 DEF OnePiece
<1>14. BlocksAreLargeEnough'
  <2> SUFFICES ASSUME NEW h \in held'
               PROVE  \E x \in live' : x.page = h.page /\ Extent(h) \subseteq Pages(x)
    BY DEF BlocksAreLargeEnough
  <2>1. CASE h \in held
    BY <1>6, <2>1 DEF HeapInv, BlocksAreLargeEnough
  <2>2. CASE h = n
    <3>1. Extent(h) = b.page..(b.page + CeilDiv(size, PAGE_SIZE) - 1)
      BY <1>10, <2>2 DEF Extent
    <3>2. CeilDiv(size, PAGE_SIZE) \in Nat /\ Size(order) \in Nat
      BY <1>2, OrderFacts DEF CeilDiv, PAGE_SIZE
    <3>3. Pages(b) = b.page..(b.page + Size(order) - 1)
      BY <1>6 DEF Pages, Span
    <3>4. \A x, y, z \in Nat : x <= y => z..(z + x - 1) \subseteq z..(z + y - 1)
      OBVIOUS
    <3>5. Extent(h) \subseteq Pages(b)
      BY <1>3, <1>8, <3>1, <3>2, <3>3, <3>4
    <3> QED
      BY <1>6, <1>10, <2>2, <3>5
  <2> QED
    BY <1>9, <2>1, <2>2
<1> QED
  BY <1>5, <1>12, <1>13, <1>14 DEF HeapInv

\* A block without its first page.
LEMMA RestIs ==
  ASSUME Small, NEW b \in Blocks
  PROVE  /\ Rest(b) \subseteq Blocks
         /\ \A x \in Rest(b) : Pages(x) \subseteq Pages(b)
         /\ PagesOf(Rest(b)) = Pages(b) \ {b.page}
         /\ Disjoint(Rest(b))
         /\ Even({b}) => Even(Rest(b))
<1>1. b.page \in Nat /\ b.order \in Orders /\ Pages(b) = Span(b.page, b.order)
      /\ 0 \in Orders /\ 0 <= b.order /\ b.page \in Pages(b) /\ b.order \in Nat
  BY BlockFacts, OrderFacts
<1> DEFINE K == 0..(b.order - 1)
<1>2. Span(b.page, 0) = {b.page}
  <2>1. Size(0) = 1
    BY Sizes1
  <2> QED
    BY <1>1, <2>1 DEF Span
<1>3. /\ \A k \in K : /\ k \in Orders /\ b.page + Size(k) \in Nat
                      /\ Span(b.page + Size(k), k) \subseteq Pages(b)
                      /\ Span(b.page + Size(k), k) \cap {b.page} = {}
      /\ \A k, l \in K : k # l => Span(b.page + Size(k), k) \cap Span(b.page + Size(l), l) = {}
      /\ \A q \in Pages(b) : q # b.page => \E k \in K : q \in Span(b.page + Size(k), k)
  <2>1. /\ \A k \in K : /\ k \in Orders /\ b.page + Size(k) \in Nat
                        /\ Span(b.page + Size(k), k) \subseteq Span(b.page, b.order)
                        /\ Span(b.page + Size(k), k) \cap Span(b.page, 0) = {}
        /\ \A k, l \in K : k # l => Span(b.page + Size(k), k) \cap Span(b.page + Size(l), l) = {}
        /\ \A q \in Span(b.page, b.order) :
             q \notin Span(b.page, 0) => \E k \in K : q \in Span(b.page + Size(k), k)
    <3>1. PICK e \in Nat, f \in Orders, o \in Orders : e = b.page /\ f = b.order /\ o = 0 /\ o <= f
      BY <1>1
    <3>2. /\ \A k \in o..(f - 1) : /\ k \in Orders /\ e + Size(k) \in Nat
                                   /\ Span(e + Size(k), k) \subseteq Span(e, f)
                                   /\ Span(e + Size(k), k) \cap Span(e, o) = {}
          /\ \A k, l \in o..(f - 1) : k # l => Span(e + Size(k), k) \cap Span(e + Size(l), l) = {}
          /\ \A q \in Span(e, f) :
               q \notin Span(e, o) => \E k \in o..(f - 1) : q \in Span(e + Size(k), k)
      BY <3>1, SplitBlock
    <3>3. K = o..(f - 1)
      BY <3>1
    <3> HIDE DEF K
    <3> QED
      BY <3>1, <3>2, <3>3
  <2> HIDE DEF K
  <2>2. \A k \in K : /\ k \in Orders /\ b.page + Size(k) \in Nat
                     /\ Span(b.page + Size(k), k) \subseteq Pages(b)
                     /\ Span(b.page + Size(k), k) \cap {b.page} = {}
    BY <1>1, <1>2, <2>1
  <2>3. \A q \in Pages(b) : q # b.page => \E k \in K : q \in Span(b.page + Size(k), k)
    BY <1>1, <1>2, <2>1
  <2> QED
    BY <2>1, <2>2, <2>3
<1>4. \A x \in Rest(b) : \E k \in K : /\ x = [page |-> b.page + Size(k), order |-> k]
                                      /\ x.order = k /\ x.page = b.page + Size(k)
                                      /\ Pages(x) = Span(b.page + Size(k), k)
  BY DEF Rest, Pages
<1>5. \A k \in K : /\ [page |-> b.page + Size(k), order |-> k] \in Rest(b)
                   /\ Pages([page |-> b.page + Size(k), order |-> k]) = Span(b.page + Size(k), k)
  BY DEF Rest, Pages
<1>6. Rest(b) \subseteq Blocks
  BY <1>3, <1>4 DEF Blocks
<1>7. \A x \in Rest(b) : Pages(x) \subseteq Pages(b) /\ b.page \notin Pages(x)
  BY <1>3, <1>4
<1>8. PagesOf(Rest(b)) = Pages(b) \ {b.page}
  <2>1. ASSUME NEW q \in Pages(b), q # b.page PROVE q \in PagesOf(Rest(b))
    <3>1. PICK k \in K : q \in Span(b.page + Size(k), k)
      BY <1>3, <2>1
    <3> QED
      BY <1>5, <3>1 DEF PagesOf
  <2> QED
    BY <1>7, <2>1 DEF PagesOf
<1>9. Disjoint(Rest(b))
  <2> SUFFICES ASSUME NEW x \in Rest(b), NEW y \in Rest(b), x # y PROVE Pages(x) \cap Pages(y) = {}
    BY DEF Disjoint
  <2>1. PICK k \in K : /\ x = [page |-> b.page + Size(k), order |-> k]
                       /\ Pages(x) = Span(b.page + Size(k), k)
    BY <1>4
  <2>2. PICK l \in K : /\ y = [page |-> b.page + Size(l), order |-> l]
                       /\ Pages(y) = Span(b.page + Size(l), l)
    BY <1>4
  <2>3. k # l
    BY <2>1, <2>2
  <2> QED
    BY <1>3, <2>1, <2>2, <2>3
<1>10. ASSUME Even({b}) PROVE Even(Rest(b))
  <2> SUFFICES ASSUME region.base % 2 = 0, NEW x \in Rest(b), x.order >= 1
               PROVE  x.page % 2 = 0
    BY DEF Even
  <2>1. PICK k \in K : x.order = k /\ x.page = b.page + Size(k)
    BY <1>4
  <2>2. k \in Orders /\ k >= 1 /\ b.order >= 1
    BY <1>1, <1>3, <2>1
  <2>3. b.page % 2 = 0
    BY <1>10, <2>2 DEF Even
  <2> QED
    BY <1>1, <2>1, <2>2, <2>3, UpperIsOdd
<1> QED
  BY <1>6, <1>7, <1>8, <1>9, <1>10

LEMMA kfree_implKeeps ==
  ASSUME Small, HeapInv, NEW h \in held, kfree_impl(h)
  PROVE  HeapInv'
<1>1. IInv /\ HeapTypeOK /\ TypeOK /\ OnePiece /\ live \subseteq Blocks
  BY DEF HeapInv, HeapTypeOK, TypeOK
<1>2. PICK blk \in live : blk = BlockAt(h.page) /\ blk.page = h.page /\ blk \in Blocks
  BY <1>1, PieceHasBlock
<1> DEFINE b == [page |-> h.page, order |-> 0]
<1>3. /\ FreeBlock(b) /\ live' = (live \ {blk}) \cup Rest(blk) /\ held' = held \ {h}
      /\ region' = region
  BY <1>2 DEF kfree_impl, FreeBlock
<1>4. b \in Blocks /\ Pages(b) = {h.page}
  <2>1. 0 \in Orders /\ Size(0) = 1 /\ h.page \in Nat
    BY <1>1, OrderFacts, Sizes1, PieceHasBlock
  <2>2. Pages(b) = h.page..(h.page + 1 - 1)
    BY <2>1 DEF Pages, Span
  <2> QED
    BY <2>1, <2>2 DEF Blocks
<1>5. Even({b})
  BY DEF Even
<1> HIDE DEF b
<1>6. /\ Rest(blk) \subseteq Blocks /\ \A x \in Rest(blk) : Pages(x) \subseteq Pages(blk)
      /\ PagesOf(Rest(blk)) = Pages(blk) \ {h.page}
      /\ Disjoint(Rest(blk)) /\ (Even({blk}) => Even(Rest(blk)))
  BY <1>2, RestIs
<1>7. h.page \in Pages(blk)
  BY <1>2, BlockFacts
<1>8. Pages(b) \subseteq LivePages /\ LivePages' \subseteq LivePages /\ (live \subseteq Blocks)'
  BY <1>1, <1>3, <1>4, <1>6, <1>7 DEF LivePages, PagesOf
<1>9. ASSUME ~merged
      PROVE  /\ Disjoint(live)' /\ Even(live)' /\ Even({b})
             /\ LivePages' = LivePages \ Pages(b)
  <2>1. Disjoint(live) /\ Even(live)
    BY <1>1, <1>9 DEF IInv, Exact, Paired
  <2>2. \A x \in live \ {blk} : Pages(x) \cap Pages(blk) = {}
    BY <2>1 DEF Disjoint
  <2>3. Disjoint(live)'
    BY <1>3, <1>6, <2>1, <2>2 DEF Disjoint
  <2>4. Even(live)'
    <3>1. Even({blk})
      BY <2>1 DEF Even
    <3> QED
      BY <1>3, <1>6, <2>1, <3>1 DEF Even
  <2>5. LivePages' = LivePages \ Pages(b)
    <3>1. LivePages' = PagesOf(live \ {blk}) \cup PagesOf(Rest(blk))
      BY <1>3 DEF LivePages, PagesOf
    <3>2. LivePages = PagesOf(live \ {blk}) \cup Pages(blk)
      BY DEF LivePages, PagesOf
    <3>3. PagesOf(live \ {blk}) \cap Pages(blk) = {}
      BY <2>2 DEF PagesOf
    <3> QED
      BY <1>4, <1>6, <1>7, <3>1, <3>2, <3>3
  <2> QED
    BY <1>5, <2>3, <2>4, <2>5
<1>10. IInv'
  BY <1>1, <1>3, <1>4, <1>8, <1>9, FreeKeeps
<1>11. ASSUME NEW g \in held'
       PROVE  /\ g \in held
              /\ \A x \in live : x.page = g.page => x \in live'
              /\ \E x \in live : x.page = g.page
  <2>1. g \in held /\ g # h
    BY <1>3
  <2>2. g.page # h.page
    BY <1>1, <2>1 DEF OnePiece
  <2> QED
    BY <1>1, <1>2, <1>3, <2>1, <2>2, PieceHasBlock
<1>12. HeapTypeOK'
  <2>1. TypeOK'
    BY <1>10 DEF IInv
  <2>2. held' \subseteq [page : Nat, size : Sizes]
    BY <1>1, <1>3 DEF HeapTypeOK
  <2>3. \A g \in held' : \E x \in live' : x.page = g.page
    BY <1>11
  <2> QED
    BY <2>1, <2>2, <2>3 DEF HeapTypeOK
<1>13. OnePiece'
  BY <1>1, <1>3 DEF OnePiece
<1>14. BlocksAreLargeEnough'
  <2> SUFFICES ASSUME NEW g \in held'
               PROVE  \E x \in live' : x.page = g.page /\ Extent(g) \subseteq Pages(x)
    BY DEF BlocksAreLargeEnough
  <2> QED
    BY <1>11 DEF HeapInv, BlocksAreLargeEnough
<1> QED
  BY <1>10, <1>12, <1>13, <1>14 DEF HeapInv

LEMMA HeapInvImplies ==
  ASSUME Small, HeapInv
  PROVE  HeapIsSound
<1>1. HeapTypeOK /\ IInv /\ OnePiece /\ BlocksAreLargeEnough
  BY DEF HeapInv
<1>2. ASSUME ~merged PROVE PiecesAreOwn
  <2>1. Disjoint(live) /\ FreePages \cap LivePages = {}
    BY <1>1, <1>2 DEF IInv, Exact
  <2>2. ASSUME NEW g \in held, NEW h \in held, g # h PROVE Extent(g) \cap Extent(h) = {}
    <3>1. PICK b \in live : b.page = g.page /\ Extent(g) \subseteq Pages(b)
      BY <1>1 DEF BlocksAreLargeEnough
    <3>2. PICK c \in live : c.page = h.page /\ Extent(h) \subseteq Pages(c)
      BY <1>1 DEF BlocksAreLargeEnough
    <3>3. b # c
      BY <1>1, <2>2, <3>1, <3>2 DEF OnePiece
    <3>4. Pages(b) \cap Pages(c) = {}
      BY <2>1, <3>3 DEF Disjoint
    <3> QED
      BY <3>1, <3>2, <3>4
  <2>3. ASSUME NEW h \in held, NEW f \in FreeBlocks PROVE Extent(h) \cap Pages(f) = {}
    <3>1. PICK b \in live : Extent(h) \subseteq Pages(b)
      BY <1>1 DEF BlocksAreLargeEnough
    <3>2. Pages(b) \subseteq LivePages /\ Pages(f) \subseteq FreePages
      BY DEF LivePages, FreePages, PagesOf
    <3> QED
      BY <2>1, <3>1, <3>2
  <2> QED
    BY <2>2, <2>3 DEF PiecesAreOwn
<1>3. PiecesAreOwn
  BY <1>2 DEF PiecesAreOwn
<1> QED
  BY <1>1, <1>3 DEF HeapIsSound

LEMMA HeapInitInv ==
  ASSUME Small, HeapInit
  PROVE  HeapInv
<1>1. Init /\ held = {}
  BY DEF HeapInit
<1>2. IInv
  BY <1>1, InitInv
<1> QED
  BY <1>1, <1>2 DEF HeapInv, HeapTypeOK, OnePiece, BlocksAreLargeEnough, IInv

LEMMA HeapStepInv ==
  ASSUME Small, SizesFit, HeapInv, [HeapNext]_heap
  PROVE  HeapInv'
<1>1. ASSUME live' = live, held' = held, IInv' PROVE HeapInv'
  BY <1>1 DEF HeapInv, HeapTypeOK, OnePiece, BlocksAreLargeEnough, IInv
<1>2. CASE InitAddBlock /\ UNCHANGED held
  BY <1>1, <1>2, InitAddKeeps DEF HeapInv, InitAddBlock
<1>3. CASE InitDone /\ UNCHANGED held
  BY <1>1, <1>3, InitDoneKeeps DEF HeapInv, InitDone
<1>4. ASSUME NEW size \in Sizes, kalloc_impl(size) PROVE HeapInv'
  BY <1>4, kalloc_implKeeps
<1>5. ASSUME NEW h \in held, kfree_impl(h) PROVE HeapInv'
  BY <1>5, kfree_implKeeps
<1>6. CASE UNCHANGED heap
  <2>1. UNCHANGED vars /\ held' = held
    BY <1>6 DEF heap
  <2>2. IInv' /\ live' = live
    BY <2>1, StaysInv DEF HeapInv, vars
  <2> QED
    BY <1>1, <2>1, <2>2
<1> QED
  BY <1>2, <1>3, <1>4, <1>5, <1>6 DEF HeapNext

\* On the heap as on the page allocator: the books are exact and every page has one use;
\* kfree(), which gives back the first page of a block and forgets the others, leaves no
\* page in two hands.
THEOREM HeapBooksCorrect ==
  ASSUME Small, SizesFit
  PROVE  HeapSpec => [](BooksAreExact /\ PagesHaveOneUse)
<1>1. HeapInit => HeapInv
  BY HeapInitInv
<1>2. HeapInv /\ [HeapNext]_heap => HeapInv'
  BY HeapStepInv
<1>3. HeapInv => BooksAreExact /\ PagesHaveOneUse
  BY InvImplies DEF HeapInv
<1> QED
  BY <1>1, <1>2, <1>3, PTL DEF HeapSpec

\* What kalloc() returns is as large as what was asked for, whatever has been merged; and
\* nobody else's until two blocks of more than a page have been merged.
THEOREM HeapCorrect ==
  ASSUME Small, SizesFit
  PROVE  HeapSpec => []HeapIsSound
<1>1. HeapInit => HeapInv
  BY HeapInitInv
<1>2. HeapInv /\ [HeapNext]_heap => HeapInv'
  BY HeapStepInv
<1>3. HeapInv => HeapIsSound
  BY HeapInvImplies
<1> QED
  BY <1>1, <1>2, <1>3, PTL DEF HeapSpec

-----------------------------------------------------------------------------
(***************************************************************************)
(* The invariant.  A call has taken its page only while it has a page to   *)
(* map, a slot that is not used holds nothing, and a process that lives or *)
(* is made has its kernel pages, two of which it gives back.               *)
(***************************************************************************)
Memories == UNION {[S -> Data] : S \in SUBSET Users!PageNumbers}

UserType ==
  /\ total \in Nat /\ free \in Nat
  /\ state \in [Procs -> {"unused", "used", "live", "task"}]
  /\ sz \in [Procs -> 0..(MaxPages * PAGE_BYTES)]
  /\ kernel \in [Procs -> 0..Users!MAKE_PAGES]
  /\ tables \in [Procs -> SUBSET Users!TablePlaces]
  /\ user \in [Procs -> Memories]
  /\ call \in [Procs -> Users!CallOps \cup {Users!NoCall}]
  /\ lost \in BOOLEAN

Unused(p) ==
  state[p] = "unused" =>
    /\ kernel[p] = 0 /\ tables[p] = {} /\ DOMAIN user[p] = {} /\ call[p] = Users!NoCall

Full(p) == state[p] = "live" \/ call[p] # Users!NoCall => kernel[p] = Users!MAKE_PAGES

Calls(p) ==
  call[p] # Users!NoCall =>
    /\ call[p].from <= call[p].at /\ call[p].at <= call[p].end
    /\ call[p].mem # Users!Nil => call[p].at < call[p].end
    /\ call[p].op = "copy" => call[p].parent \in Procs
    /\ state[p] = IF call[p].op \in {"code", "copy"} THEN "used" ELSE "live"
-----------------------------------------------------------------------------
(***************************************************************************)
(* Sizes and pages.                                                        *)
(***************************************************************************)
Assumptions == Users!PoolsAssumption /\ Users!SizeAssumption /\ Users!DataAssumption

LEMMA QuotientIs ==
  ASSUME NEW m \in Nat \ {0}, NEW x \in Int
  PROVE  \E r \in 0..(m - 1) : x \div m \in Int /\ x = m * (x \div m) + r
<1>1. x % m \in 0..(m - 1) /\ x \div m \in Int
  BY Z3
<1>2. x = m * (x \div m) + (x % m)
  BY Z3
<1> QED
  BY <1>1, <1>2

\* Products and their order.
LEMMA TimesIs ==
  ASSUME NEW m \in Nat \ {0}, NEW j \in Int, NEW k \in Int
  PROVE  /\ j <= k <=> m * j <= m * k
         /\ j < k <=> m * j + m <= m * k
         /\ m * j \in Int /\ (j \in Nat => m * j \in Nat)
<1>1. m * j \in Int /\ m * k \in Int /\ (j \in Nat => m * j \in Nat)
  OBVIOUS
<1>2. ASSUME j < k PROVE m * j + m <= m * k
  <2>1. PICK d \in Nat : k = j + 1 + d
    <3>1. k - j - 1 \in Nat /\ k = j + 1 + (k - j - 1)
      BY <1>2
    <3> QED
      BY <3>1
  <2>2. m * k = m * j + m + m * d /\ m * d \in Nat
    BY <2>1
  <2> QED
    BY <1>1, <2>2
<1>3. ASSUME k < j PROVE m * k + m <= m * j
  <2>1. PICK d \in Nat : j = k + 1 + d
    <3>1. j - k - 1 \in Nat /\ j = k + 1 + (j - k - 1)
      BY <1>3
    <3> QED
      BY <3>1
  <2>2. m * j = m * k + m + m * d /\ m * d \in Nat
    BY <2>1
  <2> QED
    BY <1>1, <2>2
<1> QED
  BY <1>1, <1>2, <1>3

\* The pages of so many bytes: the least number that is enough.
LEMMA UpIs ==
  ASSUME Assumptions, NEW n \in Nat
  PROVE  /\ Users!PGROUNDUP(n) \in Nat /\ PAGE_BYTES \in Nat \ {0}
         /\ \A k \in Nat : Users!PGROUNDUP(n) <= k <=> n <= PAGE_BYTES * k
<1>1. PICK s \in Nat \ {0} : s = PAGE_BYTES
  BY DEF Assumptions, Users!SizeAssumption
<1>2. PICK y \in Nat : y = n + s - 1
  BY <1>1
<1>3. PICK q \in Int, r \in 0..(s - 1) : q = y \div s /\ y = s * q + r
  <2>1. y \in Int
    OBVIOUS
  <2> QED
    BY <2>1, QuotientIs
<1>4. Users!PGROUNDUP(n) = q
  BY <1>1, <1>2, <1>3 DEF Users!PGROUNDUP
<1>5. q \in Nat
  <2>1. q < 0 => s * q + s <= s * 0
    BY TimesIs
  <2> QED
    BY <1>3, <2>1
<1>6. ASSUME NEW k \in Nat PROVE q <= k <=> n <= s * k
  <2>1. /\ q <= k <=> s * q <= s * k
        /\ k < q <=> s * k + s <= s * q
        /\ s * k \in Int /\ s * q \in Int
    BY <1>5, TimesIs
  <2> QED
    BY <1>2, <1>3, <1>5, <2>1
<1> QED
  BY <1>1, <1>4, <1>5, <1>6

LEMMA UpOfPages ==
  ASSUME Assumptions, NEW k \in Nat
  PROVE  k * PAGE_BYTES \in Nat /\ Users!PGROUNDUP(k * PAGE_BYTES) = k
<1>1. PICK s \in Nat \ {0} : s = PAGE_BYTES
  BY DEF Assumptions, Users!SizeAssumption
<1>2. PICK n \in Nat : n = k * PAGE_BYTES /\ n = s * k
  BY <1>1
<1>3. PICK u \in Nat : u = Users!PGROUNDUP(n) /\ \A j \in Nat : u <= j <=> n <= s * j
  BY <1>1, UpIs
<1>4. u <= k
  BY <1>2, <1>3
<1>5. k <= u <=> s * k <= s * u
  BY TimesIs
<1>6. k <= u
  BY <1>2, <1>3, <1>5
<1> QED
  BY <1>2, <1>3, <1>4, <1>6

LEMMA UpGrows ==
  ASSUME Assumptions, NEW n \in Nat, NEW d \in Nat
  PROVE  Users!PGROUNDUP(n) <= Users!PGROUNDUP(n + d)
<1>1. n + d \in Nat
  OBVIOUS
<1>2. PICK u \in Nat, w \in Nat, s \in Nat \ {0} :
        /\ u = Users!PGROUNDUP(n) /\ \A k \in Nat : u <= k <=> n <= s * k
        /\ w = Users!PGROUNDUP(n + d) /\ \A k \in Nat : w <= k <=> n + d <= s * k
  BY <1>1, UpIs
<1>3. PICK x \in Nat : x = s * w
  OBVIOUS
<1>4. n + d <= x
  BY <1>2, <1>3
<1>5. u <= w
  BY <1>2, <1>3, <1>4
<1> QED
  BY <1>2, <1>5

\* A size in bytes that fits has pages that fit, and the other way round.
LEMMA UpFits ==
  ASSUME Assumptions, NEW n \in 0..(MaxPages * PAGE_BYTES)
  PROVE  n \in Nat /\ Users!PGROUNDUP(n) \in 0..MaxPages
<1>1. MaxPages \in Nat /\ PAGE_BYTES \in Nat /\ n \in Nat /\ n <= PAGE_BYTES * MaxPages
  BY DEF Assumptions, Users!SizeAssumption
<1> QED
  BY <1>1, UpIs

LEMMA PagesFit ==
  ASSUME Assumptions, NEW k \in 0..MaxPages
  PROVE  k * PAGE_BYTES \in 0..(MaxPages * PAGE_BYTES)
<1>1. PICK s \in Nat \ {0}, n \in Nat : s = PAGE_BYTES /\ n = MaxPages /\ k \in 0..n
  BY DEF Assumptions, Users!SizeAssumption
<1>2. k <= n <=> s * k <= s * n
  BY TimesIs
<1> QED
  BY <1>1, <1>2

LEMMA NewSizeIs ==
  ASSUME Assumptions, NEW n \in Nat, NEW d \in Nat
  PROVE  IF d >= n THEN Users!PGROUNDUP(n) \in Nat
         ELSE /\ Users!PGROUNDDOWN(n - d) \in Nat /\ Users!PGROUNDDOWN(n - d) * PAGE_BYTES <= n
              /\ Users!PGROUNDDOWN(n - d) <= Users!PGROUNDUP(n)
<1>1. CASE d >= n
  BY <1>1, UpIs
<1>2. CASE ~(d >= n)
  <2>1. PICK x \in Nat : x = n - d /\ x <= n
    BY <1>2
  <2>2. PICK s \in Nat \ {0} : s = PAGE_BYTES
    BY DEF Assumptions, Users!SizeAssumption
  <2>3. PICK q \in Int, r \in 0..(s - 1) : q = x \div s /\ x = s * q + r
    <3>1. x \in Int
      OBVIOUS
    <3> QED
      BY <3>1, QuotientIs
  <2>4. q \in Nat
    <3>1. q < 0 => s * q + s <= s * 0
      BY TimesIs
    <3> QED
      BY <2>3, <3>1
  <2>5. PICK y \in Nat : y = s * q
    BY <2>4
  <2>6. y <= n /\ q * s = y
    BY <2>1, <2>3, <2>5
  <2>7. PICK u \in Nat : u = Users!PGROUNDUP(n) /\ \A k \in Nat : u <= k <=> n <= s * k
    BY <2>2, UpIs
  <2>8. PICK z \in Nat : z = s * u
    OBVIOUS
  <2>9. n <= z
    BY <2>7, <2>8
  <2>10. q <= u <=> s * q <= s * u
    BY <2>4, TimesIs
  <2>11. q <= u
    BY <2>5, <2>6, <2>8, <2>9, <2>10
  <2> QED
    BY <1>2, <2>1, <2>2, <2>3, <2>4, <2>6, <2>7, <2>11 DEF Users!PGROUNDDOWN
<1> QED
  BY <1>1, <1>2

-----------------------------------------------------------------------------
(***************************************************************************)
(* How many pages a slot holds.                                            *)
(***************************************************************************)
Taken(p) == call[p] # Users!NoCall /\ call[p].mem # Users!Nil
InUseFor(p)  == kernel[p] + Cardinality(tables[p]) + Cardinality(DOMAIN user[p])
              + (IF Taken(p) THEN 1 ELSE 0)

\* The names of the pages of a slot.
Tagged(p, tag, S) == {<<p, tag, x>> : x \in S}
Names(p, k, T, D, taken) ==
  Tagged(p, "kernel", 1..k) \cup Tagged(p, "table", T) \cup Tagged(p, "user", D)
    \cup (IF taken THEN Tagged(p, "mem", {0}) ELSE {})

LEMMA TaggedIs ==
  ASSUME NEW p, NEW tag, NEW S, IsFiniteSet(S)
  PROVE  IsFiniteSet(Tagged(p, tag, S)) /\ Cardinality(Tagged(p, tag, S)) = Cardinality(S)
<1> DEFINE f == [x \in S |-> <<p, tag, x>>]
<1>1. f \in [S -> Tagged(p, tag, S)]
  BY DEF Tagged
<1>2. \A x, y \in S : f[x] = f[y] => x = y
  OBVIOUS
<1>3. \A t \in Tagged(p, tag, S) : \E x \in S : f[x] = t
  BY DEF Tagged
<1> HIDE DEF f
<1>4. f \in Bijection(S, Tagged(p, tag, S))
  BY <1>1, <1>2, <1>3, Fun_IsBij
<1>5. ExistsBijection(S, Tagged(p, tag, S))
  BY <1>4 DEF ExistsBijection
<1> QED
  BY <1>5, FS_Bijection

LEMMA UnionIs ==
  ASSUME NEW S, IsFiniteSet(S), NEW T, IsFiniteSet(T), S \cap T = {}
  PROVE  /\ IsFiniteSet(S \cup T)
         /\ Cardinality(S \cup T) = Cardinality(S) + Cardinality(T)
         /\ Cardinality(S) \in Nat /\ Cardinality(T) \in Nat
<1>1. IsFiniteSet(S \cup T)
      /\ Cardinality(S \cup T) = Cardinality(S) + Cardinality(T) - Cardinality(S \cap T)
  BY FS_Union
<1>2. Cardinality(S \cap T) = 0 /\ Cardinality(S) \in Nat /\ Cardinality(T) \in Nat
  BY FS_EmptySet, FS_CardinalityType
<1> QED
  BY <1>1, <1>2

LEMMA NamesAre ==
  ASSUME NEW p, NEW k \in Nat, NEW T, IsFiniteSet(T), NEW D, IsFiniteSet(D), NEW taken \in BOOLEAN
  PROVE  /\ IsFiniteSet(Names(p, k, T, D, taken))
         /\ Cardinality(Names(p, k, T, D, taken))
              = k + Cardinality(T) + Cardinality(D) + (IF taken THEN 1 ELSE 0)
<1>1. PICK a : a = Tagged(p, "kernel", 1..k) /\ IsFiniteSet(a) /\ Cardinality(a) = k
  <2>1. IsFiniteSet(1..k) /\ Cardinality(1..k) = k
    BY FS_Interval
  <2> QED
    BY <2>1, TaggedIs
<1>2. PICK b : b = Tagged(p, "table", T) /\ IsFiniteSet(b) /\ Cardinality(b) = Cardinality(T)
  BY TaggedIs
<1>3. PICK c : c = Tagged(p, "user", D) /\ IsFiniteSet(c) /\ Cardinality(c) = Cardinality(D)
  BY TaggedIs
<1>4. PICK d : /\ d = (IF taken THEN Tagged(p, "mem", {0}) ELSE {}) /\ IsFiniteSet(d)
               /\ Cardinality(d) = (IF taken THEN 1 ELSE 0)
  <2>1. IsFiniteSet({0}) /\ Cardinality({0}) = 1 /\ IsFiniteSet({}) /\ Cardinality({}) = 0
    BY FS_Singleton, FS_EmptySet
  <2>2. IsFiniteSet(Tagged(p, "mem", {0})) /\ Cardinality(Tagged(p, "mem", {0})) = 1
    BY <2>1, TaggedIs
  <2> QED
    BY <2>1, <2>2
<1>5. a \cap b = {} /\ (a \cup b) \cap c = {} /\ ((a \cup b) \cup c) \cap d = {}
  BY <1>1, <1>2, <1>3, <1>4 DEF Tagged
<1>6. PICK e : /\ e = a \cup b /\ IsFiniteSet(e)
               /\ Cardinality(e) = k + Cardinality(T) /\ Cardinality(T) \in Nat
  <2>1. /\ IsFiniteSet(a \cup b) /\ Cardinality(a \cup b) = Cardinality(a) + Cardinality(b)
        /\ Cardinality(b) \in Nat
    BY <1>1, <1>2, <1>5, UnionIs, Zenon
  <2> QED
    BY <1>1, <1>2, <2>1
<1>7. PICK f : /\ f = e \cup c /\ IsFiniteSet(f)
               /\ Cardinality(f) = k + Cardinality(T) + Cardinality(D) /\ Cardinality(D) \in Nat
  <2>1. /\ IsFiniteSet(e \cup c) /\ Cardinality(e \cup c) = Cardinality(e) + Cardinality(c)
        /\ Cardinality(c) \in Nat
    BY <1>3, <1>5, <1>6, UnionIs, Zenon
  <2> QED
    BY <1>3, <1>6, <2>1
<1>8. IsFiniteSet(f \cup d)
      /\ Cardinality(f \cup d) = k + Cardinality(T) + Cardinality(D) + (IF taken THEN 1 ELSE 0)
  <2>1. IsFiniteSet(f \cup d) /\ Cardinality(f \cup d) = Cardinality(f) + Cardinality(d)
    BY <1>4, <1>5, <1>6, <1>7, UnionIs, Zenon
  <2> QED
    BY <1>4, <1>7, <2>1
<1> QED
  BY <1>1, <1>2, <1>3, <1>4, <1>6, <1>7, <1>8 DEF Names
-----------------------------------------------------------------------------
(***************************************************************************)
(* A step changes one slot.                                                *)
(***************************************************************************)
AllNames == UNION {Users!Held(p) : p \in Procs}

SumsInv ==
  /\ IsFiniteSet(AllNames) /\ \A p \in Procs : IsFiniteSet(tables[p])
  /\ free + Users!InUse <= total /\ (~lost => free + Users!InUse = total)

UserInv ==
  /\ UserType /\ total \in (FamilyPools \cup ResizePools)
  /\ \A p \in Procs : Unused(p) /\ Full(p) /\ Calls(p)
  /\ SumsInv

\* Sizes in UserMem are sizes here.
LEMMA SameSize == \A S : Users!Cardinality(S) = Cardinality(S)
BY DEF Users!Cardinality, Cardinality

LEMMA CallIs ==
  ASSUME NEW c \in Users!CallOps \cup {Users!NoCall}
  PROVE  /\ c.op \in {"code", "copy", "grow", "resize"} <=> c # Users!NoCall
         /\ c.op \in {"code", "copy", "grow", "resize"} <=> c \in Users!CallOps
BY DEF Users!CallOps, Users!NoCall

LEMMA HeldIs ==
  ASSUME NEW p \in Procs, UserType
  PROVE  /\ Users!Held(p) = Names(p, kernel[p], tables[p], DOMAIN user[p], Taken(p))
         /\ \A x \in Users!Held(p) : x[1] = p
<1>1. call[p] \in Users!CallOps \cup {Users!NoCall}
  BY DEF UserType
<1>2. Users!Loops(p) <=> call[p] # Users!NoCall
  BY <1>1, CallIs DEF Users!Loops
<1>3. Users!Held(p) = Names(p, kernel[p], tables[p], DOMAIN user[p], Taken(p))
  BY <1>2 DEF Users!Held, Names, Tagged, Taken
<1>4. \A x \in Users!Held(p) : x[1] = p
  BY <1>3 DEF Names, Tagged
<1> QED
  BY <1>3, <1>4

LEMMA HeldIsNext ==
  ASSUME NEW p \in Procs, UserType'
  PROVE  /\ Users!Held(p)' = Names(p, kernel'[p], tables'[p], DOMAIN user'[p], Taken(p)')
         /\ \A x \in Users!Held(p)' : x[1] = p
<1>1. call'[p] \in Users!CallOps \cup {Users!NoCall}
  BY DEF UserType
<1>2. Users!Loops(p)' <=> call'[p] # Users!NoCall
  BY <1>1, CallIs DEF Users!Loops
<1>3. Users!Held(p)' = Names(p, kernel'[p], tables'[p], DOMAIN user'[p], Taken(p)')
  BY <1>2 DEF Users!Held, Names, Tagged, Taken
<1>4. \A x \in Users!Held(p)' : x[1] = p
  BY <1>3 DEF Names, Tagged
<1> QED
  BY <1>3, <1>4

\* A set of which a part is replaced.
LEMMA Replaced ==
  ASSUME NEW S, IsFiniteSet(S), NEW R, R \subseteq S, NEW A, IsFiniteSet(A), A \cap (S \ R) = {}
  PROVE  /\ IsFiniteSet((S \ R) \cup A)
         /\ Cardinality((S \ R) \cup A) = Cardinality(S) - Cardinality(R) + Cardinality(A)
         /\ Cardinality(R) <= Cardinality(S)
         /\ Cardinality(S) \in Nat /\ Cardinality(R) \in Nat /\ Cardinality(A) \in Nat
<1>1. IsFiniteSet(R) /\ Cardinality(R) <= Cardinality(S)
  BY FS_Subset
<1>2. PICK d : /\ d = S \ R /\ IsFiniteSet(d)
               /\ Cardinality(d) = Cardinality(S) - Cardinality(S \cap R)
  BY FS_Difference
<1>3. S \cap R = R
  OBVIOUS
<1>4. IsFiniteSet(d \cup A) /\ Cardinality(d \cup A) = Cardinality(d) + Cardinality(A)
  BY <1>2, UnionIs, Zenon
<1>5. Cardinality(S) \in Nat /\ Cardinality(R) \in Nat /\ Cardinality(A) \in Nat
  BY <1>1, FS_CardinalityType
<1> QED
  BY <1>1, <1>2, <1>3, <1>4, <1>5

LEMMA FiniteMemory ==
  ASSUME Assumptions, NEW f \in Memories
  PROVE  /\ IsFiniteSet(DOMAIN f) /\ Cardinality(DOMAIN f) \in Nat
         /\ DOMAIN f \subseteq Users!PageNumbers /\ \A b \in DOMAIN f : f[b] \in Data
<1>1. PICK S \in SUBSET Users!PageNumbers : f \in [S -> Data]
  BY DEF Memories
<1>2. IsFiniteSet(Users!PageNumbers)
  BY FS_Interval DEF Assumptions, Users!SizeAssumption, Users!PageNumbers
<1> QED
  BY <1>1, <1>2, FS_Subset, FS_CardinalityType

\* When only one slot changes, the sum changes by what it holds.
LEMMA OneSlot ==
  ASSUME Assumptions, UserInv, UserType', NEW p \in Procs, IsFiniteSet(tables'[p]),
         \A q \in Procs \ {p} : /\ kernel'[q] = kernel[q] /\ tables'[q] = tables[q]
                                /\ user'[q] = user[q] /\ call'[q] = call[q]
  PROVE  /\ IsFiniteSet(AllNames') /\ Users!InUse \in Nat /\ Users!InUse' \in Nat
         /\ Users!InUse' = Users!InUse - InUseFor(p) + InUseFor(p)'
         /\ InUseFor(p) <= Users!InUse /\ InUseFor(p) \in Nat /\ InUseFor(p)' \in Nat
<1>1. UserType /\ IsFiniteSet(AllNames) /\ IsFiniteSet(tables[p])
  BY DEF UserInv, SumsInv
<1>2. \A q \in Procs \ {p} : Users!Held(q)' = Users!Held(q)
  BY DEF Users!Held, Users!Loops
<1>3. /\ \A q \in Procs : \A x \in Users!Held(q) : x[1] = q
      /\ \A q \in Procs : \A x \in Users!Held(q)' : x[1] = q
  BY <1>1, HeldIs, HeldIsNext
<1>4. PICK S, R, A : S = AllNames /\ R = Users!Held(p) /\ A = Users!Held(p)'
  OBVIOUS
<1>5. R \subseteq S /\ A \cap (S \ R) = {}
  BY <1>3, <1>4 DEF AllNames
<1>6. AllNames' = (S \ R) \cup A
  BY <1>2, <1>3, <1>4 DEF AllNames
<1>7. IsFiniteSet(R) /\ Cardinality(R) = InUseFor(p) /\ InUseFor(p) \in Nat
  <2>1. /\ kernel[p] \in Nat /\ user[p] \in Memories
    BY <1>1 DEF UserType, Users!MAKE_PAGES
  <2>2. IsFiniteSet(DOMAIN user[p]) /\ Taken(p) \in BOOLEAN
    BY <2>1, FiniteMemory DEF Taken
  <2>3. /\ IsFiniteSet(Names(p, kernel[p], tables[p], DOMAIN user[p], Taken(p)))
        /\ Cardinality(Names(p, kernel[p], tables[p], DOMAIN user[p], Taken(p))) = InUseFor(p)
    BY <1>1, <2>1, <2>2, NamesAre DEF InUseFor
  <2> QED
    BY <1>1, <1>4, <2>3, HeldIs, FS_CardinalityType
<1>8. IsFiniteSet(A) /\ Cardinality(A) = InUseFor(p)' /\ InUseFor(p)' \in Nat
  <2>1. /\ kernel'[p] \in Nat /\ user'[p] \in Memories
    BY DEF UserType, Users!MAKE_PAGES
  <2>2. IsFiniteSet(DOMAIN user'[p]) /\ Taken(p)' \in BOOLEAN
    BY <2>1, FiniteMemory DEF Taken
  <2>3. /\ IsFiniteSet(Names(p, kernel'[p], tables'[p], DOMAIN user'[p], Taken(p)'))
        /\ Cardinality(Names(p, kernel'[p], tables'[p], DOMAIN user'[p], Taken(p)'))
             = InUseFor(p)'
    BY <2>1, <2>2, NamesAre DEF InUseFor
  <2> QED
    BY <1>4, <2>3, HeldIsNext, FS_CardinalityType
<1>9. /\ IsFiniteSet((S \ R) \cup A)
      /\ Cardinality((S \ R) \cup A) = Cardinality(S) - Cardinality(R) + Cardinality(A)
      /\ Cardinality(R) <= Cardinality(S)
      /\ Cardinality(S) \in Nat /\ Cardinality(R) \in Nat /\ Cardinality(A) \in Nat
  <2>1. IsFiniteSet(S)
    BY <1>1, <1>4
  <2> QED
    BY <2>1, <1>5, <1>8, Replaced, Zenon
<1>10. Users!InUse = Cardinality(S) /\ Users!InUse' = Cardinality((S \ R) \cup A)
  BY <1>4, <1>6, SameSize DEF Users!InUse, AllNames
<1> QED
  BY <1>4, <1>6, <1>7, <1>8, <1>9, <1>10

\* So a step keeps the invariant when it does for its slot.
LEMMA SlotStep ==
  ASSUME Assumptions, UserInv, UserType', NEW p \in Procs, IsFiniteSet(tables'[p]),
         total' = total,
         \A q \in Procs \ {p} : /\ kernel'[q] = kernel[q] /\ tables'[q] = tables[q]
                                /\ user'[q] = user[q] /\ call'[q] = call[q]
                                /\ state'[q] = state[q],
         Unused(p)', Full(p)', Calls(p)',
         free' + InUseFor(p)' <= free + InUseFor(p),
         lost => lost', ~lost' => free' + InUseFor(p)' = free + InUseFor(p)
  PROVE  UserInv'
<1>1. /\ IsFiniteSet(AllNames') /\ Users!InUse \in Nat /\ Users!InUse' \in Nat
      /\ Users!InUse' = Users!InUse - InUseFor(p) + InUseFor(p)'
      /\ InUseFor(p) <= Users!InUse /\ InUseFor(p) \in Nat /\ InUseFor(p)' \in Nat
  BY OneSlot
<1>2. free \in Nat /\ free' \in Nat /\ total \in Nat /\ lost \in BOOLEAN /\ lost' \in BOOLEAN
  BY DEF UserInv, UserType
<1>3. free' + Users!InUse' <= total' /\ (~lost' => free' + Users!InUse' = total')
  BY <1>1, <1>2 DEF UserInv, SumsInv
<1>4. \A q \in Procs : IsFiniteSet(tables'[q])
  BY DEF UserInv, SumsInv
<1>5. SumsInv'
  BY <1>1, <1>3, <1>4 DEF SumsInv
<1>6. \A q \in Procs : (Unused(q) /\ Full(q) /\ Calls(q))'
  <2> SUFFICES ASSUME NEW q \in Procs \ {p} PROVE (Unused(q) /\ Full(q) /\ Calls(q))'
    OBVIOUS
  <2>1. Unused(q) /\ Full(q) /\ Calls(q)
    BY DEF UserInv
  <2> QED
    BY <2>1 DEF Unused, Full, Calls
<1> QED
  BY <1>5, <1>6 DEF UserInv
-----------------------------------------------------------------------------
(***************************************************************************)
(* What a slot becomes, all of it, and what its pages come to.             *)
(***************************************************************************)
States == {"unused", "used", "live", "task"}

Weight(k, T, f, c) ==
  k + Cardinality(T) + Cardinality(DOMAIN f)
    + (IF c # Users!NoCall /\ c.mem # Users!Nil THEN 1 ELSE 0)

Becomes(p, s, z, k, T, f, c) ==
  /\ total' = total
  /\ state' = [state EXCEPT ![p] = s] /\ sz' = [sz EXCEPT ![p] = z]
  /\ kernel' = [kernel EXCEPT ![p] = k] /\ tables' = [tables EXCEPT ![p] = T]
  /\ user' = [user EXCEPT ![p] = f] /\ call' = [call EXCEPT ![p] = c]

\* The clauses of the invariant about one slot.
Slot(s, k, T, f, c) ==
  /\ s = "unused" => k = 0 /\ T = {} /\ DOMAIN f = {} /\ c = Users!NoCall
  /\ s = "live" \/ c # Users!NoCall => k = Users!MAKE_PAGES
  /\ c # Users!NoCall =>
       /\ c.from <= c.at /\ c.at <= c.end
       /\ c.mem # Users!Nil => c.at < c.end
       /\ c.op = "copy" => c.parent \in Procs
       /\ s = IF c.op \in {"code", "copy"} THEN "used" ELSE "live"

LEMMA SlotBecomes ==
  ASSUME Assumptions, UserInv, NEW p \in Procs,
         NEW s \in States, NEW z \in 0..(MaxPages * PAGE_BYTES), NEW k \in 0..Users!MAKE_PAGES,
         NEW T \in SUBSET Users!TablePlaces, NEW f \in Memories,
         NEW c \in Users!CallOps \cup {Users!NoCall},
         Becomes(p, s, z, k, T, f, c), Slot(s, k, T, f, c), IsFiniteSet(T),
         free' \in Nat, lost' \in BOOLEAN, lost => lost',
         free' + Weight(k, T, f, c) <= free + InUseFor(p),
         ~lost' => free' + Weight(k, T, f, c) = free + InUseFor(p)
  PROVE  UserInv'
<1>1. UserType
  BY DEF UserInv
<1>2. UserType'
  BY <1>1 DEF UserType, Becomes, States
<1>3. /\ state'[p] = s /\ kernel'[p] = k /\ tables'[p] = T /\ user'[p] = f /\ call'[p] = c
      /\ \A q \in Procs \ {p} : /\ kernel'[q] = kernel[q] /\ tables'[q] = tables[q]
                                /\ user'[q] = user[q] /\ call'[q] = call[q]
                                /\ state'[q] = state[q]
  BY <1>1 DEF UserType, Becomes
<1>4. Unused(p)' /\ Full(p)' /\ Calls(p)'
  BY <1>3 DEF Unused, Full, Calls, Slot
<1>5. InUseFor(p)' = Weight(k, T, f, c)
  BY <1>3 DEF InUseFor, Weight, Taken
<1>6. total' = total
  BY DEF Becomes
<1> QED
  BY <1>2, <1>3, <1>4, <1>5, <1>6, SlotStep

\* A slot may become what it is.
LEMMA Same ==
  ASSUME UserInv, NEW p \in Procs
  PROVE  /\ [state EXCEPT ![p] = state[p]] = state /\ [sz EXCEPT ![p] = sz[p]] = sz
         /\ [kernel EXCEPT ![p] = kernel[p]] = kernel /\ [tables EXCEPT ![p] = tables[p]] = tables
         /\ [user EXCEPT ![p] = user[p]] = user /\ [call EXCEPT ![p] = call[p]] = call
BY DEF UserInv, UserType

\* Where a slot stands.
LEMMA SlotIs ==
  ASSUME Assumptions, UserInv, NEW p \in Procs
  PROVE  /\ state[p] \in States /\ sz[p] \in 0..(MaxPages * PAGE_BYTES)
         /\ kernel[p] \in 0..Users!MAKE_PAGES /\ tables[p] \in SUBSET Users!TablePlaces
         /\ user[p] \in Memories /\ call[p] \in Users!CallOps \cup {Users!NoCall}
         /\ Slot(state[p], kernel[p], tables[p], user[p], call[p])
         /\ IsFiniteSet(tables[p]) /\ Cardinality(tables[p]) \in Nat
         /\ IsFiniteSet(DOMAIN user[p]) /\ Cardinality(DOMAIN user[p]) \in Nat
         /\ InUseFor(p) = Weight(kernel[p], tables[p], user[p], call[p]) /\ InUseFor(p) \in Nat
         /\ free \in Nat /\ lost \in BOOLEAN
<1>1. UserType /\ IsFiniteSet(tables[p])
  BY DEF UserInv, SumsInv
<1>2. /\ state[p] \in States /\ sz[p] \in 0..(MaxPages * PAGE_BYTES)
      /\ kernel[p] \in 0..Users!MAKE_PAGES /\ tables[p] \in SUBSET Users!TablePlaces
      /\ user[p] \in Memories /\ call[p] \in Users!CallOps \cup {Users!NoCall}
      /\ free \in Nat /\ lost \in BOOLEAN
  BY <1>1 DEF UserType, States
<1>3. Slot(state[p], kernel[p], tables[p], user[p], call[p])
  BY DEF UserInv, Unused, Full, Calls, Slot
<1>4. IsFiniteSet(DOMAIN user[p]) /\ Cardinality(DOMAIN user[p]) \in Nat
  BY <1>2, FiniteMemory
<1>5. InUseFor(p) = Weight(kernel[p], tables[p], user[p], call[p])
  BY DEF InUseFor, Weight, Taken
<1>6. Cardinality(tables[p]) \in Nat
  BY <1>1, FS_CardinalityType
<1>7. kernel[p] \in Nat
  BY <1>2 DEF Users!MAKE_PAGES
<1>8. InUseFor(p) \in Nat
  BY <1>4, <1>5, <1>6, <1>7 DEF Weight
<1> QED
  BY <1>1, <1>2, <1>3, <1>4, <1>5, <1>6, <1>8
-----------------------------------------------------------------------------
(***************************************************************************)
(* The steps, one after the other.                                         *)
(***************************************************************************)
LEMMA NoNames ==
  ASSUME Assumptions, UserInv, NEW p \in Procs, state[p] = "unused"
  PROVE  /\ kernel[p] = 0 /\ tables[p] = {} /\ DOMAIN user[p] = {} /\ call[p] = Users!NoCall
         /\ InUseFor(p) = 0
         /\ \A k \in Nat : Weight(k, tables[p], user[p], Users!NoCall) = k
         /\ \A k \in Nat : \A c : c # Users!NoCall /\ c.mem = Users!Nil =>
              Weight(k, tables[p], user[p], c) = k
<1>1. kernel[p] = 0 /\ tables[p] = {} /\ DOMAIN user[p] = {} /\ call[p] = Users!NoCall
  BY SlotIs DEF Slot
<1>2. Cardinality(tables[p]) = 0 /\ Cardinality(DOMAIN user[p]) = 0
  BY <1>1, FS_EmptySet
<1>3. InUseFor(p) = 0
  BY <1>1, <1>2 DEF InUseFor, Taken
<1> QED
  BY <1>1, <1>2, <1>3 DEF Weight

NewCall(o, q, e) == [op |-> o, parent |-> q, at |-> 0, from |-> 0, end |-> e, mem |-> Users!Nil]

LEMMA NewCallIs ==
  ASSUME Assumptions, NEW o \in {"code", "copy", "grow", "resize"},
         NEW q \in Procs \cup {Users!Nil},
         NEW e \in 0..MaxPages
  PROVE  NewCall(o, q, e) \in Users!CallOps /\ NewCall(o, q, e) # Users!NoCall
<1>1. MaxPages \in Nat
  BY DEF Assumptions, Users!SizeAssumption
<1> QED
  BY <1>1 DEF NewCall, Users!CallOps, Users!NoCall

LEMMA MakeKeeps ==
  ASSUME Assumptions, UserInv, NEW p \in Procs, NEW o \in {"code", "copy"},
         NEW q \in Procs \cup {Users!Nil},
         o = "copy" => q \in Procs, NEW e \in 0..MaxPages, Users!make_proc(p, o, q, e)
  PROVE  UserInv'
<1>1. PICK c \in Users!CallOps : c = NewCall(o, q, e) /\ c # Users!NoCall
  BY NewCallIs
<1>2. c.op = o /\ c.parent = q /\ c.at = 0 /\ c.from = 0 /\ c.end = e /\ c.mem = Users!Nil
  BY <1>1 DEF NewCall
<1>3. Becomes(p, "used", sz[p], Users!MAKE_PAGES, tables[p], user[p], c)
  BY <1>1, Same, Zenon DEF Users!make_proc, NewCall, Becomes
<1>4. Slot("used", Users!MAKE_PAGES, tables[p], user[p], c)
  BY <1>2 DEF Slot
<1>5. Weight(Users!MAKE_PAGES, tables[p], user[p], c) = Users!MAKE_PAGES /\ InUseFor(p) = 0
  BY <1>1, <1>2, NoNames DEF Users!make_proc, Users!MAKE_PAGES
<1>6. free' = free - Users!MAKE_PAGES /\ free' \in Nat /\ lost' = lost
  BY SlotIs DEF Users!make_proc, Users!MAKE_PAGES
<1>7. free' + Users!MAKE_PAGES = free + 0
  BY <1>6, SlotIs DEF Users!MAKE_PAGES
<1>8. Users!MAKE_PAGES \in 0..Users!MAKE_PAGES /\ "used" \in States
  BY DEF Users!MAKE_PAGES, States
<1>9. sz[p] \in 0..(MaxPages * PAGE_BYTES) /\ tables[p] \in SUBSET Users!TablePlaces
      /\ user[p] \in Memories /\ IsFiniteSet(tables[p]) /\ lost \in BOOLEAN /\ free \in Nat
  BY SlotIs
<1> QED
  BY <1>3, <1>4, <1>5, <1>6, <1>7, <1>8, <1>9, SlotBecomes

\* Steps that change no slot but for the state of one that is not in use.
LEMMA FailKeeps ==
  ASSUME Assumptions, UserInv, NEW p \in Procs, Users!MakeFails(p)
  PROVE  UserInv'
<1>1. Becomes(p, "used", sz[p], kernel[p], tables[p], user[p], call[p])
  BY Same, Zenon DEF Users!MakeFails, Becomes
<1>2. Slot("used", kernel[p], tables[p], user[p], call[p])
  BY NoNames DEF Users!MakeFails, Slot
<1>3. free' \in Nat /\ free' <= free /\ lost' = TRUE /\ free \in Nat
  BY SlotIs DEF Users!MakeFails, Users!TOP_TABLES
<1>4. Weight(kernel[p], tables[p], user[p], call[p]) = InUseFor(p) /\ InUseFor(p) \in Nat
  BY SlotIs
<1>5. free' + InUseFor(p) <= free + InUseFor(p)
  BY <1>3, <1>4
<1>6. /\ sz[p] \in 0..(MaxPages * PAGE_BYTES) /\ tables[p] \in SUBSET Users!TablePlaces
      /\ user[p] \in Memories /\ IsFiniteSet(tables[p]) /\ kernel[p] \in 0..Users!MAKE_PAGES
      /\ call[p] \in Users!CallOps \cup {Users!NoCall} /\ "used" \in States
  BY SlotIs DEF States
<1> QED
  BY <1>1, <1>2, <1>3, <1>4, <1>5, <1>6, SlotBecomes

LEMMA TaskKeeps ==
  ASSUME Assumptions, UserInv, NEW p \in Procs, Users!make_kernel_task(p)
  PROVE  UserInv'
<1>1. Becomes(p, "task", sz[p], 3, tables[p], user[p], call[p])
  <2>1. Users!MAKE_PAGES - Users!TOP_TABLES - Users!FREED_WITH_PROCESS = 3
    BY DEF Users!MAKE_PAGES, Users!TOP_TABLES, Users!FREED_WITH_PROCESS
  <2> QED
    BY <2>1, Same, Zenon DEF Users!make_kernel_task, Becomes
<1>2. call[p] = Users!NoCall /\ Slot("task", 3, tables[p], user[p], call[p])
  BY NoNames DEF Users!make_kernel_task, Slot
<1>3. free' \in Nat /\ free' = free - 5 /\ lost' = TRUE /\ free \in Nat
  BY SlotIs DEF Users!make_kernel_task, Users!MAKE_PAGES, Users!FREED_WITH_PROCESS
<1>4. Weight(3, tables[p], user[p], Users!NoCall) = 3 /\ InUseFor(p) = 0
  BY NoNames DEF Users!make_kernel_task
<1>5. free' + 3 <= free + 0
  BY <1>3
<1>6. /\ sz[p] \in 0..(MaxPages * PAGE_BYTES) /\ tables[p] \in SUBSET Users!TablePlaces
      /\ user[p] \in Memories /\ IsFiniteSet(tables[p]) /\ 3 \in 0..Users!MAKE_PAGES
      /\ Users!NoCall \in Users!CallOps \cup {Users!NoCall} /\ "task" \in States
  BY SlotIs DEF States, Users!MAKE_PAGES
<1> QED
  BY <1>1, <1>2, <1>3, <1>4, <1>5, <1>6, SlotBecomes

\* A slot in the middle of a call.
LEMMA InCall ==
  ASSUME Assumptions, UserInv, NEW p \in Procs, Users!Loops(p)
  PROVE  /\ call[p] \in Users!CallOps /\ call[p] # Users!NoCall /\ kernel[p] = Users!MAKE_PAGES
         /\ call[p].at \in 0..MaxPages /\ call[p].from \in 0..MaxPages
         /\ call[p].end \in 0..MaxPages
         /\ call[p].at \in Nat /\ call[p].from \in Nat /\ call[p].end \in Nat /\ MaxPages \in Nat
         /\ call[p].from <= call[p].at /\ call[p].at <= call[p].end
         /\ call[p].op \in {"code", "copy", "grow", "resize"}
         /\ call[p].mem \in Data \cup {Users!Nil} /\ Users!Nil \notin Data
         /\ call[p].mem # Users!Nil => call[p].at < call[p].end
         /\ call[p].op = "copy" => call[p].parent \in Procs
         /\ state[p] = IF call[p].op \in {"code", "copy"} THEN "used" ELSE "live"
<1>1. /\ call[p] \in Users!CallOps \cup {Users!NoCall}
      /\ Slot(state[p], kernel[p], tables[p], user[p], call[p])
  BY SlotIs
<1>2. call[p] \in Users!CallOps /\ call[p] # Users!NoCall
  BY <1>1, CallIs DEF Users!Loops
<1>3. MaxPages \in Nat /\ Users!Nil \notin Data
  BY DEF Assumptions, Users!SizeAssumption, Users!DataAssumption, Users!Nil
<1> QED
  BY <1>1, <1>2, <1>3 DEF Slot, Users!CallOps

\* What the loops change in their call.
Filled(c, v) == [c EXCEPT !.mem = v]
Moved(c, a)  == [c EXCEPT !.at = a, !.mem = Users!Nil]

LEMMA FilledIs ==
  ASSUME NEW c \in Users!CallOps, NEW v \in Data \cup {Users!Nil}
  PROVE  /\ Filled(c, v) \in Users!CallOps /\ Filled(c, v) # Users!NoCall /\ Filled(c, v).mem = v
         /\ Filled(c, v).op = c.op /\ Filled(c, v).parent = c.parent
         /\ Filled(c, v).at = c.at /\ Filled(c, v).from = c.from /\ Filled(c, v).end = c.end
<1>1. PICK o, q, i, f, e, w :
        /\ c = [op |-> o, parent |-> q, at |-> i, from |-> f, end |-> e, mem |-> w]
        /\ o \in {"code", "copy", "grow", "resize"} /\ q \in Procs \cup {Users!Nil}
        /\ i \in 0..MaxPages /\ f \in 0..MaxPages /\ e \in 0..MaxPages
  BY DEF Users!CallOps
<1>2. Filled(c, v) = [op |-> o, parent |-> q, at |-> i, from |-> f, end |-> e, mem |-> v]
  BY <1>1 DEF Filled
<1>3. Filled(c, v) \in Users!CallOps
  BY <1>1, <1>2 DEF Users!CallOps
<1>4. Filled(c, v) # Users!NoCall
  BY <1>3, CallIs
<1> QED
  BY <1>1, <1>2, <1>3, <1>4

LEMMA MovedIs ==
  ASSUME NEW c \in Users!CallOps, NEW a \in 0..MaxPages
  PROVE  /\ Moved(c, a) \in Users!CallOps /\ Moved(c, a) # Users!NoCall
         /\ Moved(c, a).mem = Users!Nil
         /\ Moved(c, a).op = c.op /\ Moved(c, a).parent = c.parent
         /\ Moved(c, a).at = a /\ Moved(c, a).from = c.from /\ Moved(c, a).end = c.end
<1>1. PICK o, q, i, f, e, w :
        /\ c = [op |-> o, parent |-> q, at |-> i, from |-> f, end |-> e, mem |-> w]
        /\ o \in {"code", "copy", "grow", "resize"} /\ q \in Procs \cup {Users!Nil}
        /\ i \in 0..MaxPages /\ f \in 0..MaxPages /\ e \in 0..MaxPages
  BY DEF Users!CallOps
<1>2. Moved(c, a) = [op |-> o, parent |-> q, at |-> a, from |-> f, end |-> e, mem |-> Users!Nil]
  <2>1. [c EXCEPT !.at = a] = [op |-> o, parent |-> q, at |-> a, from |-> f, end |-> e, mem |-> w]
    BY <1>1
  <2>2. Moved(c, a) = [[c EXCEPT !.at = a] EXCEPT !.mem = Users!Nil]
    BY DEF Moved
  <2> QED
    BY <2>1, <2>2
<1>3. Moved(c, a) \in Users!CallOps
  BY <1>1, <1>2 DEF Users!CallOps
<1>4. Moved(c, a) # Users!NoCall
  BY <1>3, CallIs
<1> QED
  BY <1>1, <1>2, <1>3, <1>4

LEMMA TakeKeeps ==
  ASSUME Assumptions, UserInv, NEW p \in Procs, Users!TakePage(p)
  PROVE  UserInv'
<1>1. /\ call[p] \in Users!CallOps /\ call[p] # Users!NoCall /\ call[p].mem = Users!Nil
      /\ call[p].at < call[p].end
  BY InCall DEF Users!TakePage, Users!InLoop, Users!Cur
<1>2. PICK v \in Users!Contents(p) : call' = [call EXCEPT ![p].mem = v]
  BY DEF Users!TakePage
<1>3. v \in Data /\ v # Users!Nil
  <2>1. CASE Users!At(p, "copy")
    <3>1. call[p].parent \in Procs /\ call[p].at \in DOMAIN user[call[p].parent]
      BY <2>1, InCall DEF Users!TakePage, Users!InLoop, Users!CopyHasSource, Users!At, Users!Cur
    <3>2. user[call[p].parent] \in Memories
      BY <3>1, SlotIs
    <3>3. user[call[p].parent][call[p].at] \in Data
      BY <3>1, <3>2, FiniteMemory
    <3> QED
      BY <1>2, <2>1, <3>3 DEF Users!Contents, Users!Cur, Assumptions, Users!DataAssumption,
         Users!Nil
  <2> QED
    BY <1>2, <2>1 DEF Users!Contents, Assumptions, Users!DataAssumption, Users!Nil
<1>4. PICK c : /\ c = Filled(call[p], v) /\ c \in Users!CallOps /\ c.mem = v
               /\ c.op = call[p].op /\ c.parent = call[p].parent /\ c.at = call[p].at
               /\ c.from = call[p].from /\ c.end = call[p].end /\ c # Users!NoCall
  <2>1. PICK d \in Users!CallOps : d = call[p]
    BY <1>1
  <2>2. PICK c : c = Filled(d, v)
    OBVIOUS
  <2>3. /\ c \in Users!CallOps /\ c.mem = v /\ c.op = d.op /\ c.parent = d.parent /\ c.at = d.at
        /\ c.from = d.from /\ c.end = d.end /\ c # Users!NoCall
    BY <1>3, <2>2, FilledIs
  <2> QED
    BY <2>1, <2>2, <2>3
<1>5. c # Users!NoCall
  BY <1>4
<1>6. Becomes(p, state[p], sz[p], kernel[p], tables[p], user[p], c)
  <2>1. call' = [call EXCEPT ![p] = c]
    BY <1>2, <1>4 DEF Filled
  <2> QED
    BY <2>1, Same, Zenon DEF Users!TakePage, Becomes
<1>7. Slot(state[p], kernel[p], tables[p], user[p], c)
  BY <1>1, <1>4, <1>5, SlotIs DEF Slot
<1>8. Weight(kernel[p], tables[p], user[p], c) = InUseFor(p) + 1 /\ InUseFor(p) \in Nat
  BY <1>1, <1>3, <1>4, <1>5, SlotIs DEF Weight, Users!MAKE_PAGES
<1>9. free' \in Nat /\ free' = free - 1 /\ lost' = lost /\ free \in Nat /\ lost \in BOOLEAN
  BY SlotIs DEF Users!TakePage
<1>10. free' + (InUseFor(p) + 1) = free + InUseFor(p)
  BY <1>8, <1>9
<1>11. /\ sz[p] \in 0..(MaxPages * PAGE_BYTES) /\ tables[p] \in SUBSET Users!TablePlaces
       /\ user[p] \in Memories /\ IsFiniteSet(tables[p]) /\ kernel[p] \in 0..Users!MAKE_PAGES
       /\ state[p] \in States
  BY SlotIs
<1>12. c \in Users!CallOps \cup {Users!NoCall}
  BY <1>4
<1>13. /\ free' + Weight(kernel[p], tables[p], user[p], c) = free + InUseFor(p)
       /\ free' + Weight(kernel[p], tables[p], user[p], c) <= free + InUseFor(p)
  BY <1>8, <1>9, <1>10
<1> QED
  BY <1>6, <1>7, <1>9, <1>11, <1>12, <1>13, SlotBecomes

\* map_page() comes only where a page is, so that its tables are among those there are.
LEMMA PathIs ==
  ASSUME Assumptions, NEW p \in Procs, UserInv, Users!InLoop(p)
  PROVE  /\ Users!Path(Users!Cur(p)) \subseteq Users!TablePlaces
         /\ Users!Cur(p) \in Users!PageNumbers
<1>1. Users!Cur(p) \in Users!PageNumbers
  BY InCall DEF Users!InLoop, Users!Cur, Users!PageNumbers
<1> QED
  BY <1>1 DEF Users!TablePlaces

LEMMA TableKeeps ==
  ASSUME Assumptions, UserInv, NEW p \in Procs, Users!AddTable(p)
  PROVE  UserInv'
<1>1. PICK k \in Users!Missing(p) : tables' = [tables EXCEPT ![p] = @ \cup {k}]
  BY DEF Users!AddTable
<1>2. k \in Users!TablePlaces /\ k \notin tables[p]
  BY <1>1, PathIs DEF Users!Missing, Users!AddTable
<1>3. PICK T : T = tables[p] \cup {k} /\ T \in SUBSET Users!TablePlaces
  BY <1>2, SlotIs
<1>4. IsFiniteSet(T) /\ Cardinality(T) = Cardinality(tables[p]) + 1
  BY <1>2, <1>3, SlotIs, FS_AddElement
<1>5. Becomes(p, state[p], sz[p], kernel[p], T, user[p], call[p])
  <2>1. tables' = [tables EXCEPT ![p] = T]
    BY <1>1, <1>3
  <2> QED
    BY <2>1, Same, Zenon DEF Users!AddTable, Becomes
<1>6. Slot(state[p], kernel[p], T, user[p], call[p])
  <2>1. call[p] # Users!NoCall
    BY InCall DEF Users!AddTable, Users!InLoop
  <2> QED
    BY <2>1, SlotIs DEF Slot
<1>7. Weight(kernel[p], T, user[p], call[p]) = InUseFor(p) + 1 /\ InUseFor(p) \in Nat
  BY <1>4, SlotIs DEF Weight, Users!MAKE_PAGES
<1>8. free' \in Nat /\ free' = free - 1 /\ lost' = lost /\ free \in Nat /\ lost \in BOOLEAN
  BY SlotIs DEF Users!AddTable
<1>9. /\ free' + Weight(kernel[p], T, user[p], call[p]) = free + InUseFor(p)
      /\ free' + Weight(kernel[p], T, user[p], call[p]) <= free + InUseFor(p)
  BY <1>7, <1>8
<1>10. /\ sz[p] \in 0..(MaxPages * PAGE_BYTES) /\ call[p] \in Users!CallOps \cup {Users!NoCall}
       /\ user[p] \in Memories /\ kernel[p] \in 0..Users!MAKE_PAGES /\ state[p] \in States
  BY SlotIs
<1> QED
  BY <1>3, <1>4, <1>5, <1>6, <1>8, <1>9, <1>10, SlotBecomes

LEMMA WithIs ==
  ASSUME Assumptions, NEW f \in Memories, NEW b \in Users!PageNumbers, NEW v \in Data
  PROVE  /\ Users!With(f, b, v) \in Memories /\ DOMAIN Users!With(f, b, v) = DOMAIN f \cup {b}
         /\ Users!With(f, b, v)[b] = v /\ \A a \in DOMAIN f \ {b} : Users!With(f, b, v)[a] = f[a]
         /\ Cardinality(DOMAIN Users!With(f, b, v)) =
              Cardinality(DOMAIN f) + IF b \in DOMAIN f THEN 0 ELSE 1
         /\ Cardinality(DOMAIN f) \in Nat
<1>1. PICK S \in SUBSET Users!PageNumbers : f \in [S -> Data]
  BY DEF Memories
<1>2. S \cup {b} \in SUBSET Users!PageNumbers /\ Users!With(f, b, v) \in [S \cup {b} -> Data]
  BY <1>1 DEF Users!With
<1>3. Users!With(f, b, v) \in Memories
  BY <1>2 DEF Memories
<1>4. IsFiniteSet(DOMAIN f) /\ Cardinality(DOMAIN f) \in Nat
  BY FiniteMemory
<1>5. DOMAIN Users!With(f, b, v) = DOMAIN f \cup {b}
  BY DEF Users!With
<1>6. Cardinality(DOMAIN f \cup {b}) = Cardinality(DOMAIN f) + IF b \in DOMAIN f THEN 0 ELSE 1
  <2>1. IsFiniteSet(DOMAIN f)
    BY <1>4
  <2>2. Cardinality(DOMAIN f \cup {b})
          = IF b \in DOMAIN f THEN Cardinality(DOMAIN f) ELSE Cardinality(DOMAIN f) + 1
    BY <2>1, FS_AddElement, Zenon
  <2> QED
    BY <1>4, <2>2
<1> QED
  BY <1>3, <1>4, <1>5, <1>6 DEF Users!With

LEMMA MapKeeps ==
  ASSUME Assumptions, UserInv, NEW p \in Procs, Users!MapUser(p)
  PROVE  UserInv'
<1>1. /\ call[p] \in Users!CallOps /\ call[p] # Users!NoCall /\ call[p].mem # Users!Nil
      /\ call[p].mem \in Data
      /\ call[p].at \in Nat /\ call[p].end \in 0..MaxPages /\ call[p].from <= call[p].at
      /\ call[p].at < call[p].end /\ MaxPages \in Nat /\ call[p].from \in Nat
  BY InCall DEF Users!MapUser, Users!InLoop, Users!Cur
<1>2. Users!Cur(p) \in Users!PageNumbers /\ Users!Cur(p) = call[p].at
  BY PathIs DEF Users!MapUser, Users!Cur
<1>3. PICK f \in Memories :
        /\ f = Users!With(user[p], Users!Cur(p), call[p].mem)
        /\ Cardinality(DOMAIN f) =
             Cardinality(DOMAIN user[p]) + IF Users!Cur(p) \in DOMAIN user[p] THEN 0 ELSE 1
        /\ Cardinality(DOMAIN user[p]) \in Nat
  <2>1. user[p] \in Memories
    BY SlotIs
  <2>2. PICK g \in Memories, b \in Users!PageNumbers, v \in Data :
          g = user[p] /\ b = Users!Cur(p) /\ v = call[p].mem
    BY <1>1, <1>2, <2>1
  <2>3. /\ Users!With(g, b, v) \in Memories
        /\ Cardinality(DOMAIN Users!With(g, b, v)) =
             Cardinality(DOMAIN g) + IF b \in DOMAIN g THEN 0 ELSE 1
        /\ Cardinality(DOMAIN g) \in Nat
    BY WithIs
  <2> QED
    BY <2>2, <2>3
<1>4. PICK c : /\ c = Moved(call[p], call[p].at + 1)
               /\ c \in Users!CallOps /\ c.mem = Users!Nil /\ c # Users!NoCall
               /\ c.op = call[p].op /\ c.parent = call[p].parent /\ c.at = call[p].at + 1
               /\ c.from = call[p].from /\ c.end = call[p].end
  <2>1. call[p].at + 1 \in 0..MaxPages
    BY <1>1
  <2> QED
    <3>1. PICK d \in Users!CallOps, a \in 0..MaxPages : d = call[p] /\ a = call[p].at + 1
      BY <1>1, <2>1
    <3>2. PICK c : c = Moved(d, a)
      OBVIOUS
    <3>3. /\ c \in Users!CallOps /\ c.mem = Users!Nil /\ c.op = d.op /\ c.parent = d.parent
          /\ c.at = a
          /\ c.from = d.from /\ c.end = d.end /\ c # Users!NoCall
      BY <3>2, MovedIs
    <3> QED
      BY <3>1, <3>2, <3>3
<1>5. c # Users!NoCall
  BY <1>4
<1>6. Becomes(p, state[p], sz[p], kernel[p], tables[p], f, c)
  <2>1. call' = [call EXCEPT ![p] = c]
    <3>1. call' = [[call EXCEPT ![p].at = call[p].at + 1] EXCEPT ![p].mem = Users!Nil]
      BY DEF Users!MapUser
    <3>2. \A e, x, y : LET d == [e EXCEPT ![p].at = x]
                      IN  [d EXCEPT ![p].mem = y]
                           = [e EXCEPT ![p] = [[e[p] EXCEPT !.at = x] EXCEPT !.mem = y]]
      OBVIOUS
    <3> QED
      BY <1>4, <3>1, <3>2 DEF Moved
  <2>2. user' = [user EXCEPT ![p] = f]
    BY <1>3 DEF Users!MapUser
  <2> QED
    BY <2>1, <2>2, Same, Zenon DEF Users!MapUser, Becomes
<1>7. Slot(state[p], kernel[p], tables[p], f, c)
  <2>1. Slot(state[p], kernel[p], tables[p], user[p], call[p])
    BY SlotIs
  <2>2. c.from <= c.at /\ c.at <= c.end
    BY <1>1, <1>4
  <2> QED
    BY <1>1, <1>4, <1>5, <2>1, <2>2 DEF Slot
<1>8. InUseFor(p) = kernel[p] + Cardinality(tables[p]) + Cardinality(DOMAIN user[p]) + 1
  BY <1>1, SlotIs DEF Weight
<1>9. kernel[p] \in Nat /\ Cardinality(tables[p]) \in Nat
  BY SlotIs DEF Users!MAKE_PAGES
<1>10. Weight(kernel[p], tables[p], f, c)
         = kernel[p] + Cardinality(tables[p]) + Cardinality(DOMAIN f)
  BY <1>3, <1>4, <1>9 DEF Weight
<1>11. free' = free /\ free \in Nat /\ lost \in BOOLEAN
       /\ lost' = (lost \/ Users!Cur(p) \in DOMAIN user[p])
  BY SlotIs DEF Users!MapUser
<1>12. Cardinality(DOMAIN f) <= Cardinality(DOMAIN user[p]) + 1
       /\ (~lost' => Cardinality(DOMAIN f) = Cardinality(DOMAIN user[p]) + 1)
       /\ Cardinality(DOMAIN f) \in Nat
  <2>1. PICK n, k : /\ n \in Nat /\ n = Cardinality(DOMAIN user[p]) /\ k = Cardinality(DOMAIN f)
                    /\ k = n + IF Users!Cur(p) \in DOMAIN user[p] THEN 0 ELSE 1
    BY <1>3
  <2>2. ~lost' => Users!Cur(p) \notin DOMAIN user[p]
    BY <1>11
  <2> QED
    BY <2>1, <2>2
<1>13. /\ free' + Weight(kernel[p], tables[p], f, c) <= free + InUseFor(p)
       /\ ~lost' => free' + Weight(kernel[p], tables[p], f, c) = free + InUseFor(p)
  BY <1>3, <1>8, <1>9, <1>10, <1>11, <1>12
<1>14. /\ sz[p] \in 0..(MaxPages * PAGE_BYTES) /\ tables[p] \in SUBSET Users!TablePlaces
       /\ IsFiniteSet(tables[p]) /\ kernel[p] \in 0..Users!MAKE_PAGES /\ state[p] \in States
  BY SlotIs
<1>15. c \in Users!CallOps \cup {Users!NoCall} /\ lost' \in BOOLEAN /\ (lost => lost')
  BY <1>4, <1>11
<1> QED
  BY <1>6, <1>7, <1>11, <1>13, <1>14, <1>15, SlotBecomes

LEMMA WithoutIs ==
  ASSUME Assumptions, NEW f \in Memories, NEW a, NEW b
  PROVE  /\ Users!Without(f, a..b) \in Memories
         /\ DOMAIN Users!Without(f, a..b) = DOMAIN f \ (a..b)
         /\ \A x \in DOMAIN f \ (a..b) : Users!Without(f, a..b)[x] = f[x]
         /\ Cardinality(DOMAIN Users!Without(f, a..b)) + Cardinality(DOMAIN f \cap a..b)
              = Cardinality(DOMAIN f)
         /\ Cardinality(DOMAIN Users!Without(f, a..b)) \in Nat
         /\ Cardinality(DOMAIN f \cap a..b) \in Nat
         /\ Cardinality(DOMAIN f) \in Nat
<1>1. PICK S \in SUBSET Users!PageNumbers : f \in [S -> Data]
  BY DEF Memories
<1>2. Users!Without(f, a..b) \in [S \ (a..b) -> Data] /\ S \ (a..b) \in SUBSET Users!PageNumbers
  BY <1>1 DEF Users!Without
<1>3. Users!Without(f, a..b) \in Memories
  BY <1>2 DEF Memories
<1>4. IsFiniteSet(DOMAIN f) /\ Cardinality(DOMAIN f) \in Nat
  BY FiniteMemory
<1>5. PICK D, I : D = DOMAIN f /\ I = a..b
  OBVIOUS
<1>6. IsFiniteSet(D \ I) /\ Cardinality(D \ I) = Cardinality(D) - Cardinality(D \cap I)
  BY <1>4, <1>5, FS_Difference
<1>7. IsFiniteSet(D \cap I)
  BY <1>4, <1>5, FS_Subset
<1>8. Cardinality(D \ I) \in Nat /\ Cardinality(D \cap I) \in Nat
  BY <1>6, <1>7, FS_CardinalityType
<1>9. DOMAIN Users!Without(f, a..b) = D \ I
  BY <1>5 DEF Users!Without
<1>10. \A x \in DOMAIN f \ (a..b) : Users!Without(f, a..b)[x] = f[x]
  BY DEF Users!Without
<1> QED
  BY <1>3, <1>4, <1>5, <1>6, <1>8, <1>9, <1>10

LEMMA EndKeeps ==
  ASSUME Assumptions, UserInv, NEW p \in Procs, Users!LoopEnds(p)
  PROVE  UserInv'
<1>1. /\ call[p] # Users!NoCall /\ kernel[p] = Users!MAKE_PAGES /\ call[p].mem = Users!Nil
      /\ call[p].end \in 0..MaxPages
      /\ call[p].op = "copy" => call[p].parent \in Procs
  BY InCall DEF Users!LoopEnds, Users!Cur
<1>2. PICK z \in 0..(MaxPages * PAGE_BYTES) : sz' = [sz EXCEPT ![p] = z]
  <2>1. /\ sz[p] \in 0..(MaxPages * PAGE_BYTES)
        /\ call[p].end * PAGE_BYTES \in 0..(MaxPages * PAGE_BYTES)
        /\ call[p].op = "copy" => sz[call[p].parent] \in 0..(MaxPages * PAGE_BYTES)
    <3>1. \A q \in Procs : sz[q] \in 0..(MaxPages * PAGE_BYTES)
      BY SlotIs
    <3>2. call[p].end * PAGE_BYTES \in 0..(MaxPages * PAGE_BYTES)
      BY <1>1, PagesFit
    <3> QED
      BY <1>1, <3>1, <3>2
  <2> QED
    BY <2>1 DEF Users!LoopEnds, Users!At
<1>3. Becomes(p, "live", z, kernel[p], tables[p], user[p], Users!NoCall)
  BY <1>2, Same, Zenon DEF Users!LoopEnds, Becomes, Users!Done
<1>4. Slot("live", kernel[p], tables[p], user[p], Users!NoCall)
  BY <1>1 DEF Slot
<1>5. Weight(kernel[p], tables[p], user[p], Users!NoCall) = InUseFor(p) /\ InUseFor(p) \in Nat
  BY <1>1, SlotIs DEF Weight
<1>6. free' = free /\ lost' = lost /\ free \in Nat /\ lost \in BOOLEAN
  BY SlotIs DEF Users!LoopEnds
<1>7. /\ free' + Weight(kernel[p], tables[p], user[p], Users!NoCall) <= free + InUseFor(p)
      /\ free' + Weight(kernel[p], tables[p], user[p], Users!NoCall) = free + InUseFor(p)
  BY <1>5, <1>6
<1>8. /\ tables[p] \in SUBSET Users!TablePlaces /\ IsFiniteSet(tables[p]) /\ user[p] \in Memories
      /\ kernel[p] \in 0..Users!MAKE_PAGES /\ "live" \in States
      /\ Users!NoCall \in Users!CallOps \cup {Users!NoCall}
  BY SlotIs DEF States
<1> QED
  BY <1>3, <1>4, <1>6, <1>7, <1>8, SlotBecomes

LEMMA FreedKeeps ==
  ASSUME Assumptions, UserInv, NEW p \in Procs, NEW more \in Nat, Users!free_process(p, more),
         Users!FREED_WITH_PROCESS + more <= InUseFor(p), total' = total, lost' = TRUE,
         call' = [call EXCEPT ![p] = Users!NoCall]
  PROVE  UserInv'
<1>1. Becomes(p, "unused", 0, 0, {}, Users!NoPages, Users!NoCall)
  BY DEF Users!free_process, Becomes
<1>2. Users!NoPages \in Memories /\ DOMAIN Users!NoPages = {}
  <2>1. Users!NoPages \in [{} -> Data]
    BY DEF Users!NoPages
  <2> QED
    BY <2>1 DEF Memories, Users!NoPages
<1>3. Slot("unused", 0, {}, Users!NoPages, Users!NoCall)
  BY <1>2 DEF Slot
<1>4. Weight(0, {}, Users!NoPages, Users!NoCall) = 0
  BY <1>2, FS_EmptySet DEF Weight
<1>5. free \in Nat /\ free' = free + Users!FREED_WITH_PROCESS + more /\ InUseFor(p) \in Nat
  BY SlotIs DEF Users!free_process
<1>6. free' \in Nat /\ free' + 0 <= free + InUseFor(p)
  BY <1>5 DEF Users!FREED_WITH_PROCESS
<1>7. /\ IsFiniteSet({}) /\ "unused" \in States /\ {} \in SUBSET Users!TablePlaces
      /\ 0 \in 0..Users!MAKE_PAGES
      /\ Users!NoCall \in Users!CallOps \cup {Users!NoCall}
  BY FS_EmptySet DEF States, Users!MAKE_PAGES
<1>8. 0 \in 0..(MaxPages * PAGE_BYTES)
  <2>1. 0 \in 0..MaxPages
    BY DEF Assumptions, Users!SizeAssumption
  <2>2. 0 * PAGE_BYTES \in 0..(MaxPages * PAGE_BYTES)
    BY <2>1, PagesFit
  <2> QED
    BY <2>2 DEF Assumptions, Users!SizeAssumption
<1> QED
  BY <1>1, <1>2, <1>3, <1>4, <1>6, <1>7, <1>8, SlotBecomes

LEMMA CodeKeeps ==
  ASSUME Assumptions, UserInv, NEW p \in Procs, Users!CodeFails(p)
  PROVE  UserInv'
<1>1. call[p] # Users!NoCall /\ kernel[p] = Users!MAKE_PAGES
  BY InCall DEF Users!CodeFails, Users!OutOfPages, Users!InLoop
<1>2. PICK n, m, k \in Nat, d \in Nat, e \in {0, 1} :
        /\ n = Users!MappedIn(p, 0, Users!Cur(p)) /\ n \in Nat /\ n <= d
        /\ e = Users!Mem(p) /\ d = Cardinality(DOMAIN user[p]) /\ k = Cardinality(tables[p])
        /\ m = Users!Mem(p) + Users!MappedIn(p, 0, Users!Cur(p))
  <2>1. PICK i : i = Users!Cur(p) - 1
    OBVIOUS
  <2>2. user[p] \in Memories
    BY SlotIs
  <2>3. /\ Cardinality(DOMAIN Users!Without(user[p], 0..i))
          + Cardinality(DOMAIN user[p] \cap 0..i)
             = Cardinality(DOMAIN user[p])
        /\ Cardinality(DOMAIN Users!Without(user[p], 0..i)) \in Nat
        /\ Cardinality(DOMAIN user[p] \cap 0..i) \in Nat
        /\ Cardinality(DOMAIN user[p]) \in Nat
    BY <2>2, WithoutIs
  <2>4. Users!MappedIn(p, 0, Users!Cur(p)) = Cardinality(DOMAIN user[p] \cap 0..i)
    BY <2>1, SameSize DEF Users!MappedIn
  <2>5. Users!Mem(p) \in {0, 1}
    BY DEF Users!Mem
  <2> QED
    BY <2>3, <2>4, <2>5, SlotIs
<1>3. InUseFor(p) = 7 + k + d + e
  BY <1>1, <1>2, SlotIs DEF Weight, Users!MAKE_PAGES, Users!Mem
<1>4. m \in Nat /\ Users!FREED_WITH_PROCESS + m <= InUseFor(p)
  BY <1>2, <1>3 DEF Users!FREED_WITH_PROCESS
<1>5. /\ Users!free_process(p, m) /\ total' = total /\ lost' = TRUE
      /\ call' = [call EXCEPT ![p] = Users!NoCall]
  BY <1>2 DEF Users!CodeFails, Users!Done
<1> QED
  BY <1>4, <1>5, FreedKeeps

LEMMA ForkKeeps ==
  ASSUME Assumptions, UserInv, NEW p \in Procs, Users!ForkFails(p)
  PROVE  UserInv'
<1>1. call[p] # Users!NoCall /\ kernel[p] = Users!MAKE_PAGES
  BY InCall DEF Users!ForkFails, Users!OutOfPages, Users!InLoop
<1>2. PICK m \in {0, 1} : m = Users!Mem(p)
  BY DEF Users!Mem
<1>3. InUseFor(p) = 7 + Cardinality(tables[p]) + Cardinality(DOMAIN user[p]) + m
  BY <1>1, <1>2, SlotIs DEF Weight, Users!MAKE_PAGES, Users!Mem
<1>4. m \in Nat /\ Users!FREED_WITH_PROCESS + m <= InUseFor(p)
  BY <1>2, <1>3, SlotIs DEF Users!FREED_WITH_PROCESS
<1>5. /\ Users!free_process(p, m) /\ total' = total /\ lost' = TRUE
      /\ call' = [call EXCEPT ![p] = Users!NoCall]
  BY <1>2 DEF Users!ForkFails, Users!Done
<1> QED
  BY <1>4, <1>5, FreedKeeps

LEMMA ReapKeeps ==
  ASSUME Assumptions, UserInv, NEW p \in Procs, Users!Reaped(p)
  PROVE  UserInv'
<1>1. call[p] = Users!NoCall /\ kernel[p] = Users!MAKE_PAGES
  BY SlotIs DEF Users!Reaped, Users!Runs, Slot
<1>2. InUseFor(p) = 7 + Cardinality(tables[p]) + Cardinality(DOMAIN user[p])
  BY <1>1, SlotIs DEF Weight, Users!MAKE_PAGES
<1>3. Users!FREED_WITH_PROCESS + 0 <= InUseFor(p)
  BY <1>2, SlotIs DEF Users!FREED_WITH_PROCESS
<1>4. call' = [call EXCEPT ![p] = Users!NoCall]
  BY <1>1, Same, Zenon DEF Users!Reaped
<1>5. Users!free_process(p, 0) /\ total' = total /\ lost' = TRUE /\ 0 \in Nat
  BY DEF Users!Reaped
<1> QED
  BY <1>3, <1>4, <1>5, FreedKeeps

LEMMA GrowFailsKeeps ==
  ASSUME Assumptions, UserInv, NEW p \in Procs, Users!GrowFails(p)
  PROVE  UserInv'
<1>1. /\ call[p] # Users!NoCall /\ kernel[p] = Users!MAKE_PAGES /\ state[p] = "live"
      /\ call[p].from \in 0..MaxPages
  BY InCall DEF Users!GrowFails, Users!OutOfPages, Users!InLoop
<1>2. PICK z \in 0..(MaxPages * PAGE_BYTES) : sz' = [sz EXCEPT ![p] = z]
  <2>1. sz[p] \in 0..(MaxPages * PAGE_BYTES) /\ [sz EXCEPT ![p] = sz[p]] = sz
    BY SlotIs, Same
  <2>2. call[p].from * PAGE_BYTES \in 0..(MaxPages * PAGE_BYTES)
    BY <1>1, PagesFit
  <2> QED
    BY <2>1, <2>2 DEF Users!GrowFails
<1>3. PICK f \in Memories :
        /\ user' = [user EXCEPT ![p] = f]
        /\ free' \in Nat
        /\ free' + Weight(kernel[p], tables[p], f, Users!NoCall) = free + InUseFor(p)
  <2>1. /\ user[p] \in Memories /\ free \in Nat /\ kernel[p] \in Nat
        /\ Cardinality(tables[p]) \in Nat
        /\ InUseFor(p) = kernel[p] + Cardinality(tables[p]) + Cardinality(DOMAIN user[p])
                       + (IF call[p].mem # Users!Nil THEN 1 ELSE 0)
    BY <1>1, SlotIs DEF Weight, Users!MAKE_PAGES
  <2>2. CASE call[p].mem = Users!Nil
    <3>1. free' = free /\ user' = [user EXCEPT ![p] = user[p]]
      BY <2>2, Same, Zenon DEF Users!GrowFails
    <3>2. Weight(kernel[p], tables[p], user[p], Users!NoCall) = InUseFor(p)
      BY <1>1, <2>2, SlotIs DEF Weight
    <3> QED
      BY <2>1, <3>1, <3>2
  <2>3. CASE call[p].mem # Users!Nil
    <3>1. PICK a, b : a = call[p].from /\ b = Users!Cur(p) - 1
      OBVIOUS
    <3>2. PICK f : f = Users!Without(user[p], a..b)
      OBVIOUS
    <3>3. /\ f \in Memories
          /\ Cardinality(DOMAIN f) + Cardinality(DOMAIN user[p] \cap a..b)
               = Cardinality(DOMAIN user[p])
          /\ Cardinality(DOMAIN f) \in Nat
          /\ Cardinality(DOMAIN user[p] \cap a..b) \in Nat
          /\ Cardinality(DOMAIN user[p]) \in Nat
      BY <2>1, <3>2, WithoutIs
    <3>4. user' = [user EXCEPT ![p] = f]
      BY <2>3, <3>1, <3>2 DEF Users!GrowFails
    <3>5. free' = free + 1 + Cardinality(DOMAIN user[p] \cap a..b)
      BY <2>3, <3>1, SameSize DEF Users!GrowFails, Users!MappedIn
    <3>6. Weight(kernel[p], tables[p], f, Users!NoCall)
            = kernel[p] + Cardinality(tables[p]) + Cardinality(DOMAIN f)
      BY <2>1, <3>3 DEF Weight
    <3>7. /\ free' \in Nat
          /\ free' + Weight(kernel[p], tables[p], f, Users!NoCall) = free + InUseFor(p)
      BY <2>1, <2>3, <3>3, <3>5, <3>6
    <3> QED
      BY <3>3, <3>4, <3>7
  <2> QED
    BY <2>2, <2>3
<1>4. Becomes(p, "live", z, kernel[p], tables[p], f, Users!NoCall)
  <2>1. [state EXCEPT ![p] = "live"] = state
    BY <1>1, Same
  <2> QED
    BY <1>2, <1>3, <2>1, Same, Zenon DEF Users!GrowFails, Becomes, Users!Done
<1>5. Slot("live", kernel[p], tables[p], f, Users!NoCall)
  BY <1>1 DEF Slot
<1>6. lost' = lost /\ lost \in BOOLEAN /\ free \in Nat /\ InUseFor(p) \in Nat
  BY SlotIs DEF Users!GrowFails
<1>7. free' + Weight(kernel[p], tables[p], f, Users!NoCall) <= free + InUseFor(p)
  BY <1>3, <1>6
<1>8. /\ tables[p] \in SUBSET Users!TablePlaces /\ IsFiniteSet(tables[p])
      /\ kernel[p] \in 0..Users!MAKE_PAGES /\ "live" \in States
      /\ Users!NoCall \in Users!CallOps \cup {Users!NoCall}
  BY SlotIs DEF States
<1> QED
  BY <1>3, <1>4, <1>5, <1>6, <1>7, <1>8, SlotBecomes

\* A process that calls, and nobody copies its memory meanwhile.
LEMMA RunsIs ==
  ASSUME Assumptions, UserInv, NEW p \in Procs, Users!Runs(p)
  PROVE  /\ state[p] = "live" /\ call[p] = Users!NoCall /\ kernel[p] = Users!MAKE_PAGES
         /\ sz[p] \in Nat /\ Users!PGROUNDUP(sz[p]) \in 0..MaxPages
         /\ \A T, f : Slot("live", Users!MAKE_PAGES, T, f, Users!NoCall)
         /\ [state EXCEPT ![p] = "live"] = state /\ [call EXCEPT ![p] = Users!NoCall] = call
         /\ [kernel EXCEPT ![p] = Users!MAKE_PAGES] = kernel
         /\ Users!MAKE_PAGES \in 0..Users!MAKE_PAGES /\ "live" \in States
         /\ Users!NoCall \in Users!CallOps \cup {Users!NoCall}
<1>1. state[p] = "live" /\ call[p] = Users!NoCall /\ kernel[p] = Users!MAKE_PAGES
  BY SlotIs DEF Users!Runs, Slot
<1>2. sz[p] \in 0..(MaxPages * PAGE_BYTES)
  BY SlotIs
<1>3. \A T, f : Slot("live", Users!MAKE_PAGES, T, f, Users!NoCall)
  BY DEF Slot
<1>4. [state EXCEPT ![p] = "live"] = state /\ [call EXCEPT ![p] = Users!NoCall] = call
      /\ [kernel EXCEPT ![p] = Users!MAKE_PAGES] = kernel
  BY <1>1, Same
<1> QED
  BY <1>1, <1>2, <1>3, <1>4, UpFits DEF Users!MAKE_PAGES, States

LEMMA GrowKeeps ==
  ASSUME Assumptions, UserInv, NEW p \in Procs, NEW n \in Nat, NEW o \in {"grow", "resize"},
         Users!proc_grow(p, n, o)
  PROVE  UserInv'
<1>1. Users!Runs(p)
  BY DEF Users!proc_grow
<1>2. PICK a \in 0..MaxPages, e \in 0..MaxPages :
        a = Users!PGROUNDUP(sz[p]) /\ e = Users!PGROUNDUP(sz[p] + n) /\ a <= e
  <2>1. sz[p] \in Nat /\ Users!PGROUNDUP(sz[p]) \in 0..MaxPages /\ sz[p] + n \in Nat
    BY <1>1, RunsIs
  <2>2. Users!PGROUNDUP(sz[p] + n) \in Nat /\ Users!PGROUNDUP(sz[p]) <= Users!PGROUNDUP(sz[p] + n)
    BY <2>1, UpIs, UpGrows
  <2>3. Users!PGROUNDUP(sz[p] + n) <= MaxPages /\ MaxPages \in Nat
    BY DEF Users!proc_grow, Assumptions, Users!SizeAssumption
  <2> QED
    BY <2>1, <2>2, <2>3
<1>3. PICK c : c = [op |-> o, parent |-> Users!Nil, at |-> a, from |-> a, end |-> e,
                     mem |-> Users!Nil]
  OBVIOUS
<1>4. c \in Users!CallOps /\ c # Users!NoCall
  BY <1>2, <1>3 DEF Users!CallOps, Users!NoCall
<1>5. Becomes(p, state[p], sz[p], kernel[p], tables[p], user[p], c)
  <2>1. call' = [call EXCEPT ![p] = c]
    BY <1>2, <1>3 DEF Users!proc_grow
  <2> QED
    BY <2>1, Same, Zenon DEF Users!proc_grow, Becomes
<1>6. Slot(state[p], kernel[p], tables[p], user[p], c)
  <2>1. state[p] = "live" /\ kernel[p] = Users!MAKE_PAGES
    BY <1>1, RunsIs
  <2>2. a <= a
    BY <1>2
  <2> QED
    BY <1>2, <1>3, <2>1, <2>2 DEF Slot
<1>7. Weight(kernel[p], tables[p], user[p], c) = InUseFor(p)
  BY <1>1, <1>3, RunsIs, SlotIs DEF Weight
<1>8. free' = free /\ lost' = lost /\ free \in Nat /\ lost \in BOOLEAN /\ InUseFor(p) \in Nat
  BY SlotIs DEF Users!proc_grow
<1>9. /\ free' + Weight(kernel[p], tables[p], user[p], c) <= free + InUseFor(p)
      /\ free' + Weight(kernel[p], tables[p], user[p], c) = free + InUseFor(p)
  BY <1>7, <1>8
<1>10. /\ tables[p] \in SUBSET Users!TablePlaces /\ IsFiniteSet(tables[p]) /\ user[p] \in Memories
       /\ kernel[p] \in 0..Users!MAKE_PAGES /\ state[p] \in States
       /\ sz[p] \in 0..(MaxPages * PAGE_BYTES)
  BY SlotIs
<1>11. c \in Users!CallOps \cup {Users!NoCall}
  BY <1>4
<1> QED
  BY <1>5, <1>6, <1>8, <1>9, <1>10, <1>11, SlotBecomes

\* A call that is one step: the memory and the size of the process change, nothing else.
LEMMA OwnKeeps ==
  ASSUME Assumptions, UserInv, NEW p \in Procs, Users!Runs(p),
         NEW f \in Memories, user' = [user EXCEPT ![p] = f],
         NEW z \in 0..(MaxPages * PAGE_BYTES), sz' = [sz EXCEPT ![p] = z],
         UNCHANGED <<total, state, kernel, tables, call, lost>>,
         free' \in Nat, free' + Cardinality(DOMAIN f) = free + Cardinality(DOMAIN user[p])
  PROVE  UserInv'
<1>1. Becomes(p, "live", z, Users!MAKE_PAGES, tables[p], f, Users!NoCall)
  BY RunsIs, Same, Zenon DEF Becomes
<1>2. /\ InUseFor(p) = Users!MAKE_PAGES + Cardinality(tables[p]) + Cardinality(DOMAIN user[p])
      /\ Weight(Users!MAKE_PAGES, tables[p], f, Users!NoCall)
           = Users!MAKE_PAGES + Cardinality(tables[p]) + Cardinality(DOMAIN f)
  <2>1. /\ Users!MAKE_PAGES \in Nat /\ Cardinality(tables[p]) \in Nat
        /\ Cardinality(DOMAIN f) \in Nat
        /\ Cardinality(DOMAIN user[p]) \in Nat
    BY SlotIs, FiniteMemory DEF Users!MAKE_PAGES
  <2> QED
    BY <2>1, RunsIs, SlotIs DEF Weight
<1>3. /\ Users!MAKE_PAGES \in Nat /\ Cardinality(tables[p]) \in Nat
      /\ Cardinality(DOMAIN f) \in Nat
      /\ Cardinality(DOMAIN user[p]) \in Nat /\ free \in Nat /\ lost' = lost /\ lost \in BOOLEAN
  BY SlotIs, FiniteMemory DEF Users!MAKE_PAGES
<1>4. /\ free' + Weight(Users!MAKE_PAGES, tables[p], f, Users!NoCall) <= free + InUseFor(p)
      /\ free' + Weight(Users!MAKE_PAGES, tables[p], f, Users!NoCall) = free + InUseFor(p)
  BY <1>2, <1>3
<1>5. tables[p] \in SUBSET Users!TablePlaces /\ IsFiniteSet(tables[p])
  BY SlotIs
<1> QED
  BY <1>1, <1>3, <1>4, <1>5, RunsIs, SlotBecomes

\* uvmdealloc() as both calls use it.
LEMMA NewSizeFits ==
  ASSUME Assumptions, UserInv, NEW p \in Procs, NEW n \in Nat
  PROVE  /\ Users!NewSize(p, n) \in 0..MaxPages /\ Users!NewSize(p, n) <= Users!PGROUNDUP(sz[p])
         /\ sz[p] \in Nat
<1>1. sz[p] \in 0..(MaxPages * PAGE_BYTES)
  BY SlotIs
<1>2. sz[p] \in Nat /\ Users!PGROUNDUP(sz[p]) \in 0..MaxPages
  BY <1>1, UpFits
<1>3. IF n >= sz[p] THEN TRUE
      ELSE /\ Users!PGROUNDDOWN(sz[p] - n) \in Nat
           /\ Users!PGROUNDDOWN(sz[p] - n) <= Users!PGROUNDUP(sz[p])
  BY <1>2, NewSizeIs
<1>4. MaxPages \in Nat
  BY DEF Assumptions, Users!SizeAssumption
<1> QED
  BY <1>2, <1>3, <1>4 DEF Users!NewSize

LEMMA ShrunkIs ==
  ASSUME Assumptions, UserInv, NEW p \in Procs, NEW n \in Nat, NEW m, NEW g,
         m = free + Users!MappedIn(p, Users!NewSize(p, n), Users!PGROUNDUP(sz[p])),
         g = Users!Without(user[p], Users!NewSize(p, n)..(Users!PGROUNDUP(sz[p]) - 1))
  PROVE  /\ m \in Nat /\ g \in Memories
         /\ m + Cardinality(DOMAIN g) = free + Cardinality(DOMAIN user[p])
<1>1. PICK a, b : a = Users!NewSize(p, n) /\ b = Users!PGROUNDUP(sz[p]) - 1
  OBVIOUS
<1>2. user[p] \in Memories /\ free \in Nat
  BY SlotIs
<1>3. g = Users!Without(user[p], a..b) /\ m = free + Cardinality(DOMAIN user[p] \cap a..b)
  BY <1>1, SameSize DEF Users!MappedIn
<1>4. /\ g \in Memories
      /\ Cardinality(DOMAIN g) + Cardinality(DOMAIN user[p] \cap a..b)
           = Cardinality(DOMAIN user[p])
      /\ Cardinality(DOMAIN g) \in Nat
      /\ Cardinality(DOMAIN user[p] \cap a..b) \in Nat
      /\ Cardinality(DOMAIN user[p]) \in Nat
  <2>1. PICK h \in Memories : h = user[p]
    BY <1>2
  <2>2. PICK w : w = Users!Without(h, a..b)
    OBVIOUS
  <2>3. /\ w \in Memories
        /\ Cardinality(DOMAIN w) + Cardinality(DOMAIN h \cap a..b) = Cardinality(DOMAIN h)
        /\ Cardinality(DOMAIN w) \in Nat
        /\ Cardinality(DOMAIN h \cap a..b) \in Nat
        /\ Cardinality(DOMAIN h) \in Nat
    BY <2>2, WithoutIs
  <2> QED
    BY <1>3, <2>1, <2>2, <2>3
<1> QED
  BY <1>2, <1>3, <1>4

LEMMA ShrinkKeeps ==
  ASSUME Assumptions, UserInv, NEW p \in Procs, NEW n \in Nat,
         Users!proc_shrink(p, n) \/ Users!ShrinkAndRestore(p, n)
  PROVE  UserInv'
<1>1. PICK m, g : /\ m = free + Users!MappedIn(p, Users!NewSize(p, n), Users!PGROUNDUP(sz[p]))
                  /\ g = Users!Without(user[p], Users!NewSize(p, n)..(Users!PGROUNDUP(sz[p]) - 1))
  OBVIOUS
<1>2. /\ free' = m /\ user' = [user EXCEPT ![p] = g] /\ Users!Runs(p)
      /\ UNCHANGED <<total, state, kernel, tables, call, lost>>
  BY <1>1 DEF Users!proc_shrink, Users!ShrinkAndRestore
<1>3. PICK z \in 0..(MaxPages * PAGE_BYTES) : sz' = [sz EXCEPT ![p] = z]
  <2>1. Users!NewSize(p, n) * PAGE_BYTES \in 0..(MaxPages * PAGE_BYTES)
    BY NewSizeFits, PagesFit
  <2>2. sz[p] \in 0..(MaxPages * PAGE_BYTES) /\ [sz EXCEPT ![p] = sz[p]] = sz
    BY SlotIs, Same
  <2> QED
    BY <2>1, <2>2 DEF Users!proc_shrink, Users!ShrinkAndRestore
<1>4. /\ m \in Nat /\ g \in Memories
      /\ m + Cardinality(DOMAIN g) = free + Cardinality(DOMAIN user[p])
  BY <1>1, ShrunkIs
<1> QED
  BY <1>2, <1>3, <1>4, OwnKeeps

LEMMA WriteKeeps ==
  ASSUME Assumptions, UserInv, NEW p \in Procs, Users!Runs(p),
         NEW f \in [DOMAIN user[p] -> Data], user' = [user EXCEPT ![p] = f],
         UNCHANGED <<total, free, state, sz, kernel, tables, call, lost>>
  PROVE  UserInv'
<1>1. user[p] \in Memories /\ sz[p] \in 0..(MaxPages * PAGE_BYTES) /\ free \in Nat
  BY SlotIs
<1>2. DOMAIN user[p] \in SUBSET Users!PageNumbers /\ DOMAIN f = DOMAIN user[p]
  BY <1>1, FiniteMemory
<1>3. f \in Memories
  BY <1>2 DEF Memories
<1>4. sz' = [sz EXCEPT ![p] = sz[p]]
  BY Same
<1>5. free' \in Nat /\ free' + Cardinality(DOMAIN f) = free + Cardinality(DOMAIN user[p])
  BY <1>1, <1>2
<1> QED
  BY <1>1, <1>3, <1>4, <1>5, OwnKeeps

LEMMA UserWriteKeeps ==
  ASSUME Assumptions, UserInv, NEW p \in Procs, Users!UserWrite(p)
  PROVE  UserInv'
<1>1. PICK b \in DOMAIN user[p], v \in Data : user' = [user EXCEPT ![p][b] = v]
  BY DEF Users!UserWrite
<1>2. PICK S \in SUBSET Users!PageNumbers : user[p] \in [S -> Data]
  BY SlotIs DEF Memories
<1>3. PICK f : f = [user[p] EXCEPT ![b] = v]
  OBVIOUS
<1>4. f \in [DOMAIN user[p] -> Data] /\ user' = [user EXCEPT ![p] = f]
  BY <1>1, <1>2, <1>3
<1> QED
  BY <1>4, WriteKeeps DEF Users!UserWrite

LEMMA CopyoutKeeps ==
  ASSUME Assumptions, UserInv, NEW p \in Procs, NEW first, NEW n, NEW v \in Data,
         Users!copyout(p, first, n, v)
  PROVE  UserInv'
<1>1. PICK W : W = Users!CopiedPages(p, first, n)
  OBVIOUS
<1>2. PICK S \in SUBSET Users!PageNumbers : user[p] \in [S -> Data]
  BY SlotIs DEF Memories
<1>3. PICK f : f = [b \in DOMAIN user[p] |-> IF b \in W THEN v ELSE user[p][b]]
  OBVIOUS
<1>4. f \in [DOMAIN user[p] -> Data]
  BY <1>2, <1>3
<1>5. user' = [user EXCEPT ![p] = f]
  BY <1>1, <1>3 DEF Users!copyout
<1> QED
  BY <1>4, <1>5, WriteKeeps DEF Users!copyout

LEMMA CopyinKeeps ==
  ASSUME Assumptions, UserInv, NEW p \in Procs, NEW first, NEW n, Users!copyin(p, first, n)
  PROVE  UserInv'
<1>1. user[p] \in [DOMAIN user[p] -> Data]
  <2>1. user[p] \in Memories
    BY SlotIs
  <2> QED
    BY <2>1 DEF Memories
<1>2. user' = [user EXCEPT ![p] = user[p]]
  BY Same DEF Users!copyin
<1> QED
  BY <1>1, <1>2, WriteKeeps DEF Users!copyin

-----------------------------------------------------------------------------
LEMMA StutterKeeps == ASSUME UserInv, UNCHANGED Users!vars PROVE UserInv'
BY DEF Users!vars, UserInv, UserType, Unused, Full, Calls, SumsInv, AllNames, Users!InUse,
   Users!Held, Users!Loops

LEMMA LoopKeeps ==
  ASSUME Assumptions, UserInv, NEW p \in Procs, Users!LoopStep(p)
  PROVE  UserInv'
BY TakeKeeps, TableKeeps, MapKeeps, EndKeeps, CodeKeeps, ForkKeeps, GrowFailsKeeps
DEF Users!LoopStep

LEMMA BeginKeeps ==
  ASSUME Assumptions, UserInv, NEW p \in Procs, NEW ops, Users!Begin(p, ops)
  PROVE  UserInv'
<1>1. CASE \E size \in CodeSizes : Users!make_proc(p, "code", Users!Nil, Users!PGROUNDUP(size))
  <2>1. PICK size \in CodeSizes : Users!make_proc(p, "code", Users!Nil, Users!PGROUNDUP(size))
    BY <1>1
  <2>2. Users!PGROUNDUP(size) \in 0..MaxPages
    BY UpFits DEF Assumptions, Users!SizeAssumption
  <2> QED
    BY <2>1, <2>2, MakeKeeps
<1>2. CASE \E q \in Procs : Users!Runs(q) /\ Users!make_proc(p, "copy", q, Users!PGROUNDUP(sz[q]))
  <2>1. PICK q \in Procs : Users!Runs(q) /\ Users!make_proc(p, "copy", q, Users!PGROUNDUP(sz[q]))
    BY <1>2
  <2>2. Users!PGROUNDUP(sz[q]) \in 0..MaxPages
    BY <2>1, RunsIs
  <2> QED
    BY <2>1, <2>2, MakeKeeps
<1> QED
  BY <1>1, <1>2, TaskKeeps, FailKeeps DEF Users!Begin

LEMMA AskKeeps ==
  ASSUME Assumptions, UserInv, NEW p \in Procs, NEW ops, Users!Ask(p, ops)
  PROVE  UserInv'
<1>1. \A n \in Deltas : n \in Nat
  BY DEF Assumptions, Users!SizeAssumption
<1>2. CASE \E n \in Deltas : Users!proc_grow(p, n, "grow") \/ Users!proc_shrink(p, n)
  BY <1>1, <1>2, GrowKeeps, ShrinkKeeps
<1>3. CASE \E n \in Deltas : Users!proc_resize(p, n) \/ Users!proc_resize(p, -n)
  <2>1. PICK n \in Nat : Users!proc_resize(p, n) \/ Users!proc_resize(p, -n)
    BY <1>1, <1>3
  <2>2. PICK m \in Int : m = -n /\ -m = n
    BY <2>1
  <2>3. Users!proc_grow(p, n, "resize") \/ Users!ShrinkAndRestore(p, n)
    BY <2>1, <2>2 DEF Users!proc_resize
  <2> QED
    BY <2>3, GrowKeeps, ShrinkKeeps
<1>4. CASE \E first \in 0..Users!TRAPFRAME, n \in 1..2 :
             Users!copyin(p, first, n) \/ \E v \in Data : Users!copyout(p, first, n, v)
  BY <1>4, CopyinKeeps, CopyoutKeeps
<1> QED
  BY <1>2, <1>3, <1>4, UserWriteKeeps, ReapKeeps DEF Users!Ask

LEMMA StepKeeps ==
  ASSUME Assumptions, UserInv, NEW ops, [Users!NextOf(ops)]_(Users!vars)
  PROVE  UserInv'
BY StutterKeeps, LoopKeeps, BeginKeeps, AskKeeps DEF Users!NextOf

LEMMA InitKeeps == ASSUME Assumptions, Users!Init PROVE UserInv
<1>1. Users!NoPages \in Memories /\ DOMAIN Users!NoPages = {}
  <2>1. Users!NoPages \in [{} -> Data]
    BY DEF Users!NoPages
  <2> QED
    BY <2>1 DEF Memories, Users!NoPages
<1>2. 0 \in 0..(MaxPages * PAGE_BYTES)
  <2>1. 0 \in 0..MaxPages
    BY DEF Assumptions, Users!SizeAssumption
  <2>2. 0 * PAGE_BYTES \in 0..(MaxPages * PAGE_BYTES)
    BY <2>1, PagesFit
  <2> QED
    BY <2>2 DEF Assumptions, Users!SizeAssumption
<1>3. UserType /\ total \in (FamilyPools \cup ResizePools)
  <2>1. /\ total \in (FamilyPools \cup ResizePools) /\ total \in Nat /\ free \in Nat
        /\ lost \in BOOLEAN
    BY DEF Users!Init, Assumptions, Users!PoolsAssumption
  <2>2. sz \in [Procs -> 0..(MaxPages * PAGE_BYTES)] /\ user \in [Procs -> Memories]
    BY <1>1, <1>2 DEF Users!Init
  <2>3. /\ state \in [Procs -> {"unused", "used", "live", "task"}]
        /\ kernel \in [Procs -> 0..Users!MAKE_PAGES]
        /\ tables \in [Procs -> SUBSET Users!TablePlaces]
        /\ call \in [Procs -> Users!CallOps \cup {Users!NoCall}]
    BY DEF Users!Init, Users!MAKE_PAGES
  <2> QED
    BY <2>1, <2>2, <2>3 DEF UserType
<1>4. \A p \in Procs : Unused(p) /\ Full(p) /\ Calls(p)
  BY <1>1 DEF Users!Init, Unused, Full, Calls
<1>5. \A p \in Procs : Users!Held(p) = {}
  BY <1>1 DEF Users!Init, Users!Held, Users!Loops, Users!NoCall
<1>6. AllNames = {}
  BY <1>5 DEF AllNames
<1>7. IsFiniteSet(AllNames) /\ Users!InUse = 0 /\ IsFiniteSet({})
  BY <1>6, FS_EmptySet, SameSize DEF Users!InUse, AllNames
<1>8. \A p \in Procs : tables[p] = {}
  BY DEF Users!Init
<1>9. free \in Nat /\ free = total
  BY DEF Users!Init, Assumptions, Users!PoolsAssumption
<1> QED
  BY <1>3, <1>4, <1>7, <1>8, <1>9 DEF UserInv, SumsInv

LEMMA UserInvImplies == ASSUME Assumptions, UserInv PROVE Users!TypeOK /\ Users!PagesAddUp
<1>1. Users!PagesAddUp
  BY DEF UserInv, SumsInv, Users!PagesAddUp
<1>2. UserType /\ total \in (FamilyPools \cup ResizePools)
  BY DEF UserInv
<1>3. MaxPages * PAGE_BYTES \in Nat
  BY DEF Assumptions, Users!SizeAssumption
<1>4. sz \in [Procs -> Nat]
  BY <1>2, <1>3 DEF UserType
<1>5. \A p \in Procs : /\ tables[p] \subseteq Users!TablePlaces
                       /\ user[p] \in [DOMAIN user[p] -> Data]
                       /\ DOMAIN user[p] \subseteq Users!PageNumbers
                       /\ call[p] \in Users!CallOps \cup {Users!NoCall}
  <2> SUFFICES ASSUME NEW p \in Procs
               PROVE  /\ tables[p] \subseteq Users!TablePlaces
                      /\ user[p] \in [DOMAIN user[p] -> Data]
                      /\ DOMAIN user[p] \subseteq Users!PageNumbers
                      /\ call[p] \in Users!CallOps \cup {Users!NoCall}
    OBVIOUS
  <2>1. PICK S \in SUBSET Users!PageNumbers : user[p] \in [S -> Data]
    BY <1>2 DEF UserType, Memories
  <2> QED
    BY <1>2, <2>1 DEF UserType
<1> QED
  BY <1>1, <1>2, <1>4, <1>5 DEF Users!TypeOK, UserType

\* No page is given back while it is in use or given back twice, and none is lost but by
\* what is known to: whatever calls fail half-way.
THEOREM SumsCorrect == ASSUME Assumptions PROVE Users!Spec => [](Users!TypeOK /\ Users!PagesAddUp)
<1>1. Users!Init => UserInv
  BY InitKeeps
<1>2. UserInv /\ [Users!Next]_(Users!vars) => UserInv'
  BY StepKeeps DEF Users!Next
<1>3. UserInv => Users!TypeOK /\ Users!PagesAddUp
  BY UserInvImplies
<1> QED
  BY <1>1, <1>2, <1>3, PTL DEF Users!Spec
-----------------------------------------------------------------------------
(***************************************************************************)
(* The images: what the loops have done so far, seen from what they will   *)
(* have done at their end.  proc_resize() does not keep it.                *)
(***************************************************************************)
FreshFor(o) == IF o = "code" THEN Program ELSE {ClearPage}

Work(p, z, f, c) ==
  c # Users!NoCall =>
    /\ c.op # "resize"
    /\ c.from = IF c.op = "grow" THEN Users!PGROUNDUP(z) ELSE 0
    /\ c.op = "copy" =>
         /\ c.parent # p /\ state[c.parent] = "live" /\ call[c.parent] = Users!NoCall
         /\ c.end = Users!PGROUNDUP(sz[c.parent])
         /\ \A b \in 0..(c.at - 1) : b \in DOMAIN f /\ f[b] = user[c.parent][b]
         /\ c.mem # Users!Nil => c.mem = user[c.parent][c.at]
    /\ c.op # "copy" =>
         /\ \A b \in c.from..(c.at - 1) : b \in DOMAIN f /\ f[b] \in FreshFor(c.op)
         /\ c.mem # Users!Nil => c.mem \in FreshFor(c.op)

Whole(s, z, f) == s = "live" => 0..(Users!PGROUNDUP(z) - 1) \subseteq DOMAIN f

ImageInv ==
  \A p \in Procs : Whole(state[p], sz[p], user[p]) /\ Work(p, sz[p], user[p], call[p])

\* What is seen of a slot, and what becomes of it.
Shown(s, z, f) ==
  IF s = "live" THEN [b \in 0..(Users!PGROUNDUP(z) - 1) |-> f[b]] ELSE Users!NoImage

Shows(p, s, z, f, c) ==
  /\ state' = [state EXCEPT ![p] = s] /\ sz' = [sz EXCEPT ![p] = z]
  /\ user' = [user EXCEPT ![p] = f] /\ call' = [call EXCEPT ![p] = c]

NotCopied(p) ==
  \A q \in Procs : call[q] # Users!NoCall /\ call[q].op = "copy" => call[q].parent # p

LEMMA ShowsKeep ==
  ASSUME Assumptions, UserInv, ImageInv, NEW p \in Procs, NEW s, NEW z, NEW f, NEW c,
         Shows(p, s, z, f, c), NotCopied(p), Whole(s, z, f), Work(p, z, f, c),
         c # Users!NoCall /\ c.op = "copy" => c.parent \in Procs
  PROVE  ImageInv'
<1>1. UserType
  BY DEF UserInv
<1>2. /\ state'[p] = s /\ sz'[p] = z /\ user'[p] = f /\ call'[p] = c
      /\ \A q \in Procs \ {p} : /\ state'[q] = state[q] /\ sz'[q] = sz[q]
                                /\ user'[q] = user[q] /\ call'[q] = call[q]
  BY <1>1 DEF UserType, Shows
<1>3. Whole(state'[p], sz'[p], user'[p])
  BY <1>2
<1>4. Work(p, sz[p], user[p], call[p])'
  <2>1. CASE c # Users!NoCall /\ c.op = "copy"
    <3>1. c.parent \in Procs \ {p}
      BY <2>1 DEF Work
    <3>2. /\ state'[c.parent] = state[c.parent] /\ sz'[c.parent] = sz[c.parent]
          /\ user'[c.parent] = user[c.parent] /\ call'[c.parent] = call[c.parent]
      BY <1>2, <3>1
    <3> QED
      BY <1>2, <2>1, <3>2 DEF Work
  <2>2. CASE ~(c # Users!NoCall /\ c.op = "copy")
    BY <1>2, <2>2 DEF Work
  <2> QED
    BY <2>1, <2>2
<1>5. ASSUME NEW q \in Procs \ {p}
      PROVE  Whole(state'[q], sz'[q], user'[q]) /\ Work(q, sz[q], user[q], call[q])'
  <2>1. Whole(state[q], sz[q], user[q]) /\ Work(q, sz[q], user[q], call[q])
    BY DEF ImageInv
  <2>2. Slot(state[q], kernel[q], tables[q], user[q], call[q])
    BY SlotIs
  <2>3. CASE call[q] # Users!NoCall /\ call[q].op = "copy"
    <3>1. call[q].parent \in Procs \ {p}
      BY <2>2, <2>3 DEF Slot, NotCopied
    <3>2. /\ state'[call[q].parent] = state[call[q].parent]
          /\ sz'[call[q].parent] = sz[call[q].parent]
          /\ user'[call[q].parent] = user[call[q].parent]
          /\ call'[call[q].parent] = call[call[q].parent]
      BY <1>2, <3>1
    <3> QED
      BY <1>2, <2>1, <2>3, <3>2 DEF Work
  <2>4. CASE ~(call[q] # Users!NoCall /\ call[q].op = "copy")
    BY <1>2, <2>1, <2>4 DEF Work
  <2> QED
    BY <2>3, <2>4
<1>6. ASSUME NEW q \in Procs PROVE Whole(state'[q], sz'[q], user'[q])
  BY <1>3, <1>5
<1>7. ASSUME NEW q \in Procs PROVE Work(q, sz[q], user[q], call[q])'
  <2>1. CASE q = p
    BY <1>4, <2>1
  <2>2. CASE q # p
    BY <1>5, <2>2
  <2> QED
    BY <2>1, <2>2
<1> QED
  BY <1>6, <1>7 DEF ImageInv, Whole

LEMMA ImagesAre ==
  ASSUME Assumptions, UserInv, NEW p \in Procs, NEW s, NEW z, NEW f, NEW c, Shows(p, s, z, f, c)
  PROVE  /\ Users!Images' = [Users!Images EXCEPT ![p] = Shown(s, z, f)]
         /\ Users!Images'[p] = Shown(s, z, f)
         /\ Users!Images \in [Procs -> {Users!Images[q] : q \in Procs}]
<1>1. UserType
  BY DEF UserInv
<1>2. /\ state'[p] = s /\ sz'[p] = z /\ user'[p] = f
      /\ \A q \in Procs \ {p} : /\ state'[q] = state[q] /\ sz'[q] = sz[q] /\ user'[q] = user[q]
  BY <1>1 DEF UserType, Shows
<1>3. Users!Images = [q \in Procs |-> Shown(state[q], sz[q], user[q])]
  BY DEF Users!Images, Shown
<1>4. Users!Images' = [q \in Procs |-> Shown(state'[q], sz'[q], user'[q])]
  BY DEF Users!Images, Shown
<1>5. \A q \in Procs : Shown(state'[q], sz'[q], user'[q])
        = IF q = p THEN Shown(s, z, f) ELSE Shown(state[q], sz[q], user[q])
  BY <1>2
<1> HIDE DEF Users!Images
<1>6. Users!Images' = [q \in Procs |-> IF q = p THEN Shown(s, z, f) ELSE Users!Images[q]]
  BY <1>3, <1>4, <1>5
<1> QED
  BY <1>3, <1>6

\* Which slots have an image.
LEMMA LivesIs ==
  ASSUME Assumptions, UserInv, NEW p \in Procs
  PROVE  /\ Users!Images[p] = Shown(state[p], sz[p], user[p])
         /\ Users!Abstract!Lives(p) <=> state[p] = "live"
         /\ state[p] = "live" =>
              /\ Users!Abstract!Pages(p) = 0..(Users!PGROUNDUP(sz[p]) - 1)
              /\ \A b \in 0..(Users!PGROUNDUP(sz[p]) - 1) : Users!Images[p][b] = user[p][b]
<1>1. Users!Images[p] = Shown(state[p], sz[p], user[p])
  BY DEF Users!Images, Shown
<1>2. state[p] = "live" => Users!Images[p] # Users!NoImage
  BY <1>1 DEF Shown, Users!NoImage
<1>3. state[p] # "live" => Users!Images[p] = Users!NoImage
  BY <1>1 DEF Shown
<1> QED
  BY <1>1, <1>2, <1>3 DEF Users!Abstract!Lives, Users!Abstract!Pages, Shown

\* A step that is not seen.
LEMMA Unseen ==
  ASSUME Assumptions, UserInv, NEW p \in Procs, NEW s, NEW z, NEW f, NEW c, Shows(p, s, z, f, c),
         Shown(s, z, f) = Shown(state[p], sz[p], user[p])
  PROVE  Users!Abstract!Step
<1>1. /\ Users!Images' = [Users!Images EXCEPT ![p] = Shown(s, z, f)]
      /\ Users!Images \in [Procs -> {Users!Images[q] : q \in Procs}]
  BY ImagesAre
<1>2. Users!Images[p] = Shown(s, z, f)
  BY LivesIs
<1>3. Users!Images' = Users!Images
  BY <1>1, <1>2
<1> QED
  BY <1>3 DEF Users!Abstract!Step

LEMMA LoopersAreNotCopied ==
  ASSUME Assumptions, UserInv, ImageInv, NEW p \in Procs,
         state[p] # "live" \/ call[p] # Users!NoCall
  PROVE  NotCopied(p)
BY DEF NotCopied, ImageInv, Work

LEMMA RunnersAreNotCopied ==
  ASSUME Assumptions, UserInv, ImageInv, NEW p \in Procs, Users!Runs(p)
  PROVE  NotCopied(p)
BY DEF NotCopied, Users!Runs

\* A slot without a call that does not live is no matter.
LEMMA BeginSteps ==
  ASSUME Assumptions, UserInv, ImageInv, NEW p \in Procs, NEW ops, Users!Begin(p, ops)
  PROVE  ImageInv' /\ Users!Abstract!Step
<1>1. state[p] = "unused" /\ NotCopied(p)
  BY LoopersAreNotCopied DEF Users!Begin, Users!make_proc, Users!make_kernel_task, Users!MakeFails
<1>2. ASSUME NEW o \in {"code", "copy"}, NEW q \in Procs \cup {Users!Nil}, NEW e,
             Users!make_proc(p, o, q, e),
             o = "copy" => q \in Procs /\ Users!Runs(q) /\ e = Users!PGROUNDUP(sz[q])
      PROVE  ImageInv' /\ Users!Abstract!Step
  <2>1. PICK c : c = NewCall(o, q, e)
    OBVIOUS
  <2>2. c.op = o /\ c.parent = q /\ c.at = 0 /\ c.from = 0 /\ c.end = e /\ c.mem = Users!Nil
    BY <2>1 DEF NewCall
  <2>3. Shows(p, "used", sz[p], user[p], c)
    BY <1>2, <2>1, Same, Zenon DEF Users!make_proc, NewCall, Shows
  <2>4. Work(p, sz[p], user[p], c)
    <3>1. o = "copy" => /\ q # p /\ state[q] = "live" /\ call[q] = Users!NoCall
                       /\ e = Users!PGROUNDUP(sz[q])
      BY <1>1, <1>2 DEF Users!Runs
    <3> QED
      BY <2>2, <3>1 DEF Work
  <2>5. Whole("used", sz[p], user[p])
    BY DEF Whole
  <2>6. Shown("used", sz[p], user[p]) = Shown(state[p], sz[p], user[p])
    BY <1>1 DEF Shown
  <2>7. c # Users!NoCall /\ c.op = "copy" => c.parent \in Procs
    BY <1>2, <2>2
  <2> QED
    BY <1>1, <2>3, <2>4, <2>5, <2>6, <2>7, ShowsKeep, Unseen
<1>3. ASSUME NEW s \in {"used", "task"}, state' = [state EXCEPT ![p] = s],
             UNCHANGED <<sz, user, call>>
      PROVE  ImageInv' /\ Users!Abstract!Step
  <2>1. Shows(p, s, sz[p], user[p], call[p])
    BY <1>3, Same, Zenon DEF Shows
  <2>2. call[p] = Users!NoCall
    BY <1>1, NoNames
  <2>3. Work(p, sz[p], user[p], call[p]) /\ Whole(s, sz[p], user[p])
    BY <1>3, <2>2 DEF Work, Whole
  <2>4. Shown(s, sz[p], user[p]) = Shown(state[p], sz[p], user[p])
    BY <1>1, <1>3 DEF Shown
  <2> QED
    BY <1>1, <2>1, <2>2, <2>3, <2>4, ShowsKeep, Unseen
<1>4. CASE \E size \in CodeSizes : Users!make_proc(p, "code", Users!Nil, Users!PGROUNDUP(size))
  BY <1>2, <1>4
<1>5. CASE \E q \in Procs : Users!Runs(q) /\ Users!make_proc(p, "copy", q, Users!PGROUNDUP(sz[q]))
  BY <1>2, <1>5
<1>6. CASE Users!make_kernel_task(p) \/ Users!MakeFails(p)
  BY <1>3, <1>6 DEF Users!make_kernel_task, Users!MakeFails
<1> QED
  BY <1>4, <1>5, <1>6 DEF Users!Begin

LEMMA TakeSteps ==
  ASSUME Assumptions, UserInv, ImageInv, NEW p \in Procs, Users!TakePage(p)
  PROVE  ImageInv' /\ Users!Abstract!Step
<1>1. /\ call[p] \in Users!CallOps /\ call[p] # Users!NoCall
      /\ call[p].op = "copy" => call[p].parent \in Procs
      /\ call[p].op \in {"code", "copy", "grow", "resize"} /\ Users!Nil \notin Data
  BY InCall DEF Users!TakePage, Users!InLoop
<1>2. NotCopied(p) /\ Work(p, sz[p], user[p], call[p]) /\ Whole(state[p], sz[p], user[p])
  BY <1>1, LoopersAreNotCopied DEF ImageInv
<1>3. PICK v \in Users!Contents(p) : call' = [call EXCEPT ![p].mem = v]
  BY DEF Users!TakePage
<1>4. PICK c : c = Filled(call[p], v)
  OBVIOUS
<1>5. call' = [call EXCEPT ![p] = c]
  BY <1>3, <1>4 DEF Filled
<1>6. PICK o, q, i, a, e, w :
        /\ call[p] = [op |-> o, parent |-> q, at |-> i, from |-> a, end |-> e, mem |-> w]
        /\ c = [op |-> o, parent |-> q, at |-> i, from |-> a, end |-> e, mem |-> v]
  <2>1. PICK o, q, i, a, e, w :
          call[p] = [op |-> o, parent |-> q, at |-> i, from |-> a, end |-> e, mem |-> w]
    BY <1>1 DEF Users!CallOps
  <2>2. c = [op |-> o, parent |-> q, at |-> i, from |-> a, end |-> e, mem |-> v]
    BY <1>4, <2>1 DEF Filled
  <2> QED
    BY <2>1, <2>2
<1>7. Shows(p, state[p], sz[p], user[p], c)
  BY <1>5, Same, Zenon DEF Users!TakePage, Shows
<1>8. IF o = "copy" THEN v = user[q][i] ELSE o = "resize" \/ v \in FreshFor(o)
  BY <1>1, <1>3, <1>6 DEF Users!Contents, Users!At, Users!Cur, FreshFor
<1>9. Work(p, sz[p], user[p], c)
  BY <1>1, <1>2, <1>6, <1>8 DEF Work
<1>10. c # Users!NoCall /\ c.op = "copy" => c.parent \in Procs
  BY <1>1, <1>6
<1> QED
  BY <1>2, <1>7, <1>9, <1>10, ShowsKeep, Unseen

LEMMA TableSteps ==
  ASSUME Assumptions, UserInv, ImageInv, NEW p \in Procs, Users!AddTable(p)
  PROVE  ImageInv' /\ Users!Abstract!Step
BY DEF Users!AddTable, ImageInv, Work, Whole, Users!Images, Users!Abstract!Step

LEMMA MapSteps ==
  ASSUME Assumptions, UserInv, ImageInv, NEW p \in Procs, Users!MapUser(p)
  PROVE  ImageInv' /\ Users!Abstract!Step
<1>1. /\ call[p] \in Users!CallOps /\ call[p] # Users!NoCall /\ call[p].mem # Users!Nil
      /\ call[p].op = "copy" => call[p].parent \in Procs
      /\ call[p].op \in {"code", "copy", "grow", "resize"}
      /\ call[p].at \in Nat /\ call[p].from \in Nat /\ call[p].from <= call[p].at
      /\ call[p].at < call[p].end /\ call[p].end \in 0..MaxPages /\ MaxPages \in Nat
      /\ state[p] = IF call[p].op \in {"code", "copy"} THEN "used" ELSE "live"
  BY InCall DEF Users!MapUser, Users!InLoop
<1>2. NotCopied(p) /\ Work(p, sz[p], user[p], call[p]) /\ Whole(state[p], sz[p], user[p])
  BY <1>1, LoopersAreNotCopied DEF ImageInv
<1>3. PICK c, f : /\ c = Moved(call[p], call[p].at + 1)
                  /\ f = Users!With(user[p], call[p].at, call[p].mem)
  OBVIOUS
<1>4. call' = [call EXCEPT ![p] = c] /\ user' = [user EXCEPT ![p] = f]
  <2>1. call' = [[call EXCEPT ![p].at = call[p].at + 1] EXCEPT ![p].mem = Users!Nil]
    BY DEF Users!MapUser
  <2>2. \A e, x, y : LET d == [e EXCEPT ![p].at = x]
                    IN  [d EXCEPT ![p].mem = y] = [e EXCEPT ![p] = [[e[p] EXCEPT !.at = x] EXCEPT !.mem = y]]
    OBVIOUS
  <2>3. call' = [call EXCEPT ![p] = c]
    BY <1>3, <2>1, <2>2 DEF Moved
  <2>4. user' = [user EXCEPT ![p] = f]
    BY <1>3 DEF Users!MapUser, Users!Cur
  <2> QED
    BY <2>3, <2>4
<1>5. PICK o, q, i, a, e, w :
        /\ call[p] = [op |-> o, parent |-> q, at |-> i, from |-> a, end |-> e, mem |-> w]
        /\ c = [op |-> o, parent |-> q, at |-> i + 1, from |-> a, end |-> e, mem |-> Users!Nil]
  <2>1. PICK o, q, i, a, e, w :
          call[p] = [op |-> o, parent |-> q, at |-> i, from |-> a, end |-> e, mem |-> w]
    BY <1>1 DEF Users!CallOps
  <2>2. PICK j : j = i + 1
    OBVIOUS
  <2>3. c = [[call[p] EXCEPT !.at = j] EXCEPT !.mem = Users!Nil]
    BY <1>3, <2>1, <2>2 DEF Moved
  <2>4. [call[p] EXCEPT !.at = j]
          = [op |-> o, parent |-> q, at |-> j, from |-> a, end |-> e, mem |-> w]
    BY <2>1
  <2>5. c = [op |-> o, parent |-> q, at |-> j, from |-> a, end |-> e, mem |-> Users!Nil]
    BY <2>3, <2>4
  <2> QED
    BY <2>1, <2>2, <2>5
<1>6. i \in Nat /\ a \in Nat /\ a <= i /\ w # Users!Nil
  BY <1>1, <1>5
<1>7. /\ DOMAIN f = DOMAIN user[p] \cup {i} /\ f[i] = w
      /\ \A b \in DOMAIN user[p] \ {i} : f[b] = user[p][b]
  BY <1>3, <1>5 DEF Users!With
<1>8. Shows(p, state[p], sz[p], f, c)
  BY <1>4, Same, Zenon DEF Users!MapUser, Shows
<1>9. /\ \A b \in 0..((i + 1) - 1) : b = i \/ (b \in 0..(i - 1) /\ b # i)
      /\ \A b \in a..((i + 1) - 1) : b = i \/ (b \in a..(i - 1) /\ b # i)
  BY <1>6
<1>10. Work(p, sz[p], f, c)
  <2>1. CASE o = "copy"
    <3>1. \A b \in 0..(i - 1) : b \in DOMAIN user[p] /\ user[p][b] = user[q][b]
      BY <1>1, <1>2, <1>5, <2>1 DEF Work
    <3>2. w = user[q][i]
      BY <1>1, <1>2, <1>5, <1>6, <2>1 DEF Work
    <3>3. \A b \in 0..((i + 1) - 1) : b \in DOMAIN f /\ f[b] = user[q][b]
      BY <1>7, <1>9, <3>1, <3>2
    <3> QED
      BY <1>1, <1>2, <1>5, <2>1, <3>3 DEF Work
  <2>2. CASE o # "copy"
    <3>1. \A b \in a..(i - 1) : b \in DOMAIN user[p] /\ user[p][b] \in FreshFor(o)
      BY <1>1, <1>2, <1>5, <2>2 DEF Work
    <3>2. w \in FreshFor(o)
      BY <1>1, <1>2, <1>5, <1>6, <2>2 DEF Work
    <3>3. \A b \in a..((i + 1) - 1) : b \in DOMAIN f /\ f[b] \in FreshFor(o)
      BY <1>7, <1>9, <3>1, <3>2
    <3> QED
      BY <1>1, <1>2, <1>5, <2>2, <3>3 DEF Work
  <2> QED
    BY <2>1, <2>2
<1>11. Whole(state[p], sz[p], f)
  BY <1>2, <1>7 DEF Whole
<1>12. c # Users!NoCall /\ c.op = "copy" => c.parent \in Procs
  BY <1>1, <1>5
<1>13. Shown(state[p], sz[p], f) = Shown(state[p], sz[p], user[p])
  <2>1. CASE state[p] = "live"
    <3>1. o = "grow" /\ a = Users!PGROUNDUP(sz[p])
      BY <1>1, <1>2, <1>5, <2>1 DEF Work
    <3>2. \A b \in 0..(Users!PGROUNDUP(sz[p]) - 1) : b # i /\ b \in DOMAIN user[p]
      BY <1>2, <1>6, <2>1, <3>1 DEF Whole
    <3>3. \A b \in 0..(Users!PGROUNDUP(sz[p]) - 1) : f[b] = user[p][b]
      BY <1>7, <3>2
    <3> QED
      BY <2>1, <3>3 DEF Shown
  <2>2. CASE state[p] # "live"
    BY <2>2 DEF Shown
  <2> QED
    BY <2>1, <2>2
<1> QED
  BY <1>2, <1>8, <1>10, <1>11, <1>12, <1>13, ShowsKeep, Unseen

\* At its end a loop has made what it was to make.
LEMMA EndSteps ==
  ASSUME Assumptions, UserInv, ImageInv, NEW p \in Procs, Users!LoopEnds(p)
  PROVE  ImageInv' /\ Users!Abstract!Step
<1>1. /\ call[p] \in Users!CallOps /\ call[p] # Users!NoCall
      /\ call[p].op = "copy" => call[p].parent \in Procs
      /\ call[p].op \in {"code", "copy", "grow", "resize"}
      /\ call[p].at \in Nat /\ call[p].from \in Nat /\ call[p].from <= call[p].at
      /\ call[p].at <= call[p].end /\ call[p].end \in 0..MaxPages /\ MaxPages \in Nat
      /\ state[p] = IF call[p].op \in {"code", "copy"} THEN "used" ELSE "live"
  BY InCall DEF Users!LoopEnds
<1>2. NotCopied(p) /\ Work(p, sz[p], user[p], call[p]) /\ Whole(state[p], sz[p], user[p])
  BY <1>1, LoopersAreNotCopied DEF ImageInv
<1>3. PICK o, q, e, f :
        o = call[p].op /\ q = call[p].parent /\ e = call[p].end /\ f = user[p]
  OBVIOUS
<1>4. call[p].at = e /\ e \in Nat /\ e \in 0..MaxPages /\ o # "resize"
      /\ o \in {"code", "copy", "grow"}
  BY <1>1, <1>2, <1>3 DEF Users!LoopEnds, Users!Cur, Work
<1>5. PICK z : /\ sz' = [sz EXCEPT ![p] = z] /\ Users!PGROUNDUP(z) = e
  <2>1. e * PAGE_BYTES \in Nat /\ Users!PGROUNDUP(e * PAGE_BYTES) = e
    BY <1>4, UpOfPages
  <2>2. o = "copy" => Users!PGROUNDUP(sz[q]) = e
    BY <1>1, <1>2, <1>3 DEF Work
  <2>3. sz' = [sz EXCEPT ![p] = IF o = "copy" THEN sz[q] ELSE e * PAGE_BYTES]
    BY <1>3, <1>4 DEF Users!LoopEnds, Users!At
  <2> QED
    BY <2>1, <2>2, <2>3
<1>6. Shows(p, "live", z, f, Users!NoCall)
  BY <1>3, <1>5, Same, Zenon DEF Users!LoopEnds, Users!Done, Shows
<1>7. Work(p, z, f, Users!NoCall)
  BY DEF Work
<1>8. o = "copy" => /\ q \in Procs /\ q # p /\ state[q] = "live" /\ Users!PGROUNDUP(sz[q]) = e
                    /\ \A b \in 0..(e - 1) : b \in DOMAIN f /\ f[b] = user[q][b]
  BY <1>1, <1>2, <1>3, <1>4 DEF Work
<1>9. o = "code" => \A b \in 0..(e - 1) : b \in DOMAIN f /\ f[b] \in Program
  BY <1>1, <1>2, <1>3, <1>4 DEF Work, FreshFor
<1>10. o = "grow" =>
         /\ state[p] = "live" /\ Users!PGROUNDUP(sz[p]) = call[p].from
         /\ \A b \in 0..(call[p].from - 1) : b \in DOMAIN f
         /\ \A b \in (call[p].from)..(e - 1) : b \in DOMAIN f /\ f[b] = ClearPage
  BY <1>1, <1>2, <1>3, <1>4 DEF Work, FreshFor, Whole
<1>11. Whole("live", z, f)
  <2>1. o = "grow" => \A b \in 0..(e - 1) : b \in DOMAIN f
    BY <1>1, <1>4, <1>10
  <2> QED
    BY <1>4, <1>5, <1>8, <1>9, <2>1 DEF Whole
<1>12. ImageInv'
  BY <1>2, <1>6, <1>7, <1>11, ShowsKeep
<1>13. PICK i : i = Shown("live", z, f) /\ i = [b \in 0..(e - 1) |-> f[b]]
  BY <1>5 DEF Shown
<1>14. Users!Images' = [Users!Images EXCEPT ![p] = i] /\ Users!Images'[p] = i
  BY <1>6, <1>13, ImagesAre
<1>15. i # Users!NoImage
  BY <1>4, <1>13 DEF Users!NoImage
<1>16. Users!Abstract!Lives(p) <=> o = "grow"
  BY <1>1, <1>3, <1>4, LivesIs
<1>17. CASE o = "code"
  <2>1. Users!Abstract!Birth(p)
    BY <1>9, <1>13, <1>14, <1>15, <1>16, <1>17 DEF Users!Abstract!Birth, Users!Abstract!Become
  <2> QED
    BY <1>12, <2>1 DEF Users!Abstract!Step, Users!Abstract!Next
<1>18. CASE o = "copy"
  <2>1. Users!Images[q] = i
    <3>1. Users!Images[q] = [b \in 0..(e - 1) |-> user[q][b]]
      BY <1>8, <1>18, LivesIs DEF Shown
    <3> QED
      BY <1>8, <1>13, <1>18, <3>1
  <2>2. Users!Abstract!Lives(q) /\ ~Users!Abstract!Lives(p)
    BY <1>8, <1>16, <1>18, LivesIs
  <2>3. Users!Abstract!Fork(q, p)
    BY <1>14, <2>1, <2>2 DEF Users!Abstract!Fork, Users!Abstract!Become
  <2> QED
    BY <1>8, <1>12, <1>18, <2>3 DEF Users!Abstract!Step, Users!Abstract!Next
<1>19. CASE o = "grow"
  <2>1. Users!Abstract!Pages(p) = 0..(call[p].from - 1)
    BY <1>10, <1>19, LivesIs
  <2>2. \A b \in 0..(call[p].from - 1) : Users!Images[p][b] = f[b]
    BY <1>3, <1>10, <1>19, LivesIs
  <2>3. DOMAIN Users!Images'[p] = 0..(e - 1)
    BY <1>13, <1>14
  <2>4. i = [a \in 0..(e - 1) |->
              IF a \in 0..(call[p].from - 1) THEN Users!Images[p][a] ELSE ClearPage]
    <3>1. \A a \in 0..(e - 1) : IF a \in 0..(call[p].from - 1) THEN Users!Images[p][a] = f[a]
                                ELSE f[a] = ClearPage
      <4>1. \A a \in 0..(e - 1) : a \in 0..(call[p].from - 1) \/ a \in (call[p].from)..(e - 1)
        BY <1>1, <1>4
      <4> QED
        BY <1>10, <1>19, <2>2, <4>1
    <3> QED
      BY <1>13, <3>1
  <2>5. Users!Abstract!Resize(p)
    BY <1>14, <1>15, <1>16, <1>19, <2>1, <2>3, <2>4
    DEF Users!Abstract!Resize, Users!Abstract!Become
  <2> QED
    BY <1>12, <2>5 DEF Users!Abstract!Step, Users!Abstract!Next
<1> QED
  BY <1>4, <1>17, <1>18, <1>19

LEMMA FreeSteps ==
  ASSUME Assumptions, UserInv, ImageInv, NEW p \in Procs, NEW more, Users!free_process(p, more),
         call' = [call EXCEPT ![p] = Users!NoCall], NotCopied(p)
  PROVE  /\ ImageInv' /\ Users!Abstract!Step
<1>1. Shows(p, "unused", 0, Users!NoPages, Users!NoCall)
  BY DEF Users!free_process, Shows
<1>2. Whole("unused", 0, Users!NoPages) /\ Work(p, 0, Users!NoPages, Users!NoCall)
  BY DEF Whole, Work
<1>3. ImageInv'
  BY <1>1, <1>2, ShowsKeep
<1>4. CASE state[p] = "live"
  <2>1. Users!Abstract!Lives(p) /\ Shown("unused", 0, Users!NoPages) = Users!NoImage
    BY <1>4, LivesIs DEF Shown
  <2>2. Users!Images' = [Users!Images EXCEPT ![p] = Users!NoImage]
    BY <1>1, <2>1, ImagesAre
  <2>3. Users!Abstract!Death(p)
    BY <2>1, <2>2 DEF Users!Abstract!Death, Users!Abstract!Become
  <2> QED
    BY <1>3, <2>3 DEF Users!Abstract!Step, Users!Abstract!Next
<1>5. CASE state[p] # "live"
  <2>1. Shown("unused", 0, Users!NoPages) = Shown(state[p], sz[p], user[p])
    BY <1>5 DEF Shown
  <2> QED
    BY <1>1, <1>3, <2>1, Unseen
<1> QED
  BY <1>4, <1>5

LEMMA FailSteps ==
  ASSUME Assumptions, UserInv, ImageInv, NEW p \in Procs, Users!CodeFails(p) \/ Users!ForkFails(p)
  PROVE  ImageInv' /\ Users!Abstract!Step
<1>1. call[p] # Users!NoCall
  BY InCall DEF Users!CodeFails, Users!ForkFails, Users!OutOfPages, Users!InLoop
<1>2. NotCopied(p)
  BY <1>1, LoopersAreNotCopied
<1> QED
  BY <1>2, FreeSteps DEF Users!CodeFails, Users!ForkFails, Users!Done

LEMMA ReapSteps ==
  ASSUME Assumptions, UserInv, ImageInv, NEW p \in Procs, Users!Reaped(p)
  PROVE  ImageInv' /\ Users!Abstract!Step
<1>1. NotCopied(p)
  BY RunnersAreNotCopied DEF Users!Reaped
<1>2. call' = [call EXCEPT ![p] = Users!NoCall]
  <2>1. call[p] = Users!NoCall
    BY DEF Users!Reaped, Users!Runs
  <2> QED
    BY <2>1, Same, Zenon DEF Users!Reaped
<1> QED
  BY <1>1, <1>2, FreeSteps DEF Users!Reaped

\* What a failing uvmalloc() leaves or takes away lies behind the image.
LEMMA GrowFailsSteps ==
  ASSUME Assumptions, UserInv, ImageInv, NEW p \in Procs, Users!GrowFails(p)
  PROVE  ImageInv' /\ Users!Abstract!Step
<1>1. /\ call[p] # Users!NoCall /\ state[p] = "live"
      /\ call[p].from \in Nat /\ call[p].from \in 0..MaxPages
  BY InCall DEF Users!GrowFails, Users!OutOfPages, Users!InLoop
<1>2. NotCopied(p) /\ Work(p, sz[p], user[p], call[p]) /\ Whole(state[p], sz[p], user[p])
  BY <1>1, LoopersAreNotCopied DEF ImageInv
<1>3. PICK a : a = call[p].from
  OBVIOUS
<1>4. Users!PGROUNDUP(sz[p]) = a /\ a \in Nat
  BY <1>1, <1>2, <1>3 DEF Work, Users!GrowFails
<1>5. PICK z : sz' = [sz EXCEPT ![p] = z] /\ Users!PGROUNDUP(z) = a
  <2>1. Users!PGROUNDUP(a * PAGE_BYTES) = a
    BY <1>4, UpOfPages
  <2>2. sz = [sz EXCEPT ![p] = sz[p]]
    BY Same
  <2>3. sz' = sz \/ sz' = [sz EXCEPT ![p] = a * PAGE_BYTES] \/ sz' = [sz EXCEPT ![p] = sz[p]]
    BY <1>3 DEF Users!GrowFails
  <2> QED
    BY <1>4, <2>1, <2>2, <2>3
<1>6. PICK f : /\ user' = [user EXCEPT ![p] = f]
               /\ \A b \in 0..(a - 1) : b \in DOMAIN f /\ f[b] = user[p][b]
  <2>1. \A b \in 0..(a - 1) : b \in DOMAIN user[p]
    BY <1>1, <1>2, <1>4 DEF Whole
  <2>2. CASE call[p].mem = Users!Nil
    <3>1. user' = [user EXCEPT ![p] = user[p]]
      BY <2>2, Same, Zenon DEF Users!GrowFails
    <3> QED
      BY <2>1, <3>1
  <2>3. CASE call[p].mem # Users!Nil
    <3>1. PICK f : f = Users!Without(user[p], a..(Users!Cur(p) - 1))
      OBVIOUS
    <3>2. user' = [user EXCEPT ![p] = f]
      BY <1>3, <2>3, <3>1 DEF Users!GrowFails
    <3>3. \A b \in 0..(a - 1) : b \in DOMAIN f /\ f[b] = user[p][b]
      BY <1>4, <2>1, <3>1 DEF Users!Without
    <3> QED
      BY <3>2, <3>3
  <2> QED
    BY <2>2, <2>3
<1>7. Shows(p, "live", z, f, Users!NoCall)
  <2>1. [state EXCEPT ![p] = "live"] = state
    BY <1>1, Same
  <2> QED
    BY <1>5, <1>6, <2>1, Zenon DEF Users!GrowFails, Users!Done, Shows
<1>8. Whole("live", z, f) /\ Work(p, z, f, Users!NoCall)
  BY <1>5, <1>6 DEF Whole, Work
<1>9. Shown("live", z, f) = Shown(state[p], sz[p], user[p])
  BY <1>1, <1>4, <1>5, <1>6 DEF Shown
<1> QED
  BY <1>2, <1>7, <1>8, <1>9, ShowsKeep, Unseen

LEMMA GrowSteps ==
  ASSUME Assumptions, UserInv, ImageInv, NEW p \in Procs, NEW n \in Nat,
         Users!proc_grow(p, n, "grow")
  PROVE  ImageInv' /\ Users!Abstract!Step
<1>1. Users!Runs(p) /\ NotCopied(p) /\ state[p] = "live"
  BY RunnersAreNotCopied DEF Users!proc_grow, Users!Runs
<1>2. PICK c : c = [op |-> "grow", parent |-> Users!Nil, at |-> Users!PGROUNDUP(sz[p]),
                    from |-> Users!PGROUNDUP(sz[p]), end |-> Users!PGROUNDUP(sz[p] + n),
                     mem |-> Users!Nil]
  OBVIOUS
<1>3. Shows(p, state[p], sz[p], user[p], c)
  BY <1>2, Same, Zenon DEF Users!proc_grow, Shows
<1>4. Users!PGROUNDUP(sz[p]) \in Nat
  BY <1>1, RunsIs
<1>5. Work(p, sz[p], user[p], c)
  BY <1>2, <1>4 DEF Work
<1>6. Whole(state[p], sz[p], user[p])
  BY DEF ImageInv
<1> QED
  BY <1>1, <1>2, <1>3, <1>5, <1>6, ShowsKeep, Unseen

LEMMA ShrinkSteps ==
  ASSUME Assumptions, UserInv, ImageInv, NEW p \in Procs, NEW n \in Nat, Users!proc_shrink(p, n)
  PROVE  ImageInv' /\ Users!Abstract!Step
<1>1. Users!Runs(p) /\ NotCopied(p) /\ state[p] = "live" /\ call[p] = Users!NoCall
  BY RunnersAreNotCopied DEF Users!proc_shrink, Users!Runs
<1>2. PICK e, d : e = Users!NewSize(p, n) /\ d = Users!PGROUNDUP(sz[p])
  OBVIOUS
<1>3. e \in Nat /\ e <= d /\ d \in Nat
  BY <1>1, <1>2, NewSizeFits, RunsIs
<1>4. PICK z, f : z = e * PAGE_BYTES /\ f = Users!Without(user[p], e..(d - 1))
  OBVIOUS
<1>5. Users!PGROUNDUP(z) = e
  BY <1>3, <1>4, UpOfPages
<1>6. Shows(p, "live", z, f, Users!NoCall)
  <2>1. [state EXCEPT ![p] = "live"] = state /\ [call EXCEPT ![p] = Users!NoCall] = call
    BY <1>1, RunsIs
  <2> QED
    BY <1>2, <1>4, <2>1, Zenon DEF Users!proc_shrink, Shows
<1>7. \A b \in 0..(e - 1) : b \in DOMAIN f /\ f[b] = user[p][b] /\ b \in 0..(d - 1)
  <2>1. \A b \in 0..(e - 1) : b \in DOMAIN user[p] /\ b \in 0..(d - 1)
    BY <1>1, <1>2, <1>3 DEF ImageInv, Whole
  <2> QED
    BY <1>3, <1>4, <2>1 DEF Users!Without
<1>8. Whole("live", z, f) /\ Work(p, z, f, Users!NoCall)
  BY <1>5, <1>7 DEF Whole, Work
<1>9. ImageInv'
  BY <1>1, <1>6, <1>8, ShowsKeep
<1>10. PICK i : i = Shown("live", z, f) /\ i = [b \in 0..(e - 1) |-> f[b]]
  BY <1>5 DEF Shown
<1>11. Users!Images' = [Users!Images EXCEPT ![p] = i] /\ Users!Images'[p] = i
  BY <1>6, <1>10, ImagesAre
<1>12. i # Users!NoImage
  BY <1>3, <1>10 DEF Users!NoImage
<1>13. /\ Users!Abstract!Lives(p) /\ Users!Abstract!Pages(p) = 0..(d - 1)
       /\ \A b \in 0..(d - 1) : Users!Images[p][b] = user[p][b]
  BY <1>1, <1>2, LivesIs
<1>14. i = [a \in DOMAIN i |->
                IF a \in Users!Abstract!Pages(p) THEN Users!Images[p][a] ELSE ClearPage]
  BY <1>7, <1>10, <1>13
<1>15. Users!Abstract!Resize(p)
  BY <1>11, <1>12, <1>13, <1>14 DEF Users!Abstract!Resize, Users!Abstract!Become
<1> QED
  BY <1>9, <1>15 DEF Users!Abstract!Step, Users!Abstract!Next

\* Stores of the program and of copyout().
LEMMA WriteSteps ==
  ASSUME Assumptions, UserInv, ImageInv, NEW p \in Procs, Users!Runs(p), NEW W, NEW v \in Data,
         NEW f,
         f = [b \in DOMAIN user[p] |-> IF b \in W THEN v ELSE user[p][b]],
         user' = [user EXCEPT ![p] = f], UNCHANGED <<state, sz, call>>
  PROVE  ImageInv' /\ Users!Abstract!Step
<1>1. NotCopied(p) /\ state[p] = "live" /\ call[p] = Users!NoCall
  BY RunnersAreNotCopied DEF Users!Runs
<1>2. PICK d : d = Users!PGROUNDUP(sz[p])
  OBVIOUS
<1>3. Shows(p, "live", sz[p], f, Users!NoCall)
  <2>1. [state EXCEPT ![p] = "live"] = state /\ [call EXCEPT ![p] = Users!NoCall] = call
    BY RunsIs
  <2> QED
    BY <2>1, Same, Zenon DEF Shows
<1>4. \A b \in 0..(d - 1) : b \in DOMAIN user[p] /\ b \in DOMAIN f
  BY <1>1, <1>2 DEF ImageInv, Whole
<1>5. Whole("live", sz[p], f) /\ Work(p, sz[p], f, Users!NoCall)
  BY <1>2, <1>4 DEF Whole, Work
<1>6. ImageInv'
  BY <1>1, <1>3, <1>5, ShowsKeep
<1>7. PICK i : i = Shown("live", sz[p], f) /\ i = [b \in 0..(d - 1) |-> f[b]]
  BY <1>2 DEF Shown
<1>8. Users!Images' = [Users!Images EXCEPT ![p] = i]
  BY <1>3, <1>7, ImagesAre
<1>9. /\ Users!Abstract!Lives(p) /\ Users!Abstract!Pages(p) = 0..(d - 1)
      /\ \A b \in 0..(d - 1) : Users!Images[p][b] = user[p][b]
  BY <1>1, <1>2, LivesIs
<1>10. PICK V : V = W \cap 0..(d - 1)
  OBVIOUS
<1>11. i = [a \in Users!Abstract!Pages(p) |-> IF a \in V THEN v ELSE Users!Images[p][a]]
  BY <1>4, <1>7, <1>9, <1>10
<1>12. V \in SUBSET Users!Abstract!Pages(p)
  BY <1>9, <1>10
<1>13. Users!Abstract!Write(p)
  BY <1>8, <1>9, <1>11, <1>12 DEF Users!Abstract!Write, Users!Abstract!Become
<1> QED
  BY <1>6, <1>13 DEF Users!Abstract!Step, Users!Abstract!Next

LEMMA UserWriteSteps ==
  ASSUME Assumptions, UserInv, ImageInv, NEW p \in Procs, Users!UserWrite(p)
  PROVE  ImageInv' /\ Users!Abstract!Step
<1>1. PICK b \in DOMAIN user[p], v \in Data : user' = [user EXCEPT ![p][b] = v]
  BY DEF Users!UserWrite
<1>2. PICK f, W : f = [user[p] EXCEPT ![b] = v] /\ W = {b}
  OBVIOUS
<1>3. user' = [user EXCEPT ![p] = f]
  BY <1>1, <1>2
<1>4. f = [a \in DOMAIN user[p] |-> IF a \in W THEN v ELSE user[p][a]]
  BY <1>2
<1>5. Users!Runs(p) /\ UNCHANGED <<state, sz, call>>
  BY DEF Users!UserWrite
<1> QED
  BY <1>3, <1>4, <1>5, WriteSteps, Zenon

LEMMA CopyoutSteps ==
  ASSUME Assumptions, UserInv, ImageInv, NEW p \in Procs, NEW first, NEW n, NEW v \in Data,
         Users!copyout(p, first, n, v)
  PROVE  ImageInv' /\ Users!Abstract!Step
<1>1. PICK f, W : /\ W = Users!CopiedPages(p, first, n)
                  /\ f = [b \in DOMAIN user[p] |-> IF b \in W THEN v ELSE user[p][b]]
  OBVIOUS
<1>2. user' = [user EXCEPT ![p] = f]
  BY <1>1 DEF Users!copyout
<1>3. Users!Runs(p) /\ UNCHANGED <<state, sz, call>>
  BY DEF Users!copyout
<1> QED
  BY <1>1, <1>2, <1>3, WriteSteps, Zenon

LEMMA StillSteps ==
  ASSUME ImageInv, UNCHANGED <<state, sz, user, call>>
  PROVE  ImageInv' /\ Users!Abstract!Step
BY DEF ImageInv, Work, Whole, Users!Images, Users!Abstract!Step

-----------------------------------------------------------------------------
LEMMA ImageStep ==
  ASSUME Assumptions, UserInv, ImageInv, NEW ops, "resize" \notin ops,
         [Users!NextOf(ops)]_(Users!vars)
  PROVE  ImageInv' /\ Users!Abstract!Step
<1>1. CASE UNCHANGED Users!vars
  BY <1>1, StillSteps DEF Users!vars
<1>2. ASSUME NEW p \in Procs, Users!LoopStep(p) PROVE ImageInv' /\ Users!Abstract!Step
  BY <1>2, TakeSteps, TableSteps, MapSteps, EndSteps, FailSteps, GrowFailsSteps DEF Users!LoopStep
<1>3. ASSUME NEW p \in Procs, Users!Ask(p, ops) PROVE ImageInv' /\ Users!Abstract!Step
  <2>1. \A n \in Deltas : n \in Nat
    BY DEF Assumptions, Users!SizeAssumption
  <2>2. CASE \E n \in Deltas : Users!proc_grow(p, n, "grow") \/ Users!proc_shrink(p, n)
    BY <2>1, <2>2, GrowSteps, ShrinkSteps
  <2>3. CASE \E first \in 0..Users!TRAPFRAME, n \in 1..2 :
               Users!copyin(p, first, n) \/ \E v \in Data : Users!copyout(p, first, n, v)
    BY <2>3, StillSteps, CopyoutSteps DEF Users!copyin
  <2> QED
    BY <1>3, <2>2, <2>3, UserWriteSteps, ReapSteps DEF Users!Ask
<1> QED
  BY <1>1, <1>2, <1>3, BeginSteps DEF Users!NextOf

LEMMA ImageInit == ASSUME Users!Init PROVE ImageInv /\ Users!Abstract!Init
BY DEF Users!Init, ImageInv, Work, Whole, Users!Images, Users!Abstract!Init

\* Any mix of calls but proc_resize() leaves every process its own memory.
THEOREM ImagesCorrect ==
  ASSUME Assumptions, NEW ops, "resize" \notin ops
  PROVE  Users!Init /\ [][Users!NextOf(ops)]_(Users!vars) => Users!ImplementsAbstractMemory
<1>1. Users!Init => UserInv /\ ImageInv /\ Users!Abstract!Init
  BY InitKeeps, ImageInit
<1>2. UserInv /\ ImageInv /\ [Users!NextOf(ops)]_(Users!vars)
        => UserInv' /\ ImageInv' /\ [Users!Abstract!Next]_(Users!Images)
  BY StepKeeps, ImageStep DEF Users!Abstract!Step
<1> QED
  BY <1>1, <1>2, PTL DEF Users!ImplementsAbstractMemory, Users!Abstract!Spec, Users!Abstract!Step

-----------------------------------------------------------------------------
(***************************************************************************)
(* The same in the behaviours of MCMemory, where other memory may be the   *)
(* subject.                                                                *)
(***************************************************************************)
MCInv ==
  /\ subject \in {"family", "resize"} => UserInv
  /\ subject = "family" => ImageInv

LEMMA MCStep ==
  ASSUME [MCNext]_<<heap, lists, usermem, subject>>
  PROVE  /\ subject' = subject
         /\ subject = "family" => [Users!NextOf(FamilyOps)]_(Users!vars)
         /\ subject = "resize" => [Users!NextOf(ResizeOps)]_(Users!vars)
BY DEF MCNext, usermem, Users!vars

LEMMA MCInvariance == MCSpec => []MCInv
<1> USE UsersConstants DEF Assumptions
<1>1. MCInit => MCInv
  BY InitKeeps, ImageInit DEF MCInit, MCInv
<1>2. MCInv /\ [MCNext]_<<heap, lists, usermem, subject>> => MCInv'
  <2> SUFFICES ASSUME MCInv, [MCNext]_<<heap, lists, usermem, subject>> PROVE MCInv'
    OBVIOUS
  <2>1. CASE subject = "family"
    <3>1. "resize" \notin FamilyOps
      BY DEF FamilyOps
    <3>2. UserInv' /\ ImageInv'
      BY <2>1, <3>1, MCStep, StepKeeps, ImageStep DEF MCInv
    <3> QED
      BY <3>2 DEF MCInv
  <2>2. CASE subject = "resize"
    BY <2>2, MCStep, StepKeeps DEF MCInv
  <2> QED
    BY <2>1, <2>2, MCStep DEF MCInv
<1> QED
  BY <1>1, <1>2, PTL DEF MCSpec

\* The sum of the pages in the run's behaviours.
THEOREM PagesAddUpCorrect == MCSpec => []PagesAddUp
<1>1. MCInv => PagesAddUp
  BY UserInvImplies, UsersConstants DEF MCInv, PagesAddUp, Assumptions
<1> QED
  BY <1>1, MCInvariance, PTL

\* The pages of processes implement memories of their own.
THEOREM MemoryRefinement == MCSpec => ImplementsAbstractMemory
<1>1. MCInit => Users!Abstract!Init
  BY ImageInit DEF MCInit
<1>2. MCInv /\ [MCNext]_<<heap, lists, usermem, subject>>
        => [subject = "family" => Users!Abstract!Step]_usermem
  <2> SUFFICES ASSUME MCInv, [MCNext]_<<heap, lists, usermem, subject>>
               PROVE  [subject = "family" => Users!Abstract!Step]_usermem
    OBVIOUS
  <2>1. CASE subject = "family"
    <3>1. "resize" \notin FamilyOps /\ [Users!NextOf(FamilyOps)]_(Users!vars)
      BY <2>1, MCStep DEF FamilyOps
    <3>2. Users!Abstract!Step
      BY <2>1, <3>1, ImageStep, UsersConstants DEF MCInv, Assumptions
    <3> QED
      BY <3>2
  <2> QED
    BY <2>1
<1> QED
  BY <1>1, <1>2, MCInvariance, PTL DEF MCSpec, ImplementsAbstractMemory

-----------------------------------------------------------------------------
(***************************************************************************)
(* The linked lists.  A memory represents sequences of pages: the heads    *)
(* are their first entries, next and prev lead from entry to entry, and no *)
(* page is in two places.                                                  *)
(***************************************************************************)
Pointer == Lists!Page \cup {NULL}

Memory ==
  [head : [Orders -> Pointer], next : [Lists!Page -> Pointer], prev : [Lists!Page -> Pointer],
   bits : SUBSET Lists!Page, free_pages : Int, allocated_pages : Int, halted : BOOLEAN]

Chain(mem, k, s) ==
  /\ mem.head[k] = IF s = <<>> THEN NULL ELSE s[1]
  /\ \A i \in 1..Len(s) : /\ mem.next[s[i]] = IF i = Len(s) THEN NULL ELSE s[i + 1]
                          /\ mem.prev[s[i]] = IF i = 1 THEN NULL ELSE s[i - 1]

Apart(L) == /\ \A k \in Orders : OneEach(L[k])
            /\ \A k, l \in Orders : k # l => Elems(L[k]) \cap Elems(L[l]) = {}

Shape(mem, L) ==
  /\ L \in [Orders -> Seq(Lists!Page)]
  /\ Apart(L)
  /\ \A k \in Orders : Chain(mem, k, L[k])

\* What the lists are not made of.
SameBooks(mem, new) ==
  /\ new.bits = mem.bits /\ new.halted = mem.halted
  /\ new.free_pages = mem.free_pages /\ new.allocated_pages = mem.allocated_pages

LEMMA PageFacts ==
  ASSUME Small
  PROVE  /\ ListPages \in Nat /\ Lists!Page = 0..(ListPages - 1) /\ Lists!Page \subseteq Nat
         /\ NULL \notin Lists!Page /\ 0 \in Lists!Page
         /\ Size(BUDDY_MAX_ORDER) < ListPages /\ ListPages <= 32768
         /\ ListPages % Size(BUDDY_MAX_ORDER) = 0
         /\ Lists!Orders = Orders
<1>1. ListPages \in (2^BUDDY_MAX_ORDER + 1)..(8 * 4096) /\ ListPages % (2^BUDDY_MAX_ORDER) = 0
  BY ListsConstants DEF Lists!PagesAssumption
<1>2. PICK z : z = Size(BUDDY_MAX_ORDER) /\ z \in Nat \ {0}
  BY OrderFacts
<1>3. ListPages \in (z + 1)..32768 /\ ListPages % z = 0
  BY <1>1, <1>2 DEF Size
<1>4. ListPages \in Nat /\ z < ListPages /\ ListPages <= 32768
  BY <1>2, <1>3
<1>5. NULL \notin 0..(ListPages - 1)
  BY ListsConstants DEF Lists!NullAssumption
<1>6. Lists!Page = 0..(ListPages - 1)
  BY DEF Lists!Page
<1>7. Lists!Page \subseteq Nat /\ 0 \in Lists!Page
  BY <1>2, <1>4, <1>6
<1>8. Lists!Orders = Orders
  BY DEF Lists!Orders, Orders
<1>9. Size(BUDDY_MAX_ORDER) < ListPages /\ ListPages % Size(BUDDY_MAX_ORDER) = 0
  BY <1>2, <1>3, <1>4
<1>10. NULL \notin Lists!Page
  BY <1>5, <1>6, Zenon
<1> QED
  BY <1>4, <1>6, <1>7, <1>8, <1>9, <1>10

LEMMA MemoryIs ==
  ASSUME NEW mem \in Memory
  PROVE  /\ mem.head \in [Orders -> Pointer] /\ mem.next \in [Lists!Page -> Pointer]
         /\ mem.prev \in [Lists!Page -> Pointer] /\ mem.bits \in SUBSET Lists!Page
         /\ mem.free_pages \in Int /\ mem.allocated_pages \in Int /\ mem.halted \in BOOLEAN
BY DEF Memory

\* A memory with other heads, or other pointers.
LEMMA WithHead ==
  ASSUME NEW mem \in Memory, NEW f \in [Orders -> Pointer]
  PROVE  LET new == [mem EXCEPT !.head = f]
         IN /\ new \in Memory /\ SameBooks(mem, new)
            /\ new.head = f /\ new.next = mem.next /\ new.prev = mem.prev
<1> DEFINE new == [mem EXCEPT !.head = f]
<1>1. new \in Memory
  BY DEF Memory
<1>2. SameBooks(mem, new)
  BY DEF Memory, SameBooks
<1>3. new.head = f /\ new.next = mem.next /\ new.prev = mem.prev
  BY DEF Memory
<1> QED
  BY <1>1, <1>2, <1>3

LEMMA WithNext ==
  ASSUME NEW mem \in Memory, NEW f \in [Lists!Page -> Pointer]
  PROVE  LET new == [mem EXCEPT !.next = f]
         IN /\ new \in Memory /\ SameBooks(mem, new)
            /\ new.head = mem.head /\ new.next = f /\ new.prev = mem.prev
<1> DEFINE new == [mem EXCEPT !.next = f]
<1>1. new \in Memory
  BY DEF Memory
<1>2. SameBooks(mem, new)
  BY DEF Memory, SameBooks
<1>3. new.head = mem.head /\ new.next = f /\ new.prev = mem.prev
  BY DEF Memory
<1> QED
  BY <1>1, <1>2, <1>3

LEMMA WithPrev ==
  ASSUME NEW mem \in Memory, NEW f \in [Lists!Page -> Pointer]
  PROVE  LET new == [mem EXCEPT !.prev = f]
         IN /\ new \in Memory /\ SameBooks(mem, new)
            /\ new.head = mem.head /\ new.next = mem.next /\ new.prev = f
<1> DEFINE new == [mem EXCEPT !.prev = f]
<1>1. new \in Memory
  BY DEF Memory
<1>2. SameBooks(mem, new)
  BY DEF Memory, SameBooks
<1>3. new.head = mem.head /\ new.next = mem.next /\ new.prev = f
  BY DEF Memory
<1> QED
  BY <1>1, <1>2, <1>3

\* One statement of unlinking after the other.
LEMMA Unlink1Is ==
  ASSUME Small, NEW mem \in Memory, NEW b \in Lists!Page, NEW k \in Orders
  PROVE  LET new == Lists!Unlink1(mem, b, k)
         IN /\ new \in Memory /\ SameBooks(mem, new) /\ new.prev = mem.prev
            /\ \A q \in Lists!Page :
                 new.next[q] = IF q = mem.prev[b] THEN mem.next[b] ELSE mem.next[q]
            /\ \A j \in Orders :
                 new.head[j] = IF j = k /\ mem.prev[b] = NULL THEN mem.next[b] ELSE mem.head[j]
<1>1. /\ mem.prev[b] \in Pointer /\ mem.next[b] \in Pointer /\ NULL \in Pointer /\ b \in Pointer
      /\ NULL \notin Lists!Page /\ mem.head[k] \in Pointer
      /\ mem.head \in [Orders -> Pointer] /\ mem.next \in [Lists!Page -> Pointer]
      /\ mem.prev \in [Lists!Page -> Pointer]
  BY MemoryIs, PageFacts DEF Pointer
<1>2. CASE mem.prev[b] # NULL
  <2>1. PICK f : f = [mem.next EXCEPT ![mem.prev[b]] = mem.next[b]]
    OBVIOUS
  <2>2. f \in [Lists!Page -> Pointer]
        /\ \A q \in Lists!Page : f[q] = IF q = mem.prev[b] THEN mem.next[b] ELSE mem.next[q]
    BY <1>1, <1>2, <2>1 DEF Pointer
  <2>3. Lists!Unlink1(mem, b, k) = [mem EXCEPT !.next = f]
    BY <2>1, <1>2 DEF Lists!Unlink1
  <2> QED
    BY <1>1, <1>2, <2>2, <2>3, WithNext
<1>3. CASE mem.prev[b] = NULL
  <2>1. PICK f : f = [mem.head EXCEPT ![k] = mem.next[b]]
    OBVIOUS
  <2>2. f \in [Orders -> Pointer] /\ \A q \in Orders : f[q] = IF q = k THEN mem.next[b] ELSE mem.head[q]
    BY <1>1, <1>3, <2>1 DEF Pointer
  <2>3. Lists!Unlink1(mem, b, k) = [mem EXCEPT !.head = f]
    BY <2>1, <1>3 DEF Lists!Unlink1
  <2> QED
    BY <1>1, <1>3, <2>2, <2>3, WithHead
<1> QED
  BY <1>2, <1>3

LEMMA Unlink2Is ==
  ASSUME Small, NEW mem \in Memory, NEW b \in Lists!Page
  PROVE  LET new == Lists!Unlink2(mem, b)
         IN /\ new \in Memory /\ SameBooks(mem, new) /\ new.next = mem.next /\ new.head = mem.head
            /\ \A q \in Lists!Page :
                 new.prev[q] = IF q = mem.next[b] THEN mem.prev[b] ELSE mem.prev[q]
<1>1. /\ mem.prev[b] \in Pointer /\ mem.next[b] \in Pointer /\ NULL \in Pointer /\ b \in Pointer
      /\ mem.head \in [Orders -> Pointer] /\ mem.next \in [Lists!Page -> Pointer]
      /\ mem.prev \in [Lists!Page -> Pointer]
  BY MemoryIs, PageFacts DEF Pointer
<1>2. CASE mem.next[b] # NULL
  <2>1. PICK f : f = [mem.prev EXCEPT ![mem.next[b]] = mem.prev[b]]
    OBVIOUS
  <2>2. f \in [Lists!Page -> Pointer]
        /\ \A q \in Lists!Page : f[q] = IF q = mem.next[b] THEN mem.prev[b] ELSE mem.prev[q]
    BY <1>1, <1>2, <2>1 DEF Pointer
  <2>3. Lists!Unlink2(mem, b) = [mem EXCEPT !.prev = f]
    BY <2>1, <1>2 DEF Lists!Unlink2
  <2> QED
    BY <1>1, <1>2, <2>2, <2>3, WithPrev
<1>3. CASE mem.next[b] = NULL
  <2>1. Lists!Unlink2(mem, b) = mem
    BY <1>3 DEF Lists!Unlink2
  <2> QED
    BY <1>1, <1>3, <2>1, PageFacts DEF SameBooks
<1> QED
  BY <1>2, <1>3

LEMMA Unlink3Is ==
  ASSUME Small, NEW mem \in Memory, NEW b \in Lists!Page
  PROVE  LET new == Lists!Unlink3(mem, b)
         IN /\ new \in Memory /\ SameBooks(mem, new) /\ new.head = mem.head
            /\ \A q \in Lists!Page : /\ new.next[q] = IF q = b THEN NULL ELSE mem.next[q]
                                     /\ new.prev[q] = IF q = b THEN NULL ELSE mem.prev[q]
<1>1. /\ NULL \in Pointer /\ mem.next \in [Lists!Page -> Pointer]
      /\ mem.prev \in [Lists!Page -> Pointer]
  BY MemoryIs, PageFacts DEF Pointer
<1>2. PICK f, g : f = [mem.next EXCEPT ![b] = NULL] /\ g = [mem.prev EXCEPT ![b] = NULL]
  OBVIOUS
<1>3. /\ f \in [Lists!Page -> Pointer] /\ g \in [Lists!Page -> Pointer]
      /\ \A q \in Lists!Page : /\ f[q] = IF q = b THEN NULL ELSE mem.next[q]
                               /\ g[q] = IF q = b THEN NULL ELSE mem.prev[q]
  BY <1>1, <1>2
<1>4. PICK x : x = [mem EXCEPT !.next = f]
  OBVIOUS
<1>5. x \in Memory /\ SameBooks(mem, x) /\ x.head = mem.head /\ x.next = f /\ x.prev = mem.prev
  BY <1>3, <1>4, WithNext
<1>6. Lists!Unlink3(mem, b) = [x EXCEPT !.prev = g]
  <2>1. Lists!Unlink3(mem, b) = [mem EXCEPT !.next = f, !.prev = g]
    BY <1>2 DEF Lists!Unlink3, Memory
  <2> QED
    BY <1>4, <2>1 DEF Memory
<1>7. PICK y : y = Lists!Unlink3(mem, b)
  OBVIOUS
<1>8. y \in Memory /\ SameBooks(x, y) /\ y.head = x.head /\ y.next = x.next /\ y.prev = g
  BY <1>3, <1>5, <1>6, <1>7, WithPrev
<1>9. SameBooks(mem, y)
  BY <1>5, <1>8 DEF SameBooks
<1> QED
  BY <1>3, <1>5, <1>7, <1>8, <1>9

LEMMA Link1Is ==
  ASSUME Small, NEW mem \in Memory, NEW b \in Lists!Page
  PROVE  LET new == Lists!Link1(mem, b)
         IN /\ new \in Memory /\ SameBooks(mem, new) /\ new.head = mem.head /\ new.next = mem.next
            /\ \A q \in Lists!Page : new.prev[q] = IF q = b THEN NULL ELSE mem.prev[q]
<1>1. /\ mem.prev[b] \in Pointer /\ mem.next[b] \in Pointer /\ NULL \in Pointer /\ b \in Pointer
      /\ mem.head \in [Orders -> Pointer] /\ mem.next \in [Lists!Page -> Pointer]
      /\ mem.prev \in [Lists!Page -> Pointer]
  BY MemoryIs, PageFacts DEF Pointer
<1>2. PICK f : f = [mem.prev EXCEPT ![b] = NULL]
  OBVIOUS
<1>3. f \in [Lists!Page -> Pointer] /\ \A q \in Lists!Page : f[q] = IF q = b THEN NULL ELSE mem.prev[q]
  BY <1>1, <1>2 DEF Pointer
<1>4. Lists!Link1(mem, b) = [mem EXCEPT !.prev = f]
  BY <1>2 DEF Lists!Link1
<1> QED
  BY <1>1, <1>3, <1>4, WithPrev

LEMMA Link2Is ==
  ASSUME Small, NEW mem \in Memory, NEW b \in Lists!Page, NEW k \in Orders
  PROVE  LET new == Lists!Link2(mem, b, k)
         IN /\ new \in Memory /\ SameBooks(mem, new) /\ new.head = mem.head /\ new.prev = mem.prev
            /\ \A q \in Lists!Page : new.next[q] = IF q = b THEN mem.head[k] ELSE mem.next[q]
<1>1. /\ mem.prev[b] \in Pointer /\ mem.next[b] \in Pointer /\ NULL \in Pointer /\ b \in Pointer
      /\ NULL \notin Lists!Page /\ mem.head[k] \in Pointer
      /\ mem.head \in [Orders -> Pointer] /\ mem.next \in [Lists!Page -> Pointer]
      /\ mem.prev \in [Lists!Page -> Pointer]
  BY MemoryIs, PageFacts DEF Pointer
<1>2. PICK f : f = [mem.next EXCEPT ![b] = mem.head[k]]
  OBVIOUS
<1>3. f \in [Lists!Page -> Pointer] /\ \A q \in Lists!Page : f[q] = IF q = b THEN mem.head[k] ELSE mem.next[q]
  BY <1>1, <1>2 DEF Pointer
<1>4. Lists!Link2(mem, b, k) = [mem EXCEPT !.next = f]
  BY <1>2 DEF Lists!Link2
<1> QED
  BY <1>1, <1>3, <1>4, WithNext

LEMMA Link3Is ==
  ASSUME Small, NEW mem \in Memory, NEW b \in Lists!Page, NEW k \in Orders
  PROVE  LET new == Lists!Link3(mem, b, k)
         IN /\ new \in Memory /\ SameBooks(mem, new) /\ new.head = mem.head /\ new.next = mem.next
            /\ \A q \in Lists!Page : new.prev[q] = IF q = mem.head[k] THEN b ELSE mem.prev[q]
<1>1. /\ mem.prev[b] \in Pointer /\ mem.next[b] \in Pointer /\ NULL \in Pointer /\ b \in Pointer
      /\ NULL \notin Lists!Page /\ mem.head[k] \in Pointer
      /\ mem.head \in [Orders -> Pointer] /\ mem.next \in [Lists!Page -> Pointer]
      /\ mem.prev \in [Lists!Page -> Pointer]
  BY MemoryIs, PageFacts DEF Pointer
<1>2. CASE mem.head[k] # NULL
  <2>1. PICK f : f = [mem.prev EXCEPT ![mem.head[k]] = b]
    OBVIOUS
  <2>2. f \in [Lists!Page -> Pointer]
        /\ \A q \in Lists!Page : f[q] = IF q = mem.head[k] THEN b ELSE mem.prev[q]
    BY <1>1, <1>2, <2>1 DEF Pointer
  <2>3. Lists!Link3(mem, b, k) = [mem EXCEPT !.prev = f]
    BY <2>1, <1>2 DEF Lists!Link3
  <2> QED
    BY <1>1, <1>2, <2>2, <2>3, WithPrev
<1>3. CASE mem.head[k] = NULL
  <2>1. Lists!Link3(mem, b, k) = mem
    BY <1>3 DEF Lists!Link3
  <2> QED
    BY <1>1, <1>3, <2>1, PageFacts DEF SameBooks
<1> QED
  BY <1>2, <1>3

LEMMA Link4Is ==
  ASSUME Small, NEW mem \in Memory, NEW b \in Lists!Page, NEW k \in Orders
  PROVE  LET new == Lists!Link4(mem, b, k)
         IN /\ new \in Memory /\ SameBooks(mem, new) /\ new.next = mem.next /\ new.prev = mem.prev
            /\ \A j \in Orders : new.head[j] = IF j = k THEN b ELSE mem.head[j]
<1>1. /\ mem.prev[b] \in Pointer /\ mem.next[b] \in Pointer /\ NULL \in Pointer /\ b \in Pointer
      /\ NULL \notin Lists!Page /\ mem.head[k] \in Pointer
      /\ mem.head \in [Orders -> Pointer] /\ mem.next \in [Lists!Page -> Pointer]
      /\ mem.prev \in [Lists!Page -> Pointer]
  BY MemoryIs, PageFacts DEF Pointer
<1>2. PICK f : f = [mem.head EXCEPT ![k] = b]
  OBVIOUS
<1>3. f \in [Orders -> Pointer] /\ \A q \in Orders : f[q] = IF q = k THEN b ELSE mem.head[q]
  BY <1>1, <1>2 DEF Pointer
<1>4. Lists!Link4(mem, b, k) = [mem EXCEPT !.head = f]
  BY <1>2 DEF Lists!Link4
<1> QED
  BY <1>1, <1>3, <1>4, WithHead

LEMMA UnlinkIs ==
  ASSUME Small, NEW mem \in Memory, NEW b \in Lists!Page, NEW k \in Orders
  PROVE  LET new == Lists!Unlink(mem, b, k)
         IN /\ new \in Memory /\ SameBooks(mem, new)
            /\ mem.prev[b] # b =>
                 /\ \A q \in Lists!Page :
                      /\ new.next[q] = IF q = b THEN NULL ELSE IF q = mem.prev[b] THEN mem.next[b]
                                       ELSE mem.next[q]
                      /\ new.prev[q] = IF q = b THEN NULL ELSE IF q = mem.next[b] THEN mem.prev[b]
                                       ELSE mem.prev[q]
                 /\ \A j \in Orders :
                      new.head[j] = IF j = k /\ mem.prev[b] = NULL THEN mem.next[b] ELSE mem.head[j]
<1>1. PICK x : x = Lists!Unlink1(mem, b, k)
  OBVIOUS
<1>2. PICK y : y = Lists!Unlink2(x, b)
  OBVIOUS
<1>3. PICK z : z = Lists!Unlink3(y, b)
  OBVIOUS
<1>4. Lists!Unlink(mem, b, k) = z
  BY <1>1, <1>2, <1>3 DEF Lists!Unlink
<1>5. /\ x \in Memory /\ SameBooks(mem, x) /\ x.prev = mem.prev
      /\ \A q \in Lists!Page : x.next[q] = IF q = mem.prev[b] THEN mem.next[b] ELSE mem.next[q]
      /\ \A j \in Orders :
           x.head[j] = IF j = k /\ mem.prev[b] = NULL THEN mem.next[b] ELSE mem.head[j]
  BY <1>1, Unlink1Is
<1>6. /\ y \in Memory /\ SameBooks(x, y) /\ y.next = x.next /\ y.head = x.head
      /\ \A q \in Lists!Page : y.prev[q] = IF q = x.next[b] THEN x.prev[b] ELSE x.prev[q]
  BY <1>2, <1>5, Unlink2Is
<1>7. /\ z \in Memory /\ SameBooks(y, z) /\ z.head = y.head
      /\ \A q \in Lists!Page : /\ z.next[q] = IF q = b THEN NULL ELSE y.next[q]
                               /\ z.prev[q] = IF q = b THEN NULL ELSE y.prev[q]
  BY <1>3, <1>6, Unlink3Is
<1>8. SameBooks(mem, z)
  BY <1>5, <1>6, <1>7 DEF SameBooks
<1>9. mem.prev[b] # b => x.next[b] = mem.next[b]
  BY <1>5
<1> QED
  BY <1>4, <1>5, <1>6, <1>7, <1>8, <1>9

LEMMA LinkIs ==
  ASSUME Small, NEW mem \in Memory, NEW b \in Lists!Page, NEW k \in Orders
  PROVE  LET new == Lists!Link(mem, b, k)
         IN /\ new \in Memory /\ SameBooks(mem, new)
            /\ \A q \in Lists!Page :
                 /\ new.next[q] = IF q = b THEN mem.head[k] ELSE mem.next[q]
                 /\ new.prev[q] = IF q = mem.head[k] THEN b ELSE IF q = b THEN NULL ELSE mem.prev[q]
            /\ \A j \in Orders : new.head[j] = IF j = k THEN b ELSE mem.head[j]
<1>1. PICK x : x = Lists!Link1(mem, b)
  OBVIOUS
<1>2. PICK y : y = Lists!Link2(x, b, k)
  OBVIOUS
<1>3. PICK z : z = Lists!Link3(y, b, k)
  OBVIOUS
<1>4. PICK w : w = Lists!Link4(z, b, k)
  OBVIOUS
<1>5. Lists!Link(mem, b, k) = w
  BY <1>1, <1>2, <1>3, <1>4 DEF Lists!Link
<1>6. /\ x \in Memory /\ SameBooks(mem, x) /\ x.head = mem.head /\ x.next = mem.next
      /\ \A q \in Lists!Page : x.prev[q] = IF q = b THEN NULL ELSE mem.prev[q]
  BY <1>1, Link1Is
<1>7. /\ y \in Memory /\ SameBooks(x, y) /\ y.head = x.head /\ y.prev = x.prev
      /\ \A q \in Lists!Page : y.next[q] = IF q = b THEN x.head[k] ELSE x.next[q]
  BY <1>2, <1>6, Link2Is
<1>8. /\ z \in Memory /\ SameBooks(y, z) /\ z.head = y.head /\ z.next = y.next
      /\ \A q \in Lists!Page : z.prev[q] = IF q = y.head[k] THEN b ELSE y.prev[q]
  BY <1>3, <1>7, Link3Is
<1>9. /\ w \in Memory /\ SameBooks(z, w) /\ w.next = z.next /\ w.prev = z.prev
      /\ \A j \in Orders : w.head[j] = IF j = k THEN b ELSE z.head[j]
  BY <1>4, <1>8, Link4Is
<1>10. SameBooks(mem, w)
  BY <1>6, <1>7, <1>8, <1>9 DEF SameBooks
<1> QED
  BY <1>5, <1>6, <1>7, <1>8, <1>9, <1>10

LEMMA NullIs == ASSUME Small PROVE NULL \notin Lists!Page
BY PageFacts

LEMMA PageSeq ==
  ASSUME Small, NEW s \in Seq(Lists!Page)
  PROVE  /\ s \in Seq(Nat) /\ DOMAIN s = 1..Len(s) /\ Len(s) \in Nat
         /\ \A i \in 1..Len(s) : s[i] \in Lists!Page /\ s[i] \in Elems(s)
         /\ Elems(s) \subseteq Lists!Page
         /\ \A q \in Elems(s) : \E i \in 1..Len(s) : s[i] = q
<1>1. Lists!Page \subseteq Nat
  BY PageFacts
<1>2. /\ DOMAIN s = 1..Len(s) /\ Len(s) \in Nat
      /\ \A i \in 1..Len(s) : s[i] \in Lists!Page
  OBVIOUS
<1>3. s \in Seq(Nat)
  <2>1. PICK l \in Nat : l = Len(s)
    BY <1>2
  <2>2. s \in [1..l -> Lists!Page]
    BY <2>1
  <2>3. s \in [1..l -> Nat]
    BY <1>1, <2>2
  <2> QED
    BY <2>1, <2>3
<1> QED
  BY <1>2, <1>3 DEF Elems

LEMMA ShapeIs ==
  ASSUME Small, NEW mem, NEW L, Shape(mem, L), NEW k \in Orders
  PROVE  /\ L[k] \in Seq(Lists!Page) /\ OneEach(L[k]) /\ Chain(mem, k, L[k])
         /\ \A l \in Orders : l # k => Elems(L[k]) \cap Elems(L[l]) = {}
BY DEF Shape, Apart

\* What the pointers of an entry say.
LEMMA Neighbours ==
  ASSUME Small, NEW mem, NEW k \in Orders, NEW s \in Seq(Lists!Page), OneEach(s), Chain(mem, k, s),
         NEW n \in 1..Len(s)
  PROVE  /\ mem.prev[s[n]] = IF n = 1 THEN NULL ELSE s[n - 1]
         /\ mem.next[s[n]] = IF n = Len(s) THEN NULL ELSE s[n + 1]
         /\ n # 1 => n - 1 \in 1..Len(s)
         /\ n # Len(s) => n + 1 \in 1..Len(s)
         /\ mem.prev[s[n]] # s[n]
         /\ \A q : q = mem.prev[s[n]] => q = NULL \/ q \in Elems(s)
         /\ \A q : q = mem.next[s[n]] => q = NULL \/ q \in Elems(s)
<1>1. /\ Len(s) \in Nat /\ DOMAIN s = 1..Len(s)
      /\ \A i \in 1..Len(s) : s[i] \in Lists!Page /\ s[i] \in Elems(s)
  BY PageSeq
<1>2. /\ mem.prev[s[n]] = IF n = 1 THEN NULL ELSE s[n - 1]
      /\ mem.next[s[n]] = IF n = Len(s) THEN NULL ELSE s[n + 1]
  BY DEF Chain
<1>3. PICK l \in Nat : l = Len(s)
  BY <1>1
<1>4. n \in 1..l
  BY <1>3
<1>5. /\ n # 1 => n - 1 \in 1..l /\ n - 1 # n
      /\ n # l => n + 1 \in 1..l
  BY <1>3, <1>4
<1>6. mem.prev[s[n]] # s[n]
  <2>1. CASE n = 1
    BY <1>1, <1>2, <2>1, NullIs
  <2>2. CASE n # 1
    <3>1. n - 1 \in DOMAIN s /\ n \in DOMAIN s /\ n - 1 # n
      BY <1>1, <1>3, <1>5, <2>2
    <3> QED
      BY <1>2, <2>2, <3>1 DEF OneEach
  <2> QED
    BY <2>1, <2>2
<1> QED
  BY <1>1, <1>2, <1>3, <1>5, <1>6

\* An entry that is unlinked is out of its list, and the rest is as it was.
LEMMA UnlinkShape ==
  ASSUME Small, NEW mem \in Memory, NEW L, Shape(mem, L), NEW k \in Orders,
         NEW n \in 1..Len(L[k]), NEW t \in Seq(Lists!Page), Len(t) = Len(L[k]) - 1,
         \A i \in 1..Len(t) : t[i] = IF i < n THEN L[k][i] ELSE L[k][i + 1]
  PROVE  LET new == Lists!Unlink(mem, L[k][n], k)
         IN new \in Memory /\ SameBooks(mem, new) /\ Shape(new, [L EXCEPT ![k] = t])
<1>1. PICK s : s = L[k]
  OBVIOUS
<1>2. /\ s \in Seq(Lists!Page) /\ OneEach(s) /\ Chain(mem, k, s)
      /\ \A l \in Orders : l # k => Elems(s) \cap Elems(L[l]) = {}
  BY <1>1, ShapeIs
<1>3. /\ s \in Seq(Nat) /\ DOMAIN s = 1..Len(s) /\ Len(s) \in Nat
      /\ \A i \in 1..Len(s) : s[i] \in Lists!Page /\ s[i] \in Elems(s)
  BY <1>2, PageSeq
<1>4. /\ t \in Seq(Nat) /\ DOMAIN t = 1..Len(t) /\ Len(t) \in Nat
      /\ \A i \in 1..Len(t) : t[i] \in Lists!Page
  BY PageSeq
<1>5. /\ n \in 1..Len(s) /\ Len(t) = Len(s) - 1
      /\ \A i \in 1..Len(t) : t[i] = IF i < n THEN s[i] ELSE s[i + 1]
  BY <1>1
<1>6. PICK b : b = s[n]
  OBVIOUS
<1>7. b \in Lists!Page /\ b \in Elems(s)
  BY <1>3, <1>5, <1>6
<1>8. OneEach(t) /\ Elems(t) = Elems(s) \ {b}
  BY <1>2, <1>3, <1>4, <1>5, <1>6, Dropped
<1>9. PICK p, x : p = mem.prev[b] /\ x = mem.next[b]
  OBVIOUS
<1>10. /\ p = IF n = 1 THEN NULL ELSE s[n - 1]
       /\ x = IF n = Len(s) THEN NULL ELSE s[n + 1]
       /\ n # 1 => n - 1 \in 1..Len(s)
       /\ n # Len(s) => n + 1 \in 1..Len(s)
       /\ p # b
       /\ p = NULL \/ p \in Elems(s)
       /\ x = NULL \/ x \in Elems(s)
  BY <1>2, <1>5, <1>6, <1>9, Neighbours
<1>11. PICK new : new = Lists!Unlink(mem, b, k)
  OBVIOUS
<1>12. /\ new \in Memory /\ SameBooks(mem, new)
       /\ \A q \in Lists!Page :
            /\ new.next[q] = IF q = b THEN NULL ELSE IF q = p THEN x ELSE mem.next[q]
            /\ new.prev[q] = IF q = b THEN NULL ELSE IF q = x THEN p ELSE mem.prev[q]
       /\ \A j \in Orders : new.head[j] = IF j = k /\ p = NULL THEN x ELSE mem.head[j]
  <2>1. mem.prev[b] # b
    BY <1>9, <1>10
  <2> QED
    BY <1>7, <1>9, <1>11, <2>1, UnlinkIs
<1>13. PICK M : M = [L EXCEPT ![k] = t]
  OBVIOUS
<1>14. /\ L \in [Orders -> Seq(Lists!Page)] /\ M \in [Orders -> Seq(Lists!Page)]
       /\ M[k] = t /\ \A j \in Orders : j # k => M[j] = L[j]
  BY <1>13 DEF Shape
<1>15. Apart(M)
  <2>1. \A j \in Orders : OneEach(M[j]) /\ Elems(M[j]) \subseteq Elems(L[j])
    <3> SUFFICES ASSUME NEW j \in Orders PROVE OneEach(M[j]) /\ Elems(M[j]) \subseteq Elems(L[j])
      OBVIOUS
    <3>1. CASE j = k
      BY <1>1, <1>8, <1>14, <3>1
    <3>2. CASE j # k
      BY <1>14, <3>2, ShapeIs
    <3> QED
      BY <3>1, <3>2
  <2>2. \A i, j \in Orders : i # j => Elems(L[i]) \cap Elems(L[j]) = {}
    BY DEF Shape, Apart
  <2> QED
    BY <2>1, <2>2 DEF Apart
<1>16. ASSUME NEW j \in Orders, j # k PROVE Chain(new, j, M[j])
  <2>1. PICK u : u = L[j]
    OBVIOUS
  <2>2. u \in Seq(Lists!Page) /\ Chain(mem, j, u) /\ Elems(s) \cap Elems(u) = {} /\ M[j] = u
    BY <1>2, <1>14, <1>16, <2>1, ShapeIs
  <2>3. \A i \in 1..Len(u) : u[i] \in Lists!Page /\ u[i] \in Elems(u)
    BY <2>2, PageSeq
  <2>4. ASSUME NEW i \in 1..Len(u) PROVE u[i] # b /\ u[i] # p /\ u[i] # x
    <3>1. u[i] # NULL /\ u[i] \notin Elems(s)
      BY <2>2, <2>3, NullIs
    <3> QED
      BY <1>7, <1>10, <3>1
  <2>5. \A i \in 1..Len(u) : new.next[u[i]] = mem.next[u[i]] /\ new.prev[u[i]] = mem.prev[u[i]]
    BY <1>12, <2>3, <2>4
  <2>6. new.head[j] = mem.head[j]
    BY <1>12, <1>16
  <2> QED
    BY <2>2, <2>5, <2>6 DEF Chain
<1>17. Chain(new, k, t)
  <2>1. new.head[k] = IF t = <<>> THEN NULL ELSE t[1]
    <3>1. mem.head[k] = s[1]
      <4>1. s # <<>>
        BY <1>3, <1>5
      <4> QED
        BY <1>2, <4>1 DEF Chain
    <3>2. CASE n = 1
      <4>1. new.head[k] = x /\ x = IF Len(s) = 1 THEN NULL ELSE s[2]
        BY <1>10, <1>12, <3>2
      <4>2. CASE Len(s) = 1
        <5>1. t = <<>>
          BY <1>4, <1>5, <4>2
        <5> QED
          BY <4>1, <4>2, <5>1
      <4>3. CASE Len(s) # 1
        <5>1. 1 \in 1..Len(t) /\ t # <<>>
          BY <1>3, <1>4, <1>5, <4>3
        <5>2. t[1] = s[2]
          BY <1>5, <3>2, <5>1
        <5> QED
          BY <4>1, <4>3, <5>1, <5>2
      <4> QED
        BY <4>2, <4>3
    <3>3. CASE n # 1
      <4>1. 1 \in 1..Len(t) /\ t # <<>> /\ 1 < n
        BY <1>3, <1>4, <1>5, <3>3
      <4>2. t[1] = s[1]
        BY <1>5, <4>1
      <4>3. p \in Lists!Page
        BY <1>3, <1>10, <3>3
      <4>4. p # NULL
        BY <4>3, NullIs
      <4> QED
        BY <1>12, <3>1, <4>1, <4>2, <4>4
    <3> QED
      BY <3>2, <3>3
  <2>2. ASSUME NEW i \in 1..Len(t)
        PROVE  /\ new.next[t[i]] = IF i = Len(t) THEN NULL ELSE t[i + 1]
               /\ new.prev[t[i]] = IF i = 1 THEN NULL ELSE t[i - 1]
    <3>1. i \in Nat /\ i >= 1 /\ i <= Len(s) - 1 /\ n \in Nat /\ n >= 1 /\ n <= Len(s) /\ Len(s) \in Nat
      BY <1>3, <1>4, <1>5
    <3>2. PICK a \in 1..Len(s) : a = IF i < n THEN i ELSE i + 1
      BY <3>1
    <3>3. t[i] = s[a] /\ a # n
      BY <1>5, <3>1, <3>2
    <3>4. \A c \in 1..Len(s) : s[c] = s[a] => c = a
      BY <1>2, <1>3 DEF OneEach
    <3>5. s[a] \in Lists!Page /\ s[a] # NULL
      BY <1>3, NullIs
    <3>6. s[a] # b
      BY <1>5, <1>6, <3>3, <3>4
    <3>7. s[a] = p <=> n # 1 /\ a = n - 1
      BY <1>10, <3>4, <3>5
    <3>8. s[a] = x <=> n # Len(s) /\ a = n + 1
      BY <1>10, <3>4, <3>5
    <3>9. /\ mem.next[s[a]] = IF a = Len(s) THEN NULL ELSE s[a + 1]
          /\ mem.prev[s[a]] = IF a = 1 THEN NULL ELSE s[a - 1]
      BY <1>2 DEF Chain
    <3>10. new.next[t[i]] = IF i = Len(t) THEN NULL ELSE t[i + 1]
      <4>1. new.next[t[i]] = IF n # 1 /\ a = n - 1 THEN x ELSE mem.next[s[a]]
        BY <1>12, <3>3, <3>5, <3>6, <3>7
      <4>2. i # Len(t) => t[i + 1] = IF i + 1 < n THEN s[i + 1] ELSE s[(i + 1) + 1]
        <5>1. i # Len(t) => i + 1 \in 1..Len(t)
          BY <1>4, <3>1
        <5> QED
          BY <1>5, <5>1
      <4>3. CASE n # 1 /\ a = n - 1
        <5>1. i = n - 1 /\ i < n /\ i + 1 = n /\ (i + 1) + 1 = n + 1 /\ ~(i + 1 < n)
          BY <3>1, <3>2, <4>3
        <5>2. i = Len(t) <=> n = Len(s)
          BY <1>5, <3>1, <5>1
        <5> QED
          BY <1>10, <4>1, <4>2, <4>3, <5>1, <5>2
      <4>4. CASE ~(n # 1 /\ a = n - 1) /\ i < n
        <5>1. a = i /\ i + 1 < n
          BY <3>1, <3>2, <4>4
        <5>2. i # Len(t) /\ a # Len(s)
          BY <1>5, <3>1, <5>1
        <5> QED
          BY <3>9, <4>1, <4>2, <4>4, <5>1, <5>2
      <4>5. CASE ~(n # 1 /\ a = n - 1) /\ ~(i < n)
        <5>1. a = i + 1 /\ ~(i + 1 < n)
          BY <3>1, <3>2, <4>5
        <5>2. i = Len(t) <=> a = Len(s)
          BY <1>5, <3>1, <5>1
        <5> QED
          BY <3>9, <4>1, <4>2, <4>5, <5>1, <5>2
      <4> QED
        BY <4>3, <4>4, <4>5
    <3>11. new.prev[t[i]] = IF i = 1 THEN NULL ELSE t[i - 1]
      <4>1. new.prev[t[i]] = IF n # Len(s) /\ a = n + 1 THEN p ELSE mem.prev[s[a]]
        BY <1>12, <3>3, <3>5, <3>6, <3>8
      <4>2. i # 1 => t[i - 1] = IF i - 1 < n THEN s[i - 1] ELSE s[(i - 1) + 1]
        <5>1. i # 1 => i - 1 \in 1..Len(t)
          BY <1>4, <3>1
        <5> QED
          BY <1>5, <5>1
      <4>3. CASE n # Len(s) /\ a = n + 1
        <5>1. i = n /\ i - 1 = n - 1 /\ i - 1 < n
          BY <3>1, <3>2, <4>3
        <5> QED
          BY <1>10, <4>1, <4>2, <4>3, <5>1
      <4>4. CASE ~(n # Len(s) /\ a = n + 1) /\ i < n
        <5>1. a = i /\ i - 1 < n
          BY <3>1, <3>2, <4>4
        <5> QED
          BY <3>9, <4>1, <4>2, <4>4, <5>1
      <4>5. CASE ~(n # Len(s) /\ a = n + 1) /\ ~(i < n)
        <5>1. a = i + 1 /\ i # n /\ ~(i - 1 < n) /\ i # 1 /\ a # 1 /\ a - 1 = i /\ (i - 1) + 1 = i
          BY <3>1, <3>2, <4>5
        <5> QED
          BY <3>9, <4>1, <4>2, <4>5, <5>1
      <4> QED
        BY <4>3, <4>4, <4>5
    <3> QED
      BY <3>10, <3>11
  <2> QED
    BY <2>1, <2>2 DEF Chain
<1>18. \A j \in Orders : Chain(new, j, M[j])
  BY <1>14, <1>16, <1>17
<1>19. Shape(new, M)
  BY <1>14, <1>15, <1>18 DEF Shape
<1> QED
  BY <1>1, <1>6, <1>11, <1>12, <1>13, <1>19

\* A page that is linked is the first of its list.
LEMMA LinkShape ==
  ASSUME Small, NEW mem \in Memory, NEW L, Shape(mem, L), NEW k \in Orders, NEW b \in Lists!Page,
         \A j \in Orders : b \notin Elems(L[j])
  PROVE  LET new == Lists!Link(mem, b, k)
         IN new \in Memory /\ SameBooks(mem, new) /\ Shape(new, [L EXCEPT ![k] = <<b>> \o L[k]])
<1>1. PICK s, t : s = L[k] /\ t = <<b>> \o s
  OBVIOUS
<1>2. /\ s \in Seq(Lists!Page) /\ OneEach(s) /\ Chain(mem, k, s)
      /\ \A l \in Orders : l # k => Elems(s) \cap Elems(L[l]) = {}
  BY <1>1, ShapeIs
<1>3. /\ s \in Seq(Nat) /\ DOMAIN s = 1..Len(s) /\ Len(s) \in Nat
      /\ \A i \in 1..Len(s) : s[i] \in Lists!Page /\ s[i] \in Elems(s)
  BY <1>2, PageSeq
<1>4. /\ t \in Seq(Lists!Page) /\ Len(t) = Len(s) + 1 /\ t[1] = b
      /\ \A i \in 1..Len(s) : t[i + 1] = s[i]
  BY <1>1, <1>2
<1>5. /\ b \notin Elems(s) /\ \A i \in 1..Len(s) : s[i] # b
  BY <1>1, <1>3
<1>6. OneEach(t) /\ Elems(t) = {b} \cup Elems(s)
  <2>1. b \in Nat
    BY PageFacts
  <2> QED
    BY <1>1, <1>2, <1>3, <1>5, <2>1, Consed
<1>7. PICK new, h : new = Lists!Link(mem, b, k) /\ h = mem.head[k]
  OBVIOUS
<1>8. /\ new \in Memory /\ SameBooks(mem, new)
      /\ \A q \in Lists!Page :
           /\ new.next[q] = IF q = b THEN h ELSE mem.next[q]
           /\ new.prev[q] = IF q = h THEN b ELSE IF q = b THEN NULL ELSE mem.prev[q]
      /\ \A j \in Orders : new.head[j] = IF j = k THEN b ELSE mem.head[j]
  BY <1>7, LinkIs
<1>9. h = IF s = <<>> THEN NULL ELSE s[1]
  BY <1>2, <1>7 DEF Chain
<1>10. h # b /\ (h = NULL \/ h \in Elems(s)) /\ (s = <<>> <=> Len(s) = 0)
  <2>1. s = <<>> <=> Len(s) = 0
    BY <1>2
  <2>2. s # <<>> => 1 \in 1..Len(s)
    BY <1>3, <2>1
  <2> QED
    BY <1>3, <1>5, <1>9, <2>1, <2>2, NullIs
<1>11. PICK M : M = [L EXCEPT ![k] = t]
  OBVIOUS
<1>12. /\ L \in [Orders -> Seq(Lists!Page)] /\ M \in [Orders -> Seq(Lists!Page)]
       /\ M[k] = t /\ \A j \in Orders : j # k => M[j] = L[j]
  BY <1>4, <1>11 DEF Shape
<1>13. Apart(M)
  <2>1. \A j \in Orders : OneEach(M[j]) /\ Elems(M[j]) \subseteq Elems(L[j]) \cup (IF j = k THEN {b} ELSE {})
    <3> SUFFICES ASSUME NEW j \in Orders
                 PROVE  OneEach(M[j]) /\ Elems(M[j]) \subseteq Elems(L[j]) \cup (IF j = k THEN {b} ELSE {})
      OBVIOUS
    <3>1. CASE j = k
      BY <1>1, <1>6, <1>12, <3>1
    <3>2. CASE j # k
      BY <1>12, <3>2, ShapeIs
    <3> QED
      BY <3>1, <3>2
  <2>2. \A i, j \in Orders : i # j => Elems(L[i]) \cap Elems(L[j]) = {}
    BY DEF Shape, Apart
  <2>3. ASSUME NEW i \in Orders, NEW j \in Orders, i # j PROVE Elems(M[i]) \cap Elems(M[j]) = {}
    <3>1. Elems(L[i]) \cap Elems(L[j]) = {} /\ b \notin Elems(L[i]) /\ b \notin Elems(L[j])
      BY <2>2, <2>3
    <3> QED
      BY <2>1, <2>3, <3>1
  <2> QED
    BY <2>1, <2>3 DEF Apart
<1>14. ASSUME NEW j \in Orders, j # k PROVE Chain(new, j, M[j])
  <2>1. PICK u : u = L[j]
    OBVIOUS
  <2>2. u \in Seq(Lists!Page) /\ Chain(mem, j, u) /\ Elems(s) \cap Elems(u) = {} /\ M[j] = u
    BY <1>2, <1>12, <1>14, <2>1, ShapeIs
  <2>3. \A i \in 1..Len(u) : u[i] \in Lists!Page /\ u[i] \in Elems(u)
    BY <2>2, PageSeq
  <2>4. ASSUME NEW i \in 1..Len(u) PROVE u[i] # b /\ u[i] # h
    <3>1. u[i] # NULL /\ u[i] \notin Elems(s) /\ b \notin Elems(u)
      BY <2>1, <2>2, <2>3, NullIs
    <3> QED
      BY <1>10, <2>3, <3>1
  <2>5. \A i \in 1..Len(u) : new.next[u[i]] = mem.next[u[i]] /\ new.prev[u[i]] = mem.prev[u[i]]
    BY <1>8, <2>3, <2>4
  <2>6. new.head[j] = mem.head[j]
    BY <1>8, <1>14
  <2> QED
    BY <2>2, <2>5, <2>6 DEF Chain
<1>15. Chain(new, k, t)
  <2>1. new.head[k] = t[1] /\ t # <<>>
    BY <1>1, <1>4, <1>8
  <2>2. new.next[b] = h /\ new.prev[b] = NULL
    BY <1>8, <1>10
  <2>3. h = IF 1 = Len(t) THEN NULL ELSE t[1 + 1]
    <3>1. CASE s = <<>>
      BY <1>4, <1>9, <1>10, <3>1
    <3>2. CASE s # <<>>
      <4>1. 1 \in 1..Len(s) /\ 1 # Len(t)
        BY <1>3, <1>4, <1>10, <3>2
      <4> QED
        BY <1>4, <1>9, <3>2, <4>1
    <3> QED
      BY <3>1, <3>2
  <2>4. ASSUME NEW i \in 1..Len(s)
        PROVE  /\ new.next[s[i]] = IF i + 1 = Len(t) THEN NULL ELSE t[(i + 1) + 1]
               /\ new.prev[s[i]] = t[i]
    <3>1. s[i] \in Lists!Page /\ s[i] # b
      BY <1>3, <1>5
    <3>2. /\ mem.next[s[i]] = IF i = Len(s) THEN NULL ELSE s[i + 1]
          /\ mem.prev[s[i]] = IF i = 1 THEN NULL ELSE s[i - 1]
      BY <1>2 DEF Chain
    <3>3. new.next[s[i]] = IF i + 1 = Len(t) THEN NULL ELSE t[(i + 1) + 1]
      <4>0. PICK l \in Nat : l = Len(s) /\ i \in 1..l /\ Len(t) = l + 1
        BY <1>3, <1>4
      <4>1. i + 1 = Len(t) <=> i = Len(s)
        BY <4>0
      <4>2. i # Len(s) => i + 1 \in 1..Len(s)
        <5>1. i # l => i + 1 \in 1..l
          BY <4>0
        <5> QED
          BY <4>0, <5>1
      <4> QED
        BY <1>4, <1>8, <3>1, <3>2, <4>1, <4>2
    <3>4. new.prev[s[i]] = t[i]
      <4>1. CASE i = 1
        <5>1. s # <<>> /\ h = s[i]
          BY <1>3, <1>9, <1>10, <4>1
        <5> QED
          BY <1>4, <1>8, <3>1, <4>1, <5>1
      <4>2. CASE i # 1
        <5>1. i - 1 \in 1..Len(s) /\ (i - 1) + 1 = i
          BY <1>3, <4>2
        <5>2. t[i] = s[i - 1]
          BY <1>4, <5>1
        <5>3. s[i] # h
          <6>1. 1 \in 1..Len(s) /\ s # <<>>
            BY <1>3, <1>10
          <6>2. s[1] # s[i]
            BY <1>2, <1>3, <4>2, <6>1 DEF OneEach
          <6> QED
            BY <1>9, <6>1, <6>2
        <5> QED
          BY <1>8, <3>1, <3>2, <4>2, <5>2, <5>3
      <4> QED
        BY <4>1, <4>2
    <3> QED
      BY <3>3, <3>4
  <2>5. ASSUME NEW i \in 1..Len(t)
        PROVE  /\ new.next[t[i]] = IF i = Len(t) THEN NULL ELSE t[i + 1]
               /\ new.prev[t[i]] = IF i = 1 THEN NULL ELSE t[i - 1]
    <3>1. CASE i = 1
      BY <1>4, <2>2, <2>3, <3>1
    <3>2. CASE i # 1
      <4>1. PICK c \in 1..Len(s) : i = c + 1 /\ i - 1 = c
        <5>1. i - 1 \in 1..Len(s) /\ i = (i - 1) + 1
          BY <1>3, <1>4, <3>2
        <5> QED
          BY <5>1
      <4>2. t[i] = s[c]
        BY <1>4, <4>1
      <4> QED
        BY <2>4, <3>2, <4>1, <4>2
    <3> QED
      BY <3>1, <3>2
  <2> QED
    BY <2>1, <2>5 DEF Chain
<1>16. \A j \in Orders : Chain(new, j, M[j])
  BY <1>12, <1>14, <1>15
<1>17. Shape(new, M)
  BY <1>12, <1>13, <1>16 DEF Shape
<1> QED
  BY <1>1, <1>7, <1>8, <1>11, <1>17

\* What is not made of pointers does not matter to the lists.
LEMMA ShapeStays ==
  ASSUME NEW mem, NEW new, NEW L, Shape(mem, L),
         new.head = mem.head, new.next = mem.next, new.prev = mem.prev
  PROVE  Shape(new, L)
BY DEF Shape, Chain

\* Walk() goes from entry to entry, and ends where the list ends.
Places == [left : 0..ListPages, page : 0..(ListPages - 1) \cup {NULL}]

LEMMA PlaceFacts ==
  ASSUME Small
  PROVE  /\ \A x \in Places : /\ x.left \in 0..ListPages /\ x.left \in Nat /\ x.left <= ListPages
                               /\ x.page \in Pointer
         /\ \A l \in 0..ListPages, p \in Pointer :
              LET x == [left |-> l, page |-> p] IN x \in Places /\ x.left = l /\ x.page = p
<1>1. ListPages \in Nat /\ Pointer = 0..(ListPages - 1) \cup {NULL}
  BY PageFacts DEF Pointer
<1>2. Places = [left : 0..ListPages, page : Pointer]
  BY <1>1 DEF Places
<1>3. \A x \in 0..ListPages : x \in Nat /\ x <= ListPages
  BY <1>1
<1> QED
  BY <1>2, <1>3

LEMMA PlaceOrder ==
  ASSUME Small, NEW n \in Nat, NEW x \in Places
  PROVE  /\ ~(x.left < 0)
         /\ x.left < n => x.left <= n - 1
         /\ x.left <= n /\ x.left # n => x.left < n
         /\ \A y \in Places : y.left < x.left /\ x.left <= n => y.left # n
<1>1. PICK l \in Nat : l = x.left
  BY PlaceFacts
<1>2. ASSUME NEW y \in Places, y.left < x.left, x.left <= n PROVE y.left # n
  BY <1>1, <1>2
<1> QED
  BY <1>1, <1>2

LEMMA WalkRule ==
  ASSUME Small, NEW mem \in Memory
  PROVE  \E w : /\ \A p : Lists!Walk(mem, p) = w[[left |-> ListPages, page |-> p]]
                /\ \A x \in Places :
                     w[x] = IF x.left = 0 \/ x.page = NULL THEN <<>>
                            ELSE <<x.page>> \o w[[left |-> x.left - 1, page |-> mem.next[x.page]]]
<1> DEFINE On(x)      == [left |-> x.left - 1, page |-> mem.next[x.page]]
           Rule(f, x) == IF x.left = 0 \/ x.page = NULL THEN <<>> ELSE <<x.page>> \o f[On(x)]
           walk       == CHOOSE f : f = [x \in Places |-> Rule(f, x)]
           Good(f, n) == \A x \in Places : x.left <= n => f[x] = Rule(f, x)
           T          == {n \in Nat : n <= ListPages /\ ~\E f : Good(f, n)}
<1>1. \A p : Lists!Walk(mem, p) = walk[[left |-> ListPages, page |-> p]]
  BY DEF Lists!Walk, Places
<1>2. ASSUME NEW x \in Places, ~(x.left = 0 \/ x.page = NULL)
      PROVE  On(x) \in Places /\ On(x).left = x.left - 1 /\ On(x).left < x.left
  <2>1. x.left \in 0..ListPages /\ x.page \in Pointer
    BY PlaceFacts
  <2>2. x.page \in Lists!Page
    BY <1>2, <2>1 DEF Pointer
  <2>3. mem.next[x.page] \in Pointer
    BY <2>2, MemoryIs
  <2>4. x.left - 1 \in 0..ListPages /\ x.left - 1 < x.left
    BY <1>2, <2>1, PageFacts
  <2> QED
    BY <2>3, <2>4, PlaceFacts
<1> HIDE DEF On
<1>3. ASSUME T # {} PROVE FALSE
  <2>1. T \subseteq Nat
    OBVIOUS
  <2>2. PICK n \in T : \A m \in T : n <= m
    BY <1>3, <2>1, NatHasMin
  <2>3. n \in Nat /\ n <= ListPages /\ ~\E f : Good(f, n)
    BY <2>2
  <2>4. PICK f : \A x \in Places : x.left < n => f[x] = Rule(f, x)
    <3>1. CASE n = 0
      <4>1. \A x \in Places : ~(x.left < 0)
        BY PlaceOrder
      <4> QED
        BY <3>1, <4>1
    <3>2. CASE n # 0
      <4>1. n - 1 \in Nat /\ n - 1 <= ListPages /\ ~(n <= n - 1)
        BY <2>3, <3>2, PageFacts
      <4>2. PICK f : Good(f, n - 1)
        BY <2>2, <4>1
      <4>3. \A x \in Places : x.left < n => x.left <= n - 1
        BY <2>3, PlaceOrder
      <4> QED
        BY <4>2, <4>3
    <3> QED
      BY <3>1, <3>2
  <2> DEFINE g == [x \in Places |-> IF x.left = n THEN Rule(f, x) ELSE f[x]]
  <2>5. \A x \in Places : g[x] = IF x.left = n THEN Rule(f, x) ELSE f[x]
    OBVIOUS
  <2> HIDE DEF g
  <2>6. ASSUME NEW x \in Places, x.left <= n PROVE g[x] = Rule(g, x)
    <3>1. Rule(g, x) = Rule(f, x)
      <4>1. CASE x.left = 0 \/ x.page = NULL
        BY <4>1
      <4>2. CASE ~(x.left = 0 \/ x.page = NULL)
        <5>1. On(x) \in Places /\ On(x).left < x.left /\ x.left \in 0..ListPages
          BY <1>2, <4>2, PlaceFacts
        <5>3. On(x).left # n
          BY <2>3, <2>6, <5>1, PlaceOrder
        <5>4. g[On(x)] = f[On(x)]
          BY <2>5, <5>1, <5>3
        <5> QED
          BY <5>4
      <4> QED
        BY <4>1, <4>2
    <3>2. CASE x.left = n
      BY <2>5, <3>1, <3>2
    <3>3. CASE x.left # n
      <4>1. x.left < n
        BY <2>3, <2>6, <3>3, PlaceOrder
      <4> QED
        BY <2>4, <2>5, <3>1, <3>3, <4>1
    <3> QED
      BY <3>2, <3>3
  <2>7. Good(g, n)
    BY <2>6
  <2> QED
    BY <2>3, <2>7
<1>4. PICK f : Good(f, ListPages)
  <2>1. ListPages \in Nat /\ ListPages <= ListPages /\ ListPages \notin T
    BY <1>3, PageFacts
  <2> HIDE DEF Good
  <2> QED
    BY <2>1
<1>5. ASSUME NEW x \in Places PROVE f[x] = Rule(f, x)
  <2>1. x.left <= ListPages
    BY PlaceFacts, PageFacts
  <2> QED
    BY <1>4, <2>1
<1> DEFINE h == [x \in Places |-> f[x]]
<1>6. h = [x \in Places |-> Rule(h, x)]
  <2> SUFFICES ASSUME NEW x \in Places PROVE h[x] = Rule(h, x)
    OBVIOUS
  <2>1. ~(x.left = 0 \/ x.page = NULL) => On(x) \in Places
    BY <1>2
  <2> QED
    BY <1>5, <2>1
<1> HIDE DEF h
<1>7. walk = [x \in Places |-> Rule(walk, x)]
  BY <1>6
<1> HIDE DEF walk
<1>8. \A x \in Places : walk[x] = Rule(walk, x)
  BY <1>7
<1> QED
  BY <1>1, <1>8 DEF On

\* Whatever the pointers are, it finds pages.
LEMMA WalkFindsPages ==
  ASSUME Small, NEW mem \in Memory, NEW p \in Pointer
  PROVE  Lists!Walk(mem, p) \in Seq(Lists!Page)
<1>1. PICK w : /\ \A q : Lists!Walk(mem, q) = w[[left |-> ListPages, page |-> q]]
               /\ \A x \in Places :
                    w[x] = IF x.left = 0 \/ x.page = NULL THEN <<>>
                           ELSE <<x.page>> \o w[[left |-> x.left - 1, page |-> mem.next[x.page]]]
  BY WalkRule
<1> DEFINE Good(n) == \A q \in Pointer : w[[left |-> n, page |-> q]] \in Seq(Lists!Page)
           T == {n \in Nat : n <= ListPages /\ ~Good(n)}
<1>2. ASSUME T # {} PROVE FALSE
  <2>1. PICK n \in T : \A m \in T : n <= m
    BY <1>2, NatHasMin
  <2>2. n \in 0..ListPages /\ n \in Nat
    BY <2>1, PageFacts
  <2>3. ASSUME NEW q \in Pointer PROVE w[[left |-> n, page |-> q]] \in Seq(Lists!Page)
    <3> DEFINE x == [left |-> n, page |-> q]
    <3>1. x \in Places /\ x.left = n /\ x.page = q
      BY <2>2, PlaceFacts
    <3> HIDE DEF x
    <3>2. CASE n = 0 \/ q = NULL
      <4>1. w[x] = <<>>
        BY <1>1, <3>1, <3>2
      <4> QED
        BY <4>1 DEF x
    <3>3. CASE ~(n = 0 \/ q = NULL)
      <4>1. q \in Lists!Page
        BY <3>3 DEF Pointer
      <4>2. mem.next[q] \in Pointer
        BY <4>1, MemoryIs
      <4>3. n - 1 \in Nat /\ n - 1 <= ListPages /\ ~(n <= n - 1)
        BY <2>2, <3>3, PageFacts
      <4>4. n - 1 \notin T
        BY <2>1, <4>3
      <4>5. PICK s : s = w[[left |-> n - 1, page |-> mem.next[q]]]
        OBVIOUS
      <4>6. s \in Seq(Lists!Page)
        BY <4>2, <4>3, <4>4, <4>5
      <4>7. w[x] = <<q>> \o s
        BY <1>1, <3>1, <3>3, <4>5
      <4>8. <<q>> \o s \in Seq(Lists!Page)
        BY <4>1, <4>6
      <4> QED
        BY <4>7, <4>8 DEF x
    <3> QED
      BY <3>2, <3>3
  <2> QED
    BY <2>1, <2>3
<1>3. ListPages \in Nat /\ ListPages \notin T
  BY <1>2, PageFacts
<1>4. w[[left |-> ListPages, page |-> p]] \in Seq(Lists!Page)
  BY <1>3
<1> QED
  BY <1>1, <1>4

\* A list is not longer than there are pages.
LEMMA ListIsShort ==
  ASSUME Small, NEW s \in Seq(Lists!Page), OneEach(s)
  PROVE  Len(s) <= ListPages
<1>1. s \in Seq(Nat) /\ Elems(s) \subseteq Lists!Page /\ Len(s) \in Nat
  BY PageSeq
<1>2. Cardinality(Elems(s)) = Len(s)
  BY <1>1, CountElems
<1>3. IsFiniteSet(Lists!Page) /\ Cardinality(Lists!Page) = ListPages
  <2>1. PICK n \in Nat : n = ListPages /\ Lists!Page = 0..(n - 1)
    BY PageFacts
  <2>2. 0 \in Int /\ n - 1 \in Int
    BY <2>1
  <2>3. IsFiniteSet(0..(n - 1)) /\ Cardinality(0..(n - 1)) = IF 0 > n - 1 THEN 0 ELSE (n - 1) - 0 + 1
    BY <2>2, FS_Interval
  <2>4. (IF 0 > n - 1 THEN 0 ELSE (n - 1) - 0 + 1) = n
    BY <2>1
  <2> QED
    BY <2>1, <2>3, <2>4
<1>4. Cardinality(Elems(s)) <= Cardinality(Lists!Page)
  BY <1>1, <1>3, FS_Subset
<1> QED
  BY <1>2, <1>3, <1>4

LEMMA WalkIs ==
  ASSUME Small, NEW mem \in Memory, NEW k \in Orders, NEW s \in Seq(Lists!Page), OneEach(s),
         Chain(mem, k, s)
  PROVE  Lists!Walk(mem, mem.head[k]) = s
<1>1. PICK w : /\ \A q : Lists!Walk(mem, q) = w[[left |-> ListPages, page |-> q]]
               /\ \A x \in Places :
                    w[x] = IF x.left = 0 \/ x.page = NULL THEN <<>>
                           ELSE <<x.page>> \o w[[left |-> x.left - 1, page |-> mem.next[x.page]]]
  BY WalkRule
<1>2. ASSUME NEW l \in 0..ListPages, NEW q \in Pointer
      PROVE  w[[left |-> l, page |-> q]] =
               IF l = 0 \/ q = NULL THEN <<>> ELSE <<q>> \o w[[left |-> l - 1, page |-> mem.next[q]]]
  <2>1. PICK x \in Places : x = [left |-> l, page |-> q] /\ x.left = l /\ x.page = q
    BY PlaceFacts
  <2> QED
    BY <1>1, <2>1
<1>3. /\ DOMAIN s = 1..Len(s) /\ Len(s) \in Nat /\ Len(s) <= ListPages
      /\ \A i \in 1..Len(s) : s[i] \in Lists!Page /\ s[i] \in Pointer /\ s[i] # NULL
  BY PageSeq, ListIsShort, NullIs DEF Pointer
<1>4. NULL \in Pointer
  BY DEF Pointer
<1>5. PICK z \in Nat : z = Len(s)
  BY <1>3
\* What is left of s from its entry z - d on.
<1> DEFINE Behind(d) == [x \in 1..(d + 1) |-> s[z - d - 1 + x]]
           Good(d) == \A l \in 0..ListPages : l > d => w[[left |-> l, page |-> s[z - d]]] = Behind(d)
           T == {d \in Nat : d < z /\ ~Good(d)}
<1>6. ASSUME T # {} PROVE FALSE
  <2>1. PICK d \in T : \A m \in T : d <= m
    BY <1>6, NatHasMin
  <2>2. d \in Nat /\ d < z /\ z - d \in 1..z
    BY <2>1
  <2>3. ASSUME NEW l \in 0..ListPages, l > d PROVE w[[left |-> l, page |-> s[z - d]]] = Behind(d)
    <3>1. PICK q : q = s[z - d]
      OBVIOUS
    <3>2. q \in Pointer /\ q # NULL
      BY <1>3, <1>5, <2>2, <3>1
    <3>3. l - 1 \in 0..ListPages /\ l # 0
      BY <2>2, <2>3, PageFacts
    <3>4. w[[left |-> l, page |-> q]] = <<q>> \o w[[left |-> l - 1, page |-> mem.next[q]]]
      BY <1>2, <3>2, <3>3
    <3>5. mem.next[q] = IF z - d = z THEN NULL ELSE s[(z - d) + 1]
      BY <1>5, <2>2, <3>1 DEF Chain
    <3>6. CASE d = 0
      <4>1. mem.next[q] = NULL
        BY <2>2, <3>5, <3>6
      <4>2. w[[left |-> l - 1, page |-> NULL]] = <<>>
        BY <1>2, <1>4, <3>3
      <4>3. <<q>> \o <<>> = Behind(0)
        <5>1. <<q>> \o <<>> = [x \in 1..1 |-> q]
          OBVIOUS
        <5>2. \A x \in 1..1 : z - 0 - 1 + x = z - 0
          OBVIOUS
        <5> QED
          BY <3>1, <3>6, <5>1, <5>2
      <4> QED
        BY <3>1, <3>4, <3>6, <4>1, <4>2, <4>3
    <3>7. CASE d # 0
      <4>1. d - 1 \in Nat /\ d - 1 < z /\ ~(d <= d - 1) /\ (z - d) + 1 = z - (d - 1) /\ z - d # z
        BY <2>2, <3>7
      <4>2. Good(d - 1)
        BY <2>1, <4>1
      <4>3. l - 1 > d - 1
        BY <2>2, <2>3
      <4>4. w[[left |-> l - 1, page |-> s[z - (d - 1)]]] = Behind(d - 1)
        BY <3>3, <4>2, <4>3
      <4>5. mem.next[q] = s[z - (d - 1)]
        BY <3>5, <4>1
      <4>6. <<q>> \o Behind(d - 1) = Behind(d)
        <5>1. PICK r : r = Behind(d - 1)
          OBVIOUS
        <5>2. /\ \A x \in 1..d : z - (d - 1) - 1 + x \in 1..z /\ z - (d - 1) - 1 + x = z - d + x
              /\ (d - 1) + 1 = d
          BY <2>2, <4>1
        <5>3. r = [x \in 1..d |-> s[z - d + x]]
          BY <5>1, <5>2
        <5>4. \A x \in 1..d : s[z - d + x] \in Lists!Page
          BY <1>3, <1>5, <5>2
        <5>5. r \in Seq(Lists!Page) /\ Len(r) = d /\ \A x \in 1..d : r[x] = s[z - d + x]
          <6>1. r \in [1..d -> Lists!Page] /\ \A x \in 1..d : r[x] = s[z - d + x]
            BY <5>3, <5>4
          <6>2. DOMAIN r = 1..d /\ d \in Nat
            BY <2>2, <6>1
          <6>3. r \in Seq(Lists!Page)
            BY <6>1, <6>2
          <6>4. Len(r) = d
            BY <6>2, <6>3
          <6> QED
            BY <6>1, <6>3, <6>4
        <5>6. PICK u : u = <<q>> \o r
          OBVIOUS
        <5>7. /\ u \in Seq(Lists!Page) /\ Len(u) = d + 1 /\ u[1] = q
              /\ \A x \in 2..(d + 1) : u[x] = r[x - 1]
          <6>1. q \in Lists!Page
            BY <3>2 DEF Pointer
          <6> QED
            BY <2>2, <5>5, <5>6, <6>1
        <5>8. \A x \in 1..(d + 1) : u[x] = s[z - d - 1 + x]
          <6> SUFFICES ASSUME NEW x \in 1..(d + 1) PROVE u[x] = s[z - d - 1 + x]
            OBVIOUS
          <6>1. CASE x = 1
            <7>1. z - d - 1 + x = z - d
              BY <2>2, <6>1
            <7> QED
              BY <3>1, <5>7, <6>1, <7>1
          <6>2. CASE x # 1
            <7>1. x \in 2..(d + 1) /\ x - 1 \in 1..d /\ z - d + (x - 1) = z - d - 1 + x
              <8>2. x \in Nat /\ x >= 2 /\ x <= d + 1
                BY <2>2, <6>2
              <8> QED
                BY <1>5, <2>2, <8>2
            <7> QED
              BY <5>5, <5>7, <7>1
          <6> QED
            BY <6>1, <6>2
        <5>9. u = [x \in 1..(d + 1) |-> u[x]]
          BY <5>7
        <5> QED
          BY <5>1, <5>6, <5>8, <5>9
      <4> QED
        BY <3>1, <3>4, <4>4, <4>5, <4>6
    <3> QED
      BY <3>6, <3>7
  <2> QED
    BY <2>1, <2>3
<1>7. mem.head[k] = IF s = <<>> THEN NULL ELSE s[1]
  BY DEF Chain
<1>8. CASE s = <<>>
  <2>1. ListPages \in 0..ListPages
    BY PageFacts
  <2> QED
    BY <1>1, <1>2, <1>4, <1>7, <1>8, <2>1
<1>9. CASE s # <<>>
  <2>1. z > 0
    BY <1>5, <1>9
  <2>2. z - 1 \in Nat /\ z - 1 < z /\ ListPages \in 0..ListPages /\ ListPages > z - 1
        /\ z - (z - 1) = 1
    BY <1>3, <1>5, <2>1, PageFacts
  <2>3. Good(z - 1)
    BY <1>6, <2>2
  <2>4. w[[left |-> ListPages, page |-> s[1]]] = Behind(z - 1)
    BY <2>2, <2>3
  <2>5. Behind(z - 1) = s
    <3>1. (z - 1) + 1 = z /\ \A x \in 1..z : z - (z - 1) - 1 + x = x
      BY <2>1
    <3>2. s = [x \in 1..z |-> s[x]]
      BY <1>3, <1>5
    <3> QED
      BY <3>1, <3>2
  <2> QED
    BY <1>1, <1>7, <1>9, <2>4, <2>5
<1> QED
  BY <1>8, <1>9

LEMMA ListedIs ==
  ASSUME Small, NEW mem \in Memory, NEW k \in Orders
  PROVE  /\ \A b : Lists!Listed(mem, b, k) => b \in Lists!Page
         /\ \A L : Shape(mem, L) => /\ Lists!Walk(mem, mem.head[k]) = L[k]
                                    /\ \A b : Lists!Listed(mem, b, k) <=> b \in Elems(L[k])
<1>1. PICK s : s = Lists!Walk(mem, mem.head[k])
  OBVIOUS
<1>2. \A b : Lists!Listed(mem, b, k) <=> \E i \in DOMAIN s : s[i] = b
  BY <1>1 DEF Lists!Listed
<1>3. \A b : Lists!Listed(mem, b, k) <=> b \in Elems(s)
  BY <1>2 DEF Elems
<1>4. s \in Seq(Lists!Page)
  BY <1>1, WalkFindsPages, MemoryIs
<1>5. Elems(s) \subseteq Lists!Page
  BY <1>4, PageSeq
<1>6. ASSUME NEW L, Shape(mem, L) PROVE s = L[k]
  BY <1>1, <1>6, ShapeIs, WalkIs
<1> QED
  BY <1>1, <1>3, <1>5, <1>6
=============================================================================
