----------------------------- MODULE ListProofs -----------------------------
(***************************************************************************)
(* Proofs about the linked free lists of the page allocator, statement by  *)
(* statement, when the keyboard interrupts between the calls (BuddyIrq,    *)
(* here Lists), for any largest order from 1 to 10 and any region of whole *)
(* blocks that the bitmap has room for.  Interrupts inside a call are      *)
(* model-checked only (MCMemory's Interrupted).                            *)
(*                                                                         *)
(* First the books that go with the lists, and the two whole calls for a   *)
(* page, which is what the interrupt handler makes.  The invariant says    *)
(* where the interrupted caller stands, and that memory is what its call   *)
(* has made so far of a memory between two calls.  From it follows that    *)
(* the handler leaves no trace, and that a call, when it returns, has done *)
(* what Buddy says.                                                        *)
(***************************************************************************)
EXTENDS MemoryProofs

-----------------------------------------------------------------------------
(***************************************************************************)
(* The books that go with the lists.                                       *)
(***************************************************************************)
\* Free blocks have no page in common, and their pages are not marked.
Tidy(mem, L) ==
  /\ mem \in Memory /\ ~mem.halted
  /\ Shape(mem, L)
  /\ Disjoint(FreeOf(L))
  /\ PagesOf(FreeOf(L)) \subseteq Lists!Page \ ({0} \cup mem.bits)

\* B are the pages that callers hold.
Booked(mem, B, L) ==
  /\ Tidy(mem, L)
  /\ B \subseteq Lists!Page \ {0}
  /\ mem.bits = {0} \cup B
  /\ mem.allocated_pages = Cardinality(B)
  /\ mem.free_pages = Cardinality(PagesOf(FreeOf(L)))

LEMMA SameMin == \A S : Lists!Min(S) = Min(S)
BY DEF Lists!Min, Min

LEMMA ShapeFree ==
  ASSUME Small, NEW mem, NEW L, Shape(mem, L)
  PROVE  /\ L \in [Orders -> Seq(Nat)] /\ FreeOf(L) \subseteq Blocks
         /\ \A f : f \in FreeOf(L) <=> f \in Blocks /\ f.page \in Elems(L[f.order])
         /\ \A k \in Orders : \A p \in Elems(L[k]) :
              /\ p \in Lists!Page /\ p \in Nat /\ [page |-> p, order |-> k] \in FreeOf(L)
              /\ [page |-> p, order |-> k].page = p /\ [page |-> p, order |-> k].order = k
<1>1. L \in [Orders -> Seq(Nat)]
  <2>1. L \in [Orders -> Seq(Lists!Page)]
    BY DEF Shape
  <2>2. \A k \in Orders : L[k] \in Seq(Nat)
    BY <2>1, PageSeq
  <2> QED
    BY <2>1, <2>2
<1>2. \A k \in Orders : Elems(L[k]) \subseteq Lists!Page
  BY PageSeq DEF Shape
<1> QED
  BY <1>1, <1>2, FreeOfIs

\* The head of a list is its first entry.
LEMMA HeadIs ==
  ASSUME Small, NEW mem \in Memory, NEW L, Shape(mem, L), NEW k \in Orders
  PROVE  /\ mem.head[k] # NULL <=> L[k] # <<>>
         /\ L[k] # <<>> => /\ mem.head[k] = L[k][1] /\ L[k][1] = Head(L[k]) /\ 1 \in 1..Len(L[k])
                           /\ mem.head[k] \in Lists!Page /\ mem.head[k] \in Elems(L[k])
<1>1. PICK s : s = L[k]
  OBVIOUS
<1>2. s \in Seq(Lists!Page) /\ Chain(mem, k, s)
  BY <1>1, ShapeIs
<1>3. mem.head[k] = IF s = <<>> THEN NULL ELSE s[1]
  BY <1>2 DEF Chain
<1>4. s # <<>> => 1 \in 1..Len(s) /\ s[1] = Head(s)
  BY <1>2
<1>5. \A i \in 1..Len(s) : s[i] \in Lists!Page /\ s[i] \in Elems(s)
  BY <1>2, PageSeq
<1> QED
  BY <1>1, <1>3, <1>4, <1>5, NullIs

\* The list that a page is taken from.
LEMMA FirstIs ==
  ASSUME Small, NEW mem \in Memory, Lists!HasPage(mem)
  PROVE  LET from == Lists!FirstList(mem)
         IN /\ from \in Orders /\ mem.head[from] # NULL
            /\ \A j \in Orders : j < from => mem.head[j] = NULL
            /\ Lists!NextPage(mem) = mem.head[from] /\ Lists!NextPage(mem) \in Lists!Page
<1> DEFINE T == {k \in Orders : mem.head[k] # NULL}
<1>1. Lists!FirstList(mem) = Min(T) /\ T # {}
  BY SameMin, PageFacts DEF Lists!FirstList, Lists!HasPage
<1>2. T \subseteq Nat
  BY OrderFacts
<1>3. Min(T) \in T /\ \A y \in T : Min(T) <= y
  BY <1>1, <1>2, MinIs
<1>4. PICK f : f = Min(T)
  OBVIOUS
<1>5. f \in T /\ f \in Nat /\ \A y \in T : f <= y
  BY <1>2, <1>3, <1>4
<1> HIDE DEF T
<1>6. \A j \in Orders : j < f => j \notin T
  <2> SUFFICES ASSUME NEW j \in Orders, j < f, j \in T PROVE FALSE
    OBVIOUS
  <2>1. f <= j /\ j \in Nat
    BY <1>5, OrderFacts
  <2> QED
    BY <1>5, <2>1
<1>7. mem.head[f] \in Lists!Page
  BY <1>5, MemoryIs DEF T, Pointer
<1> QED
  BY <1>1, <1>4, <1>5, <1>6, <1>7 DEF T, Lists!NextPage

\* The lists when the first block of order from is split down to order o.
Halved(L, o, from) ==
  [k \in Orders |-> IF k = from THEN Tail(L[k])
                    ELSE IF k \in o..(from - 1) THEN <<Head(L[from]) + Size(k)>> \o L[k]
                    ELSE L[k]]

Upper(e, k) == e + Size(k)
Lower(from) == 0..(from - 1)

\* What Halved has: the first block e loses its place, its upper halves are put in front.
HalvedHas(L, o, from, e) ==
  \A k \in Orders :
    Elems(Halved(L, o, from)[k]) = IF k = from THEN Elems(L[k]) \ {e}
                                   ELSE IF k \in o..(from - 1) THEN Elems(L[k]) \cup {Upper(e, k)}
                                   ELSE Elems(L[k])

LEMMA HalvedElems ==
  ASSUME Small, NEW L \in [Orders -> Seq(Nat)], NEW from \in Orders, NEW o \in Orders, o <= from,
         L[from] # <<>>, OneEach(L[from])
  PROVE  HalvedHas(L, o, from, Head(L[from]))
<1> DEFINE e == Head(L[from])
<1>1. /\ Tail(L[from]) \in Seq(Nat) /\ e \in Elems(L[from]) /\ e \in Nat
      /\ Elems(Tail(L[from])) = Elems(L[from]) \ {e}
  BY Tailed
<1> HIDE DEF e
<1>2. ASSUME NEW k \in Orders
      PROVE  /\ <<e + Size(k)>> \o L[k] \in Seq(Nat)
             /\ Elems(<<e + Size(k)>> \o L[k]) = Elems(L[k]) \cup {e + Size(k)}
  <2>1. PICK p : p = e + Size(k)
    OBVIOUS
  <2>2. p \in Nat
    BY <1>1, <2>1, OrderFacts
  <2>3. <<p>> \o L[k] \in Seq(Nat) /\ Elems(<<p>> \o L[k]) = {p} \cup Elems(L[k])
    BY <2>2, Consed
  <2> QED
    BY <2>1, <2>3
<1>3. \A k \in Orders :
        Halved(L, o, from)[k] = IF k = from THEN Tail(L[k])
                                ELSE IF k \in o..(from - 1) THEN <<e + Size(k)>> \o L[k] ELSE L[k]
  BY DEF Halved, e
<1>5. \A k \in Orders :
        Elems(Halved(L, o, from)[k]) = IF k = from THEN Elems(L[k]) \ {e}
                                       ELSE IF k \in o..(from - 1) THEN Elems(L[k]) \cup {e + Size(k)}
                                       ELSE Elems(L[k])
  BY <1>1, <1>2, <1>3
<1> QED
  BY <1>5 DEF e, Upper, HalvedHas

\* A block gives one page, and the rest of it in halves.
LEMMA SplitBlocks ==
  ASSUME Small, NEW F, F \subseteq Blocks, Disjoint(F), NEW e \in Nat, NEW from \in Orders,
         [page |-> e, order |-> from] \in F, NEW G, G \subseteq Blocks,
         \A f \in Blocks : f \in G <=> \/ f \in F /\ f # [page |-> e, order |-> from]
                                       \/ f.order \in 0..(from - 1) /\ f.page = e + Size(f.order)
  PROVE  /\ Disjoint(G) /\ e \in PagesOf(F) /\ PagesOf(G) = PagesOf(F) \ {e}
<1> DEFINE b == [page |-> e, order |-> from]
<1>1. b \in F /\ b \in Blocks /\ b.page = e /\ b.order = from /\ Pages(b) = Span(e, from)
  BY DEF Pages
<1>2. \A f \in Blocks : f \in G <=> \/ f \in F /\ f # b
                                    \/ f.order \in 0..(from - 1) /\ f.page = e + Size(f.order)
  OBVIOUS
<1> HIDE DEF b
<1>3. /\ 0 \in Orders /\ 0 <= from /\ Span(e, 0) = {e}
  <2>1. 0 \in Orders /\ 0 <= from /\ Size(0) = 1
    BY OrderFacts, Sizes1
  <2>2. Span(e, 0) = {e}
    <3>1. \A q : q \in Span(e, 0) <=> q \in Int /\ e <= q /\ q < e + 1
      BY <2>1, SpanFacts
    <3>2. \A q \in Int : e <= q /\ q < e + 1 <=> q = e
      OBVIOUS
    <3> QED
      BY <3>1, <3>2
  <2> QED
    BY <2>1, <2>2
<1>4. /\ \A k \in 0..(from - 1) : /\ k \in Orders /\ e + Size(k) \in Nat
                                  /\ Span(e + Size(k), k) \subseteq Span(e, from)
                                  /\ e \notin Span(e + Size(k), k)
      /\ \A k, l \in 0..(from - 1) : k # l => Span(e + Size(k), k) \cap Span(e + Size(l), l) = {}
      /\ \A q \in Span(e, from) : q # e => \E k \in 0..(from - 1) : q \in Span(e + Size(k), k)
      /\ e \in Span(e, from)
  <2>1. /\ Span(e, 0) \subseteq Span(e, from)
        /\ \A k \in 0..(from - 1) : /\ k \in Orders /\ e + Size(k) \in Nat
                                    /\ Span(e + Size(k), k) \subseteq Span(e, from)
                                    /\ Span(e + Size(k), k) \cap Span(e, 0) = {}
        /\ \A k, l \in 0..(from - 1) :
             k # l => Span(e + Size(k), k) \cap Span(e + Size(l), l) = {}
        /\ \A q \in Span(e, from) :
             q \notin Span(e, 0) => \E k \in 0..(from - 1) : q \in Span(e + Size(k), k)
    BY <1>3, SplitBlock
  <2> QED
    BY <1>3, <2>1
<1>5. ASSUME NEW f \in G, ~(f \in F /\ f # b)
      PROVE  /\ f.order \in 0..(from - 1) /\ f.page = e + Size(f.order)
             /\ Pages(f) = Span(e + Size(f.order), f.order)
             /\ Pages(f) \subseteq Pages(b) /\ e \notin Pages(f)
  <2>1. f.order \in 0..(from - 1) /\ f.page = e + Size(f.order)
    BY <1>2, <1>5
  <2> QED
    BY <1>1, <1>4, <2>1 DEF Pages
<1>6. ASSUME NEW f \in F, f # b PROVE Pages(f) \cap Pages(b) = {}
  BY <1>1, <1>6 DEF Disjoint
<1>7. Disjoint(G)
  <2> SUFFICES ASSUME NEW f \in G, NEW g \in G, f # g PROVE Pages(f) \cap Pages(g) = {}
    BY DEF Disjoint
  <2>1. CASE (f \in F /\ f # b) /\ (g \in F /\ g # b)
    BY <2>1 DEF Disjoint
  <2>2. CASE (f \in F /\ f # b) /\ ~(g \in F /\ g # b)
    BY <1>5, <1>6, <2>2
  <2>3. CASE ~(f \in F /\ f # b) /\ (g \in F /\ g # b)
    BY <1>5, <1>6, <2>3
  <2>4. CASE ~(f \in F /\ f # b) /\ ~(g \in F /\ g # b)
    <3>1. f.order # g.order
      <4>1. f = [page |-> f.page, order |-> f.order] /\ g = [page |-> g.page, order |-> g.order]
        BY BlockFacts
      <4> QED
        BY <1>5, <2>4, <4>1
    <3> QED
      BY <1>4, <1>5, <2>4, <3>1
  <2> QED
    BY <2>1, <2>2, <2>3, <2>4
<1>8. e \in PagesOf(F) /\ Pages(b) \subseteq PagesOf(F)
  BY <1>1, <1>4 DEF PagesOf
<1>9. ASSUME NEW q \in PagesOf(G) PROVE q \in PagesOf(F) /\ q # e
  <2>1. PICK f \in G : q \in Pages(f)
    BY DEF PagesOf
  <2>2. CASE f \in F /\ f # b
    BY <1>1, <1>4, <1>6, <2>1, <2>2 DEF PagesOf
  <2>3. CASE ~(f \in F /\ f # b)
    BY <1>5, <1>8, <2>1, <2>3
  <2> QED
    BY <2>2, <2>3
<1>10. ASSUME NEW q \in PagesOf(F), q # e PROVE q \in PagesOf(G)
  <2>1. PICK f \in F : q \in Pages(f)
    BY DEF PagesOf
  <2>2. CASE f # b
    BY <1>2, <2>1, <2>2 DEF PagesOf
  <2>3. CASE f = b
    <3>1. PICK k \in 0..(from - 1) : q \in Span(e + Size(k), k)
      BY <1>1, <1>4, <1>10, <2>1, <2>3
    <3>2. PICK g : g = [page |-> e + Size(k), order |-> k]
      OBVIOUS
    <3>3. g \in Blocks /\ g.page = e + Size(k) /\ g.order = k
      BY <1>4, <3>2 DEF Blocks
    <3>4. g \in G /\ q \in Pages(g)
      BY <1>2, <3>1, <3>3 DEF Pages
    <3> QED
      BY <3>4 DEF PagesOf
  <2> QED
    BY <2>2, <2>3
<1> QED
  BY <1>7, <1>8, <1>9, <1>10

-----------------------------------------------------------------------------
(***************************************************************************)
(* A page is taken.                                                        *)
(***************************************************************************)
\* The first block there is, and the halves it is split into.
LEMMA FirstBlock ==
  ASSUME Small, NEW mem, NEW L, Tidy(mem, L), NEW from \in Orders, L[from] # <<>>
  PROVE  LET e == Head(L[from]) IN
         /\ e \in Lists!Page /\ e \in Nat /\ e \in Elems(L[from]) /\ e \notin {0} \cup mem.bits
         /\ L[from] \in Seq(Lists!Page) /\ e = L[from][1] /\ 1 \in 1..Len(L[from]) /\ mem.head[from] = e
         /\ [page |-> e, order |-> from] \in FreeOf(L)
<1>1. mem \in Memory /\ Shape(mem, L)
      /\ PagesOf(FreeOf(L)) \subseteq Lists!Page \ ({0} \cup mem.bits)
  BY DEF Tidy
<1>2. PICK e : e = Head(L[from])
  OBVIOUS
<1>3. e = L[from][1] /\ 1 \in 1..Len(L[from]) /\ mem.head[from] = e /\ e \in Elems(L[from])
  BY <1>1, <1>2, HeadIs
<1>4. L[from] \in Seq(Lists!Page)
  BY <1>1, ShapeIs
<1>5. e \in Lists!Page /\ e \in Nat /\ [page |-> e, order |-> from] \in FreeOf(L)
  BY <1>1, <1>3, ShapeFree
<1>6. e \in PagesOf(FreeOf(L))
  <2>1. PICK b : b = [page |-> e, order |-> from]
    OBVIOUS
  <2>2. b \in FreeOf(L) /\ Pages(b) = Span(e, from)
    BY <1>5, <2>1 DEF Pages
  <2>3. e \in Span(e, from)
    BY <1>5, SpanFacts
  <2> QED
    BY <2>2, <2>3 DEF PagesOf
<1> QED
  BY <1>1, <1>2, <1>3, <1>4, <1>5, <1>6

LEMMA FirstHalves ==
  ASSUME Small, NEW mem, NEW L, Tidy(mem, L), NEW from \in Orders, L[from] # <<>>
  PROVE  LET e == Head(L[from]) IN
         /\ \A k \in Lower(from) :
              /\ k \in Orders /\ Upper(e, k) \in Lists!Page /\ Upper(e, k) # e
              /\ \A j \in Orders : Upper(e, k) \notin Elems(L[j])
         /\ \A k, l \in Lower(from) : k # l => Upper(e, k) # Upper(e, l)
<1>1. mem \in Memory /\ Shape(mem, L) /\ Disjoint(FreeOf(L))
      /\ PagesOf(FreeOf(L)) \subseteq Lists!Page \ ({0} \cup mem.bits)
  BY DEF Tidy
<1>2. PICK e : e = Head(L[from])
  OBVIOUS
<1>5. e \in Nat /\ [page |-> e, order |-> from] \in FreeOf(L)
  BY <1>2, FirstBlock
<1>6. PICK b : b = [page |-> e, order |-> from]
  OBVIOUS
<1>7. b \in Blocks /\ b \in FreeOf(L) /\ Pages(b) = Span(e, from)
  BY <1>1, <1>5, <1>6, ShapeFree DEF Pages
<1>8. Span(e, from) \subseteq PagesOf(FreeOf(L))
  BY <1>7 DEF PagesOf
<1>9. e \in Span(e, from)
  BY <1>5, SpanFacts
<1>10. /\ 0 \in Orders /\ 0 <= from /\ Span(e, 0) = {e}
  <2>1. 0 \in Orders /\ 0 <= from /\ Size(0) = 1
    BY OrderFacts, Sizes1
  <2>2. \A q : q \in Span(e, 0) <=> q \in Int /\ e <= q /\ q < e + 1
    BY <1>5, <2>1, SpanFacts
  <2>3. \A q \in Int : e <= q /\ q < e + 1 <=> q = e
    BY <1>5
  <2> QED
    BY <1>5, <2>1, <2>2, <2>3
<1>11. /\ \A k \in 0..(from - 1) : /\ k \in Orders /\ e + Size(k) \in Nat
                                   /\ Span(e + Size(k), k) \subseteq Span(e, from)
                                   /\ Span(e + Size(k), k) \cap Span(e, 0) = {}
       /\ \A k, l \in 0..(from - 1) :
            k # l => Span(e + Size(k), k) \cap Span(e + Size(l), l) = {}
  BY <1>5, <1>10, SplitBlock
<1>12. \A k \in 0..(from - 1) : /\ e + Size(k) \in Span(e + Size(k), k)
                                /\ e + Size(k) \in Span(e, from)
  <2> SUFFICES ASSUME NEW k \in 0..(from - 1)
               PROVE  e + Size(k) \in Span(e + Size(k), k) /\ e + Size(k) \in Span(e, from)
    OBVIOUS
  <2>1. PICK h : h = e + Size(k)
    OBVIOUS
  <2>2. h \in Nat /\ k \in Orders
    BY <1>11, <2>1
  <2>3. h \in Span(h, k)
    BY <2>2, SpanFacts
  <2> QED
    BY <1>11, <2>1, <2>3
<1>13. ASSUME NEW k \in 0..(from - 1), NEW j \in Orders, e + Size(k) \in Elems(L[j])
       PROVE  FALSE
  <2>1. PICK h : h = e + Size(k)
    OBVIOUS
  <2>2. h \in Elems(L[j]) /\ h \in Span(e, from) /\ h # e /\ h \in Nat
    BY <1>10, <1>11, <1>12, <1>13, <2>1
  <2>3. PICK g : g = [page |-> h, order |-> j]
    OBVIOUS
  <2>4. g \in FreeOf(L) /\ g.page = h /\ g.order = j
    BY <1>1, <2>2, <2>3, ShapeFree
  <2>5. g # b /\ h \in Pages(g)
    BY <1>6, <2>2, <2>4, SpanFacts DEF Pages
  <2> QED
    BY <1>1, <1>7, <2>2, <2>4, <2>5 DEF Disjoint
<1>14. \A k \in 0..(from - 1) : e + Size(k) \in Lists!Page
  BY <1>1, <1>8, <1>12
<1>15. \A k, l \in 0..(from - 1) : k # l => e + Size(k) # e + Size(l)
  BY <1>11, <1>12
<1>16. \A k \in 0..(from - 1) : k \in Orders /\ e + Size(k) # e
  BY <1>10, <1>11, <1>12
<1> QED
  BY <1>2, <1>13, <1>14, <1>15, <1>16 DEF Upper, Lower

\* The block is unlinked.
LEMMA TakeShape ==
  ASSUME Small, NEW mem, NEW L, Tidy(mem, L), NEW from \in Orders, L[from] # <<>>
  PROVE  LET new == Lists!Unlink(mem, Head(L[from]), from)
         IN new \in Memory /\ SameBooks(mem, new) /\ Shape(new, Halved(L, from, from))
<1>1. mem \in Memory /\ Shape(mem, L)
  BY DEF Tidy
<1>2. PICK s : s = L[from]
  OBVIOUS
<1>3. s \in Seq(Lists!Page) /\ s # <<>> /\ Head(s) = s[1] /\ 1 \in 1..Len(s)
  BY <1>2, FirstBlock
<1>4. PICK u : u = Tail(s)
  OBVIOUS
<1>5. u \in Seq(Lists!Page) /\ Len(u) = Len(s) - 1 /\ \A i \in 1..Len(u) : u[i] = s[i + 1]
  BY <1>3, <1>4
<1>6. \A i \in 1..Len(u) : u[i] = IF i < 1 THEN s[i] ELSE s[i + 1]
  BY <1>5
<1>7. LET new == Lists!Unlink(mem, s[1], from)
      IN new \in Memory /\ SameBooks(mem, new) /\ Shape(new, [L EXCEPT ![from] = u])
  BY <1>1, <1>2, <1>3, <1>5, <1>6, UnlinkShape
<1>8. [L EXCEPT ![from] = u] = Halved(L, from, from)
  <2>1. L = [k \in Orders |-> L[k]]
    BY <1>1 DEF Shape
  <2>2. \A k \in Orders : k \notin from..(from - 1)
    BY OrderFacts
  <2>3. [L EXCEPT ![from] = u] = [k \in Orders |-> IF k = from THEN u ELSE L[k]]
    BY <2>1
  <2> QED
    BY <1>2, <1>4, <2>2, <2>3 DEF Halved
<1> QED
  BY <1>2, <1>3, <1>7, <1>8

\* A half is linked.
LEMMA HalfShape ==
  ASSUME Small, NEW mem, NEW L, Tidy(mem, L), NEW from \in Orders, L[from] # <<>>,
         NEW k \in Lower(from), NEW x \in Memory, Shape(x, Halved(L, k + 1, from))
  PROVE  LET new == Lists!Link(x, Upper(Head(L[from]), k), k)
         IN new \in Memory /\ SameBooks(x, new) /\ Shape(new, Halved(L, k, from))
<1>1. PICK e : e = Head(L[from])
  OBVIOUS
<1>2. PICK h : h = Upper(e, k)
  OBVIOUS
<1>3. /\ k \in Orders /\ h \in Lists!Page /\ h # e
      /\ \A j \in Orders : h \notin Elems(L[j])
      /\ \A l \in Lower(from) : k # l => h # Upper(e, l)
  <2>1. /\ k \in Orders /\ Upper(e, k) \in Lists!Page /\ Upper(e, k) # e
        /\ \A j \in Orders : Upper(e, k) \notin Elems(L[j])
    BY <1>1, FirstHalves
  <2>2. \A l \in Lower(from) : k # l => Upper(e, k) # Upper(e, l)
    BY <1>1, FirstHalves
  <2> QED
    BY <1>2, <2>1, <2>2
<1>4. k + 1 \in Orders /\ k + 1 <= from /\ k \in Nat /\ from \in Nat
  BY OrderFacts DEF Lower
<1>5. \A j \in Orders : j \in Nat
  BY OrderFacts
<1>6. L \in [Orders -> Seq(Nat)] /\ OneEach(L[from])
  BY ShapeFree, ShapeIs DEF Tidy
<1>7. \A j \in Orders :
        Elems(Halved(L, k + 1, from)[j]) = IF j = from THEN Elems(L[j]) \ {e}
                                           ELSE IF j \in (k + 1)..(from - 1) THEN Elems(L[j]) \cup {Upper(e, j)}
                                           ELSE Elems(L[j])
  <2>1. HalvedHas(L, k + 1, from, e)
    BY <1>1, <1>4, <1>6, HalvedElems
  <2> QED
    BY <2>1 DEF HalvedHas
<1>8. \A j \in Orders : h \notin Elems(Halved(L, k + 1, from)[j])
  <2> SUFFICES ASSUME NEW j \in Orders PROVE h \notin Elems(Halved(L, k + 1, from)[j])
    OBVIOUS
  <2>1. CASE j \in (k + 1)..(from - 1) /\ j # from
    <3>1. j \in Lower(from) /\ k # j
      BY <1>4, <2>1 DEF Lower
    <3>2. Elems(Halved(L, k + 1, from)[j]) = Elems(L[j]) \cup {Upper(e, j)}
      BY <1>7, <2>1
    <3> QED
      BY <1>3, <3>1, <3>2
  <2>2. CASE ~(j \in (k + 1)..(from - 1) /\ j # from)
    BY <1>3, <1>7, <2>2
  <2> QED
    BY <2>1, <2>2
<1>9. PICK M : M = Halved(L, k + 1, from)
  OBVIOUS
<1>10. LET new == Lists!Link(x, h, k)
       IN new \in Memory /\ SameBooks(x, new) /\ Shape(new, [M EXCEPT ![k] = <<h>> \o M[k]])
  BY <1>3, <1>8, <1>9, LinkShape
<1>11. [M EXCEPT ![k] = <<h>> \o M[k]] = Halved(L, k, from)
  <2>1. k # from /\ k \in k..(from - 1) /\ k \notin (k + 1)..(from - 1)
    BY <1>4
  <2>2. \A j \in Orders : j # k => (j \in (k + 1)..(from - 1) <=> j \in k..(from - 1))
    BY <1>4, <1>5
  <2>3. \A j \in Orders : M[j] = IF j = from THEN Tail(L[j])
                                 ELSE IF j \in (k + 1)..(from - 1) THEN <<Upper(e, j)>> \o L[j] ELSE L[j]
    BY <1>1, <1>9 DEF Halved, Upper
  <2>4. M[k] = L[k]
    BY <1>3, <2>1, <2>3
  <2>5. M = [j \in Orders |-> M[j]]
    BY <1>9 DEF Halved, Upper
  <2>6. [M EXCEPT ![k] = <<h>> \o M[k]] = [j \in Orders |-> IF j = k THEN <<h>> \o L[k] ELSE M[j]]
    BY <2>4, <2>5
  <2>7. \A j \in Orders : Halved(L, k, from)[j] = IF j = k THEN <<h>> \o L[k] ELSE M[j]
    <3> SUFFICES ASSUME NEW j \in Orders
                 PROVE  Halved(L, k, from)[j] = IF j = k THEN <<h>> \o L[k] ELSE M[j]
      OBVIOUS
    <3>1. Halved(L, k, from)[j] = IF j = from THEN Tail(L[j])
                                  ELSE IF j \in k..(from - 1) THEN <<Upper(e, j)>> \o L[j] ELSE L[j]
      BY <1>1 DEF Halved, Upper
    <3>2. CASE j = k
      BY <1>2, <2>1, <3>1, <3>2
    <3>3. CASE j # k
      BY <2>2, <2>3, <3>1, <3>3
    <3> QED
      BY <3>2, <3>3
  <2>8. Halved(L, k, from) = [j \in Orders |-> Halved(L, k, from)[j]]
    BY DEF Halved, Upper
  <2> QED
    BY <2>6, <2>7, <2>8
<1> QED
  BY <1>1, <1>2, <1>10, <1>11

\* What the lists are while the first block of order from is split down to order k.
Cut(mem, L, k, from, x) ==
  x \in Memory /\ SameBooks(mem, x) /\ Shape(x, Halved(L, k, from))

LEMMA CutStarts ==
  ASSUME Small, NEW mem, NEW L, Tidy(mem, L), NEW from \in Orders, L[from] # <<>>
  PROVE  Cut(mem, L, from, from, Lists!Unlink(mem, Head(L[from]), from))
BY TakeShape DEF Cut

LEMMA CutGoesOn ==
  ASSUME Small, NEW mem, NEW L, Tidy(mem, L), NEW from \in Orders, L[from] # <<>>,
         NEW k \in Lower(from), NEW x, Cut(mem, L, k + 1, from, x)
  PROVE  Cut(mem, L, k, from, Lists!Link(x, Upper(Head(L[from]), k), k))
<1>1. x \in Memory /\ SameBooks(mem, x) /\ Shape(x, Halved(L, k + 1, from))
  BY DEF Cut
<1>2. PICK new : new = Lists!Link(x, Upper(Head(L[from]), k), k)
  OBVIOUS
<1>3. new \in Memory /\ SameBooks(x, new) /\ Shape(new, Halved(L, k, from))
  BY <1>1, <1>2, HalfShape
<1>4. SameBooks(mem, new)
  BY <1>1, <1>3 DEF SameBooks
<1> QED
  BY <1>2, <1>3, <1>4 DEF Cut

\* The pages of the lists when the splitting has come to an end.
LEMMA HalvedFree ==
  ASSUME Small, NEW mem, NEW L, Tidy(mem, L), NEW from \in Orders, L[from] # <<>>,
         NEW x, Shape(x, Halved(L, 0, from))
  PROVE  LET e == Head(L[from])
             G == FreeOf(Halved(L, 0, from))
         IN /\ Disjoint(G) /\ e \in PagesOf(FreeOf(L)) /\ PagesOf(G) = PagesOf(FreeOf(L)) \ {e}
<1> DEFINE M == Halved(L, 0, from)
<1>1. PICK e : e = Head(L[from])
  OBVIOUS
<1>2. /\ e \in Nat /\ [page |-> e, order |-> from] \in FreeOf(L)
      /\ \A k \in Lower(from) : \A j \in Orders : Upper(e, k) \notin Elems(L[j])
  BY <1>1, FirstBlock, FirstHalves
<1>3. /\ L \in [Orders -> Seq(Nat)] /\ OneEach(L[from]) /\ FreeOf(L) \subseteq Blocks
      /\ \A f : f \in FreeOf(L) <=> f \in Blocks /\ f.page \in Elems(L[f.order])
      /\ Disjoint(FreeOf(L))
  BY ShapeFree, ShapeIs DEF Tidy
<1>4. 0 \in Orders /\ 0 <= from
  BY OrderFacts
<1>o. PICK o : o = 0 /\ o \in Orders /\ o <= from
  BY <1>4
<1>5. \A k \in Orders :
        Elems(M[k]) = IF k = from THEN Elems(L[k]) \ {e}
                      ELSE IF k \in 0..(from - 1) THEN Elems(L[k]) \cup {Upper(e, k)}
                      ELSE Elems(L[k])
  <2>1. HalvedHas(L, o, from, e)
    BY <1>1, <1>3, <1>o, HalvedElems
  <2> QED
    BY <1>o, <2>1 DEF HalvedHas
<1>6. /\ FreeOf(M) \subseteq Blocks
      /\ \A f : f \in FreeOf(M) <=> f \in Blocks /\ f.page \in Elems(M[f.order])
  BY ShapeFree
<1> HIDE DEF M
<1>7. from \in Nat /\ from \notin 0..(from - 1)
  BY OrderFacts
<1>8. ASSUME NEW f \in Blocks
      PROVE  f \in FreeOf(M) <=> \/ f \in FreeOf(L) /\ f # [page |-> e, order |-> from]
                                 \/ f.order \in 0..(from - 1) /\ f.page = Upper(e, f.order)
  <2>1. f.order \in Orders /\ f = [page |-> f.page, order |-> f.order]
    BY BlockFacts
  <2>2. CASE f.order = from
    <3>1. f.page \in Elems(M[f.order]) <=> f.page \in Elems(L[f.order]) /\ f.page # e
      BY <1>5, <2>1, <2>2
    <3>2. f # [page |-> e, order |-> from] <=> f.page # e
      BY <2>1, <2>2
    <3> QED
      BY <1>3, <1>6, <1>7, <2>2, <3>1, <3>2
  <2>3. CASE f.order # from
    <3>1. f # [page |-> e, order |-> from]
      BY <2>3
    <3>2. f.page \in Elems(M[f.order]) <=> \/ f.page \in Elems(L[f.order])
                                           \/ f.order \in 0..(from - 1) /\ f.page = Upper(e, f.order)
      BY <1>5, <2>1, <2>3
    <3> QED
      BY <1>3, <1>6, <3>1, <3>2
  <2> QED
    BY <2>2, <2>3
<1>9. Disjoint(FreeOf(M)) /\ e \in PagesOf(FreeOf(L)) /\ PagesOf(FreeOf(M)) = PagesOf(FreeOf(L)) \ {e}
  BY <1>2, <1>3, <1>6, <1>8, SplitBlocks DEF Upper
<1> QED
  BY <1>1, <1>9 DEF M

\* What is not pointers: marks and counters.
SameLists(mem, new) == new.head = mem.head /\ new.next = mem.next /\ new.prev = mem.prev

LEMMA MarkIs ==
  ASSUME Small, NEW mem \in Memory, NEW p \in Lists!Page
  PROVE  LET new == Lists!Mark(mem, p)
         IN /\ new \in Memory /\ SameLists(mem, new) /\ new.bits = mem.bits \cup {p}
            /\ new.halted = mem.halted /\ new.free_pages = mem.free_pages
            /\ new.allocated_pages = mem.allocated_pages
BY DEF Lists!Mark, Memory, SameLists

LEMMA ClearIs ==
  ASSUME Small, NEW mem \in Memory, NEW p \in mem.bits
  PROVE  LET new == Lists!Clear(mem, p)
         IN /\ new \in Memory /\ SameLists(mem, new) /\ new.bits = mem.bits \ {p}
            /\ new.halted = mem.halted /\ new.free_pages = mem.free_pages
            /\ new.allocated_pages = mem.allocated_pages
BY DEF Lists!Clear, Memory, SameLists

LEMMA CountIs ==
  ASSUME Small, NEW mem \in Memory, NEW n \in Int
  PROVE  LET new == Lists!Count(mem, n)
         IN /\ new \in Memory /\ SameLists(mem, new) /\ new.bits = mem.bits
            /\ new.halted = mem.halted /\ new.free_pages = mem.free_pages - n
            /\ new.allocated_pages = mem.allocated_pages + n
<1>1. PICK a \in Int : a = mem.allocated_pages + n
  BY MemoryIs
<1>2. PICK f \in Int : f = mem.free_pages - n
  BY MemoryIs
<1>3. Lists!Count(mem, n) = [mem EXCEPT !.allocated_pages = a, !.free_pages = f]
  BY <1>1, <1>2 DEF Lists!Count
<1>4. LET new == [mem EXCEPT !.allocated_pages = a, !.free_pages = f]
      IN /\ new \in Memory /\ SameLists(mem, new) /\ new.bits = mem.bits
         /\ new.halted = mem.halted /\ new.free_pages = f /\ new.allocated_pages = a
  BY DEF Memory, SameLists
<1> QED
  BY <1>1, <1>2, <1>3, <1>4

LEMMA OneMore ==
  ASSUME NEW S, IsFiniteSet(S), NEW x
  PROVE  /\ IsFiniteSet(S \cup {x}) /\ IsFiniteSet(S \ {x}) /\ Cardinality(S) \in Nat
         /\ x \notin S => Cardinality(S \cup {x}) = Cardinality(S) + 1
         /\ x \in S => Cardinality(S \ {x}) = Cardinality(S) - 1
BY FS_AddElement, FS_RemoveElement, FS_CardinalityType

LEMMA PagesFinite ==
  ASSUME Small, NEW S, S \subseteq Lists!Page
  PROVE  IsFiniteSet(S)
<1>1. Lists!Page = 0..(ListPages - 1) /\ ListPages \in Nat
  BY PageFacts
<1>2. IsFiniteSet(0..(ListPages - 1))
  BY <1>1, FS_Interval
<1> QED
  BY <1>1, <1>2, FS_Subset

\* When the block is split down to a page, the page is the caller's.
LEMMA CutEnds ==
  ASSUME Small, NEW mem, NEW B, NEW L, Booked(mem, B, L), NEW from \in Orders, L[from] # <<>>,
         NEW x, Cut(mem, L, 0, from, x)
  PROVE  LET e == Head(L[from])
         IN /\ e \in Lists!Page /\ e \notin {0} \cup B
            /\ Booked(Lists!Count(Lists!Mark(x, e), 1), B \cup {e}, Halved(L, 0, from))
<1>1. /\ Tidy(mem, L) /\ B \subseteq Lists!Page \ {0} /\ mem.bits = {0} \cup B
      /\ mem.allocated_pages = Cardinality(B)
      /\ mem.free_pages = Cardinality(PagesOf(FreeOf(L)))
  BY DEF Booked
<1>2. /\ ~mem.halted /\ PagesOf(FreeOf(L)) \subseteq Lists!Page \ ({0} \cup mem.bits)
  BY <1>1 DEF Tidy
<1>3. PICK e : e = Head(L[from])
  OBVIOUS
<1>4. e \in Lists!Page /\ e \notin {0} \cup B
  BY <1>1, <1>3, FirstBlock
<1>5. PICK M : M = Halved(L, 0, from)
  OBVIOUS
<1>6. /\ x \in Memory /\ Shape(x, M) /\ x.bits = mem.bits /\ x.halted = mem.halted
      /\ x.free_pages = mem.free_pages /\ x.allocated_pages = mem.allocated_pages
  BY <1>5 DEF Cut, SameBooks
<1>7. Disjoint(FreeOf(M)) /\ e \in PagesOf(FreeOf(L)) /\ PagesOf(FreeOf(M)) = PagesOf(FreeOf(L)) \ {e}
  BY <1>1, <1>3, <1>5, <1>6, HalvedFree
<1>8. PICK y : y = Lists!Mark(x, e)
  OBVIOUS
<1>9. /\ y \in Memory /\ SameLists(x, y) /\ y.bits = x.bits \cup {e} /\ y.halted = x.halted
      /\ y.free_pages = x.free_pages /\ y.allocated_pages = x.allocated_pages
  BY <1>4, <1>6, <1>8, MarkIs
<1>10. PICK new : new = Lists!Count(y, 1)
  OBVIOUS
<1>11. /\ new \in Memory /\ SameLists(y, new) /\ new.bits = y.bits /\ new.halted = y.halted
       /\ new.free_pages = y.free_pages - 1 /\ new.allocated_pages = y.allocated_pages + 1
  BY <1>9, <1>10, CountIs
<1>12. Shape(new, M)
  BY <1>6, <1>9, <1>11, ShapeStays DEF SameLists
<1>13. IsFiniteSet(B) /\ IsFiniteSet(PagesOf(FreeOf(L)))
  BY <1>1, <1>2, PagesFinite
<1>14. /\ Cardinality(B \cup {e}) = Cardinality(B) + 1
       /\ Cardinality(PagesOf(FreeOf(L)) \ {e}) = Cardinality(PagesOf(FreeOf(L))) - 1
  BY <1>4, <1>7, <1>13, OneMore
<1>15. Tidy(new, M)
  BY <1>2, <1>6, <1>7, <1>9, <1>11, <1>12 DEF Tidy
<1>16. Booked(new, B \cup {e}, M)
  BY <1>1, <1>4, <1>6, <1>7, <1>9, <1>11, <1>14, <1>15 DEF Booked
<1> QED
  BY <1>3, <1>4, <1>5, <1>8, <1>10, <1>16

\* The recursion of AllocPage() is what it says.
SplitBy(mem, e, from, f) ==
  /\ Lists!AllocPage(mem) = Lists!Count(Lists!Mark(f[0], e), 1)
  /\ \A k \in Orders : f[k] = IF k >= from THEN Lists!Unlink(mem, e, from)
                             ELSE Lists!Link(f[k + 1], Upper(e, k), k)

LEMMA SplitRule ==
  ASSUME Small, NEW mem, NEW from \in Orders, from = Lists!FirstList(mem),
         NEW e, e = Lists!NextPage(mem)
  PROVE  \E f : SplitBy(mem, e, from, f)
<1> DEFINE b          == Lists!NextPage(mem)
           Rule(f, k) == IF k >= Lists!FirstList(mem) THEN Lists!Unlink(mem, b, Lists!FirstList(mem))
                         ELSE Lists!Link(f[k + 1], b + 2^k, k)
           split      == CHOOSE f : f = [k \in Lists!Orders |-> Rule(f, k)]
           Good(f, n) == \A k \in Orders : k >= BUDDY_MAX_ORDER - n => f[k] = Rule(f, k)
           T          == {n \in Orders : ~\E f : Good(f, n)}
<1>1. Lists!AllocPage(mem) = Lists!Count(Lists!Mark(split[0], b), 1)
  BY DEF Lists!AllocPage
<1>2. BUDDY_MAX_ORDER \in Nat /\ Orders = 0..BUDDY_MAX_ORDER /\ from \in Nat
  BY OrderFacts
<1>3. ASSUME T # {} PROVE FALSE
  <2>1. T \subseteq Nat
    BY OrderFacts
  <2>2. PICK n \in T : \A i \in T : n <= i
    BY <1>3, <2>1, NatHasMin
  <2>3. n \in 0..BUDDY_MAX_ORDER
    BY <1>2
  <2>4. PICK z : z = BUDDY_MAX_ORDER - n
    OBVIOUS
  <2>5. z \in Orders /\ z \in Nat /\ z + 1 \in Nat
    BY <1>2, <2>3, <2>4
  <2>6. PICK f : \A k \in Orders : k >= z + 1 => f[k] = Rule(f, k)
    <3>1. CASE n = 0
      <4>1. \A k \in Orders : ~(k >= z + 1)
        BY <1>2, <2>4, <3>1
      <4> QED
        BY <4>1
    <3>2. CASE n # 0
      <4>1. n - 1 \in Orders /\ ~(n <= n - 1) /\ BUDDY_MAX_ORDER - (n - 1) = z + 1
        BY <1>2, <2>3, <2>4, <3>2
      <4>2. PICK f : Good(f, n - 1)
        BY <2>2, <4>1
      <4> QED
        BY <4>1, <4>2
    <3> QED
      BY <3>1, <3>2
  <2> DEFINE g == [k \in Orders |-> IF k = z THEN Rule(f, k) ELSE f[k]]
  <2>7. \A k \in Orders : g[k] = IF k = z THEN Rule(f, k) ELSE f[k]
    OBVIOUS
  <2> HIDE DEF g
  <2>8. ASSUME NEW k \in Orders, k >= z PROVE g[k] = Rule(g, k)
    <3>1. Rule(g, k) = Rule(f, k)
      <4>1. CASE k >= from
        BY <4>1
      <4>2. CASE ~(k >= from)
        <5>1. k + 1 \in Orders /\ k + 1 # z
          BY <1>2, <2>5, <2>8, <4>2
        <5>2. g[k + 1] = f[k + 1]
          BY <2>7, <5>1
        <5> QED
          BY <5>2
      <4> QED
        BY <4>1, <4>2
    <3>2. CASE k = z
      BY <2>7, <3>1, <3>2
    <3>3. CASE k # z
      <4>1. k >= z + 1
        BY <1>2, <2>5, <2>8, <3>3
      <4> QED
        BY <2>6, <2>7, <3>1, <3>3, <4>1
    <3> QED
      BY <3>2, <3>3
  <2>9. Good(g, n)
    BY <2>4, <2>8
  <2> QED
    BY <2>2, <2>9
<1>4. PICK f : \A k \in Orders : f[k] = Rule(f, k)
  <2>0. T = {}
    BY <1>3
  <2>3. BUDDY_MAX_ORDER \in Orders
    BY <1>2
  <2>1. PICK f : Good(f, BUDDY_MAX_ORDER)
    BY <2>0, <2>3
  <2>2. \A k \in Orders : k >= BUDDY_MAX_ORDER - BUDDY_MAX_ORDER
    BY <1>2
  <2> QED
    BY <2>1, <2>2
<1> DEFINE h == [k \in Orders |-> f[k]]
<1>5. h = [k \in Orders |-> Rule(h, k)]
  <2> SUFFICES ASSUME NEW k \in Orders PROVE h[k] = Rule(h, k)
    OBVIOUS
  <2>1. ~(k >= from) => k + 1 \in Orders
    BY <1>2
  <2>2. f[k] = Rule(f, k)
    BY <1>4
  <2>3. CASE k >= from
    BY <2>2, <2>3
  <2>4. CASE ~(k >= from)
    <3>1. h[k + 1] = f[k + 1]
      BY <2>1, <2>4
    <3> QED
      BY <2>2, <3>1
  <2> QED
    BY <2>3, <2>4
<1> HIDE DEF h
<1>6. Lists!Orders = Orders
  BY PageFacts
<1>7. split = [k \in Orders |-> Rule(split, k)]
  BY <1>5, <1>6
<1> HIDE DEF split
<1>8. \A k \in Orders : split[k] = Rule(split, k)
  BY <1>7
<1>9. \A k : b + 2^k = Upper(b, k)
  BY DEF Upper, Size
<1> QED
  BY <1>1, <1>8, <1>9 DEF SplitBy

LEMMA AllocIs ==
  ASSUME Small, NEW mem, NEW B, NEW L, Booked(mem, B, L), Lists!HasPage(mem)
  PROVE  LET e == Lists!NextPage(mem)
             from == Lists!FirstList(mem)
         IN /\ from \in Orders /\ L[from] # <<>> /\ e = Head(L[from])
            /\ e \in Lists!Page /\ e \notin {0} \cup B
            /\ Booked(Lists!AllocPage(mem), B \cup {e}, Halved(L, 0, from))
<1>1. Tidy(mem, L) /\ mem \in Memory /\ Shape(mem, L)
  BY DEF Booked, Tidy
<1>2. PICK from : from = Lists!FirstList(mem)
  OBVIOUS
<1>3. PICK e : e = Lists!NextPage(mem)
  OBVIOUS
<1>4. from \in Orders /\ L[from] # <<>> /\ e = Head(L[from])
  <2>1. from \in Orders /\ mem.head[from] # NULL /\ e = mem.head[from]
    BY <1>1, <1>2, <1>3, FirstIs
  <2> QED
    BY <1>1, <2>1, HeadIs
<1>p. \E f : SplitBy(mem, e, from, f)
  BY <1>2, <1>3, <1>4, SplitRule
<1>5. PICK f : /\ Lists!AllocPage(mem) = Lists!Count(Lists!Mark(f[0], e), 1)
               /\ \A k \in Orders :
                    f[k] = IF k >= from THEN Lists!Unlink(mem, e, from)
                           ELSE Lists!Link(f[k + 1], Upper(e, k), k)
  BY <1>p DEF SplitBy
<1> DEFINE T == {d \in Nat : d <= from /\ ~Cut(mem, L, from - d, from, f[from - d])}
<1>6. from \in Nat /\ BUDDY_MAX_ORDER \in Nat /\ Orders = 0..BUDDY_MAX_ORDER
  BY <1>4, OrderFacts
<1>7. ASSUME T # {} PROVE FALSE
  <2>1. T \subseteq Nat
    OBVIOUS
  <2>2. PICK d \in T : \A i \in T : d <= i
    BY <1>7, <2>1, NatHasMin
  <2>3. d \in Nat /\ d <= from /\ ~Cut(mem, L, from - d, from, f[from - d])
    BY <2>2
  <2>4. d # 0
    <3>1. f[from] = Lists!Unlink(mem, e, from)
      BY <1>4, <1>5, <1>6
    <3>2. Cut(mem, L, from, from, f[from])
      BY <1>1, <1>4, <3>1, CutStarts
    <3>3. d = 0 => from - d = from
      BY <1>6
    <3> QED
      BY <2>3, <3>2, <3>3
  <2>5. PICK k : k = from - d
    OBVIOUS
  <2>6. /\ k \in Orders /\ k \in Lower(from) /\ ~(k >= from) /\ k + 1 = from - (d - 1)
        /\ d - 1 \in Nat /\ d - 1 <= from /\ ~(d <= d - 1)
    BY <1>4, <1>6, <2>3, <2>4, <2>5 DEF Lower
  <2>7. Cut(mem, L, k + 1, from, f[k + 1])
    BY <2>2, <2>6
  <2>8. f[k] = Lists!Link(f[k + 1], Upper(e, k), k)
    BY <1>5, <2>6
  <2>9. Cut(mem, L, k, from, Lists!Link(f[k + 1], Upper(Head(L[from]), k), k))
    BY <1>1, <1>4, <2>6, <2>7, CutGoesOn
  <2> QED
    BY <1>4, <2>3, <2>5, <2>8, <2>9
<1>8. Cut(mem, L, 0, from, f[0])
  <2>1. T = {}
    BY <1>7
  <2>2. from - from = 0 /\ from <= from
    BY <1>6
  <2> QED
    BY <1>6, <2>1, <2>2
<1> HIDE DEF T
<1>9. /\ e \in Lists!Page /\ e \notin {0} \cup B
      /\ Booked(Lists!Count(Lists!Mark(f[0], e), 1), B \cup {e}, Halved(L, 0, from))
  BY <1>4, <1>8, CutEnds
<1> QED
  BY <1>2, <1>3, <1>4, <1>5, <1>9

-----------------------------------------------------------------------------
(***************************************************************************)
(* A page is freed.                                                        *)
(***************************************************************************)
LEMMA SameBuddy == \A p, k : Lists!Allocator!Buddy(p, k) = Buddy(p, k)
BY DEF Lists!Allocator!Buddy, Buddy, Lists!Allocator!Size, Size

\* What freeing starts with: the mark and the counters.
FreeMem(mem, p) == Lists!Count(Lists!Clear(mem, p), -1)

LEMMA FreeMemIs ==
  ASSUME Small, NEW mem \in Memory, NEW p \in mem.bits
  PROVE  LET new == FreeMem(mem, p)
         IN /\ new \in Memory /\ SameLists(mem, new) /\ new.bits = mem.bits \ {p}
            /\ new.halted = mem.halted /\ new.free_pages = mem.free_pages + 1
            /\ new.allocated_pages = mem.allocated_pages - 1
<1>1. p \in Lists!Page
  BY MemoryIs
<1>2. PICK y : y = Lists!Clear(mem, p)
  OBVIOUS
<1>3. /\ y \in Memory /\ SameLists(mem, y) /\ y.bits = mem.bits \ {p} /\ y.halted = mem.halted
      /\ y.free_pages = mem.free_pages /\ y.allocated_pages = mem.allocated_pages
  BY <1>1, <1>2, ClearIs
<1>4. PICK new : new = Lists!Count(y, -1)
  OBVIOUS
<1>5. /\ new \in Memory /\ SameLists(y, new) /\ new.bits = y.bits /\ new.halted = y.halted
      /\ new.free_pages = y.free_pages - (-1) /\ new.allocated_pages = y.allocated_pages + (-1)
  BY <1>3, <1>4, CountIs
<1>6. y.free_pages \in Int /\ y.allocated_pages \in Int
  BY <1>3, MemoryIs
<1>7. new.free_pages = mem.free_pages + 1 /\ new.allocated_pages = mem.allocated_pages - 1
  BY <1>3, <1>5, <1>6
<1> QED
  BY <1>2, <1>3, <1>4, <1>5, <1>7 DEF FreeMem, SameLists

\* Lists that lose G and get c.
Exchanged(L, M, c, G) ==
  \A k \in Orders :
    Elems(M[k]) = (Elems(L[k]) \ {g.page : g \in {h \in G : h.order = k}})
                     \cup (IF k = c.order THEN {c.page} ELSE {})

LEMMA FreeOfChanged ==
  ASSUME Small, NEW y, NEW L, Shape(y, L), NEW x, NEW M, Shape(x, M),
         NEW c \in Blocks, NEW G, G \subseteq FreeOf(L), Exchanged(L, M, c, G)
  PROVE  FreeOf(M) = (FreeOf(L) \ G) \cup {c}
<1>1. /\ \A f : f \in FreeOf(L) <=> f \in Blocks /\ f.page \in Elems(L[f.order])
      /\ \A f : f \in FreeOf(M) <=> f \in Blocks /\ f.page \in Elems(M[f.order])
  BY ShapeFree
<1>2. \A f \in Blocks : f.order \in Orders /\ f = [page |-> f.page, order |-> f.order]
  BY BlockFacts
<1>3. ASSUME NEW f \in FreeOf(M) PROVE f \in (FreeOf(L) \ G) \cup {c}
  <2>1. f \in Blocks /\ f.page \in Elems(M[f.order]) /\ f.order \in Orders
    BY <1>1, <1>2
  <2>2. CASE f.order = c.order /\ f.page = c.page
    BY <1>2, <2>1, <2>2
  <2>3. CASE ~(f.order = c.order /\ f.page = c.page)
    <3>1. f.page \in Elems(L[f.order]) /\ f.page \notin {g.page : g \in {h \in G : h.order = f.order}}
      BY <2>1, <2>3 DEF Exchanged
    <3> QED
      BY <1>1, <2>1, <3>1
  <2> QED
    BY <2>2, <2>3
<1>4. ASSUME NEW f \in FreeOf(L), f \notin G PROVE f \in FreeOf(M)
  <2>1. f \in Blocks /\ f.page \in Elems(L[f.order]) /\ f.order \in Orders
    BY <1>1, <1>2
  <2>2. f.page \notin {g.page : g \in {h \in G : h.order = f.order}}
    BY <1>1, <1>2, <1>4, <2>1
  <2> QED
    BY <1>1, <2>1, <2>2 DEF Exchanged
<1>5. c \in FreeOf(M)
  BY <1>1, <1>2 DEF Exchanged
<1> QED
  BY <1>3, <1>4, <1>5

\* A page that a caller holds is in no list, nor is it in a listed block.
LEMMA HeldPage ==
  ASSUME Small, NEW mem, NEW B, NEW L, Booked(mem, B, L), NEW p \in B
  PROVE  /\ p \in Lists!Page /\ p \in mem.bits /\ p # 0 /\ p \in Nat
         /\ p \notin PagesOf(FreeOf(L))
         /\ \A k \in Orders : p \notin Elems(L[k])
         /\ FreeMem(mem, p) \in Memory /\ Shape(FreeMem(mem, p), L)
<1>1. /\ Tidy(mem, L) /\ B \subseteq Lists!Page \ {0} /\ mem.bits = {0} \cup B
  BY DEF Booked
<1>2. /\ mem \in Memory /\ Shape(mem, L) /\ PagesOf(FreeOf(L)) \subseteq Lists!Page \ ({0} \cup mem.bits)
  BY <1>1 DEF Tidy
<1>3. p \in Lists!Page /\ p \in mem.bits /\ p # 0 /\ p \in Nat /\ p \notin PagesOf(FreeOf(L))
  BY <1>1, <1>2, PageFacts
<1>4. ASSUME NEW k \in Orders, p \in Elems(L[k]) PROVE FALSE
  <2>1. PICK b : b = [page |-> p, order |-> k]
    OBVIOUS
  <2>2. b \in FreeOf(L) /\ Pages(b) = Span(p, k)
    BY <1>2, <1>4, <2>1, ShapeFree DEF Pages
  <2>3. p \in Span(p, k)
    BY <1>3, SpanFacts
  <2> QED
    BY <1>3, <2>2, <2>3 DEF PagesOf
<1>5. FreeMem(mem, p) \in Memory /\ SameLists(mem, FreeMem(mem, p))
  BY <1>2, <1>3, FreeMemIs
<1>6. Shape(FreeMem(mem, p), L)
  BY <1>2, <1>5, ShapeStays DEF SameLists
<1> QED
  BY <1>3, <1>4, <1>5, <1>6

\* A block of the freed page, and of the free blocks it is merged with.
LEMMA FreeEnds ==
  ASSUME Small, NEW mem, NEW B, NEW L, Booked(mem, B, L), NEW p \in B,
         NEW x \in Memory, SameBooks(FreeMem(mem, p), x), NEW M, Shape(x, M),
         NEW c \in Blocks, NEW G, G \subseteq FreeOf(L), Pages(c) = {p} \cup PagesOf(G),
         Exchanged(L, M, c, G)
  PROVE  Booked(x, B \ {p}, M)
<1>1. /\ Tidy(mem, L) /\ B \subseteq Lists!Page \ {0} /\ mem.bits = {0} \cup B
      /\ mem.allocated_pages = Cardinality(B)
      /\ mem.free_pages = Cardinality(PagesOf(FreeOf(L)))
  BY DEF Booked
<1>2. /\ mem \in Memory /\ ~mem.halted /\ Shape(mem, L) /\ Disjoint(FreeOf(L))
      /\ PagesOf(FreeOf(L)) \subseteq Lists!Page \ ({0} \cup mem.bits)
  BY <1>1 DEF Tidy
<1>3. p \in Lists!Page /\ p \in mem.bits /\ p # 0 /\ p \notin PagesOf(FreeOf(L))
  BY HeldPage
<1>4. PICK y : y = FreeMem(mem, p)
  OBVIOUS
<1>5. /\ y.bits = mem.bits \ {p} /\ y.halted = mem.halted /\ y.free_pages = mem.free_pages + 1
      /\ y.allocated_pages = mem.allocated_pages - 1
  BY <1>2, <1>3, <1>4, FreeMemIs
<1>6. /\ x.bits = y.bits /\ x.halted = y.halted /\ x.free_pages = y.free_pages
      /\ x.allocated_pages = y.allocated_pages
  BY <1>4 DEF SameBooks
<1>7. FreeOf(M) = (FreeOf(L) \ G) \cup {c}
  BY <1>2, FreeOfChanged
<1>8. Disjoint(FreeOf(M)) /\ PagesOf(FreeOf(M)) = PagesOf(FreeOf(L)) \cup {p}
  <2>1. PICK F : F = FreeOf(L)
    OBVIOUS
  <2>2. PICK P : P = {p}
    OBVIOUS
  <2>3. Disjoint(F) /\ G \subseteq F /\ Pages(c) = P \cup PagesOf(G) /\ P \cap PagesOf(F) = {}
    BY <1>2, <1>3, <2>1, <2>2
  <2>4. Disjoint((F \ G) \cup {c}) /\ PagesOf((F \ G) \cup {c}) = PagesOf(F) \cup P
    BY <2>3, JoinedPages
  <2> QED
    BY <1>7, <2>1, <2>2, <2>4
<1>9. IsFiniteSet(B) /\ IsFiniteSet(PagesOf(FreeOf(L)))
  BY <1>1, <1>2, PagesFinite
<1>10. /\ Cardinality(B \ {p}) = Cardinality(B) - 1
       /\ Cardinality(PagesOf(FreeOf(L)) \cup {p}) = Cardinality(PagesOf(FreeOf(L))) + 1
  BY <1>3, <1>9, OneMore
<1>11. Tidy(x, M)
  BY <1>2, <1>3, <1>5, <1>6, <1>8 DEF Tidy
<1>12. x.bits = {0} \cup (B \ {p}) /\ B \ {p} \subseteq Lists!Page \ {0}
  BY <1>1, <1>3, <1>5, <1>6
<1> QED
  BY <1>1, <1>5, <1>6, <1>8, <1>10, <1>11, <1>12 DEF Booked

\* The page alone.
Alone(L, p) == [L EXCEPT ![0] = <<p>> \o L[0]]

LEMMA FreeAlone ==
  ASSUME Small, NEW mem, NEW B, NEW L, Booked(mem, B, L), NEW p \in B
  PROVE  Booked(Lists!Link(FreeMem(mem, p), p, 0), B \ {p}, Alone(L, p))
<1>1. PICK y : y = FreeMem(mem, p)
  OBVIOUS
<1>2. /\ y \in Memory /\ Shape(y, L) /\ p \in Lists!Page /\ p \in Nat
      /\ \A k \in Orders : p \notin Elems(L[k])
  BY <1>1, HeldPage
<1>3. 0 \in Orders /\ \A k \in Orders : k \in Nat
  BY OrderFacts
<1>4. PICK x : x = Lists!Link(y, p, 0)
  OBVIOUS
<1>5. PICK M : M = Alone(L, p)
  OBVIOUS
<1>6. x \in Memory /\ SameBooks(y, x) /\ Shape(x, M)
  BY <1>2, <1>3, <1>4, <1>5, LinkShape DEF Alone
<1>7. PICK c : c = [page |-> p, order |-> 0]
  OBVIOUS
<1>8. c \in Blocks /\ c.page = p /\ c.order = 0 /\ Pages(c) = {p}
  <2>1. c \in Blocks /\ c.page = p /\ c.order = 0
    BY <1>2, <1>3, <1>7 DEF Blocks
  <2>2. \A q : q \in Span(p, 0) <=> q \in Int /\ p <= q /\ q < p + 1
    BY <1>2, <1>3, SpanFacts, Sizes1
  <2>3. Span(p, 0) = {p}
    <3>1. \A q \in Int : p <= q /\ q < p + 1 <=> q = p
      BY <1>2
    <3> QED
      BY <1>2, <2>2, <3>1
  <2> QED
    BY <2>1, <2>3 DEF Pages
<1>9. L \in [Orders -> Seq(Nat)]
  BY <1>2, ShapeFree
<1>10. ASSUME NEW k \in Orders
       PROVE  Elems(M[k]) = Elems(L[k]) \cup (IF k = c.order THEN {c.page} ELSE {})
  <2>1. M[k] = IF k = 0 THEN <<p>> \o L[0] ELSE L[k]
    BY <1>5, <1>9 DEF Alone
  <2>2. Elems(<<p>> \o L[0]) = {p} \cup Elems(L[0])
    BY <1>2, <1>3, <1>9, Consed
  <2> QED
    BY <1>8, <2>1, <2>2
<1>11. PagesOf({}) = {}
  BY DEF PagesOf
<1>12. PICK G : G = {}
  OBVIOUS
<1>13. G \subseteq FreeOf(L) /\ Pages(c) = {p} \cup PagesOf(G) /\ Exchanged(L, M, c, G)
  BY <1>8, <1>10, <1>11, <1>12 DEF Exchanged
<1>14. Booked(x, B \ {p}, M)
  BY <1>1, <1>6, <1>8, <1>13, FreeEnds
<1> QED
  BY <1>1, <1>4, <1>5, <1>14

\* The page and its buddy.
Together(L, p, q) ==
  [L EXCEPT ![0] = Without(L[0], q), ![1] = <<Smaller(p, q)>> \o L[1]]

LEMMA SmallerIs ==
  ASSUME NEW p \in Nat, NEW q \in Nat
  PROVE  /\ Lists!Min({p, q}) = Smaller(p, q) /\ Lists!Allocator!Smaller(p, q) = Smaller(p, q)
         /\ Smaller(p, q) \in {p, q} /\ Smaller(p, q) <= p /\ Smaller(p, q) <= q
<1>1. Smaller(p, q) \in {p, q} /\ Smaller(p, q) <= p /\ Smaller(p, q) <= q
  BY DEF Smaller
<1>2. Lists!Allocator!Smaller(p, q) = Smaller(p, q)
  BY DEF Lists!Allocator!Smaller, Smaller
<1>3. Lists!Min({p, q}) = Min({p, q})
  BY SameMin
<1>4. Min({p, q}) \in {p, q} /\ \A y \in {p, q} : Min({p, q}) <= y
  <2>1. {p, q} \subseteq Nat /\ {p, q} # {}
    OBVIOUS
  <2> QED
    BY <2>1, MinIs
<1>5. PICK z : z = Min({p, q})
  OBVIOUS
<1>6. z = Smaller(p, q)
  BY <1>1, <1>4, <1>5
<1> QED
  BY <1>1, <1>2, <1>3, <1>5, <1>6

\* The buddy is unlinked.
LEMMA BuddyUnlinked ==
  ASSUME Small, NEW mem, NEW B, NEW L, Booked(mem, B, L), NEW p \in B, NEW q \in Elems(L[0])
  PROVE  LET new == Lists!Unlink(FreeMem(mem, p), q, 0)
         IN /\ new \in Memory /\ SameBooks(FreeMem(mem, p), new)
            /\ Shape(new, [L EXCEPT ![0] = Without(L[0], q)])
            /\ q \in Lists!Page /\ q \in Nat /\ q # p
<1>1. PICK y : y = FreeMem(mem, p)
  OBVIOUS
<1>2. y \in Memory /\ Shape(y, L) /\ \A k \in Orders : p \notin Elems(L[k])
  BY <1>1, HeldPage
<1>3. 0 \in Orders
  BY OrderFacts
<1>4. PICK s : s = L[0]
  OBVIOUS
<1>5. s \in Seq(Lists!Page) /\ s \in Seq(Nat) /\ OneEach(s)
  BY <1>2, <1>3, <1>4, ShapeIs, PageSeq
<1>6. PICK u : u = Without(s, q)
  OBVIOUS
<1>7. PICK n \in 1..Len(s) :
        /\ s[n] = q /\ u \in Seq(Nat) /\ Len(u) = Len(s) - 1
        /\ \A i \in 1..(Len(s) - 1) : u[i] = IF i < n THEN s[i] ELSE s[i + 1]
  BY <1>4, <1>5, <1>6, WithoutWhere
<1>8. u \in Seq(Lists!Page)
  <2>1. \A i \in 1..(Len(s) - 1) : u[i] \in Lists!Page
    <3> SUFFICES ASSUME NEW i \in 1..(Len(s) - 1) PROVE u[i] \in Lists!Page
      OBVIOUS
    <3>1. \A j \in 1..Len(s) : s[j] \in Lists!Page
      BY <1>5, PageSeq
    <3>2. Len(s) \in Nat
      BY <1>5
    <3>3. i \in 1..Len(s) /\ i + 1 \in 1..Len(s)
      BY <3>2
    <3> QED
      BY <1>7, <3>1, <3>3
  <2>2. PICK l \in Nat : l = Len(u)
    BY <1>7
  <2>3. u \in [1..l -> Lists!Page]
    BY <1>7, <2>1, <2>2
  <2> QED
    BY <2>3
<1>9. \A i \in 1..Len(u) : u[i] = IF i < n THEN s[i] ELSE s[i + 1]
  BY <1>7
<1>10. LET new == Lists!Unlink(y, s[n], 0)
       IN new \in Memory /\ SameBooks(y, new) /\ Shape(new, [L EXCEPT ![0] = u])
  BY <1>2, <1>3, <1>4, <1>7, <1>8, <1>9, UnlinkShape
<1>11. q \in Lists!Page /\ q \in Nat /\ q # p
  BY <1>2, <1>3, <1>4, <1>5, PageSeq, PageFacts
<1> QED
  BY <1>1, <1>4, <1>6, <1>7, <1>10, <1>11

\* A page and its buddy are a block of two.
LEMMA PairIs ==
  ASSUME Small, NEW p \in Nat, NEW q \in Nat, q = Buddy(p, 0)
  PROVE  /\ 1 \in Orders /\ 0 \in Orders /\ Smaller(p, q) \in Nat /\ Smaller(p, q) \in {p, q}
         /\ Pages([page |-> Smaller(p, q), order |-> 1]) = {p, q}
         /\ Pages([page |-> q, order |-> 0]) = {q}
<1>1. q = p + 1 \/ q = p - 1
  BY BuddyOfPage
<1>2. 1 \in Orders /\ 0 \in Orders /\ Size(0) = 1 /\ Size(1) = 2
  BY OrderFacts, PowersAre DEF Powers
<1>3. PICK z : z = Smaller(p, q)
  OBVIOUS
<1>4. z \in Nat /\ z \in {p, q} /\ z <= p /\ z <= q
  BY <1>3, SmallerIs
<1>5. /\ \A x : x \in Span(z, 1) <=> x \in Int /\ z <= x /\ x < z + 2
      /\ \A x : x \in Span(q, 0) <=> x \in Int /\ q <= x /\ x < q + 1
  BY <1>2, <1>4, SpanFacts
<1>6. \A x \in Int : /\ z <= x /\ x < z + 2 <=> x \in {p, q}
                     /\ q <= x /\ x < q + 1 <=> x \in {q}
  BY <1>1, <1>4
<1>7. Span(z, 1) = {p, q}
  BY <1>5, <1>6
<1>8. Span(q, 0) = {q}
  BY <1>5, <1>6
<1> QED
  BY <1>2, <1>3, <1>4, <1>7, <1>8 DEF Pages

LEMMA FreeTogether ==
  ASSUME Small, NEW mem, NEW B, NEW L, Booked(mem, B, L), NEW p \in B,
         NEW q, q = Buddy(p, 0), q \in Elems(L[0])
  PROVE  Booked(Lists!Link(Lists!Unlink(FreeMem(mem, p), q, 0), Smaller(p, q), 1),
                B \ {p}, Together(L, p, q))
<1>1. PICK y : y = FreeMem(mem, p)
  OBVIOUS
<1>2. /\ y \in Memory /\ Shape(y, L) /\ p \in Lists!Page /\ p \in Nat
      /\ \A k \in Orders : p \notin Elems(L[k])
  BY <1>1, HeldPage
<1>3. PICK u : u = Lists!Unlink(y, q, 0)
  OBVIOUS
<1>4. PICK K : K = [L EXCEPT ![0] = Without(L[0], q)]
  OBVIOUS
<1>5. u \in Memory /\ SameBooks(y, u) /\ Shape(u, K) /\ q \in Lists!Page /\ q \in Nat /\ q # p
  BY <1>1, <1>3, <1>4, BuddyUnlinked
<1>6. PICK z : z = Smaller(p, q)
  OBVIOUS
<1>7. /\ 1 \in Orders /\ 0 \in Orders /\ z \in Nat /\ z \in {p, q}
      /\ Pages([page |-> z, order |-> 1]) = {p, q}
      /\ Pages([page |-> q, order |-> 0]) = {q}
  BY <1>2, <1>5, <1>6, PairIs
<1>8. /\ L \in [Orders -> Seq(Nat)] /\ K \in [Orders -> Seq(Nat)]
      /\ [page |-> q, order |-> 0] \in FreeOf(L)
  BY <1>2, <1>5, <1>7, ShapeFree
<1>9. /\ \A k \in Orders : k # 0 => K[k] = L[k] /\ q \notin Elems(K[k])
      /\ K[0] = Without(L[0], q) /\ Elems(K[0]) = Elems(L[0]) \ {q}
  <2>1. L[0] \in Seq(Nat) /\ OneEach(L[0]) /\ \A k \in Orders : k # 0 => Elems(L[0]) \cap Elems(L[k]) = {}
    BY <1>2, <1>7, <1>8, ShapeIs
  <2>2. Elems(Without(L[0], q)) = Elems(L[0]) \ {q}
    BY <2>1, Unlinked
  <2>3. \A k \in Orders : k # 0 => q \notin Elems(L[k])
    BY <2>1
  <2>4. K[0] = Without(L[0], q) /\ \A k \in Orders : k # 0 => K[k] = L[k]
    BY <1>4, <1>7, <1>8
  <2> QED
    BY <2>2, <2>3, <2>4
<1>10. \A k \in Orders : z \notin Elems(K[k])
  BY <1>2, <1>7, <1>9
<1>11. PICK x : x = Lists!Link(u, z, 1)
  OBVIOUS
<1>12. PICK M : M = [K EXCEPT ![1] = <<z>> \o K[1]]
  OBVIOUS
<1>13. x \in Memory /\ SameBooks(u, x) /\ Shape(x, M)
  <2>1. z \in Lists!Page
    BY <1>2, <1>5, <1>7
  <2> QED
    BY <1>5, <1>7, <1>10, <1>11, <1>12, <2>1, LinkShape
<1>14. SameBooks(FreeMem(mem, p), x)
  BY <1>1, <1>5, <1>13 DEF SameBooks
<1>15. PICK c : c = [page |-> z, order |-> 1]
  OBVIOUS
<1>16. PICK g0 : g0 = [page |-> q, order |-> 0]
  OBVIOUS
<1>17. PICK G : G = {g0}
  OBVIOUS
<1>18. c \in Blocks /\ c.page = z /\ c.order = 1 /\ g0.page = q /\ g0.order = 0
  BY <1>7, <1>15, <1>16 DEF Blocks
<1>19. G \subseteq FreeOf(L) /\ PagesOf(G) = {q} /\ Pages(c) = {p} \cup PagesOf(G)
  <2>1. Pages(g0) = {q} /\ Pages(c) = {p, q} /\ g0 \in FreeOf(L)
    BY <1>7, <1>8, <1>15, <1>16
  <2>2. PagesOf(G) = {q}
    BY <1>17, <2>1 DEF PagesOf
  <2> QED
    BY <1>17, <2>1, <2>2
<1>20. Exchanged(L, M, c, G)
  <2> SUFFICES ASSUME NEW k \in Orders
               PROVE  Elems(M[k]) = (Elems(L[k]) \ {g.page : g \in {b \in G : b.order = k}})
                                       \cup (IF k = c.order THEN {c.page} ELSE {})
    BY DEF Exchanged
  <2>1. {g.page : g \in {b \in G : b.order = k}} = IF k = 0 THEN {q} ELSE {}
    BY <1>17, <1>18
  <2>2. M[k] = IF k = 1 THEN <<z>> \o K[1] ELSE K[k]
    BY <1>7, <1>8, <1>12
  <2>3. Elems(<<z>> \o K[1]) = {z} \cup Elems(K[1])
    BY <1>7, <1>8, Consed
  <2>4. CASE k = 0
    BY <1>9, <1>18, <2>1, <2>2, <2>4
  <2>5. CASE k = 1
    BY <1>9, <1>18, <2>1, <2>2, <2>3, <2>5
  <2>6. CASE k # 0 /\ k # 1
    BY <1>9, <1>18, <2>1, <2>2, <2>6
  <2> QED
    BY <2>4, <2>5, <2>6
<1>21. Booked(x, B \ {p}, M)
  BY <1>13, <1>14, <1>18, <1>19, <1>20, FreeEnds
<1>22. M = Together(L, p, q)
  <2>1. M = [L EXCEPT ![0] = Without(L[0], q), ![1] = <<z>> \o K[1]]
    BY <1>4, <1>12
  <2>2. K[1] = L[1]
    BY <1>7, <1>9
  <2> QED
    BY <1>6, <2>1, <2>2 DEF Together
<1> QED
  BY <1>1, <1>3, <1>6, <1>11, <1>21, <1>22

-----------------------------------------------------------------------------
\* FreePage() looks for buddies in one list after the other.
OneMerge(s, k) ==
  IF s.ends \/ ~Lists!ReallyFree(s.mem, Buddy(s.at, k - 1), k - 1) THEN [s EXCEPT !.ends = TRUE]
  ELSE [mem |-> Lists!Unlink(s.mem, Buddy(s.at, k - 1), k - 1), at |-> Lists!Min({s.at, Buddy(s.at, k - 1)}),
        k |-> k, ends |-> FALSE]

FreeBy(mem, p, f) ==
  /\ Lists!FreePage(mem, p) =
       [mem |-> IF f[BUDDY_MAX_ORDER].mem.halted THEN f[BUDDY_MAX_ORDER].mem
                ELSE Lists!Link(f[BUDDY_MAX_ORDER].mem, f[BUDDY_MAX_ORDER].at, f[BUDDY_MAX_ORDER].k),
        order |-> f[BUDDY_MAX_ORDER].k]
  /\ f[0] = [mem |-> FreeMem(mem, p), at |-> p, k |-> 0, ends |-> FALSE]
  /\ \A k \in Orders : k # 0 => f[k] = OneMerge(f[k - 1], k)

LEMMA FreeRule ==
  ASSUME Small, NEW mem, NEW p
  PROVE  \E f : FreeBy(mem, p, f)
<1> DEFINE Code(f, k) ==
             IF k = 0 THEN [mem |-> Lists!Count(Lists!Clear(mem, p), -1), at |-> p, k |-> 0, ends |-> FALSE]
             ELSE LET s == f[k - 1]
                      b == Lists!Allocator!Buddy(s.at, k - 1)
                  IN IF s.ends \/ ~Lists!ReallyFree(s.mem, b, k - 1) THEN [s EXCEPT !.ends = TRUE]
                     ELSE [mem |-> Lists!Unlink(s.mem, b, k - 1), at |-> Lists!Min({s.at, b}),
                           k |-> k, ends |-> FALSE]
           step       == CHOOSE f : f = [k \in Lists!Orders |-> Code(f, k)]
           Start      == [mem |-> FreeMem(mem, p), at |-> p, k |-> 0, ends |-> FALSE]
           Rule(f, k) == IF k = 0 THEN Start ELSE OneMerge(f[k - 1], k)
           Good(f, n) == \A k \in 0..n : f[k] = Rule(f, k)
           T          == {n \in Orders : ~\E f : Good(f, n)}
<1>1. Lists!FreePage(mem, p) =
        [mem |-> IF step[BUDDY_MAX_ORDER].mem.halted THEN step[BUDDY_MAX_ORDER].mem
                 ELSE Lists!Link(step[BUDDY_MAX_ORDER].mem, step[BUDDY_MAX_ORDER].at, step[BUDDY_MAX_ORDER].k),
         order |-> step[BUDDY_MAX_ORDER].k]
  BY DEF Lists!FreePage
<1>2. BUDDY_MAX_ORDER \in Nat /\ Orders = 0..BUDDY_MAX_ORDER /\ 0 \in Orders /\ BUDDY_MAX_ORDER \in Orders
  BY OrderFacts
<1>3. \A f, k : Code(f, k) = Rule(f, k)
  <2> SUFFICES ASSUME NEW f, NEW k, k # 0 PROVE Code(f, k) = OneMerge(f[k - 1], k)
    BY DEF FreeMem
  <2>1. Lists!Allocator!Buddy(f[k - 1].at, k - 1) = Buddy(f[k - 1].at, k - 1)
    BY SameBuddy
  <2> QED
    BY <2>1 DEF OneMerge
<1> HIDE DEF Code, Start
<1>4. ASSUME NEW n \in Orders, \A i \in T : n <= i PROVE n \notin T
  <2>1. n \in 0..BUDDY_MAX_ORDER
    BY <1>2
  <2>2. PICK f : \A k \in 0..(n - 1) : f[k] = Rule(f, k)
    <3>1. CASE n = 0
      <4>1. \A k \in 0..(n - 1) : FALSE
        BY <3>1
      <4> QED
        BY <4>1
    <3>2. CASE n # 0
      <4>1. n - 1 \in Orders /\ ~(n <= n - 1)
        BY <1>2, <2>1, <3>2
      <4> QED
        BY <1>4, <4>1
    <3> QED
      BY <3>1, <3>2
  <2> DEFINE g == [k \in 0..n |-> IF k = n THEN Rule(f, n) ELSE f[k]]
  <2>3. (\A k \in 0..(n - 1) : g[k] = f[k]) /\ g[n] = Rule(f, n)
    BY <2>1
  <2> HIDE DEF g
  <2>4. ASSUME NEW k \in 0..n PROVE g[k] = Rule(g, k)
    <3>1. Rule(g, k) = Rule(f, k)
      <4>1. k # 0 => k - 1 \in 0..(n - 1)
        BY <2>1
      <4> QED
        BY <2>3, <4>1
    <3>2. k # n => k \in 0..(n - 1)
      BY <2>1
    <3> QED
      BY <2>2, <2>3, <3>1, <3>2
  <2> QED
    BY <2>4
<1>5. ASSUME T # {} PROVE FALSE
  <2> HIDE DEF T
  <2>1. T \subseteq Nat
    BY OrderFacts DEF T
  <2>2. PICK n \in T : \A i \in T : n <= i
    BY <1>5, <2>1, NatHasMin
  <2>3. n \in Orders
    BY <2>2 DEF T
  <2> QED
    BY <1>4, <2>2, <2>3
<1>6. PICK f : \A k \in Orders : f[k] = Rule(f, k)
  <2>1. \E f : Good(f, BUDDY_MAX_ORDER)
    BY <1>2, <1>5
  <2> QED
    BY <1>2, <2>1
<1> DEFINE h == [k \in Orders |-> f[k]]
<1>7. h = [k \in Orders |-> Code(h, k)]
  <2> SUFFICES ASSUME NEW k \in Orders PROVE h[k] = Rule(h, k)
    BY <1>3
  <2>1. k # 0 => k - 1 \in Orders
    BY <1>2
  <2> QED
    BY <1>6, <2>1
<1> HIDE DEF h
<1>8. Lists!Orders = Orders
  BY PageFacts
<1>9. step = [k \in Orders |-> Code(step, k)]
  BY <1>7, <1>8
<1> HIDE DEF step
<1>10. \A k \in Orders : step[k] = Rule(step, k)
  BY <1>3, <1>9
<1> QED
  BY <1>1, <1>2, <1>10 DEF FreeBy, Start

\* How far FreePage() has come, whatever the lists are.
Merging(mem, p, s, k) ==
  /\ s = [mem |-> s.mem, at |-> s.at, k |-> s.k, ends |-> s.ends]
  /\ s.mem \in Memory /\ SameBooks(FreeMem(mem, p), s.mem)
  /\ s.at \in Lists!Page /\ s.k \in Orders /\ s.ends \in BOOLEAN
  /\ s.k <= k /\ (~s.ends => s.k = k)
  /\ s.k = 0 => s.mem = FreeMem(mem, p) /\ s.at = p
  /\ s.k = 1 => /\ Lists!Listed(FreeMem(mem, p), Buddy(p, 0), 0)
                /\ s.mem = Lists!Unlink(FreeMem(mem, p), Buddy(p, 0), 0)
                /\ s.at = Smaller(p, Buddy(p, 0))

LEMMA MergingGoesOn ==
  ASSUME Small, NEW mem, NEW p \in Lists!Page, NEW s, NEW k \in Orders, k # 0, Merging(mem, p, s, k - 1)
  PROVE  Merging(mem, p, OneMerge(s, k), k)
<1>1. PICK b : b = Buddy(s.at, k - 1)
  OBVIOUS
<1>2. k \in Nat /\ k - 1 \in Orders /\ k - 1 \in Nat /\ Orders \subseteq Nat /\ 0 \in Orders
  BY OrderFacts
<1>3. CASE s.ends \/ ~Lists!ReallyFree(s.mem, b, k - 1)
  <2>1. PICK r : r = [s EXCEPT !.ends = TRUE]
    OBVIOUS
  <2>2. OneMerge(s, k) = r
    BY <1>1, <1>3, <2>1 DEF OneMerge
  <2>3. r = [mem |-> s.mem, at |-> s.at, k |-> s.k, ends |-> TRUE]
    BY <2>1 DEF Merging
  <2>4. s.k <= k
    BY <1>2 DEF Merging
  <2> QED
    BY <2>2, <2>3, <2>4 DEF Merging
<1>4. CASE ~(s.ends \/ ~Lists!ReallyFree(s.mem, b, k - 1))
  <2>1. PICK r : r = [mem |-> Lists!Unlink(s.mem, b, k - 1), at |-> Lists!Min({s.at, b}), k |-> k, ends |-> FALSE]
    OBVIOUS
  <2>2. OneMerge(s, k) = r
    BY <1>1, <1>4, <2>1 DEF OneMerge
  <2>3. Lists!Listed(s.mem, b, k - 1) /\ s.mem \in Memory /\ s.at \in Lists!Page /\ s.k = k - 1
        /\ SameBooks(FreeMem(mem, p), s.mem)
    BY <1>4 DEF Lists!ReallyFree, Merging
  <2>4. b \in Lists!Page
    BY <1>2, <2>3, ListedIs
  <2>5. b \in Nat /\ s.at \in Nat /\ p \in Nat
    BY <2>3, <2>4, PageFacts
  <2>6. Lists!Min({s.at, b}) = Smaller(s.at, b) /\ Smaller(s.at, b) \in Lists!Page
    BY <2>3, <2>4, <2>5, SmallerIs
  <2>7. r.mem \in Memory /\ SameBooks(s.mem, r.mem)
    BY <1>2, <2>1, <2>3, <2>4, UnlinkIs
  <2>8. SameBooks(FreeMem(mem, p), r.mem)
    BY <2>3, <2>7 DEF SameBooks
  <2>9. k = 1 => /\ Lists!Listed(FreeMem(mem, p), Buddy(p, 0), 0)
                 /\ r.mem = Lists!Unlink(FreeMem(mem, p), Buddy(p, 0), 0)
                 /\ r.at = Smaller(p, Buddy(p, 0))
    <3> SUFFICES ASSUME k = 1
                 PROVE  /\ Lists!Listed(FreeMem(mem, p), Buddy(p, 0), 0)
                        /\ r.mem = Lists!Unlink(FreeMem(mem, p), Buddy(p, 0), 0)
                        /\ r.at = Smaller(p, Buddy(p, 0))
      OBVIOUS
    <3>1. k - 1 = 0 /\ s.k = 0
      BY <2>3
    <3>2. s.mem = FreeMem(mem, p) /\ s.at = p
      BY <3>1 DEF Merging
    <3>3. b = Buddy(p, 0)
      BY <1>1, <3>1, <3>2
    <3> QED
      BY <2>1, <2>3, <2>6, <3>1, <3>2, <3>3
  <2>10. /\ r = [mem |-> r.mem, at |-> r.at, k |-> r.k, ends |-> r.ends]
         /\ r.at \in Lists!Page /\ r.k = k /\ r.ends = FALSE
    BY <2>1, <2>6
  <2>11. r.k <= k /\ r.k # 0 /\ r.k \in Orders /\ (r.k = 1 => k = 1)
    BY <1>2, <2>10
  <2>13. r.ends \in BOOLEAN
    BY <2>10
  <2>12. Merging(mem, p, r, k)
    BY <2>7, <2>8, <2>9, <2>10, <2>11, <2>13 DEF Merging
  <2> QED
    BY <2>2, <2>12
<1> QED
  BY <1>3, <1>4

LEMMA FreeIsSafe ==
  ASSUME Small, NEW mem \in Memory, ~mem.halted, NEW p \in mem.bits
  PROVE  LET r == Lists!FreePage(mem, p)
             q == Buddy(p, 0)
         IN /\ r.mem \in Memory /\ SameBooks(FreeMem(mem, p), r.mem) /\ r.order \in Orders
            /\ r.order = 0 => r.mem = Lists!Link(FreeMem(mem, p), p, 0)
            /\ r.order = 1 => /\ Lists!Listed(FreeMem(mem, p), q, 0)
                              /\ r.mem = Lists!Link(Lists!Unlink(FreeMem(mem, p), q, 0), Smaller(p, q), 1)
<1>1. p \in Lists!Page
  BY MemoryIs
<1>2. PICK y : y = FreeMem(mem, p)
  OBVIOUS
<1>3. y \in Memory /\ ~y.halted
  BY <1>2, FreeMemIs
<1>4. PICK f : FreeBy(mem, p, f)
  BY FreeRule
<1>5. BUDDY_MAX_ORDER \in Nat /\ Orders = 0..BUDDY_MAX_ORDER /\ 0 \in Orders /\ BUDDY_MAX_ORDER \in Orders
  BY OrderFacts
<1>6. Merging(mem, p, f[0], 0)
  <2>1. f[0] = [mem |-> y, at |-> p, k |-> 0, ends |-> FALSE]
    BY <1>2, <1>4 DEF FreeBy
  <2>2. SameBooks(y, y)
    BY DEF SameBooks
  <2> QED
    BY <1>1, <1>2, <1>3, <1>5, <2>1, <2>2 DEF Merging
<1> DEFINE T == {k \in Orders : ~Merging(mem, p, f[k], k)}
<1>7. ASSUME T # {} PROVE FALSE
  <2>1. T \subseteq Nat
    BY OrderFacts
  <2>2. PICK n \in T : \A i \in T : n <= i
    BY <1>7, <2>1, NatHasMin
  <2>3. n \in Orders /\ n # 0
    BY <1>6, <2>2
  <2>4. n - 1 \in Orders /\ ~(n <= n - 1)
    BY <1>5, <2>3
  <2>5. Merging(mem, p, f[n - 1], n - 1)
    BY <2>2, <2>4
  <2>6. f[n] = OneMerge(f[n - 1], n)
    BY <1>4, <2>3 DEF FreeBy
  <2> QED
    BY <1>1, <2>2, <2>3, <2>5, <2>6, MergingGoesOn
<1>8. PICK s : s = f[BUDDY_MAX_ORDER]
  OBVIOUS
<1>9. Merging(mem, p, s, BUDDY_MAX_ORDER)
  <2>1. T = {}
    BY <1>7
  <2> QED
    BY <1>5, <1>8, <2>1
<1> HIDE DEF T
<1>10. ~s.mem.halted
  BY <1>2, <1>3, <1>9 DEF Merging, SameBooks
<1>11. PICK r : r = Lists!FreePage(mem, p)
  OBVIOUS
<1>12. r.mem = Lists!Link(s.mem, s.at, s.k) /\ r.order = s.k
  BY <1>4, <1>8, <1>10, <1>11 DEF FreeBy
<1>13. s.mem \in Memory /\ s.at \in Lists!Page /\ s.k \in Orders /\ SameBooks(y, s.mem)
  BY <1>2, <1>9 DEF Merging
<1>14. r.mem \in Memory /\ SameBooks(s.mem, r.mem)
  BY <1>12, <1>13, LinkIs
<1>15. SameBooks(y, r.mem)
  BY <1>13, <1>14 DEF SameBooks
<1>16. s.k = 0 => r.mem = Lists!Link(y, p, 0)
  BY <1>2, <1>9, <1>12 DEF Merging
<1>17. s.k = 1 => /\ Lists!Listed(y, Buddy(p, 0), 0)
                  /\ r.mem = Lists!Link(Lists!Unlink(y, Buddy(p, 0), 0), Smaller(p, Buddy(p, 0)), 1)
  BY <1>2, <1>9, <1>12 DEF Merging
<1> QED
  BY <1>2, <1>11, <1>12, <1>13, <1>14, <1>15, <1>16, <1>17

-----------------------------------------------------------------------------
(***************************************************************************)
(* Memory between two calls, and the interrupt handler.                    *)
(***************************************************************************)
ListsOf(mem) == [k \in Orders |-> Lists!Walk(mem, mem.head[k])]

\* Callers hold the pages of B.
AtRest(mem, B) == Booked(mem, B, ListsOf(mem))

LEMMA BookedAtRest ==
  ASSUME Small, NEW mem, NEW B, NEW L, Booked(mem, B, L)
  PROVE  L = ListsOf(mem) /\ AtRest(mem, B)
<1>1. mem \in Memory /\ Shape(mem, L)
  BY DEF Booked, Tidy
<1>2. \A k \in Orders : Lists!Walk(mem, mem.head[k]) = L[k]
  BY <1>1, ListedIs
<1>3. L = [k \in Orders |-> L[k]]
  BY <1>1 DEF Shape
<1>4. L = ListsOf(mem)
  BY <1>2, <1>3 DEF ListsOf
<1> QED
  BY <1>4 DEF AtRest

\* The numbers, and what a caller may free.
LEMMA AtRestIs ==
  ASSUME Small, NEW mem, NEW B, AtRest(mem, B)
  PROVE  /\ mem \in Memory /\ ~mem.halted /\ B \subseteq Lists!Page /\ B \subseteq mem.bits
         /\ mem.allocated_pages \in 0..ListPages /\ mem.free_pages \in 0..ListPages
         /\ \A p \in B : /\ mem.allocated_pages - 1 \in 0..ListPages
                         /\ mem.free_pages + 1 \in 0..ListPages
<1>1. PICK L : L = ListsOf(mem)
  OBVIOUS
<1>2. /\ Tidy(mem, L) /\ B \subseteq Lists!Page \ {0} /\ mem.bits = {0} \cup B
      /\ mem.allocated_pages = Cardinality(B)
      /\ mem.free_pages = Cardinality(PagesOf(FreeOf(L)))
  BY <1>1 DEF AtRest, Booked
<1>3. mem \in Memory /\ ~mem.halted /\ PagesOf(FreeOf(L)) \subseteq Lists!Page \ ({0} \cup mem.bits)
  BY <1>2 DEF Tidy
<1>4. PICK n \in Nat : n = ListPages
  BY PageFacts
<1>5. Lists!Page = 0..(n - 1) /\ IsFiniteSet(Lists!Page) /\ Cardinality(Lists!Page) = n
  <2>1. Lists!Page = 0..(n - 1)
    BY <1>4, PageFacts
  <2>2. IsFiniteSet(0..(n - 1)) /\ Cardinality(0..(n - 1)) = IF 0 > n - 1 THEN 0 ELSE (n - 1) - 0 + 1
    BY <1>4, FS_Interval
  <2> QED
    BY <1>4, <2>1, <2>2
<1>6. ASSUME NEW S, S \subseteq Lists!Page
      PROVE  IsFiniteSet(S) /\ Cardinality(S) \in 0..n
  <2>1. IsFiniteSet(S) /\ Cardinality(S) <= n
    BY <1>5, <1>6, FS_Subset
  <2>2. Cardinality(S) \in Nat
    BY <2>1, FS_CardinalityType
  <2> QED
    BY <2>1, <2>2
<1>7. PICK F : F = PagesOf(FreeOf(L))
  OBVIOUS
<1>8. F \subseteq Lists!Page /\ F \cap B = {}
  BY <1>2, <1>3, <1>7
<1>9. Cardinality(B) \in 0..n /\ Cardinality(F) \in 0..n
  BY <1>2, <1>6, <1>8
<1>10. ASSUME NEW p \in B
       PROVE  Cardinality(B) - 1 \in 0..n /\ Cardinality(F) + 1 \in 0..n
  <2>1. IsFiniteSet(B) /\ IsFiniteSet(F)
    BY <1>2, <1>6, <1>8
  <2>2. Cardinality(B \ {p}) = Cardinality(B) - 1 /\ Cardinality(F \cup {p}) = Cardinality(F) + 1
    BY <1>8, <2>1, OneMore
  <2>3. B \ {p} \subseteq Lists!Page /\ F \cup {p} \subseteq Lists!Page
    BY <1>2, <1>8
  <2> QED
    BY <1>6, <2>2, <2>3
<1> QED
  BY <1>2, <1>3, <1>4, <1>7, <1>9, <1>10

LEMMA AllocAtRest ==
  ASSUME Small, NEW mem, NEW B, AtRest(mem, B), Lists!HasPage(mem)
  PROVE  /\ Lists!NextPage(mem) \in Lists!Page /\ Lists!NextPage(mem) \notin B
         /\ AtRest(Lists!AllocPage(mem), B \cup {Lists!NextPage(mem)})
<1>1. LET e == Lists!NextPage(mem)
          from == Lists!FirstList(mem)
      IN /\ e \in Lists!Page /\ e \notin {0} \cup B
         /\ Booked(Lists!AllocPage(mem), B \cup {e}, Halved(ListsOf(mem), 0, from))
  BY AllocIs DEF AtRest
<1> QED
  BY <1>1, BookedAtRest

LEMMA FreeAtRest ==
  ASSUME Small, NEW mem, NEW B, AtRest(mem, B), NEW p \in B
  PROVE  LET r == Lists!FreePage(mem, p)
         IN /\ r.mem \in Memory /\ SameBooks(FreeMem(mem, p), r.mem) /\ r.order \in Orders
            /\ ~(r.order > 1) => AtRest(r.mem, B \ {p})
<1>1. PICK L : L = ListsOf(mem)
  OBVIOUS
<1>2. Booked(mem, B, L)
  BY <1>1 DEF AtRest
<1>3. mem \in Memory /\ ~mem.halted /\ p \in mem.bits
  BY AtRestIs
<1>4. PICK r : r = Lists!FreePage(mem, p)
  OBVIOUS
<1>5. PICK q : q = Buddy(p, 0)
  OBVIOUS
<1>6. /\ r.mem \in Memory /\ SameBooks(FreeMem(mem, p), r.mem) /\ r.order \in Orders
      /\ r.order = 0 => r.mem = Lists!Link(FreeMem(mem, p), p, 0)
      /\ r.order = 1 => /\ Lists!Listed(FreeMem(mem, p), q, 0)
                        /\ r.mem = Lists!Link(Lists!Unlink(FreeMem(mem, p), q, 0), Smaller(p, q), 1)
  BY <1>3, <1>4, <1>5, FreeIsSafe
<1>7. CASE r.order = 0
  <2>1. Booked(r.mem, B \ {p}, Alone(L, p))
    BY <1>2, <1>6, <1>7, FreeAlone
  <2> QED
    BY <1>4, <1>6, <2>1, BookedAtRest
<1>8. CASE r.order = 1
  <2>1. FreeMem(mem, p) \in Memory /\ Shape(FreeMem(mem, p), L) /\ 0 \in Orders
    BY <1>2, HeldPage, OrderFacts
  <2>2. q \in Elems(L[0])
    BY <1>6, <1>8, <2>1, ListedIs
  <2>3. Booked(r.mem, B \ {p}, Together(L, p, q))
    BY <1>2, <1>5, <1>6, <1>8, <2>2, FreeTogether
  <2> QED
    BY <1>4, <1>6, <2>3, BookedAtRest
<1>9. CASE r.order > 1
  BY <1>4, <1>6, <1>9
<1>10. r.order = 0 \/ r.order = 1 \/ r.order > 1
  BY <1>6, OrderFacts
<1> QED
  BY <1>7, <1>8, <1>9, <1>10

\* What a page that is taken does to the counters.
LEMMA AllocCounts ==
  ASSUME Small, NEW mem, NEW B, AtRest(mem, B), Lists!HasPage(mem)
  PROVE  LET new == Lists!AllocPage(mem)
         IN /\ new.allocated_pages = mem.allocated_pages + 1
            /\ new.free_pages = mem.free_pages - 1
<1>1. PICK L : L = ListsOf(mem)
  OBVIOUS
<1>2. PICK e : e = Lists!NextPage(mem)
  OBVIOUS
<1>3. PICK from : from = Lists!FirstList(mem)
  OBVIOUS
<1>4. PICK new : new = Lists!AllocPage(mem)
  OBVIOUS
<1>5. Booked(mem, B, L)
  BY <1>1 DEF AtRest
<1>6. /\ from \in Orders /\ L[from] # <<>> /\ e = Head(L[from])
      /\ e \in Lists!Page /\ e \notin {0} \cup B
      /\ Booked(new, B \cup {e}, Halved(L, 0, from))
  BY <1>2, <1>3, <1>4, <1>5, AllocIs
<1>7. PICK M : M = Halved(L, 0, from)
  OBVIOUS
<1>8. /\ Tidy(mem, L) /\ B \subseteq Lists!Page
      /\ mem.allocated_pages = Cardinality(B) /\ mem.free_pages = Cardinality(PagesOf(FreeOf(L)))
  BY <1>5 DEF Booked
<1>9. /\ Tidy(new, M)
      /\ new.allocated_pages = Cardinality(B \cup {e}) /\ new.free_pages = Cardinality(PagesOf(FreeOf(M)))
  BY <1>6, <1>7 DEF Booked
<1>10. Shape(new, M)
  BY <1>9 DEF Tidy
<1>11. e \in PagesOf(FreeOf(L)) /\ PagesOf(FreeOf(M)) = PagesOf(FreeOf(L)) \ {e}
  BY <1>6, <1>7, <1>8, <1>10, HalvedFree
<1>12. PagesOf(FreeOf(L)) \subseteq Lists!Page
  BY <1>8 DEF Tidy
<1>13. IsFiniteSet(B) /\ IsFiniteSet(PagesOf(FreeOf(L)))
  BY <1>8, <1>12, PagesFinite
<1>14. Cardinality(B \cup {e}) = Cardinality(B) + 1
  BY <1>6, <1>13, OneMore
<1>15. Cardinality(PagesOf(FreeOf(L)) \ {e}) = Cardinality(PagesOf(FreeOf(L))) - 1
  BY <1>11, <1>13, OneMore
<1> QED
  BY <1>4, <1>8, <1>9, <1>11, <1>14, <1>15

\* The handler's work, with and without a second page.
HandlesOne(mem, r) == r = Lists!FreePage(Lists!AllocPage(mem), Lists!NextPage(mem))
HandlesTwo(mem, s, r) ==
  LET m1 == Lists!AllocPage(mem)
  IN /\ s = Lists!FreePage(Lists!AllocPage(m1), Lists!NextPage(m1))
     /\ r = Lists!FreePage(s.mem, Lists!NextPage(mem))

SameCounts(mem, new) ==
  new.allocated_pages = mem.allocated_pages /\ new.free_pages = mem.free_pages

\* What is freed has been counted.
LEMMA FreeCounts ==
  ASSUME Small, NEW mem \in Memory, ~mem.halted, NEW p \in mem.bits
  PROVE  LET new == Lists!FreePage(mem, p).mem
         IN /\ new \in Memory /\ ~new.halted /\ new.bits = mem.bits \ {p}
            /\ new.allocated_pages = mem.allocated_pages - 1 /\ new.free_pages = mem.free_pages + 1
<1>1. PICK y : y = FreeMem(mem, p)
  OBVIOUS
<1>2. PICK new : new = Lists!FreePage(mem, p).mem
  OBVIOUS
<1>3. new \in Memory /\ SameBooks(y, new)
  BY <1>1, <1>2, FreeIsSafe
<1>4. /\ y.bits = mem.bits \ {p} /\ y.halted = mem.halted /\ y.free_pages = mem.free_pages + 1
      /\ y.allocated_pages = mem.allocated_pages - 1
  BY <1>1, FreeMemIs
<1>5. /\ new.bits = y.bits /\ new.halted = y.halted
      /\ new.free_pages = y.free_pages /\ new.allocated_pages = y.allocated_pages
  BY <1>3 DEF SameBooks
<1>6. ~new.halted /\ new.bits = mem.bits \ {p}
  BY <1>4, <1>5
<1>7. new.allocated_pages = mem.allocated_pages - 1 /\ new.free_pages = mem.free_pages + 1
  BY <1>4, <1>5
<1> QED
  BY <1>2, <1>3, <1>6, <1>7

LEMMA PlusMinus == \A a \in Int : a + 1 - 1 = a /\ a - 1 + 1 = a
OBVIOUS

LEMMA HandlesOneKeeps ==
  ASSUME Small, NEW mem, NEW B, AtRest(mem, B), Lists!HasPage(mem), NEW r, HandlesOne(mem, r)
  PROVE  /\ r.mem \in Memory /\ ~r.mem.halted /\ SameCounts(mem, r.mem)
         /\ ~(r.order > 1) => AtRest(r.mem, B)
<1>1. PICK e : e = Lists!NextPage(mem)
  OBVIOUS
<1>2. PICK x : x = Lists!AllocPage(mem)
  OBVIOUS
<1>3. e \in Lists!Page /\ e \notin B /\ AtRest(x, B \cup {e})
  BY <1>1, <1>2, AllocAtRest
<1>4. x \in Memory /\ ~x.halted /\ e \in x.bits
  BY <1>3, AtRestIs
<1>5. r = Lists!FreePage(x, e)
  BY <1>1, <1>2 DEF HandlesOne
<1>6. /\ r.mem \in Memory /\ ~r.mem.halted
      /\ r.mem.allocated_pages = x.allocated_pages - 1 /\ r.mem.free_pages = x.free_pages + 1
  BY <1>4, <1>5, FreeCounts
<1>7. x.allocated_pages = mem.allocated_pages + 1 /\ x.free_pages = mem.free_pages - 1
  BY <1>2, AllocCounts
<1>8. mem \in Memory
  BY AtRestIs
<1>9. mem.allocated_pages \in Int /\ mem.free_pages \in Int
  BY <1>8, MemoryIs
<1>10. SameCounts(mem, r.mem)
  BY <1>6, <1>7, <1>9, PlusMinus DEF SameCounts
<1>11. PICK C : C = B \cup {e}
  OBVIOUS
<1>12. AtRest(x, C) /\ e \in C /\ C \ {e} = B
  BY <1>3, <1>11
<1>13. ~(r.order > 1) => AtRest(r.mem, C \ {e})
  BY <1>5, <1>12, FreeAtRest
<1> QED
  BY <1>6, <1>10, <1>12, <1>13

LEMMA HandlesTwoKeeps ==
  ASSUME Small, NEW mem, NEW B, AtRest(mem, B), Lists!HasPage(mem), Lists!HasPage(Lists!AllocPage(mem)),
         NEW s, NEW r, HandlesTwo(mem, s, r)
  PROVE  /\ r.mem \in Memory /\ ~r.mem.halted /\ SameCounts(mem, r.mem)
         /\ ~(s.order > 1) /\ ~(r.order > 1) => AtRest(r.mem, B)
<1>1. PICK e : e = Lists!NextPage(mem)
  OBVIOUS
<1>2. PICK x : x = Lists!AllocPage(mem)
  OBVIOUS
<1>3. e \in Lists!Page /\ e \notin B /\ AtRest(x, B \cup {e})
  BY <1>1, <1>2, AllocAtRest
<1>4. PICK C : C = B \cup {e}
  OBVIOUS
<1>5. AtRest(x, C) /\ e \in C /\ C \ {e} = B
  BY <1>3, <1>4
<1>6. HandlesOne(x, s) /\ r = Lists!FreePage(s.mem, e)
  BY <1>1, <1>2 DEF HandlesTwo, HandlesOne
<1>7. PICK y : y = s.mem
  OBVIOUS
<1>8. y \in Memory /\ ~y.halted /\ SameCounts(x, y) /\ (~(s.order > 1) => AtRest(y, C))
  BY <1>2, <1>5, <1>6, <1>7, HandlesOneKeeps
<1>9. e \in y.bits
  <2>1. PICK d : d = Lists!NextPage(x)
    OBVIOUS
  <2>2. PICK z : z = Lists!AllocPage(x)
    OBVIOUS
  <2>3. d \in Lists!Page /\ d \notin C /\ AtRest(z, C \cup {d})
    BY <1>2, <1>5, <2>1, <2>2, AllocAtRest
  <2>4. z \in Memory /\ ~z.halted /\ C \cup {d} \subseteq z.bits
    BY <2>3, AtRestIs
  <2>5. d \in z.bits /\ e \in z.bits /\ e # d
    BY <1>5, <2>3, <2>4
  <2>6. y = Lists!FreePage(z, d).mem
    BY <1>6, <1>7, <2>1, <2>2 DEF HandlesOne
  <2>7. y.bits = z.bits \ {d}
    BY <2>4, <2>5, <2>6, FreeCounts
  <2> QED
    BY <2>5, <2>7
<1>10. r = Lists!FreePage(y, e)
  BY <1>6, <1>7
<1>11. /\ r.mem \in Memory /\ ~r.mem.halted
       /\ r.mem.allocated_pages = y.allocated_pages - 1 /\ r.mem.free_pages = y.free_pages + 1
  BY <1>8, <1>9, <1>10, FreeCounts
<1>12. x.allocated_pages = mem.allocated_pages + 1 /\ x.free_pages = mem.free_pages - 1
  BY <1>2, AllocCounts
<1>13. mem \in Memory
  BY AtRestIs
<1>14. mem.allocated_pages \in Int /\ mem.free_pages \in Int
  BY <1>13, MemoryIs
<1>15. SameCounts(mem, r.mem)
  BY <1>8, <1>11, <1>12, <1>14, PlusMinus DEF SameCounts
<1>16. ~(s.order > 1) /\ ~(r.order > 1) => AtRest(r.mem, C \ {e})
  BY <1>5, <1>8, <1>10, FreeAtRest
<1> QED
  BY <1>5, <1>11, <1>15, <1>16

-----------------------------------------------------------------------------
(***************************************************************************)
(* The caller, wherever it stands: what it has done to the memory that it  *)
(* called with.                                                            *)
(***************************************************************************)
Stands(pc, k, bl, l, before) == [pc |-> pc, k |-> k, block |-> bl, link |-> l, before |-> before]
Before(mem, B) == [mem |-> mem, live |-> B]

\* Of the list of order k in x, l is unlinked; or it is linked there.
Unlinking(pc, k, l, x, mem) ==
  \/ pc = "unlink1" /\ mem = x
  \/ pc = "unlink2" /\ mem = Lists!Unlink1(x, l, k)
  \/ pc = "unlink3" /\ mem = Lists!Unlink2(Lists!Unlink1(x, l, k), l)
Linking(pc, k, l, x, mem) ==
  \/ pc = "link1" /\ mem = x
  \/ pc = "link2" /\ mem = Lists!Link1(x, l)
  \/ pc = "link3" /\ mem = Lists!Link2(Lists!Link1(x, l), l, k)
  \/ pc = "link4" /\ mem = Lists!Link3(Lists!Link2(Lists!Link1(x, l), l, k), l, k)

\* The first block of b is split.
Splits(b, from, e, pc, k, l, mem) ==
  LET L == ListsOf(b)
  IN \/ k = from /\ l = e /\ Unlinking(pc, k, l, b, mem)
     \/ pc = "split" /\ l \in Pointer /\ (k = from \/ k \in Lower(from)) /\ Cut(b, L, k, from, mem)
     \/ /\ k \in Lower(from) /\ l = Upper(e, k)
        /\ \E x : Cut(b, L, k + 1, from, x) /\ Linking(pc, k, l, x, mem)
     \/ pc = "mark" /\ l \in Pointer /\ k = 0 /\ Cut(b, L, 0, from, mem)
     \/ pc = "count" /\ l \in Pointer /\ k = 0
        /\ \E x : Cut(b, L, 0, from, x) /\ mem = Lists!Mark(x, e)

\* A page that b's callers held is merged with its buddy q, or it is not.
Merges(b, p, q, pc, k, bl, l, mem) ==
  LET y == FreeMem(b, p)
      paired == q \in Elems(ListsOf(b)[0])
  IN \/ k = 0 /\ bl = p /\ l = p /\ pc = "uncount" /\ mem = Lists!Clear(b, p)
     \/ k = 0 /\ bl = p /\ l = p /\ pc = "merge" /\ mem = y
     \/ k = 0 /\ bl = p /\ l = q /\ paired /\ pc = "find" /\ mem = y
     \/ k = 0 /\ bl = p /\ l = q /\ paired /\ Unlinking(pc, 0, q, y, mem)
     \/ k = 0 /\ bl = p /\ l = q /\ paired /\ pc = "join" /\ mem = Lists!Unlink(y, q, 0)
     \/ k = 1 /\ bl = Smaller(p, q) /\ l = q /\ paired /\ pc = "merge" /\ mem = Lists!Unlink(y, q, 0)
     \/ k = 0 /\ bl = p /\ l = p /\ ~paired /\ Linking(pc, 0, p, y, mem)
     \/ /\ k = 1 /\ bl = Smaller(p, q) /\ l = bl /\ paired
        /\ BUDDY_MAX_ORDER = 1 \/ Buddy(bl, 1) \notin Elems(ListsOf(b)[1])
        /\ Linking(pc, 1, bl, Lists!Unlink(y, q, 0), mem)

Rests(mem, c, B) == c = Stands("idle", 0, NULL, NULL, NULL) /\ AtRest(mem, B)
Scans(mem, c, B) ==
  /\ AtRest(mem, B)
  /\ \E k \in 0..(BUDDY_MAX_ORDER + 1) :
       /\ c = Stands("scan", k, NULL, NULL, Before(mem, B))
       /\ \A j \in Orders : j < k => mem.head[j] = NULL
Takes(mem, c, B) ==
  /\ AtRest(mem, B) /\ Lists!HasPage(mem)
  /\ c = Stands("take", Lists!FirstList(mem), NULL, NULL, Before(mem, B))
Allocates(mem, c, B) ==
  \E b, pc, k, l :
    /\ AtRest(b, B) /\ Lists!HasPage(b)
    /\ c = Stands(pc, k, Lists!NextPage(b), l, Before(b, B))
    /\ Splits(b, Lists!FirstList(b), Lists!NextPage(b), pc, k, l, mem)
Frees(mem, c, B) ==
  \E b, C, p, pc, k, bl, l :
    /\ AtRest(b, C) /\ p \in C /\ B = C \ {p}
    /\ c = Stands(pc, k, bl, l, Before(b, C))
    /\ Merges(b, p, Buddy(p, 0), pc, k, bl, l, mem)

CallerIs(mem, c, B) ==
  Rests(mem, c, B) \/ Scans(mem, c, B) \/ Takes(mem, c, B) \/ Allocates(mem, c, B) \/ Frees(mem, c, B)

Typed(mem, c, B) ==
  /\ mem \in Memory /\ ~mem.halted
  /\ mem.allocated_pages \in 0..ListPages /\ mem.free_pages \in 0..ListPages
  /\ c.pc # "fault" /\ c.k \in 0..(BUDDY_MAX_ORDER + 1) /\ c.block \in Pointer /\ c.link \in Pointer
  /\ B \subseteq Lists!Page

\* What callers see.
SeenBy(mem, c, B) == IF c.pc = "idle" THEN Before(mem, B) ELSE c.before

-----------------------------------------------------------------------------
LEMMA StandsAt ==
  ASSUME NEW pc, NEW k, NEW bl, NEW l, NEW before, NEW c, c = Stands(pc, k, bl, l, before)
  PROVE  c.pc = pc /\ c.k = k /\ c.block = bl /\ c.link = l /\ c.before = before
BY DEF Stands

\* The ways in which the caller moves on.
With(c, v, w) == [c EXCEPT !.link = w, !.pc = v]
Into(c, v, w) == [c EXCEPT !.block = w, !.link = w, !.pc = v]
Raised(c, v, w)   == [c EXCEPT !.block = w, !.k = @ + 1, !.pc = v]
Lowered(c, v, w) == [c EXCEPT !.k = @ - 1, !.link = w, !.pc = v]

LEMMA GoesTo ==
  ASSUME NEW pc, NEW k, NEW bl, NEW l, NEW before, NEW c, c = Stands(pc, k, bl, l, before),
         NEW v, NEW d, d = [c EXCEPT !.pc = v]
  PROVE  d = Stands(v, k, bl, l, before)
<1>1. c = [pc |-> pc, k |-> k, block |-> bl, link |-> l, before |-> before]
  BY DEF Stands
<1> QED
  BY <1>1 DEF Stands

LEMMA GoesOn ==
  ASSUME NEW pc, NEW k, NEW bl, NEW l, NEW before, NEW c, c = Stands(pc, k, bl, l, before),
         NEW d, d = [c EXCEPT !.k = @ + 1]
  PROVE  d = Stands(pc, k + 1, bl, l, before)
<1>1. c = [pc |-> pc, k |-> k, block |-> bl, link |-> l, before |-> before]
  BY DEF Stands
<1> QED
  BY <1>1 DEF Stands

LEMMA GoesWith ==
  ASSUME NEW pc, NEW k, NEW bl, NEW l, NEW before, NEW c, c = Stands(pc, k, bl, l, before),
         NEW v, NEW w
  PROVE  With(c, v, w) = Stands(v, k, bl, w, before)
<1>1. c = [pc |-> pc, k |-> k, block |-> bl, link |-> l, before |-> before]
  BY DEF Stands
<1>2. PICK x : x = [c EXCEPT !.link = w]
  OBVIOUS
<1>3. x = [pc |-> pc, k |-> k, block |-> bl, link |-> w, before |-> before]
  BY <1>1, <1>2
<1>4. [x EXCEPT !.pc = v] = Stands(v, k, bl, w, before)
  BY <1>3 DEF Stands
<1>5. With(c, v, w) = [x EXCEPT !.pc = v]
  BY <1>2, Zenon DEF With
<1> QED
  BY <1>4, <1>5

LEMMA GoesInto ==
  ASSUME NEW pc, NEW k, NEW bl, NEW l, NEW before, NEW c, c = Stands(pc, k, bl, l, before),
         NEW v, NEW w
  PROVE  Into(c, v, w) = Stands(v, k, w, w, before)
<1>1. c = [pc |-> pc, k |-> k, block |-> bl, link |-> l, before |-> before]
  BY DEF Stands
<1>2. PICK x : x = [c EXCEPT !.block = w]
  OBVIOUS
<1>3. x = [pc |-> pc, k |-> k, block |-> w, link |-> l, before |-> before]
  BY <1>1, <1>2
<1>4. PICK z : z = [x EXCEPT !.link = w]
  OBVIOUS
<1>5. z = [pc |-> pc, k |-> k, block |-> w, link |-> w, before |-> before]
  BY <1>3, <1>4
<1>6. [z EXCEPT !.pc = v] = Stands(v, k, w, w, before)
  BY <1>5 DEF Stands
<1>7. Into(c, v, w) = [z EXCEPT !.pc = v]
  BY <1>2, <1>4, Zenon DEF Into
<1> QED
  BY <1>6, <1>7

LEMMA GoesUp ==
  ASSUME NEW pc, NEW k, NEW bl, NEW l, NEW before, NEW c, c = Stands(pc, k, bl, l, before),
         NEW v, NEW w
  PROVE  Raised(c, v, w) = Stands(v, k + 1, w, l, before)
<1>1. c = [pc |-> pc, k |-> k, block |-> bl, link |-> l, before |-> before]
  BY DEF Stands
<1>2. PICK x : x = [c EXCEPT !.block = w]
  OBVIOUS
<1>3. x = [pc |-> pc, k |-> k, block |-> w, link |-> l, before |-> before]
  BY <1>1, <1>2
<1>4. PICK z : z = [x EXCEPT !.k = @ + 1]
  OBVIOUS
<1>5. z = [pc |-> pc, k |-> k + 1, block |-> w, link |-> l, before |-> before]
  BY <1>3, <1>4
<1>6. [z EXCEPT !.pc = v] = Stands(v, k + 1, w, l, before)
  BY <1>5 DEF Stands
<1>7. Raised(c, v, w) = [z EXCEPT !.pc = v]
  BY <1>2, <1>4, Zenon DEF Raised
<1> QED
  BY <1>6, <1>7

LEMMA GoesDown ==
  ASSUME NEW pc, NEW k, NEW bl, NEW l, NEW before, NEW c, c = Stands(pc, k, bl, l, before),
         NEW v, NEW w
  PROVE  Lowered(c, v, w) = Stands(v, k - 1, bl, w, before)
<1>1. c = [pc |-> pc, k |-> k, block |-> bl, link |-> l, before |-> before]
  BY DEF Stands
<1>2. PICK x : x = [c EXCEPT !.k = @ - 1]
  OBVIOUS
<1>3. x = [pc |-> pc, k |-> k - 1, block |-> bl, link |-> l, before |-> before]
  BY <1>1, <1>2
<1>4. PICK z : z = [x EXCEPT !.link = w]
  OBVIOUS
<1>5. z = [pc |-> pc, k |-> k - 1, block |-> bl, link |-> w, before |-> before]
  BY <1>3, <1>4
<1>6. [z EXCEPT !.pc = v] = Stands(v, k - 1, bl, w, before)
  BY <1>5 DEF Stands
<1>7. Lowered(c, v, w) = [z EXCEPT !.pc = v]
  BY <1>2, <1>4, Zenon DEF Lowered
<1> QED
  BY <1>6, <1>7

\* One statement after the other.
LEMMA UnlinkingGoesOn ==
  ASSUME NEW pc, NEW k, NEW l, NEW x, NEW mem, Unlinking(pc, k, l, x, mem)
  PROVE  /\ pc \in {"unlink1", "unlink2", "unlink3"}
         /\ pc = "unlink1" => Unlinking("unlink2", k, l, x, Lists!Unlink1(mem, l, k))
         /\ pc = "unlink2" => Unlinking("unlink3", k, l, x, Lists!Unlink2(mem, l))
         /\ pc = "unlink3" => Lists!Unlink3(mem, l) = Lists!Unlink(x, l, k)
BY DEF Unlinking, Lists!Unlink

LEMMA LinkingGoesOn ==
  ASSUME NEW pc, NEW k, NEW l, NEW x, NEW mem, Linking(pc, k, l, x, mem)
  PROVE  /\ pc \in {"link1", "link2", "link3", "link4"}
         /\ pc = "link1" => Linking("link2", k, l, x, Lists!Link1(mem, l))
         /\ pc = "link2" => Linking("link3", k, l, x, Lists!Link2(mem, l, k))
         /\ pc = "link3" => Linking("link4", k, l, x, Lists!Link3(mem, l, k))
         /\ pc = "link4" => Lists!Link4(mem, l, k) = Lists!Link(x, l, k)
BY DEF Linking, Lists!Link

LEMMA SameBooksTwice ==
  ASSUME NEW x, NEW y, NEW z, SameBooks(x, y), SameBooks(y, z)
  PROVE  SameBooks(x, z)
BY DEF SameBooks

LEMMA UnlinkingIs ==
  ASSUME Small, NEW pc, NEW k \in Orders, NEW l \in Lists!Page, NEW x \in Memory, NEW mem,
         Unlinking(pc, k, l, x, mem)
  PROVE  mem \in Memory /\ SameBooks(x, mem)
<1>1. PICK x1 : x1 = Lists!Unlink1(x, l, k)
  OBVIOUS
<1>2. PICK x2 : x2 = Lists!Unlink2(x1, l)
  OBVIOUS
<1>3. x1 \in Memory /\ SameBooks(x, x1)
  BY <1>1, Unlink1Is
<1>4. x2 \in Memory /\ SameBooks(x1, x2)
  BY <1>2, <1>3, Unlink2Is
<1>5. SameBooks(x, x2) /\ SameBooks(x, x)
  BY <1>3, <1>4, SameBooksTwice DEF SameBooks
<1>6. mem = x \/ mem = x1 \/ mem = x2
  BY <1>1, <1>2 DEF Unlinking
<1> QED
  BY <1>3, <1>4, <1>5, <1>6

LEMMA LinkingIs ==
  ASSUME Small, NEW pc, NEW k \in Orders, NEW l \in Lists!Page, NEW x \in Memory, NEW mem,
         Linking(pc, k, l, x, mem)
  PROVE  mem \in Memory /\ SameBooks(x, mem)
<1>1. PICK x1 : x1 = Lists!Link1(x, l)
  OBVIOUS
<1>2. PICK x2 : x2 = Lists!Link2(x1, l, k)
  OBVIOUS
<1>3. PICK x3 : x3 = Lists!Link3(x2, l, k)
  OBVIOUS
<1>4. x1 \in Memory /\ SameBooks(x, x1)
  BY <1>1, Link1Is
<1>5. x2 \in Memory /\ SameBooks(x1, x2)
  BY <1>2, <1>4, Link2Is
<1>6. x3 \in Memory /\ SameBooks(x2, x3)
  BY <1>3, <1>5, Link3Is
<1>7. SameBooks(x, x2) /\ SameBooks(x, x)
  BY <1>4, <1>5, SameBooksTwice DEF SameBooks
<1>8. SameBooks(x, x3)
  BY <1>6, <1>7, SameBooksTwice
<1>9. mem = x \/ mem = x1 \/ mem = x2 \/ mem = x3
  BY <1>1, <1>2, <1>3 DEF Linking
<1> QED
  BY <1>4, <1>5, <1>6, <1>7, <1>8, <1>9

-----------------------------------------------------------------------------
(***************************************************************************)
(* Wherever the caller stands, the memory is one.                          *)
(***************************************************************************)
LEMMA FirstOf ==
  ASSUME Small, NEW mem, NEW B, AtRest(mem, B), Lists!HasPage(mem)
  PROVE  LET L == ListsOf(mem)
             from == Lists!FirstList(mem)
             e == Lists!NextPage(mem)
         IN /\ from \in Orders /\ L[from] # <<>> /\ e = Head(L[from]) /\ mem.head[from] = e
            /\ e \in Lists!Page /\ e \notin {0} \cup B
            /\ Booked(mem, B, L) /\ Tidy(mem, L)
<1>1. PICK L : L = ListsOf(mem)
  OBVIOUS
<1>2. Booked(mem, B, L)
  BY <1>1 DEF AtRest
<1>3. Tidy(mem, L)
  BY <1>2 DEF Booked
<1>4. mem \in Memory
  BY <1>3 DEF Tidy
<1>5. Lists!NextPage(mem) = mem.head[Lists!FirstList(mem)]
  BY DEF Lists!NextPage
<1> QED
  BY <1>1, <1>2, <1>3, <1>5, AllocIs

LEMMA NullPointer == NULL \in Pointer /\ Lists!Page \subseteq Pointer
BY DEF Pointer

\* Where a caller stands that has no block.
LEMMA TypedBy ==
  ASSUME Small, NEW mem \in Memory, ~mem.halted,
         mem.allocated_pages \in 0..ListPages, mem.free_pages \in 0..ListPages,
         NEW pc, pc # "fault", NEW k \in 0..(BUDDY_MAX_ORDER + 1), NEW bl \in Pointer, NEW l \in Pointer,
         NEW before, NEW c, c = Stands(pc, k, bl, l, before), NEW B, B \subseteq Lists!Page
  PROVE  Typed(mem, c, B)
<1>1. c.pc = pc /\ c.k = k /\ c.block = bl /\ c.link = l
  BY StandsAt
<1> QED
  BY <1>1 DEF Typed

LEMMA FirstPhases ==
  ASSUME Small, NEW mem, NEW c, NEW B, Rests(mem, c, B) \/ Scans(mem, c, B) \/ Takes(mem, c, B)
  PROVE  /\ Typed(mem, c, B)
         /\ Rests(mem, c, B) => c.pc = "idle"
         /\ Scans(mem, c, B) => c.pc = "scan" /\ c.before = Before(mem, B)
         /\ Takes(mem, c, B) => c.pc = "take" /\ c.before = Before(mem, B)
<1>1. AtRest(mem, B)
  BY DEF Rests, Scans, Takes
<1>2. /\ mem \in Memory /\ ~mem.halted /\ B \subseteq Lists!Page
      /\ mem.allocated_pages \in 0..ListPages /\ mem.free_pages \in 0..ListPages
  BY <1>1, AtRestIs
<1>3. BUDDY_MAX_ORDER \in Nat
  BY OrderFacts
<1>4. ASSUME Rests(mem, c, B) PROVE Typed(mem, c, B)
  <2>1. c = Stands("idle", 0, NULL, NULL, NULL)
    BY <1>4 DEF Rests
  <2>2. 0 \in 0..(BUDDY_MAX_ORDER + 1)
    BY <1>3
  <2> QED
    BY <1>2, <2>1, <2>2, NullPointer, TypedBy
<1>5. ASSUME Scans(mem, c, B) PROVE Typed(mem, c, B)
  <2>1. PICK k \in 0..(BUDDY_MAX_ORDER + 1) : c = Stands("scan", k, NULL, NULL, Before(mem, B))
    BY <1>5 DEF Scans
  <2> QED
    BY <1>2, <2>1, NullPointer, TypedBy
<1>6. ASSUME Takes(mem, c, B) PROVE Typed(mem, c, B)
  <2>1. c = Stands("take", Lists!FirstList(mem), NULL, NULL, Before(mem, B)) /\ Lists!HasPage(mem)
    BY <1>6 DEF Takes
  <2>2. Lists!FirstList(mem) \in 0..BUDDY_MAX_ORDER
    BY <1>1, <2>1, FirstOf, OrderFacts
  <2>3. Lists!FirstList(mem) \in 0..(BUDDY_MAX_ORDER + 1)
    BY <1>3, <2>2
  <2> QED
    BY <1>2, <2>1, <2>3, NullPointer, TypedBy
<1>7. Typed(mem, c, B)
  BY <1>4, <1>5, <1>6
<1>8. Rests(mem, c, B) => c.pc = "idle"
  BY StandsAt DEF Rests
<1>9. Scans(mem, c, B) => c.pc = "scan" /\ c.before = Before(mem, B)
  <2>1. SUFFICES ASSUME Scans(mem, c, B) PROVE c.pc = "scan" /\ c.before = Before(mem, B)
    OBVIOUS
  <2>2. PICK k \in 0..(BUDDY_MAX_ORDER + 1) : c = Stands("scan", k, NULL, NULL, Before(mem, B))
    BY <2>1 DEF Scans
  <2> QED
    BY <2>2, StandsAt
<1>10. Takes(mem, c, B) => c.pc = "take" /\ c.before = Before(mem, B)
  BY StandsAt DEF Takes
<1> QED
  BY <1>7, <1>8, <1>9, <1>10

LEMMA CutIs ==
  ASSUME NEW mem, NEW L, NEW k, NEW from, NEW x, Cut(mem, L, k, from, x)
  PROVE  x \in Memory /\ SameBooks(mem, x)
BY DEF Cut

LEMMA SplitsIs ==
  ASSUME Small, NEW b, NEW B, AtRest(b, B), Lists!HasPage(b), NEW pc, NEW k, NEW l, NEW mem,
         Splits(b, Lists!FirstList(b), Lists!NextPage(b), pc, k, l, mem)
  PROVE  /\ mem \in Memory /\ mem.halted = b.halted /\ SameCounts(b, mem)
         /\ k \in Orders /\ l \in Pointer
         /\ pc \in {"unlink1", "unlink2", "unlink3", "split", "link1", "link2", "link3", "link4",
                    "mark", "count"}
<1>1. PICK L : L = ListsOf(b)
  OBVIOUS
<1>2. PICK from : from = Lists!FirstList(b)
  OBVIOUS
<1>3. PICK e : e = Lists!NextPage(b)
  OBVIOUS
<1>4. /\ from \in Orders /\ L[from] # <<>> /\ e = Head(L[from]) /\ e \in Lists!Page /\ Tidy(b, L)
  BY <1>1, <1>2, <1>3, FirstOf
<1>5. b \in Memory
  BY AtRestIs
<1>6. \A x : SameBooks(b, x) => x.halted = b.halted /\ SameCounts(b, x)
  BY DEF SameBooks, SameCounts
<1>7. CASE k = from /\ l = e /\ Unlinking(pc, k, l, b, mem)
  <2>1. pc \in {"unlink1", "unlink2", "unlink3"}
    BY <1>7, UnlinkingGoesOn
  <2>2. mem \in Memory /\ SameBooks(b, mem)
    BY <1>4, <1>5, <1>7, UnlinkingIs
  <2>3. l \in Pointer
    BY <1>4, <1>7, NullPointer
  <2> QED
    BY <1>4, <1>6, <1>7, <2>1, <2>2, <2>3
<1>8. CASE pc = "split" /\ l \in Pointer /\ (k = from \/ k \in Lower(from)) /\ Cut(b, L, k, from, mem)
  <2>1. mem \in Memory /\ SameBooks(b, mem)
    BY <1>8, CutIs
  <2>2. k \in Orders
    BY <1>4, <1>8, FirstHalves
  <2> QED
    BY <1>6, <1>8, <2>1, <2>2
<1>9. CASE /\ k \in Lower(from) /\ l = Upper(e, k)
           /\ \E x : Cut(b, L, k + 1, from, x) /\ Linking(pc, k, l, x, mem)
  <2>1. PICK x : Cut(b, L, k + 1, from, x) /\ Linking(pc, k, l, x, mem)
    BY <1>9
  <2>2. x \in Memory /\ SameBooks(b, x)
    BY <2>1, CutIs
  <2>3. k \in Orders /\ l \in Lists!Page
    BY <1>4, <1>9, FirstHalves
  <2>4. mem \in Memory /\ SameBooks(x, mem)
    BY <2>1, <2>2, <2>3, LinkingIs
  <2>5. SameBooks(b, mem)
    BY <2>2, <2>4, SameBooksTwice
  <2>6. pc \in {"link1", "link2", "link3", "link4"}
    BY <2>1, LinkingGoesOn
  <2> QED
    BY <1>6, <2>3, <2>4, <2>5, <2>6, NullPointer
<1>10. CASE pc = "mark" /\ l \in Pointer /\ k = 0 /\ Cut(b, L, 0, from, mem)
  <2>1. mem \in Memory /\ SameBooks(b, mem)
    BY <1>10, CutIs
  <2> QED
    BY <1>6, <1>10, <2>1, OrderFacts
<1>11. CASE /\ pc = "count" /\ l \in Pointer /\ k = 0
            /\ \E x : Cut(b, L, 0, from, x) /\ mem = Lists!Mark(x, e)
  <2>1. PICK x : Cut(b, L, 0, from, x) /\ mem = Lists!Mark(x, e)
    BY <1>11
  <2>2. x \in Memory /\ SameBooks(b, x)
    BY <2>1, CutIs
  <2>3. /\ mem \in Memory /\ mem.halted = x.halted /\ mem.free_pages = x.free_pages
        /\ mem.allocated_pages = x.allocated_pages
    BY <1>4, <2>1, <2>2, MarkIs
  <2>4. mem.halted = b.halted /\ SameCounts(b, mem)
    BY <2>2, <2>3 DEF SameBooks, SameCounts
  <2> QED
    BY <1>11, <2>3, <2>4, OrderFacts
<1>12. \/ k = from /\ l = e /\ Unlinking(pc, k, l, b, mem)
       \/ pc = "split" /\ l \in Pointer /\ (k = from \/ k \in Lower(from)) /\ Cut(b, L, k, from, mem)
       \/ /\ k \in Lower(from) /\ l = Upper(e, k)
          /\ \E x : Cut(b, L, k + 1, from, x) /\ Linking(pc, k, l, x, mem)
       \/ pc = "mark" /\ l \in Pointer /\ k = 0 /\ Cut(b, L, 0, from, mem)
       \/ pc = "count" /\ l \in Pointer /\ k = 0
          /\ \E x : Cut(b, L, 0, from, x) /\ mem = Lists!Mark(x, e)
  BY <1>1, <1>2, <1>3 DEF Splits
<1> QED
  BY <1>7, <1>8, <1>9, <1>10, <1>11, <1>12

\* What is known of the page that is freed and of its buddy.
LEMMA PagesOfMerge ==
  ASSUME Small, NEW b, NEW C, AtRest(b, C), NEW p \in C, NEW q, q = Buddy(p, 0)
  PROVE  /\ b \in Memory /\ Booked(b, C, ListsOf(b)) /\ Tidy(b, ListsOf(b))
         /\ p \in Lists!Page /\ p \in b.bits /\ p \in Nat
         /\ FreeMem(b, p) \in Memory /\ Shape(FreeMem(b, p), ListsOf(b)) /\ SameLists(b, FreeMem(b, p))
         /\ Lists!Clear(b, p) \in Memory
         /\ q \in Elems(ListsOf(b)[0]) =>
              /\ Lists!Unlink(FreeMem(b, p), q, 0) \in Memory
              /\ SameBooks(FreeMem(b, p), Lists!Unlink(FreeMem(b, p), q, 0))
              /\ q \in Lists!Page /\ q \in Nat /\ q # p
              /\ Smaller(p, q) \in Lists!Page /\ Smaller(p, q) \in {p, q}
<1>1. PICK L : L = ListsOf(b)
  OBVIOUS
<1>2. Booked(b, C, L)
  BY <1>1 DEF AtRest
<1>3. Tidy(b, L)
  BY <1>2 DEF Booked
<1>4. b \in Memory
  BY <1>3 DEF Tidy
<1>5. /\ p \in Lists!Page /\ p \in b.bits /\ p \in Nat
      /\ FreeMem(b, p) \in Memory /\ Shape(FreeMem(b, p), L)
  BY <1>2, HeldPage
<1>6. SameLists(b, FreeMem(b, p))
  BY <1>4, <1>5, FreeMemIs
<1>7. Lists!Clear(b, p) \in Memory
  BY <1>4, <1>5, ClearIs
<1>8. ASSUME q \in Elems(L[0])
      PROVE  /\ Lists!Unlink(FreeMem(b, p), q, 0) \in Memory
             /\ SameBooks(FreeMem(b, p), Lists!Unlink(FreeMem(b, p), q, 0))
             /\ q \in Lists!Page /\ q \in Nat /\ q # p
             /\ Smaller(p, q) \in Lists!Page /\ Smaller(p, q) \in {p, q}
  <2>1. /\ Lists!Unlink(FreeMem(b, p), q, 0) \in Memory
        /\ SameBooks(FreeMem(b, p), Lists!Unlink(FreeMem(b, p), q, 0))
        /\ q \in Lists!Page /\ q \in Nat /\ q # p
    BY <1>2, <1>8, BuddyUnlinked
  <2>2. Smaller(p, q) \in {p, q}
    BY <1>5, <2>1, SmallerIs
  <2> QED
    BY <1>5, <2>1, <2>2
<1> QED
  BY <1>1, <1>2, <1>3, <1>4, <1>5, <1>6, <1>7, <1>8

LEMMA MergesIs ==
  ASSUME Small, NEW b, NEW C, AtRest(b, C), NEW p \in C, NEW q, q = Buddy(p, 0),
         NEW pc, NEW k, NEW bl, NEW l, NEW mem, Merges(b, p, q, pc, k, bl, l, mem)
  PROVE  /\ mem \in Memory /\ ~mem.halted
         /\ mem.allocated_pages \in 0..ListPages /\ mem.free_pages \in 0..ListPages
         /\ k \in {0, 1} /\ bl \in Pointer /\ l \in Pointer
         /\ pc \in {"uncount", "merge", "find", "unlink1", "unlink2", "unlink3", "join",
                    "link1", "link2", "link3", "link4"}
<1>1. PICK L : L = ListsOf(b)
  OBVIOUS
<1>2. PICK y : y = FreeMem(b, p)
  OBVIOUS
<1>3. PICK u : u = Lists!Unlink(y, q, 0)
  OBVIOUS
<1> DEFINE paired == q \in Elems(L[0])
<1> HIDE DEF paired
<1>5. /\ b \in Memory /\ p \in Lists!Page /\ p \in b.bits /\ p \in Nat /\ y \in Memory
      /\ Lists!Clear(b, p) \in Memory
  BY <1>2, PagesOfMerge
<1>6. paired => /\ u \in Memory /\ SameBooks(y, u) /\ q \in Lists!Page
                /\ Smaller(p, q) \in Lists!Page
  BY <1>1, <1>2, <1>3, PagesOfMerge DEF paired
<1>7. 0 \in Orders /\ 1 \in Orders
  BY OrderFacts
<1>8. /\ ~b.halted
      /\ b.allocated_pages \in 0..ListPages /\ b.free_pages \in 0..ListPages
      /\ b.allocated_pages - 1 \in 0..ListPages /\ b.free_pages + 1 \in 0..ListPages
  BY AtRestIs
<1>9. /\ y.halted = b.halted /\ y.free_pages = b.free_pages + 1
      /\ y.allocated_pages = b.allocated_pages - 1
  BY <1>2, <1>5, FreeMemIs
<1>10. ASSUME NEW x, SameBooks(y, x)
       PROVE  /\ ~x.halted /\ x.allocated_pages \in 0..ListPages /\ x.free_pages \in 0..ListPages
  <2>1. x.halted = y.halted /\ x.free_pages = y.free_pages /\ x.allocated_pages = y.allocated_pages
    BY <1>10 DEF SameBooks
  <2> QED
    BY <1>8, <1>9, <2>1
<1>11. SameBooks(y, y)
  BY DEF SameBooks
<1>12. CASE k = 0 /\ bl = p /\ l = p /\ pc = "uncount" /\ mem = Lists!Clear(b, p)
  <2>1. /\ mem.halted = b.halted /\ mem.free_pages = b.free_pages
        /\ mem.allocated_pages = b.allocated_pages
    BY <1>5, <1>12, ClearIs
  <2> QED
    BY <1>5, <1>8, <1>12, <2>1, NullPointer
<1>13. CASE k = 0 /\ bl = p /\ l = p /\ pc = "merge" /\ mem = y
  BY <1>5, <1>10, <1>11, <1>13, NullPointer
<1>14. CASE k = 0 /\ bl = p /\ l = q /\ paired /\ pc = "find" /\ mem = y
  BY <1>5, <1>6, <1>10, <1>11, <1>14, NullPointer
<1>15. CASE k = 0 /\ bl = p /\ l = q /\ paired /\ Unlinking(pc, 0, q, y, mem)
  <2>1. pc \in {"unlink1", "unlink2", "unlink3"}
    BY <1>15, UnlinkingGoesOn
  <2>2. mem \in Memory /\ SameBooks(y, mem)
    BY <1>5, <1>6, <1>7, <1>15, UnlinkingIs
  <2>3. ~mem.halted /\ mem.allocated_pages \in 0..ListPages /\ mem.free_pages \in 0..ListPages
    BY <1>10, <2>2
  <2> QED
    BY <1>5, <1>6, <1>15, <2>1, <2>2, <2>3, NullPointer
<1>16. CASE /\ k = 0 /\ bl = p /\ l = q /\ paired /\ pc = "join" /\ mem = u
  <2>1. ~mem.halted /\ mem.allocated_pages \in 0..ListPages /\ mem.free_pages \in 0..ListPages
    BY <1>6, <1>10, <1>16
  <2> QED
    BY <1>5, <1>6, <1>16, <2>1, NullPointer
<1>17. CASE k = 1 /\ bl = Smaller(p, q) /\ l = q /\ paired /\ pc = "merge" /\ mem = u
  <2>1. ~mem.halted /\ mem.allocated_pages \in 0..ListPages /\ mem.free_pages \in 0..ListPages
    BY <1>6, <1>10, <1>17
  <2> QED
    BY <1>5, <1>6, <1>17, <2>1, NullPointer
<1>18. CASE k = 0 /\ bl = p /\ l = p /\ Linking(pc, 0, p, y, mem)
  <2>1. pc \in {"link1", "link2", "link3", "link4"}
    BY <1>18, LinkingGoesOn
  <2>2. mem \in Memory /\ SameBooks(y, mem)
    BY <1>5, <1>7, <1>18, LinkingIs
  <2>3. ~mem.halted /\ mem.allocated_pages \in 0..ListPages /\ mem.free_pages \in 0..ListPages
    BY <1>10, <2>2
  <2> QED
    BY <1>5, <1>18, <2>1, <2>2, <2>3, NullPointer
<1>19. CASE k = 1 /\ bl = Smaller(p, q) /\ l = bl /\ paired /\ Linking(pc, 1, bl, u, mem)
  <2>1. pc \in {"link1", "link2", "link3", "link4"}
    BY <1>19, LinkingGoesOn
  <2>2. u \in Memory /\ SameBooks(y, u) /\ bl \in Lists!Page
    BY <1>6, <1>19
  <2>3. mem \in Memory /\ SameBooks(u, mem)
    BY <1>7, <1>19, <2>2, LinkingIs
  <2>4. SameBooks(y, mem)
    BY <2>2, <2>3, SameBooksTwice
  <2>5. ~mem.halted /\ mem.allocated_pages \in 0..ListPages /\ mem.free_pages \in 0..ListPages
    BY <1>10, <2>4
  <2> QED
    BY <1>19, <2>1, <2>2, <2>3, <2>5, NullPointer
<1>20. \/ k = 0 /\ bl = p /\ l = p /\ pc = "uncount" /\ mem = Lists!Clear(b, p)
       \/ k = 0 /\ bl = p /\ l = p /\ pc = "merge" /\ mem = y
       \/ k = 0 /\ bl = p /\ l = q /\ paired /\ pc = "find" /\ mem = y
       \/ k = 0 /\ bl = p /\ l = q /\ paired /\ Unlinking(pc, 0, q, y, mem)
       \/ k = 0 /\ bl = p /\ l = q /\ paired /\ pc = "join" /\ mem = u
       \/ k = 1 /\ bl = Smaller(p, q) /\ l = q /\ paired /\ pc = "merge" /\ mem = u
       \/ k = 0 /\ bl = p /\ l = p /\ Linking(pc, 0, p, y, mem)
       \/ k = 1 /\ bl = Smaller(p, q) /\ l = bl /\ paired /\ Linking(pc, 1, bl, u, mem)
  BY <1>1, <1>2, <1>3 DEF Merges, paired
<1> QED
  BY <1>12, <1>13, <1>14, <1>15, <1>16, <1>17, <1>18, <1>19, <1>20

LEMMA AllocatesIs ==
  ASSUME Small, NEW mem, NEW c, NEW B, Allocates(mem, c, B)
  PROVE  /\ Typed(mem, c, B)
         /\ c.pc \in {"unlink1", "unlink2", "unlink3", "split", "link1", "link2", "link3", "link4",
                      "mark", "count"}
<1>1. PICK b, pc, k, l :
        /\ AtRest(b, B) /\ Lists!HasPage(b)
        /\ c = Stands(pc, k, Lists!NextPage(b), l, Before(b, B))
        /\ Splits(b, Lists!FirstList(b), Lists!NextPage(b), pc, k, l, mem)
  BY DEF Allocates
<1>2. /\ mem \in Memory /\ mem.halted = b.halted /\ SameCounts(b, mem) /\ k \in Orders /\ l \in Pointer
      /\ pc \in {"unlink1", "unlink2", "unlink3", "split", "link1", "link2", "link3", "link4",
                 "mark", "count"}
  BY <1>1, SplitsIs
<1>3. /\ ~b.halted /\ B \subseteq Lists!Page
      /\ b.allocated_pages \in 0..ListPages /\ b.free_pages \in 0..ListPages
  BY <1>1, AtRestIs
<1>4. mem.allocated_pages \in 0..ListPages /\ mem.free_pages \in 0..ListPages /\ ~mem.halted
  BY <1>2, <1>3 DEF SameCounts
<1>5. Lists!NextPage(b) \in Pointer
  BY <1>1, FirstOf, NullPointer
<1>6. k \in 0..(BUDDY_MAX_ORDER + 1) /\ pc # "fault"
  BY <1>2, OrderFacts
<1>7. Typed(mem, c, B)
  BY <1>1, <1>2, <1>3, <1>4, <1>5, <1>6, TypedBy
<1>8. c.pc = pc
  BY <1>1, StandsAt
<1> QED
  BY <1>2, <1>7, <1>8

LEMMA FreesIs ==
  ASSUME Small, NEW mem, NEW c, NEW B, Frees(mem, c, B)
  PROVE  /\ Typed(mem, c, B)
         /\ c.pc \in {"uncount", "merge", "find", "unlink1", "unlink2", "unlink3", "join",
                      "link1", "link2", "link3", "link4"}
<1>1. PICK b, C, p, pc, k, bl, l :
        /\ AtRest(b, C) /\ p \in C /\ B = C \ {p}
        /\ c = Stands(pc, k, bl, l, Before(b, C))
        /\ Merges(b, p, Buddy(p, 0), pc, k, bl, l, mem)
  BY DEF Frees
<1>2. PICK q : q = Buddy(p, 0)
  OBVIOUS
<1>3. /\ mem \in Memory /\ ~mem.halted
      /\ mem.allocated_pages \in 0..ListPages /\ mem.free_pages \in 0..ListPages
      /\ k \in {0, 1} /\ bl \in Pointer /\ l \in Pointer
      /\ pc \in {"uncount", "merge", "find", "unlink1", "unlink2", "unlink3", "join",
                 "link1", "link2", "link3", "link4"}
  BY <1>1, <1>2, MergesIs
<1>4. B \subseteq Lists!Page
  BY <1>1, AtRestIs
<1>5. k \in 0..(BUDDY_MAX_ORDER + 1) /\ pc # "fault"
  BY <1>3, OrderFacts
<1>6. Typed(mem, c, B)
  BY <1>1, <1>3, <1>4, <1>5, TypedBy
<1>7. c.pc = pc
  BY <1>1, StandsAt
<1> QED
  BY <1>3, <1>6, <1>7

LEMMA CallerTyped ==
  ASSUME Small, NEW mem, NEW c, NEW B, CallerIs(mem, c, B)
  PROVE  Typed(mem, c, B)
BY FirstPhases, AllocatesIs, FreesIs DEF CallerIs

-----------------------------------------------------------------------------
(***************************************************************************)
(* The caller moves on, and callers see either what they saw or that a     *)
(* page is taken or given back.                                            *)
(***************************************************************************)
TakesPage(b, B, x, C) ==
  /\ Lists!HasPage(b) /\ C = B \cup {Lists!NextPage(b)}
  /\ Booked(x, C, Halved(ListsOf(b), 0, Lists!FirstList(b)))
  /\ x.allocated_pages = b.allocated_pages + 1 /\ x.free_pages = b.free_pages - 1

GivesPage(b, B, x, C) ==
  \E p \in B :
    LET q == Buddy(p, 0)
        L == ListsOf(b)
    IN /\ C = B \ {p}
       /\ x.allocated_pages = b.allocated_pages - 1 /\ x.free_pages = b.free_pages + 1
       /\ \/ q \notin Elems(L[0]) /\ Booked(x, C, Alone(L, p))
          \/ /\ q \in Elems(L[0]) /\ Booked(x, C, Together(L, p, q))
             /\ BUDDY_MAX_ORDER = 1 \/ Buddy(Smaller(p, q), 1) \notin Elems(L[1])

Follows(s, u) ==
  /\ AtRest(s.mem, s.live)
  /\ TakesPage(s.mem, s.live, u.mem, u.live) \/ GivesPage(s.mem, s.live, u.mem, u.live)

Moves(mem, c, B, x, d, C) ==
  /\ CallerIs(x, d, C)
  /\ LET s == SeenBy(mem, c, B)
         u == SeenBy(x, d, C)
     IN u = s \/ Follows(s, u)

LEMMA PhaseIs ==
  ASSUME Small, NEW mem, NEW c, NEW B, CallerIs(mem, c, B)
  PROVE  /\ c.pc = "idle" => Rests(mem, c, B)
         /\ c.pc = "scan" => Scans(mem, c, B)
         /\ c.pc = "take" => Takes(mem, c, B)
         /\ c.pc \in {"split", "mark", "count"} => Allocates(mem, c, B)
         /\ c.pc \in {"uncount", "merge", "find", "join"} => Frees(mem, c, B)
         /\ c.pc \in {"unlink1", "unlink2", "unlink3", "link1", "link2", "link3", "link4"} =>
              Allocates(mem, c, B) \/ Frees(mem, c, B)
<1>1. Rests(mem, c, B) => c.pc = "idle"
  BY FirstPhases
<1>2. Scans(mem, c, B) => c.pc = "scan"
  BY FirstPhases
<1>3. Takes(mem, c, B) => c.pc = "take"
  BY FirstPhases
<1>4. Allocates(mem, c, B) =>
        c.pc \in {"unlink1", "unlink2", "unlink3", "split", "link1", "link2", "link3", "link4",
                  "mark", "count"}
  BY AllocatesIs
<1>5. Frees(mem, c, B) =>
        c.pc \in {"uncount", "merge", "find", "unlink1", "unlink2", "unlink3", "join",
                  "link1", "link2", "link3", "link4"}
  BY FreesIs
<1> QED
  BY <1>1, <1>2, <1>3, <1>4, <1>5 DEF CallerIs

LEMMA SeenAt ==
  ASSUME NEW mem, NEW B, NEW pc, NEW k, NEW bl, NEW l, NEW before, NEW c,
         c = Stands(pc, k, bl, l, before)
  PROVE  /\ pc # "idle" => SeenBy(mem, c, B) = before
         /\ pc = "idle" => SeenBy(mem, c, B) = Before(mem, B)
<1>1. c.pc = pc /\ c.before = before
  BY StandsAt
<1> QED
  BY <1>1 DEF SeenBy

LEMMA Unseen1 ==
  ASSUME NEW mem, NEW c, NEW B, NEW x, NEW d, NEW C, CallerIs(x, d, C),
         SeenBy(x, d, C) = SeenBy(mem, c, B)
  PROVE  Moves(mem, c, B, x, d, C)
BY DEF Moves

LEMMA IdleIs == Lists!Idle = Stands("idle", 0, NULL, NULL, NULL)
BY DEF Lists!Idle, Stands

\* A call for a page.
LEMMA CallMoves ==
  ASSUME Small, NEW mem, NEW c, NEW B, CallerIs(mem, c, B), c.pc = "idle",
         NEW d, d = Stands("scan", 0, NULL, NULL, Before(mem, B))
  PROVE  Moves(mem, c, B, mem, d, B)
<1>1. Rests(mem, c, B)
  BY PhaseIs
<1>2. AtRest(mem, B) /\ c = Stands("idle", 0, NULL, NULL, NULL)
  BY <1>1 DEF Rests
<1>3. 0 \in 0..(BUDDY_MAX_ORDER + 1) /\ \A j \in Orders : ~(j < 0)
  BY OrderFacts
<1>4. Scans(mem, d, B)
  BY <1>2, <1>3 DEF Scans
<1>5. SeenBy(mem, d, B) = Before(mem, B) /\ SeenBy(mem, c, B) = Before(mem, B)
  BY <1>2, SeenAt
<1> QED
  BY <1>4, <1>5, Unseen1 DEF CallerIs

LEMMA ScanMoves ==
  ASSUME Small, NEW mem, NEW c, NEW B, CallerIs(mem, c, B), c.pc = "scan",
         NEW d, d = IF c.k > BUDDY_MAX_ORDER THEN Lists!Idle
                    ELSE IF mem.head[c.k] = NULL THEN [c EXCEPT !.k = @ + 1]
                    ELSE [c EXCEPT !.pc = "take"]
  PROVE  Moves(mem, c, B, mem, d, B)
<1>1. Scans(mem, c, B)
  BY PhaseIs
<1>2. PICK k \in 0..(BUDDY_MAX_ORDER + 1) :
        /\ c = Stands("scan", k, NULL, NULL, Before(mem, B))
        /\ \A j \in Orders : j < k => mem.head[j] = NULL
  BY <1>1 DEF Scans
<1>3. AtRest(mem, B)
  BY <1>1 DEF Scans
<1>4. c.k = k /\ SeenBy(mem, c, B) = Before(mem, B)
  BY <1>2, StandsAt, SeenAt
<1>5. BUDDY_MAX_ORDER \in Nat /\ Orders = 0..BUDDY_MAX_ORDER
  BY OrderFacts
<1>6. CASE k > BUDDY_MAX_ORDER
  <2>1. d = Stands("idle", 0, NULL, NULL, NULL)
    BY <1>4, <1>6, IdleIs
  <2>2. Rests(mem, d, B)
    BY <1>3, <2>1 DEF Rests
  <2>3. SeenBy(mem, d, B) = Before(mem, B)
    BY <2>1, SeenAt
  <2> QED
    BY <1>4, <2>2, <2>3, Unseen1 DEF CallerIs
<1>7. CASE ~(k > BUDDY_MAX_ORDER) /\ mem.head[k] = NULL
  <2>1. d = [c EXCEPT !.k = @ + 1]
    BY <1>4, <1>7
  <2>2. d = Stands("scan", k + 1, NULL, NULL, Before(mem, B))
    BY <1>2, <2>1, GoesOn
  <2>3. k + 1 \in 0..(BUDDY_MAX_ORDER + 1) /\ \A j \in Orders : j < k + 1 => j < k \/ j = k
    BY <1>2, <1>5, <1>7
  <2>4. Scans(mem, d, B)
    BY <1>2, <1>3, <1>7, <2>2, <2>3 DEF Scans
  <2>5. SeenBy(mem, d, B) = Before(mem, B)
    BY <2>2, SeenAt
  <2> QED
    BY <1>4, <2>4, <2>5, Unseen1 DEF CallerIs
<1>8. CASE ~(k > BUDDY_MAX_ORDER) /\ mem.head[k] # NULL
  <2>1. d = [c EXCEPT !.pc = "take"]
    BY <1>4, <1>8
  <2>2. d = Stands("take", k, NULL, NULL, Before(mem, B))
    BY <1>2, <2>1, GoesTo
  <2>3. k \in Orders
    BY <1>5, <1>8
  <2>4. Lists!HasPage(mem)
    BY <1>8, <2>3, PageFacts DEF Lists!HasPage
  <2>5. mem \in Memory
    BY <1>3, AtRestIs
  <2>6. PICK from : from = Lists!FirstList(mem)
    OBVIOUS
  <2>7. /\ from \in Orders /\ mem.head[from] # NULL
        /\ \A j \in Orders : j < from => mem.head[j] = NULL
    BY <2>4, <2>5, <2>6, FirstIs
  <2>8. ~(from < k) /\ ~(k < from)
    BY <1>2, <1>8, <2>3, <2>7
  <2>9. from = k
    BY <1>5, <2>3, <2>7, <2>8
  <2>10. Takes(mem, d, B)
    BY <1>3, <2>2, <2>4, <2>6, <2>9 DEF Takes
  <2>11. SeenBy(mem, d, B) = Before(mem, B)
    BY <2>2, SeenAt
  <2> QED
    BY <1>4, <2>10, <2>11, Unseen1 DEF CallerIs
<1> QED
  BY <1>6, <1>7, <1>8

LEMMA TakeMoves ==
  ASSUME Small, NEW mem, NEW c, NEW B, CallerIs(mem, c, B), c.pc = "take",
         NEW h, h = mem.head[c.k],
         NEW d, d = [c EXCEPT !.block = h, !.link = h, !.pc = IF h = NULL THEN "fault" ELSE "unlink1"]
  PROVE  Moves(mem, c, B, mem, d, B)
<1>1. Takes(mem, c, B)
  BY PhaseIs
<1>2. PICK from : from = Lists!FirstList(mem)
  OBVIOUS
<1>3. /\ AtRest(mem, B) /\ Lists!HasPage(mem)
      /\ c = Stands("take", from, NULL, NULL, Before(mem, B))
  BY <1>1, <1>2 DEF Takes
<1>4. c.k = from /\ SeenBy(mem, c, B) = Before(mem, B)
  BY <1>3, StandsAt, SeenAt
<1>5. h = Lists!NextPage(mem) /\ h \in Lists!Page
  BY <1>2, <1>3, <1>4, FirstOf
<1>6. h # NULL
  BY <1>5, NullIs
<1>7. d = Into(c, "unlink1", h)
  BY <1>6 DEF Into
<1>8. d = Stands("unlink1", from, h, h, Before(mem, B))
  BY <1>3, <1>7, GoesInto
<1>9. Splits(mem, from, h, "unlink1", from, h, mem)
  BY DEF Splits, Unlinking
<1>10. Allocates(mem, d, B)
  BY <1>2, <1>3, <1>5, <1>8, <1>9 DEF Allocates
<1>11. SeenBy(mem, d, B) = Before(mem, B)
  BY <1>8, SeenAt
<1> QED
  BY <1>4, <1>10, <1>11, Unseen1 DEF CallerIs

-----------------------------------------------------------------------------
(***************************************************************************)
(* An allocation.                                                          *)
(***************************************************************************)
\* The call that c is in, with the block it splits.
CallAt(b, B, c, k, l) ==
  /\ AtRest(b, B) /\ Lists!HasPage(b)
  /\ c = Stands(c.pc, k, Lists!NextPage(b), l, Before(b, B))

LEMMA AllocatesBy ==
  ASSUME NEW mem, NEW c, NEW B, Allocates(mem, c, B)
  PROVE  \E b, k, l : /\ CallAt(b, B, c, k, l) /\ c.k = k /\ c.link = l /\ c.block = Lists!NextPage(b)
                      /\ Splits(b, Lists!FirstList(b), Lists!NextPage(b), c.pc, k, l, mem)
<1>1. PICK b, pc, k, l :
        /\ AtRest(b, B) /\ Lists!HasPage(b)
        /\ c = Stands(pc, k, Lists!NextPage(b), l, Before(b, B))
        /\ Splits(b, Lists!FirstList(b), Lists!NextPage(b), pc, k, l, mem)
  BY DEF Allocates
<1>2. c.pc = pc /\ c.k = k /\ c.link = l /\ c.block = Lists!NextPage(b)
  BY <1>1, StandsAt
<1> QED
  BY <1>1, <1>2 DEF CallAt

\* The call goes on.
LEMMA AllocatesOn ==
  ASSUME Small, NEW b, NEW B, NEW mem, NEW c, NEW k, NEW l, CallAt(b, B, c, k, l), c.pc # "idle",
         NEW v, v # "idle", NEW o, NEW w, NEW d, d = Stands(v, o, Lists!NextPage(b), w, Before(b, B)),
         NEW x, Splits(b, Lists!FirstList(b), Lists!NextPage(b), v, o, w, x)
  PROVE  Moves(mem, c, B, x, d, B)
<1>1. AtRest(b, B) /\ Lists!HasPage(b) /\ c = Stands(c.pc, k, Lists!NextPage(b), l, Before(b, B))
  BY DEF CallAt
<1>2. Allocates(x, d, B)
  BY <1>1 DEF Allocates
<1>3. SeenBy(mem, c, B) = Before(b, B)
  BY <1>1, SeenAt
<1>4. SeenBy(x, d, B) = Before(b, B)
  BY SeenAt
<1> QED
  BY <1>2, <1>3, <1>4, Unseen1 DEF CallerIs

\* What Splits says at one place or another.
LEMMA SplitsAt ==
  ASSUME NEW b, NEW L, L = ListsOf(b), NEW from, NEW e, NEW pc, NEW k, NEW l, NEW mem,
         Splits(b, from, e, pc, k, l, mem)
  PROVE  /\ pc \in {"unlink1", "unlink2", "unlink3"} =>
              k = from /\ l = e /\ Unlinking(pc, k, l, b, mem)
         /\ pc = "split" =>
              l \in Pointer /\ (k = from \/ k \in Lower(from)) /\ Cut(b, L, k, from, mem)
         /\ pc \in {"link1", "link2", "link3", "link4"} =>
              /\ k \in Lower(from) /\ l = Upper(e, k)
              /\ \E x : Cut(b, L, k + 1, from, x) /\ Linking(pc, k, l, x, mem)
         /\ pc = "mark" => l \in Pointer /\ k = 0 /\ Cut(b, L, 0, from, mem)
         /\ pc = "count" => /\ l \in Pointer /\ k = 0
                            /\ \E x : Cut(b, L, 0, from, x) /\ mem = Lists!Mark(x, e)
<1>1. \A x : Unlinking(pc, k, l, x, mem) => pc \in {"unlink1", "unlink2", "unlink3"}
  BY UnlinkingGoesOn
<1>2. \A x : Linking(pc, k, l, x, mem) => pc \in {"link1", "link2", "link3", "link4"}
  BY LinkingGoesOn
<1>3. \/ k = from /\ l = e /\ Unlinking(pc, k, l, b, mem)
      \/ pc = "split" /\ l \in Pointer /\ (k = from \/ k \in Lower(from)) /\ Cut(b, L, k, from, mem)
      \/ /\ k \in Lower(from) /\ l = Upper(e, k)
         /\ \E x : Cut(b, L, k + 1, from, x) /\ Linking(pc, k, l, x, mem)
      \/ pc = "mark" /\ l \in Pointer /\ k = 0 /\ Cut(b, L, 0, from, mem)
      \/ pc = "count" /\ l \in Pointer /\ k = 0
         /\ \E x : Cut(b, L, 0, from, x) /\ mem = Lists!Mark(x, e)
  BY DEF Splits
<1> QED
  BY <1>1, <1>2, <1>3

\* One statement of unlinking or linking, as the code has it.
Removed(mem, c, x, d) ==
  \/ c.pc = "unlink1" /\ x = Lists!Unlink1(mem, c.link, c.k) /\ d = [c EXCEPT !.pc = "unlink2"]
  \/ c.pc = "unlink2" /\ x = Lists!Unlink2(mem, c.link) /\ d = [c EXCEPT !.pc = "unlink3"]
  \/ /\ c.pc = "unlink3" /\ x = Lists!Unlink3(mem, c.link)
     /\ d = [c EXCEPT !.pc = IF c.link = c.block THEN "split" ELSE "join"]

Linked(mem, c, x, d) ==
  \/ c.pc = "link1" /\ x = Lists!Link1(mem, c.link) /\ d = [c EXCEPT !.pc = "link2"]
  \/ c.pc = "link2" /\ x = Lists!Link2(mem, c.link, c.k) /\ d = [c EXCEPT !.pc = "link3"]
  \/ c.pc = "link3" /\ x = Lists!Link3(mem, c.link, c.k) /\ d = [c EXCEPT !.pc = "link4"]
  \/ /\ c.pc = "link4" /\ x = Lists!Link4(mem, c.link, c.k)
     /\ d = IF c.link = c.block THEN Lists!Idle ELSE [c EXCEPT !.pc = "split"]

LEMMA TakenMoves ==
  ASSUME Small, NEW mem, NEW c, NEW B, Allocates(mem, c, B), NEW x, NEW d, Removed(mem, c, x, d)
  PROVE  Moves(mem, c, B, x, d, B)
<1>1. PICK b, k, l : /\ CallAt(b, B, c, k, l) /\ c.k = k /\ c.link = l /\ c.block = Lists!NextPage(b)
                     /\ Splits(b, Lists!FirstList(b), Lists!NextPage(b), c.pc, k, l, mem)
  BY AllocatesBy
<1>2. PICK from : from = Lists!FirstList(b)
  OBVIOUS
<1>3. PICK e : e = Lists!NextPage(b)
  OBVIOUS
<1>4. PICK L : L = ListsOf(b)
  OBVIOUS
<1>5. c.pc \in {"unlink1", "unlink2", "unlink3"}
  BY DEF Removed
<1>6. k = from /\ l = e /\ Unlinking(c.pc, k, l, b, mem)
  BY <1>1, <1>2, <1>3, <1>4, <1>5, SplitsAt
<1>7. c = Stands(c.pc, k, e, l, Before(b, B)) /\ AtRest(b, B) /\ Lists!HasPage(b)
  BY <1>1, <1>3 DEF CallAt
<1>8. CASE c.pc = "unlink1"
  <2>1. x = Lists!Unlink1(mem, l, k) /\ d = [c EXCEPT !.pc = "unlink2"]
    BY <1>1, <1>8 DEF Removed
  <2>2. d = Stands("unlink2", k, e, l, Before(b, B))
    BY <1>7, <2>1, GoesTo
  <2>3. Unlinking("unlink2", k, l, b, x)
    BY <1>6, <1>8, <2>1, UnlinkingGoesOn
  <2>4. Splits(b, from, e, "unlink2", k, l, x)
    BY <1>6, <2>3 DEF Splits
  <2> QED
    BY <1>1, <1>2, <1>3, <1>8, <2>2, <2>4, AllocatesOn
<1>9. CASE c.pc = "unlink2"
  <2>1. x = Lists!Unlink2(mem, l) /\ d = [c EXCEPT !.pc = "unlink3"]
    BY <1>1, <1>9 DEF Removed
  <2>2. d = Stands("unlink3", k, e, l, Before(b, B))
    BY <1>7, <2>1, GoesTo
  <2>3. Unlinking("unlink3", k, l, b, x)
    BY <1>6, <1>9, <2>1, UnlinkingGoesOn
  <2>4. Splits(b, from, e, "unlink3", k, l, x)
    BY <1>6, <2>3 DEF Splits
  <2> QED
    BY <1>1, <1>2, <1>3, <1>9, <2>2, <2>4, AllocatesOn
<1>10. CASE c.pc = "unlink3"
  <2>1. x = Lists!Unlink3(mem, l) /\ d = [c EXCEPT !.pc = "split"]
    BY <1>1, <1>3, <1>6, <1>10 DEF Removed
  <2>2. d = Stands("split", k, e, l, Before(b, B))
    BY <1>7, <2>1, GoesTo
  <2>3. x = Lists!Unlink(b, e, from)
    BY <1>6, <1>10, <2>1, UnlinkingGoesOn
  <2>4. /\ from \in Orders /\ L[from] # <<>> /\ e = Head(L[from]) /\ Tidy(b, L) /\ e \in Lists!Page
    BY <1>2, <1>3, <1>4, <1>7, FirstOf
  <2>5. Cut(b, L, from, from, x)
    BY <2>3, <2>4, CutStarts
  <2>6. Splits(b, from, e, "split", k, l, x)
    BY <1>4, <1>6, <2>4, <2>5, NullPointer DEF Splits
  <2> QED
    BY <1>1, <1>2, <1>3, <1>10, <2>2, <2>6, AllocatesOn
<1> QED
  BY <1>5, <1>8, <1>9, <1>10

LEMMA HalvedMoves ==
  ASSUME Small, NEW mem, NEW c, NEW B, Allocates(mem, c, B), NEW x, NEW d, Linked(mem, c, x, d)
  PROVE  Moves(mem, c, B, x, d, B)
<1>1. PICK b, k, l : /\ CallAt(b, B, c, k, l) /\ c.k = k /\ c.link = l /\ c.block = Lists!NextPage(b)
                     /\ Splits(b, Lists!FirstList(b), Lists!NextPage(b), c.pc, k, l, mem)
  BY AllocatesBy
<1>2. PICK from : from = Lists!FirstList(b)
  OBVIOUS
<1>3. PICK e : e = Lists!NextPage(b)
  OBVIOUS
<1>4. PICK L : L = ListsOf(b)
  OBVIOUS
<1>5. c.pc \in {"link1", "link2", "link3", "link4"}
  BY DEF Linked
<1>6. /\ k \in Lower(from) /\ l = Upper(e, k)
      /\ \E z : Cut(b, L, k + 1, from, z) /\ Linking(c.pc, k, l, z, mem)
  BY <1>1, <1>2, <1>3, <1>4, <1>5, SplitsAt
<1>7. PICK z : Cut(b, L, k + 1, from, z) /\ Linking(c.pc, k, l, z, mem)
  BY <1>6
<1>8. c = Stands(c.pc, k, e, l, Before(b, B)) /\ AtRest(b, B) /\ Lists!HasPage(b)
  BY <1>1, <1>3 DEF CallAt
<1>9. ASSUME NEW v, v \in {"link2", "link3", "link4"}, d = [c EXCEPT !.pc = v], Linking(v, k, l, z, x)
      PROVE  Moves(mem, c, B, x, d, B)
  <2>1. d = Stands(v, k, e, l, Before(b, B))
    BY <1>8, <1>9, GoesTo
  <2>2. Splits(b, from, e, v, k, l, x)
    BY <1>4, <1>6, <1>7, <1>9 DEF Splits
  <2> QED
    BY <1>1, <1>2, <1>3, <1>5, <1>9, <2>1, <2>2, AllocatesOn
<1>10. CASE c.pc = "link1"
  <2>1. x = Lists!Link1(mem, l) /\ d = [c EXCEPT !.pc = "link2"]
    BY <1>1, <1>10 DEF Linked
  <2> QED
    BY <1>7, <1>9, <1>10, <2>1, LinkingGoesOn
<1>11. CASE c.pc = "link2"
  <2>1. x = Lists!Link2(mem, l, k) /\ d = [c EXCEPT !.pc = "link3"]
    BY <1>1, <1>11 DEF Linked
  <2> QED
    BY <1>7, <1>9, <1>11, <2>1, LinkingGoesOn
<1>12. CASE c.pc = "link3"
  <2>1. x = Lists!Link3(mem, l, k) /\ d = [c EXCEPT !.pc = "link4"]
    BY <1>1, <1>12 DEF Linked
  <2> QED
    BY <1>7, <1>9, <1>12, <2>1, LinkingGoesOn
<1>13. CASE c.pc = "link4"
  <2>1. /\ from \in Orders /\ L[from] # <<>> /\ e = Head(L[from]) /\ Tidy(b, L)
    BY <1>2, <1>3, <1>4, <1>8, FirstOf
  <2>2. l # e /\ l \in Lists!Page
    BY <1>6, <2>1, FirstHalves
  <2>3. x = Lists!Link4(mem, l, k) /\ d = [c EXCEPT !.pc = "split"]
    BY <1>1, <1>3, <1>13, <2>2 DEF Linked
  <2>4. d = Stands("split", k, e, l, Before(b, B))
    BY <1>8, <2>3, GoesTo
  <2>5. x = Lists!Link(z, Upper(e, k), k)
    BY <1>6, <1>7, <1>13, <2>3, LinkingGoesOn
  <2>6. Cut(b, L, k, from, x)
    BY <1>6, <1>7, <2>1, <2>5, CutGoesOn
  <2>7. Splits(b, from, e, "split", k, l, x)
    BY <1>4, <1>6, <2>2, <2>6, NullPointer DEF Splits
  <2> QED
    BY <1>1, <1>2, <1>3, <1>13, <2>4, <2>7, AllocatesOn
<1> QED
  BY <1>5, <1>10, <1>11, <1>12, <1>13

LEMMA SplitMoves ==
  ASSUME Small, NEW mem, NEW c, NEW B, CallerIs(mem, c, B), c.pc = "split",
         NEW d, d = IF c.k > 0 THEN Lowered(c, "link1", c.block + 2^(c.k - 1))
                    ELSE [c EXCEPT !.pc = "mark"]
  PROVE  Moves(mem, c, B, mem, d, B)
<1>1. PICK b, k, l : /\ CallAt(b, B, c, k, l) /\ c.k = k /\ c.link = l /\ c.block = Lists!NextPage(b)
                     /\ Splits(b, Lists!FirstList(b), Lists!NextPage(b), c.pc, k, l, mem)
  BY PhaseIs, AllocatesBy
<1>2. PICK from : from = Lists!FirstList(b)
  OBVIOUS
<1>3. PICK e : e = Lists!NextPage(b)
  OBVIOUS
<1>4. PICK L : L = ListsOf(b)
  OBVIOUS
<1>5. l \in Pointer /\ (k = from \/ k \in Lower(from)) /\ Cut(b, L, k, from, mem)
  BY <1>1, <1>2, <1>3, <1>4, SplitsAt
<1>6. c = Stands(c.pc, k, e, l, Before(b, B)) /\ AtRest(b, B) /\ Lists!HasPage(b)
  BY <1>1, <1>3 DEF CallAt
<1>7. from \in Orders /\ from \in Nat
  BY <1>2, <1>6, FirstOf, OrderFacts
<1>8. k \in 0..from
  BY <1>5, <1>7 DEF Lower
<1>9. CASE k > 0
  <2>1. PICK j : j = k - 1
    OBVIOUS
  <2>2. j \in Lower(from) /\ j + 1 = k
    BY <1>7, <1>8, <1>9, <2>1 DEF Lower
  <2>3. c.block + 2^(c.k - 1) = Upper(e, j)
    BY <1>1, <1>3, <2>1 DEF Upper, Size
  <2>4. d = Lowered(c, "link1", Upper(e, j))
    BY <1>1, <1>9, <2>3
  <2>5. d = Stands("link1", j, e, Upper(e, j), Before(b, B))
    BY <1>6, <2>1, <2>4, GoesDown
  <2>6. Cut(b, L, j + 1, from, mem)
    BY <1>5, <2>2
  <2>7. Linking("link1", j, Upper(e, j), mem, mem)
    BY DEF Linking
  <2>8. Splits(b, from, e, "link1", j, Upper(e, j), mem)
    BY <1>4, <2>2, <2>6, <2>7 DEF Splits
  <2> QED
    BY <1>1, <1>2, <1>3, <2>5, <2>8, AllocatesOn
<1>10. CASE ~(k > 0)
  <2>1. k = 0
    BY <1>7, <1>8, <1>10
  <2>2. d = [c EXCEPT !.pc = "mark"]
    BY <1>1, <1>10
  <2>3. d = Stands("mark", k, e, l, Before(b, B))
    BY <1>6, <2>2, GoesTo
  <2>4. Splits(b, from, e, "mark", k, l, mem)
    BY <1>4, <1>5, <2>1 DEF Splits
  <2> QED
    BY <1>1, <1>2, <1>3, <2>3, <2>4, AllocatesOn
<1> QED
  BY <1>9, <1>10

LEMMA MarkMoves ==
  ASSUME Small, NEW mem, NEW c, NEW B, CallerIs(mem, c, B), c.pc = "mark",
         NEW x, x = Lists!Mark(mem, c.block), NEW d, d = [c EXCEPT !.pc = "count"]
  PROVE  Moves(mem, c, B, x, d, B)
<1>1. PICK b, k, l : /\ CallAt(b, B, c, k, l) /\ c.k = k /\ c.link = l /\ c.block = Lists!NextPage(b)
                     /\ Splits(b, Lists!FirstList(b), Lists!NextPage(b), c.pc, k, l, mem)
  BY PhaseIs, AllocatesBy
<1>2. PICK from : from = Lists!FirstList(b)
  OBVIOUS
<1>3. PICK e : e = Lists!NextPage(b)
  OBVIOUS
<1>4. PICK L : L = ListsOf(b)
  OBVIOUS
<1>5. l \in Pointer /\ k = 0 /\ Cut(b, L, 0, from, mem)
  BY <1>1, <1>2, <1>3, <1>4, SplitsAt
<1>6. c = Stands(c.pc, k, e, l, Before(b, B))
  BY <1>1, <1>3 DEF CallAt
<1>7. d = Stands("count", k, e, l, Before(b, B))
  BY <1>6, GoesTo
<1>8. Splits(b, from, e, "count", k, l, x)
  BY <1>1, <1>3, <1>4, <1>5 DEF Splits
<1> QED
  BY <1>1, <1>2, <1>3, <1>7, <1>8, AllocatesOn

\* The call returns.
LEMMA ReturnMoves ==
  ASSUME Small, NEW mem, NEW c, NEW B, CallerIs(mem, c, B), c.pc = "count",
         NEW x, x = Lists!Count(mem, 1), NEW C, C = B \cup {c.block}
  PROVE  Moves(mem, c, B, x, Lists!Idle, C)
<1>1. PICK b, k, l : /\ CallAt(b, B, c, k, l) /\ c.k = k /\ c.link = l /\ c.block = Lists!NextPage(b)
                     /\ Splits(b, Lists!FirstList(b), Lists!NextPage(b), c.pc, k, l, mem)
  BY PhaseIs, AllocatesBy
<1>2. PICK from : from = Lists!FirstList(b)
  OBVIOUS
<1>3. PICK e : e = Lists!NextPage(b)
  OBVIOUS
<1>4. PICK L : L = ListsOf(b)
  OBVIOUS
<1>5. PICK z : Cut(b, L, 0, from, z) /\ mem = Lists!Mark(z, e)
  BY <1>1, <1>2, <1>3, <1>4, SplitsAt
<1>6. c = Stands(c.pc, k, e, l, Before(b, B)) /\ AtRest(b, B) /\ Lists!HasPage(b)
  BY <1>1, <1>3 DEF CallAt
<1>7. /\ from \in Orders /\ L[from] # <<>> /\ e = Head(L[from]) /\ e \in Lists!Page
      /\ Booked(b, B, L)
  BY <1>2, <1>3, <1>4, <1>6, FirstOf
<1>8. Booked(x, C, Halved(L, 0, from))
  BY <1>1, <1>3, <1>5, <1>7, CutEnds
<1>9. AtRest(x, C)
  BY <1>8, BookedAtRest
<1>10. Rests(x, Lists!Idle, C)
  BY <1>9, IdleIs DEF Rests
<1>11. x.allocated_pages = b.allocated_pages + 1 /\ x.free_pages = b.free_pages - 1
  <2>1. z \in Memory /\ SameBooks(b, z)
    BY <1>5, CutIs
  <2>2. /\ mem \in Memory /\ mem.free_pages = z.free_pages /\ mem.allocated_pages = z.allocated_pages
    BY <1>5, <1>7, <2>1, MarkIs
  <2>3. z.free_pages = b.free_pages /\ z.allocated_pages = b.allocated_pages
    BY <2>1 DEF SameBooks
  <2>4. x.free_pages = mem.free_pages - 1 /\ x.allocated_pages = mem.allocated_pages + 1
    BY <2>2, CountIs
  <2> QED
    BY <2>2, <2>3, <2>4
<1>12. TakesPage(b, B, x, C)
  BY <1>1, <1>2, <1>4, <1>6, <1>8, <1>11 DEF TakesPage
<1>13. SeenBy(mem, c, B) = Before(b, B)
  BY <1>6, SeenAt
<1>14. SeenBy(x, Lists!Idle, C) = Before(x, C)
  BY IdleIs, SeenAt
<1>15. Follows(Before(b, B), Before(x, C))
  BY <1>6, <1>12 DEF Follows, Before
<1> QED
  BY <1>10, <1>13, <1>14, <1>15 DEF Moves, CallerIs

-----------------------------------------------------------------------------
(***************************************************************************)
(* A page given back.                                                      *)
(***************************************************************************)
ReturnOf(b, C, p, B, c, k, bl, l) ==
  /\ AtRest(b, C) /\ p \in C /\ B = C \ {p}
  /\ c = Stands(c.pc, k, bl, l, Before(b, C))

LEMMA FreesBy ==
  ASSUME NEW mem, NEW c, NEW B, Frees(mem, c, B)
  PROVE  \E b, C, p, k, bl, l :
           /\ ReturnOf(b, C, p, B, c, k, bl, l) /\ c.k = k /\ c.link = l /\ c.block = bl
           /\ Merges(b, p, Buddy(p, 0), c.pc, k, bl, l, mem)
<1>1. PICK b, C, p, pc, k, bl, l :
        /\ AtRest(b, C) /\ p \in C /\ B = C \ {p}
        /\ c = Stands(pc, k, bl, l, Before(b, C))
        /\ Merges(b, p, Buddy(p, 0), pc, k, bl, l, mem)
  BY DEF Frees
<1>2. c.pc = pc /\ c.k = k /\ c.link = l /\ c.block = bl
  BY <1>1, StandsAt
<1> QED
  BY <1>1, <1>2 DEF ReturnOf

LEMMA FreesOn ==
  ASSUME Small, NEW b, NEW C, NEW p, NEW B, NEW mem, NEW c, NEW k, NEW bl, NEW l,
         ReturnOf(b, C, p, B, c, k, bl, l), c.pc # "idle",
         NEW v, v # "idle", NEW o, NEW w, NEW z, NEW d, d = Stands(v, o, w, z, Before(b, C)),
         NEW x, Merges(b, p, Buddy(p, 0), v, o, w, z, x)
  PROVE  Moves(mem, c, B, x, d, B)
<1>1. AtRest(b, C) /\ p \in C /\ B = C \ {p} /\ c = Stands(c.pc, k, bl, l, Before(b, C))
  BY DEF ReturnOf
<1>2. Frees(x, d, B)
  BY <1>1 DEF Frees
<1>3. SeenBy(mem, c, B) = Before(b, C)
  BY <1>1, SeenAt
<1>4. SeenBy(x, d, B) = Before(b, C)
  BY SeenAt
<1> QED
  BY <1>2, <1>3, <1>4, Unseen1 DEF CallerIs

HasPair(b, q) == q \in Elems(ListsOf(b)[0])
LastPair(b, bl) == BUDDY_MAX_ORDER = 1 \/ Buddy(bl, 1) \notin Elems(ListsOf(b)[1])

LEMMA MergesAt ==
  ASSUME NEW b, NEW p, NEW q, NEW y, y = FreeMem(b, p), NEW u, u = Lists!Unlink(y, q, 0),
         NEW pc, NEW k, NEW bl, NEW l, NEW mem, Merges(b, p, q, pc, k, bl, l, mem)
  PROVE  /\ pc = "uncount" => k = 0 /\ bl = p /\ l = p /\ mem = Lists!Clear(b, p)
         /\ pc = "merge" =>
              \/ k = 0 /\ bl = p /\ l = p /\ mem = y
              \/ k = 1 /\ bl = Smaller(p, q) /\ l = q /\ HasPair(b, q) /\ mem = u
         /\ pc = "find" => k = 0 /\ bl = p /\ l = q /\ HasPair(b, q) /\ mem = y
         /\ pc \in {"unlink1", "unlink2", "unlink3"} =>
              k = 0 /\ bl = p /\ l = q /\ HasPair(b, q) /\ Unlinking(pc, 0, q, y, mem)
         /\ pc = "join" => k = 0 /\ bl = p /\ l = q /\ HasPair(b, q) /\ mem = u
         /\ pc \in {"link1", "link2", "link3", "link4"} =>
              \/ k = 0 /\ bl = p /\ l = p /\ ~HasPair(b, q) /\ Linking(pc, 0, p, y, mem)
              \/ /\ k = 1 /\ bl = Smaller(p, q) /\ l = bl /\ HasPair(b, q) /\ LastPair(b, bl)
                 /\ Linking(pc, 1, bl, u, mem)
<1>1. \A n, w, x : Unlinking(pc, n, w, x, mem) => pc \in {"unlink1", "unlink2", "unlink3"}
  BY UnlinkingGoesOn
<1>2. \A n, w, x : Linking(pc, n, w, x, mem) => pc \in {"link1", "link2", "link3", "link4"}
  BY LinkingGoesOn
<1>3. \/ k = 0 /\ bl = p /\ l = p /\ pc = "uncount" /\ mem = Lists!Clear(b, p)
      \/ k = 0 /\ bl = p /\ l = p /\ pc = "merge" /\ mem = y
      \/ k = 0 /\ bl = p /\ l = q /\ HasPair(b, q) /\ pc = "find" /\ mem = y
      \/ k = 0 /\ bl = p /\ l = q /\ HasPair(b, q) /\ Unlinking(pc, 0, q, y, mem)
      \/ k = 0 /\ bl = p /\ l = q /\ HasPair(b, q) /\ pc = "join" /\ mem = u
      \/ k = 1 /\ bl = Smaller(p, q) /\ l = q /\ HasPair(b, q) /\ pc = "merge" /\ mem = u
      \/ k = 0 /\ bl = p /\ l = p /\ ~HasPair(b, q) /\ Linking(pc, 0, p, y, mem)
      \/ /\ k = 1 /\ bl = Smaller(p, q) /\ l = bl /\ HasPair(b, q) /\ LastPair(b, bl)
         /\ Linking(pc, 1, bl, u, mem)
  BY DEF Merges, HasPair, LastPair
<1> QED
  BY <1>1, <1>2, <1>3

\* What the merging asks is whether the buddy is listed.
LEMMA ReallyFreeIs ==
  ASSUME Small, NEW b, NEW L, Tidy(b, L), NEW k \in Orders,
         NEW x \in Memory, NEW M, Shape(x, M), M[k] = L[k], x.bits \subseteq b.bits, NEW r
  PROVE  Lists!ReallyFree(x, r, k) <=> r \in Elems(L[k])
<1>1. Lists!Listed(x, r, k) <=> r \in Elems(L[k])
  BY ListedIs
<1>2. ASSUME r \in Elems(L[k])
      PROVE  r + 2^k <= ListPages /\ r..(r + 2^k - 1) \cap x.bits = {}
  <2>1. Shape(b, L)
    BY DEF Tidy
  <2>2. PICK f : f = [page |-> r, order |-> k]
    OBVIOUS
  <2>3. f \in FreeOf(L) /\ r \in Nat /\ f.page = r /\ f.order = k
    BY <1>2, <2>1, <2>2, ShapeFree
  <2>4. PICK n \in Nat \ {0} : n = Size(k)
    BY OrderFacts
  <2>5. Pages(f) = r..(r + n - 1)
    BY <2>3, <2>4 DEF Pages, Span
  <2>6. Pages(f) \subseteq Lists!Page \ ({0} \cup b.bits)
    BY <2>3 DEF Tidy, PagesOf
  <2>7. PICK z \in Nat : z = ListPages /\ Lists!Page = 0..(z - 1)
    BY PageFacts
  <2>8. r + n - 1 \in r..(r + n - 1)
    BY <2>3, <2>4
  <2>9. r + n - 1 \in 0..(z - 1)
    BY <2>5, <2>6, <2>7, <2>8
  <2>10. r + n <= z
    BY <2>3, <2>4, <2>7, <2>9
  <2>11. r..(r + n - 1) \cap x.bits = {}
    BY <2>5, <2>6
  <2> QED
    BY <2>4, <2>7, <2>10, <2>11 DEF Size
<1> QED
  BY <1>1, <1>2 DEF Lists!ReallyFree

\* The call: the page's mark goes.
LEMMA GiveMoves ==
  ASSUME Small, NEW mem, NEW c, NEW B, CallerIs(mem, c, B), c.pc = "idle", NEW p \in B,
         NEW d, d = Stands("uncount", 0, p, p, Before(mem, B))
  PROVE  Moves(mem, c, B, Lists!Clear(mem, p), d, B \ {p})
<1>1. Rests(mem, c, B)
  BY PhaseIs
<1>2. AtRest(mem, B) /\ c = Stands("idle", 0, NULL, NULL, NULL)
  BY <1>1 DEF Rests
<1>3. Merges(mem, p, Buddy(p, 0), "uncount", 0, p, p, Lists!Clear(mem, p))
  BY DEF Merges
<1>4. Frees(Lists!Clear(mem, p), d, B \ {p})
  BY <1>2, <1>3 DEF Frees
<1>5. SeenBy(mem, c, B) = Before(mem, B)
  BY <1>2, SeenAt
<1>6. SeenBy(Lists!Clear(mem, p), d, B \ {p}) = Before(mem, B)
  BY SeenAt
<1> QED
  BY <1>4, <1>5, <1>6, Unseen1 DEF CallerIs

LEMMA UncountMoves ==
  ASSUME Small, NEW mem, NEW c, NEW B, CallerIs(mem, c, B), c.pc = "uncount",
         NEW x, x = Lists!Count(mem, -1), NEW d, d = [c EXCEPT !.pc = "merge"]
  PROVE  Moves(mem, c, B, x, d, B)
<1>1. PICK b, C, p, k, bl, l :
        /\ ReturnOf(b, C, p, B, c, k, bl, l) /\ c.k = k /\ c.link = l /\ c.block = bl
        /\ Merges(b, p, Buddy(p, 0), c.pc, k, bl, l, mem)
  BY PhaseIs, FreesBy
<1>2. k = 0 /\ bl = p /\ l = p /\ mem = Lists!Clear(b, p)
  BY <1>1, MergesAt
<1>3. c = Stands(c.pc, k, bl, l, Before(b, C))
  BY <1>1 DEF ReturnOf
<1>4. d = Stands("merge", k, bl, l, Before(b, C))
  BY <1>3, GoesTo
<1>5. x = FreeMem(b, p)
  BY <1>2 DEF FreeMem
<1>6. Merges(b, p, Buddy(p, 0), "merge", k, bl, l, x)
  BY <1>2, <1>5 DEF Merges
<1> QED
  BY <1>1, <1>4, <1>6, FreesOn

\* Where the merging of p with its buddy q comes to, and what is listed there.
LEMMA MergeLists ==
  ASSUME Small, NEW b, NEW C, AtRest(b, C), NEW p \in C, NEW q, q = Buddy(p, 0),
         NEW y, y = FreeMem(b, p), NEW u, u = Lists!Unlink(y, q, 0)
  PROVE  /\ \A r : Lists!ReallyFree(y, r, 0) <=> HasPair(b, r)
         /\ \A r : Lists!Listed(y, r, 0) <=> HasPair(b, r)
         /\ HasPair(b, q) => \A r : Lists!ReallyFree(u, r, 1) <=> r \in Elems(ListsOf(b)[1])
<1>1. PICK L : L = ListsOf(b)
  OBVIOUS
<1>2. /\ b \in Memory /\ Booked(b, C, L) /\ Tidy(b, L) /\ p \in b.bits
      /\ y \in Memory /\ Shape(y, L)
  BY <1>1, PagesOfMerge
<1>3. y.bits \subseteq b.bits
  BY <1>2, FreeMemIs
<1>4. 0 \in Orders /\ 1 \in Orders
  BY OrderFacts
<1>5. \A r : Lists!ReallyFree(y, r, 0) <=> r \in Elems(L[0])
  BY <1>2, <1>3, <1>4, ReallyFreeIs
<1>6. \A r : Lists!Listed(y, r, 0) <=> r \in Elems(L[0])
  BY <1>2, <1>4, ListedIs
<1>7. ASSUME q \in Elems(L[0]), NEW r
      PROVE  Lists!ReallyFree(u, r, 1) <=> r \in Elems(L[1])
  <2>1. PICK M : M = [L EXCEPT ![0] = Without(L[0], q)]
    OBVIOUS
  <2>2. u \in Memory /\ SameBooks(y, u) /\ Shape(u, M)
    BY <1>2, <1>7, <2>1, BuddyUnlinked
  <2>3. Shape(b, L)
    BY <1>2 DEF Tidy
  <2>4. L \in [Orders -> Seq(Nat)]
    BY <2>3, ShapeFree
  <2>5. M[1] = L[1]
    BY <1>4, <2>1, <2>4
  <2>6. u.bits \subseteq b.bits
    BY <1>3, <2>2 DEF SameBooks
  <2> QED
    BY <1>2, <1>4, <2>2, <2>5, <2>6, ReallyFreeIs
<1> QED
  BY <1>1, <1>5, <1>6, <1>7 DEF HasPair

LEMMA MergeMoves ==
  ASSUME Small, NEW mem, NEW c, NEW B, CallerIs(mem, c, B), c.pc = "merge",
         NEW r, r = Buddy(c.block, c.k),
         NEW merges \in BOOLEAN, merges <=> c.k < BUDDY_MAX_ORDER /\ Lists!ReallyFree(mem, r, c.k),
         NEW d, d = IF merges THEN With(c, "find", r) ELSE With(c, "link1", c.block)
  PROVE  ~(merges /\ c.k > 0) => Moves(mem, c, B, mem, d, B)
<1>1. PICK b, C, p, k, bl, l :
        /\ ReturnOf(b, C, p, B, c, k, bl, l) /\ c.k = k /\ c.link = l /\ c.block = bl
        /\ Merges(b, p, Buddy(p, 0), c.pc, k, bl, l, mem)
  BY PhaseIs, FreesBy
<1>2. PICK q : q = Buddy(p, 0)
  OBVIOUS
<1>3. PICK y : y = FreeMem(b, p)
  OBVIOUS
<1>4. PICK u : u = Lists!Unlink(y, q, 0)
  OBVIOUS
<1>5. AtRest(b, C) /\ p \in C /\ c = Stands(c.pc, k, bl, l, Before(b, C))
  BY <1>1 DEF ReturnOf
<1>6. \/ k = 0 /\ bl = p /\ l = p /\ mem = y
      \/ k = 1 /\ bl = Smaller(p, q) /\ l = q /\ HasPair(b, q) /\ mem = u
  BY <1>1, <1>2, <1>3, <1>4, MergesAt
<1>7. /\ \A a : Lists!ReallyFree(y, a, 0) <=> HasPair(b, a)
      /\ HasPair(b, q) => \A a : Lists!ReallyFree(u, a, 1) <=> a \in Elems(ListsOf(b)[1])
  BY <1>2, <1>3, <1>4, <1>5, MergeLists
<1>8. BUDDY_MAX_ORDER \in Nat /\ BUDDY_MAX_ORDER >= 1
  BY OrderFacts
<1>9. CASE k = 0 /\ bl = p /\ l = p /\ mem = y
  <2>1. r = q /\ (merges <=> HasPair(b, q))
    BY <1>1, <1>2, <1>7, <1>8, <1>9
  <2>2. CASE merges
    <3>1. d = Stands("find", k, bl, q, Before(b, C))
      BY <1>5, <2>1, <2>2, GoesWith
    <3>2. Merges(b, p, q, "find", k, bl, q, mem)
      BY <1>3, <1>9, <2>1, <2>2 DEF Merges, HasPair
    <3>3. Moves(mem, c, B, mem, d, B)
      BY <1>1, <1>2, <3>1, <3>2, FreesOn
    <3> QED
      BY <3>3
  <2>3. CASE ~merges
    <3>1. d = Stands("link1", k, bl, p, Before(b, C))
      BY <1>1, <1>5, <1>9, <2>3, GoesWith
    <3>2. Linking("link1", 0, p, y, mem)
      BY <1>9 DEF Linking
    <3>3. Merges(b, p, q, "link1", k, bl, p, mem)
      BY <1>3, <1>9, <2>1, <2>3, <3>2 DEF Merges, HasPair
    <3>4. Moves(mem, c, B, mem, d, B)
      BY <1>1, <1>2, <3>1, <3>3, FreesOn
    <3> QED
      BY <3>4
  <2> QED
    BY <2>2, <2>3
<1>10. CASE k = 1 /\ bl = Smaller(p, q) /\ l = q /\ HasPair(b, q) /\ mem = u
  <2>1. CASE merges
    BY <1>1, <1>10, <2>1
  <2>2. CASE ~merges
    <3>1. d = Stands("link1", k, bl, bl, Before(b, C))
      BY <1>1, <1>5, <2>2, GoesWith
    <3>2. Linking("link1", 1, bl, u, mem)
      BY <1>10 DEF Linking
    <3>3. r = Buddy(bl, 1) /\ (merges <=> 1 < BUDDY_MAX_ORDER /\ r \in Elems(ListsOf(b)[1]))
      BY <1>1, <1>7, <1>10
    <3>4. BUDDY_MAX_ORDER = 1 \/ Buddy(bl, 1) \notin Elems(ListsOf(b)[1])
      BY <1>8, <2>2, <3>3
    <3>5. Merges(b, p, q, "link1", k, bl, bl, mem)
      BY <1>3, <1>4, <1>10, <3>2, <3>4 DEF Merges, HasPair
    <3>6. Moves(mem, c, B, mem, d, B)
      BY <1>1, <1>2, <3>1, <3>5, FreesOn
    <3> QED
      BY <3>6
  <2> QED
    BY <2>1, <2>2
<1> QED
  BY <1>6, <1>9, <1>10

\* Even when it goes on with larger blocks.
LEMMA MergeTyped ==
  ASSUME Small, NEW mem, NEW c, NEW B, CallerIs(mem, c, B), c.pc = "merge",
         NEW r, Lists!ReallyFree(mem, r, c.k), NEW d, d = With(c, "find", r)
  PROVE  Typed(mem, d, B)
<1>1. PICK b, C, p, k, bl, l :
        /\ ReturnOf(b, C, p, B, c, k, bl, l) /\ c.k = k /\ c.link = l /\ c.block = bl
        /\ Merges(b, p, Buddy(p, 0), c.pc, k, bl, l, mem)
  BY PhaseIs, FreesBy
<1>2. AtRest(b, C) /\ p \in C /\ B = C \ {p} /\ c = Stands(c.pc, k, bl, l, Before(b, C))
  BY <1>1 DEF ReturnOf
<1>3. /\ mem \in Memory /\ ~mem.halted
      /\ mem.allocated_pages \in 0..ListPages /\ mem.free_pages \in 0..ListPages
      /\ k \in {0, 1} /\ bl \in Pointer
  BY <1>1, <1>2, MergesIs
<1>4. k \in Orders /\ k \in 0..(BUDDY_MAX_ORDER + 1)
  BY <1>3, OrderFacts
<1>5. r \in Pointer
  BY <1>1, <1>3, <1>4, ListedIs, NullPointer DEF Lists!ReallyFree
<1>6. d = Stands("find", k, bl, r, Before(b, C))
  BY <1>2, GoesWith
<1>7. B \subseteq Lists!Page
  BY <1>2, AtRestIs
<1> QED
  BY <1>3, <1>4, <1>5, <1>6, <1>7, TypedBy

LEMMA FindMoves ==
  ASSUME Small, NEW mem, NEW c, NEW B, CallerIs(mem, c, B), c.pc = "find",
         NEW d, d = [c EXCEPT !.pc = IF Lists!Listed(mem, c.link, c.k) THEN "unlink1" ELSE "join"]
  PROVE  Moves(mem, c, B, mem, d, B)
<1>1. PICK b, C, p, k, bl, l :
        /\ ReturnOf(b, C, p, B, c, k, bl, l) /\ c.k = k /\ c.link = l /\ c.block = bl
        /\ Merges(b, p, Buddy(p, 0), c.pc, k, bl, l, mem)
  BY PhaseIs, FreesBy
<1>2. PICK q : q = Buddy(p, 0)
  OBVIOUS
<1>3. PICK y : y = FreeMem(b, p)
  OBVIOUS
<1>4. k = 0 /\ bl = p /\ l = q /\ HasPair(b, q) /\ mem = y
  BY <1>1, <1>2, <1>3, MergesAt
<1>5. AtRest(b, C) /\ p \in C /\ c = Stands(c.pc, k, bl, l, Before(b, C))
  BY <1>1 DEF ReturnOf
<1>6. Lists!Listed(mem, c.link, c.k)
  BY <1>1, <1>2, <1>3, <1>4, <1>5, MergeLists
<1>7. d = [c EXCEPT !.pc = "unlink1"]
  BY <1>6
<1>8. d = Stands("unlink1", k, bl, l, Before(b, C))
  BY <1>5, <1>7, GoesTo
<1>9. Unlinking("unlink1", 0, q, y, mem)
  BY <1>4 DEF Unlinking
<1>10. Merges(b, p, q, "unlink1", k, bl, l, mem)
  BY <1>3, <1>4, <1>9 DEF Merges, HasPair
<1> QED
  BY <1>1, <1>2, <1>8, <1>10, FreesOn

LEMMA BuddyMoves ==
  ASSUME Small, NEW mem, NEW c, NEW B, Frees(mem, c, B), NEW x, NEW d, Removed(mem, c, x, d)
  PROVE  Moves(mem, c, B, x, d, B)
<1>1. PICK b, C, p, k, bl, l :
        /\ ReturnOf(b, C, p, B, c, k, bl, l) /\ c.k = k /\ c.link = l /\ c.block = bl
        /\ Merges(b, p, Buddy(p, 0), c.pc, k, bl, l, mem)
  BY FreesBy
<1>2. PICK q : q = Buddy(p, 0)
  OBVIOUS
<1>3. PICK y : y = FreeMem(b, p)
  OBVIOUS
<1>4. c.pc \in {"unlink1", "unlink2", "unlink3"}
  BY DEF Removed
<1>5. k = 0 /\ bl = p /\ l = q /\ HasPair(b, q) /\ Unlinking(c.pc, 0, q, y, mem)
  BY <1>1, <1>2, <1>3, <1>4, MergesAt
<1>6. AtRest(b, C) /\ p \in C /\ c = Stands(c.pc, k, bl, l, Before(b, C))
  BY <1>1 DEF ReturnOf
<1>7. ASSUME NEW v, v \in {"unlink2", "unlink3"}, d = [c EXCEPT !.pc = v], Unlinking(v, 0, q, y, x)
      PROVE  Moves(mem, c, B, x, d, B)
  <2>1. d = Stands(v, k, bl, l, Before(b, C))
    BY <1>6, <1>7, GoesTo
  <2>2. Merges(b, p, q, v, k, bl, l, x)
    BY <1>3, <1>5, <1>7 DEF Merges, HasPair
  <2> QED
    BY <1>1, <1>2, <1>4, <1>7, <2>1, <2>2, FreesOn
<1>8. CASE c.pc = "unlink1"
  <2>1. x = Lists!Unlink1(mem, l, k) /\ d = [c EXCEPT !.pc = "unlink2"]
    BY <1>1, <1>8 DEF Removed
  <2>2. Unlinking("unlink2", 0, q, y, x)
    BY <1>5, <1>8, <2>1, UnlinkingGoesOn
  <2> QED
    BY <1>7, <2>1, <2>2
<1>9. CASE c.pc = "unlink2"
  <2>1. x = Lists!Unlink2(mem, l) /\ d = [c EXCEPT !.pc = "unlink3"]
    BY <1>1, <1>9 DEF Removed
  <2>2. Unlinking("unlink3", 0, q, y, x)
    BY <1>5, <1>9, <2>1, UnlinkingGoesOn
  <2> QED
    BY <1>7, <2>1, <2>2
<1>10. CASE c.pc = "unlink3"
  <2>1. q # p
    BY <1>2, <1>5, <1>6, PagesOfMerge DEF HasPair
  <2>2. x = Lists!Unlink3(mem, l) /\ d = [c EXCEPT !.pc = "join"]
    BY <1>1, <1>5, <1>10, <2>1 DEF Removed
  <2>3. x = Lists!Unlink(y, q, 0)
    BY <1>5, <1>10, <2>2, UnlinkingGoesOn
  <2>4. d = Stands("join", k, bl, l, Before(b, C))
    BY <1>6, <2>2, GoesTo
  <2>5. Merges(b, p, q, "join", k, bl, l, x)
    BY <1>3, <1>5, <2>3 DEF Merges, HasPair
  <2> QED
    BY <1>1, <1>2, <1>10, <2>4, <2>5, FreesOn
<1> QED
  BY <1>4, <1>8, <1>9, <1>10

LEMMA JoinMoves ==
  ASSUME Small, NEW mem, NEW c, NEW B, CallerIs(mem, c, B), c.pc = "join",
         NEW d, d = Raised(c, "merge", Lists!Min({c.block, c.link}))
  PROVE  Moves(mem, c, B, mem, d, B)
<1>1. PICK b, C, p, k, bl, l :
        /\ ReturnOf(b, C, p, B, c, k, bl, l) /\ c.k = k /\ c.link = l /\ c.block = bl
        /\ Merges(b, p, Buddy(p, 0), c.pc, k, bl, l, mem)
  BY PhaseIs, FreesBy
<1>2. PICK q : q = Buddy(p, 0)
  OBVIOUS
<1>3. PICK y : y = FreeMem(b, p)
  OBVIOUS
<1>4. PICK u : u = Lists!Unlink(y, q, 0)
  OBVIOUS
<1>5. k = 0 /\ bl = p /\ l = q /\ HasPair(b, q) /\ mem = u
  BY <1>1, <1>2, <1>3, <1>4, MergesAt
<1>6. AtRest(b, C) /\ p \in C /\ c = Stands(c.pc, k, bl, l, Before(b, C))
  BY <1>1 DEF ReturnOf
<1>7. p \in Nat /\ q \in Nat
  BY <1>2, <1>5, <1>6, PagesOfMerge DEF HasPair
<1>8. Lists!Min({c.block, c.link}) = Smaller(p, q)
  BY <1>1, <1>5, <1>7, SmallerIs
<1>9. d = Stands("merge", k + 1, Smaller(p, q), l, Before(b, C))
  BY <1>6, <1>8, GoesUp
<1>10. k + 1 = 1
  BY <1>5
<1>11. Merges(b, p, q, "merge", 1, Smaller(p, q), l, mem)
  BY <1>3, <1>4, <1>5 DEF Merges, HasPair
<1> QED
  BY <1>1, <1>2, <1>9, <1>10, <1>11, FreesOn

\* The call returns when the block is linked.
LEMMA FreeEnding ==
  ASSUME Small, NEW b, NEW C, NEW p, NEW B, NEW mem, NEW c, NEW k, NEW bl, NEW l,
         ReturnOf(b, C, p, B, c, k, bl, l), c.pc # "idle",
         NEW q, q = Buddy(p, 0), NEW y, y = FreeMem(b, p), NEW x, SameBooks(y, x),
         \/ ~HasPair(b, q) /\ Booked(x, B, Alone(ListsOf(b), p))
         \/ HasPair(b, q) /\ Booked(x, B, Together(ListsOf(b), p, q)) /\ LastPair(b, Smaller(p, q))
  PROVE  Moves(mem, c, B, x, Lists!Idle, B)
<1>1. AtRest(b, C) /\ p \in C /\ B = C \ {p} /\ c = Stands(c.pc, k, bl, l, Before(b, C))
  BY DEF ReturnOf
<1>2. AtRest(x, B)
  BY BookedAtRest
<1>3. Rests(x, Lists!Idle, B)
  BY <1>2, IdleIs DEF Rests
<1>4. x.allocated_pages = b.allocated_pages - 1 /\ x.free_pages = b.free_pages + 1
  <2>1. b \in Memory /\ p \in b.bits
    BY <1>1, PagesOfMerge
  <2>2. y.free_pages = b.free_pages + 1 /\ y.allocated_pages = b.allocated_pages - 1
    BY <2>1, FreeMemIs
  <2> QED
    BY <2>2 DEF SameBooks
<1>5. GivesPage(b, C, x, B)
  BY <1>1, <1>4 DEF GivesPage, HasPair, LastPair
<1>6. SeenBy(mem, c, B) = Before(b, C)
  BY <1>1, SeenAt
<1>7. SeenBy(x, Lists!Idle, B) = Before(x, B)
  BY IdleIs, SeenAt
<1>8. Follows(Before(b, C), Before(x, B))
  BY <1>1, <1>5 DEF Follows, Before
<1> QED
  BY <1>3, <1>6, <1>7, <1>8 DEF Moves, CallerIs

LEMMA FreedMoves ==
  ASSUME Small, NEW mem, NEW c, NEW B, Frees(mem, c, B), NEW x, NEW d, Linked(mem, c, x, d)
  PROVE  Moves(mem, c, B, x, d, B)
<1>1. PICK b, C, p, k, bl, l :
        /\ ReturnOf(b, C, p, B, c, k, bl, l) /\ c.k = k /\ c.link = l /\ c.block = bl
        /\ Merges(b, p, Buddy(p, 0), c.pc, k, bl, l, mem)
  BY FreesBy
<1>2. PICK q : q = Buddy(p, 0)
  OBVIOUS
<1>3. PICK y : y = FreeMem(b, p)
  OBVIOUS
<1>4. PICK u : u = Lists!Unlink(y, q, 0)
  OBVIOUS
<1>5. c.pc \in {"link1", "link2", "link3", "link4"}
  BY DEF Linked
<1>6. \/ k = 0 /\ bl = p /\ l = p /\ ~HasPair(b, q) /\ Linking(c.pc, 0, p, y, mem)
      \/ /\ k = 1 /\ bl = Smaller(p, q) /\ l = bl /\ HasPair(b, q) /\ LastPair(b, bl)
         /\ Linking(c.pc, 1, bl, u, mem)
  BY <1>1, <1>2, <1>3, <1>4, <1>5, MergesAt
<1>7. AtRest(b, C) /\ p \in C /\ B = C \ {p} /\ c = Stands(c.pc, k, bl, l, Before(b, C))
  BY <1>1 DEF ReturnOf
\* What is linked, and into what.
<1>8. PICK z : \/ k = 0 /\ bl = p /\ ~HasPair(b, q) /\ z = y
               \/ k = 1 /\ bl = Smaller(p, q) /\ HasPair(b, q) /\ LastPair(b, bl) /\ z = u
  BY <1>6
<1>9. l = bl /\ Linking(c.pc, k, bl, z, mem)
  BY <1>6, <1>8
<1>10. ASSUME NEW v, v \in {"link2", "link3", "link4"}, d = [c EXCEPT !.pc = v], Linking(v, k, bl, z, x)
       PROVE  Moves(mem, c, B, x, d, B)
  <2>1. d = Stands(v, k, bl, l, Before(b, C))
    BY <1>7, <1>10, GoesTo
  <2>2. Merges(b, p, q, v, k, bl, l, x)
    BY <1>3, <1>4, <1>8, <1>9, <1>10 DEF Merges, HasPair, LastPair
  <2> QED
    BY <1>1, <1>2, <1>5, <1>10, <2>1, <2>2, FreesOn
<1>11. CASE c.pc = "link1"
  <2>1. x = Lists!Link1(mem, bl) /\ d = [c EXCEPT !.pc = "link2"]
    BY <1>1, <1>9, <1>11 DEF Linked
  <2> QED
    BY <1>9, <1>10, <1>11, <2>1, LinkingGoesOn
<1>12. CASE c.pc = "link2"
  <2>1. x = Lists!Link2(mem, bl, k) /\ d = [c EXCEPT !.pc = "link3"]
    BY <1>1, <1>9, <1>12 DEF Linked
  <2> QED
    BY <1>9, <1>10, <1>12, <2>1, LinkingGoesOn
<1>13. CASE c.pc = "link3"
  <2>1. x = Lists!Link3(mem, bl, k) /\ d = [c EXCEPT !.pc = "link4"]
    BY <1>1, <1>9, <1>13 DEF Linked
  <2> QED
    BY <1>9, <1>10, <1>13, <2>1, LinkingGoesOn
<1>14. CASE c.pc = "link4"
  <2>1. x = Lists!Link4(mem, bl, k) /\ d = Lists!Idle
    BY <1>1, <1>9, <1>14 DEF Linked
  <2>2. x = Lists!Link(z, bl, k)
    BY <1>9, <1>14, <2>1, LinkingGoesOn
  <2>3. Booked(b, C, ListsOf(b)) /\ y \in Memory /\ p \in Lists!Page /\ 0 \in Orders /\ 1 \in Orders
    BY <1>3, <1>7, PagesOfMerge, OrderFacts
  <2>4. CASE k = 0 /\ bl = p /\ ~HasPair(b, q) /\ z = y
    <3>1. Booked(x, B, Alone(ListsOf(b), p))
      BY <1>3, <1>7, <2>2, <2>3, <2>4, FreeAlone
    <3>2. SameBooks(y, x)
      BY <2>2, <2>3, <2>4, LinkIs
    <3> QED
      BY <1>1, <1>2, <1>3, <1>5, <2>1, <2>4, <3>1, <3>2, FreeEnding
  <2>5. CASE k = 1 /\ bl = Smaller(p, q) /\ HasPair(b, q) /\ LastPair(b, bl) /\ z = u
    <3>1. Booked(x, B, Together(ListsOf(b), p, q))
      BY <1>2, <1>3, <1>4, <1>7, <2>2, <2>3, <2>5, FreeTogether DEF HasPair
    <3>2. u \in Memory /\ SameBooks(y, u) /\ bl \in Lists!Page
      BY <1>2, <1>3, <1>4, <1>7, <2>5, PagesOfMerge DEF HasPair
    <3>3. SameBooks(u, x)
      BY <2>2, <2>3, <2>5, <3>2, LinkIs
    <3>4. SameBooks(y, x)
      BY <3>2, <3>3, SameBooksTwice
    <3> QED
      BY <1>1, <1>2, <1>3, <1>5, <2>1, <2>5, <3>1, <3>4, FreeEnding
  <2> QED
    BY <1>8, <2>4, <2>5
<1> QED
  BY <1>5, <1>11, <1>12, <1>13, <1>14

LEMMA RemoveMoves ==
  ASSUME Small, NEW mem, NEW c, NEW B, CallerIs(mem, c, B), NEW x, NEW d, Removed(mem, c, x, d)
  PROVE  Moves(mem, c, B, x, d, B)
<1>1. c.pc \in {"unlink1", "unlink2", "unlink3"}
  BY DEF Removed
<1>2. Allocates(mem, c, B) \/ Frees(mem, c, B)
  BY <1>1, PhaseIs
<1> QED
  BY <1>2, TakenMoves, BuddyMoves

LEMMA LinkMoves ==
  ASSUME Small, NEW mem, NEW c, NEW B, CallerIs(mem, c, B), NEW x, NEW d, Linked(mem, c, x, d)
  PROVE  Moves(mem, c, B, x, d, B)
<1>1. c.pc \in {"link1", "link2", "link3", "link4"}
  BY DEF Linked
<1>2. Allocates(mem, c, B) \/ Frees(mem, c, B)
  BY <1>1, PhaseIs
<1> QED
  BY <1>2, HalvedMoves, FreedMoves

-----------------------------------------------------------------------------
(***************************************************************************)
(* The steps of the linked lists.                                          *)
(***************************************************************************)
Standing == CallerIs(lists_mem, caller, pages_held)
Moving == Moves(lists_mem, caller, pages_held, lists_mem', caller', pages_held')

ListsInv ==
  /\ joined \in BOOLEAN
  /\ Typed(lists_mem, caller, pages_held)
  /\ ~joined => Standing

LEMMA alloc_pageMoves ==
  ASSUME Small, Standing, Lists!alloc_page
  PROVE  Moving /\ joined' = joined
<1>1. /\ caller.pc = "idle" /\ lists_mem' = lists_mem /\ pages_held' = pages_held /\ joined' = joined
      /\ caller' = [pc |-> "scan", k |-> 0, block |-> NULL, link |-> NULL,
                    before |-> [mem |-> lists_mem, live |-> pages_held]]
  BY DEF Lists!alloc_page, Lists!Runs, Lists!Call
<1>2. caller' = Stands("scan", 0, NULL, NULL, Before(lists_mem, pages_held))
  BY <1>1 DEF Stands, Before
<1>3. PICK mem, d : mem = lists_mem' /\ d = caller'
  OBVIOUS
<1>4. Moves(lists_mem, caller, pages_held, lists_mem, d, pages_held)
  BY <1>1, <1>2, <1>3, CallMoves DEF Standing
<1> QED
  BY <1>1, <1>3, <1>4 DEF Moving

LEMMA TraversalMoves ==
  ASSUME Small, Standing, Lists!Scan
  PROVE  Moving /\ joined' = joined
<1>1. /\ caller.pc = "scan" /\ lists_mem' = lists_mem /\ pages_held' = pages_held /\ joined' = joined
      /\ caller' = IF caller.k > BUDDY_MAX_ORDER THEN Lists!Idle
                   ELSE IF lists_mem.head[caller.k] = NULL THEN [caller EXCEPT !.k = @ + 1]
                   ELSE [caller EXCEPT !.pc = "take"]
  BY DEF Lists!Scan, Lists!Runs
<1>2. PICK d : d = caller'
  OBVIOUS
<1>3. Moves(lists_mem, caller, pages_held, lists_mem, d, pages_held)
  BY <1>1, <1>2, ScanMoves DEF Standing
<1> QED
  BY <1>1, <1>2, <1>3 DEF Moving

LEMMA TakingMoves ==
  ASSUME Small, Standing, Lists!Take
  PROVE  Moving /\ joined' = joined
<1>1. PICK h : h = lists_mem.head[caller.k]
  OBVIOUS
<1>2. /\ caller.pc = "take" /\ lists_mem' = lists_mem /\ pages_held' = pages_held /\ joined' = joined
      /\ caller' = [caller EXCEPT !.block = h, !.link = h, !.pc = IF h = NULL THEN "fault" ELSE "unlink1"]
  BY <1>1 DEF Lists!Take, Lists!Runs
<1>3. PICK d : d = caller'
  OBVIOUS
<1>4. d = [caller EXCEPT !.block = h, !.link = h, !.pc = IF h = NULL THEN "fault" ELSE "unlink1"]
  BY <1>2, <1>3, Zenon
<1>5. Moves(lists_mem, caller, pages_held, lists_mem, d, pages_held)
  BY <1>1, <1>2, <1>4, TakeMoves DEF Standing
<1> QED
  BY <1>2, <1>3, <1>5 DEF Moving

LEMMA RemovingMoves ==
  ASSUME Small, Standing, Lists!Remove
  PROVE  Moving /\ joined' = joined
<1>1. PICK x : x = lists_mem'
  OBVIOUS
<1>2. PICK d : d = caller'
  OBVIOUS
<1>3. Removed(lists_mem, caller, x, d)
  BY <1>1, <1>2 DEF Removed, Lists!Remove, Lists!RemoveStep, Lists!Runs, Lists!Goto
<1>4. pages_held' = pages_held /\ joined' = joined
  BY DEF Lists!Remove
<1>5. Moves(lists_mem, caller, pages_held, x, d, pages_held)
  BY <1>3, RemoveMoves DEF Standing
<1> QED
  BY <1>1, <1>2, <1>4, <1>5 DEF Moving

LEMMA SplittingMoves ==
  ASSUME Small, Standing, Lists!Split
  PROVE  Moving /\ joined' = joined
<1>1. PICK d : d = caller'
  OBVIOUS
<1>2. /\ caller.pc = "split" /\ lists_mem' = lists_mem /\ pages_held' = pages_held /\ joined' = joined
      /\ d = IF caller.k > 0 THEN Lowered(caller, "link1", caller.block + 2^(caller.k - 1))
             ELSE [caller EXCEPT !.pc = "mark"]
  BY <1>1 DEF Lists!Split, Lists!Runs, Lowered
<1>3. Moves(lists_mem, caller, pages_held, lists_mem, d, pages_held)
  BY <1>2, SplitMoves DEF Standing
<1> QED
  BY <1>1, <1>2, <1>3 DEF Moving

LEMMA LinkingMoves ==
  ASSUME Small, Standing, Lists!LinkBlock
  PROVE  Moving /\ joined' = joined
<1>1. PICK x : x = lists_mem'
  OBVIOUS
<1>2. PICK d : d = caller'
  OBVIOUS
<1>3. Linked(lists_mem, caller, x, d)
  BY <1>1, <1>2 DEF Linked, Lists!LinkBlock, Lists!LinkStep, Lists!Runs, Lists!Goto
<1>4. pages_held' = pages_held /\ joined' = joined
  BY DEF Lists!LinkBlock
<1>5. Moves(lists_mem, caller, pages_held, x, d, pages_held)
  BY <1>3, LinkMoves DEF Standing
<1> QED
  BY <1>1, <1>2, <1>4, <1>5 DEF Moving

LEMMA MarkAllocatedMoves ==
  ASSUME Small, Standing, Lists!MarkAllocated
  PROVE  Moving /\ joined' = joined
<1>1. PICK x : x = lists_mem'
  OBVIOUS
<1>2. PICK d : d = caller'
  OBVIOUS
<1>3. /\ caller.pc = "mark" /\ pages_held' = pages_held /\ joined' = joined
      /\ x = Lists!Mark(lists_mem, caller.block) /\ d = [caller EXCEPT !.pc = "count"]
  BY <1>1, <1>2 DEF Lists!MarkAllocated, Lists!Runs, Lists!Goto
<1>4. Moves(lists_mem, caller, pages_held, x, d, pages_held)
  BY <1>3, MarkMoves DEF Standing
<1> QED
  BY <1>1, <1>2, <1>3, <1>4 DEF Moving

LEMMA ReturningMoves ==
  ASSUME Small, Standing, Lists!Return
  PROVE  Moving /\ joined' = joined
<1>1. PICK x : x = lists_mem'
  OBVIOUS
<1>2. PICK C : C = pages_held'
  OBVIOUS
<1>3. /\ caller.pc = "count" /\ joined' = joined /\ caller' = Lists!Idle
      /\ x = Lists!Count(lists_mem, 1) /\ C = pages_held \cup {caller.block}
  BY <1>1, <1>2 DEF Lists!Return, Lists!Runs
<1>4. Moves(lists_mem, caller, pages_held, x, Lists!Idle, C)
  BY <1>3, ReturnMoves DEF Standing
<1> QED
  BY <1>1, <1>2, <1>3, <1>4 DEF Moving

LEMMA free_pageMoves ==
  ASSUME Small, Standing, NEW p \in pages_held, Lists!free_page(p)
  PROVE  Moving /\ joined' = joined
<1>1. /\ caller.pc = "idle" /\ lists_mem' = Lists!Clear(lists_mem, p) /\ pages_held' = pages_held \ {p}
      /\ joined' = joined
      /\ caller' = [pc |-> "uncount", k |-> 0, block |-> p, link |-> p,
                    before |-> [mem |-> lists_mem, live |-> pages_held]]
  BY DEF Lists!free_page, Lists!Runs, Lists!Call
<1>2. PICK d : d = caller'
  OBVIOUS
<1>3. d = Stands("uncount", 0, p, p, Before(lists_mem, pages_held))
  BY <1>1, <1>2 DEF Stands, Before
<1>4. Moves(lists_mem, caller, pages_held, Lists!Clear(lists_mem, p), d, pages_held \ {p})
  BY <1>1, <1>3, GiveMoves DEF Standing
<1> QED
  BY <1>1, <1>2, <1>4 DEF Moving

LEMMA UncountingMoves ==
  ASSUME Small, Standing, Lists!Uncount
  PROVE  Moving /\ joined' = joined
<1>1. PICK x : x = lists_mem'
  OBVIOUS
<1>2. PICK d : d = caller'
  OBVIOUS
<1>3. /\ caller.pc = "uncount" /\ pages_held' = pages_held /\ joined' = joined
      /\ x = Lists!Count(lists_mem, -1) /\ d = [caller EXCEPT !.pc = "merge"]
  BY <1>1, <1>2 DEF Lists!Uncount, Lists!Runs, Lists!Goto
<1>4. Moves(lists_mem, caller, pages_held, x, d, pages_held)
  BY <1>3, UncountMoves DEF Standing
<1> QED
  BY <1>1, <1>2, <1>3, <1>4 DEF Moving

LEMMA FindingMoves ==
  ASSUME Small, Standing, Lists!Find
  PROVE  Moving /\ joined' = joined
<1>1. PICK d : d = caller'
  OBVIOUS
<1>2. /\ caller.pc = "find" /\ lists_mem' = lists_mem /\ pages_held' = pages_held /\ joined' = joined
      /\ d = [caller EXCEPT !.pc = IF Lists!Listed(lists_mem, caller.link, caller.k) THEN "unlink1"
                                   ELSE "join"]
  BY <1>1 DEF Lists!Find, Lists!Runs, Lists!Goto
<1>3. Moves(lists_mem, caller, pages_held, lists_mem, d, pages_held)
  BY <1>2, FindMoves DEF Standing
<1> QED
  BY <1>1, <1>2, <1>3 DEF Moving

LEMMA JoiningMoves ==
  ASSUME Small, Standing, Lists!Join
  PROVE  Moving /\ joined' = joined
<1>1. PICK d : d = caller'
  OBVIOUS
<1>2. /\ caller.pc = "join" /\ lists_mem' = lists_mem /\ pages_held' = pages_held /\ joined' = joined
      /\ d = Raised(caller, "merge", Lists!Min({caller.block, caller.link}))
  BY <1>1 DEF Lists!Join, Lists!Runs, Raised
<1>3. Moves(lists_mem, caller, pages_held, lists_mem, d, pages_held)
  BY <1>2, JoinMoves DEF Standing
<1> QED
  BY <1>1, <1>2, <1>3 DEF Moving

LEMMA MergingMoves ==
  ASSUME Small, Standing, joined = FALSE, Lists!Merge
  PROVE  /\ Typed(lists_mem', caller', pages_held') /\ joined' \in BOOLEAN
         /\ ~joined' => Moving
<1>1. PICK d : d = caller'
  OBVIOUS
<1>2. PICK r : r = Buddy(caller.block, caller.k)
  OBVIOUS
<1>3. PICK merges \in BOOLEAN :
        merges <=> caller.k < BUDDY_MAX_ORDER /\ Lists!ReallyFree(lists_mem, r, caller.k)
  <2>1. CASE caller.k < BUDDY_MAX_ORDER /\ Lists!ReallyFree(lists_mem, r, caller.k)
    BY <2>1
  <2>2. CASE ~(caller.k < BUDDY_MAX_ORDER /\ Lists!ReallyFree(lists_mem, r, caller.k))
    BY <2>2
  <2> QED
    BY <2>1, <2>2
<1>4. r = Lists!Allocator!Buddy(caller.block, caller.k)
  BY <1>2, SameBuddy
<1>5. /\ caller.pc = "merge" /\ lists_mem' = lists_mem /\ pages_held' = pages_held
      /\ d = IF merges THEN With(caller, "find", r) ELSE With(caller, "link1", caller.block)
      /\ joined' = (merges /\ caller.k > 0)
  <2>1. CASE merges
    BY <1>1, <1>3, <1>4, <2>1 DEF Lists!Merge, Lists!Runs, With
  <2>2. CASE ~merges
    BY <1>1, <1>3, <1>4, <2>2 DEF Lists!Merge, Lists!Runs, With
  <2> QED
    BY <2>1, <2>2
<1>6. ~(merges /\ caller.k > 0) => Moves(lists_mem, caller, pages_held, lists_mem, d, pages_held)
  BY <1>2, <1>3, <1>5, MergeMoves DEF Standing
<1>7. CASE joined'
  <2>1. d = With(caller, "find", r) /\ Lists!ReallyFree(lists_mem, r, caller.k)
    BY <1>3, <1>5, <1>7
  <2>2. Typed(lists_mem, d, pages_held)
    BY <1>5, <2>1, MergeTyped DEF Standing
  <2> QED
    BY <1>1, <1>5, <1>7, <2>2
<1>8. CASE ~joined'
  <2>1. Moves(lists_mem, caller, pages_held, lists_mem, d, pages_held)
    BY <1>5, <1>6, <1>8
  <2>2. Typed(lists_mem, d, pages_held)
    BY <2>1, CallerTyped DEF Moves
  <2>3. joined' \in BOOLEAN
    BY <1>5
  <2> QED
    BY <1>1, <1>5, <2>1, <2>2, <2>3 DEF Moving
<1> QED
  BY <1>7, <1>8

-----------------------------------------------------------------------------
(***************************************************************************)
(* The invariant is kept.                                                  *)
(***************************************************************************)
\* What a step comes to, that the caller takes: once two blocks of an order above 0 are
\* merged, nobody follows the lists any more.
LEMMA CallerKeeps ==
  ASSUME Small, ListsInv, Lists!Caller
  PROVE  ListsInv' /\ (~joined' => Moving)
<1>1. ~joined
  BY DEF Lists!Caller, Lists!alloc_page, Lists!Scan, Lists!Take, Lists!Remove, Lists!RemoveStep,
         Lists!Split, Lists!LinkBlock, Lists!LinkStep, Lists!MarkAllocated, Lists!Return,
         Lists!free_page, Lists!Uncount, Lists!Merge, Lists!Find, Lists!Join, Lists!Runs
<1>2. Standing /\ joined = FALSE
  BY <1>1 DEF ListsInv
<1>3. ASSUME Moving /\ joined' = joined
      PROVE  ListsInv' /\ (~joined' => Moving)
  <2>1. PICK x, d, C : x = lists_mem' /\ d = caller' /\ C = pages_held'
    OBVIOUS
  <2>2. CallerIs(x, d, C)
    BY <1>3, <2>1 DEF Moving, Moves
  <2>3. Typed(x, d, C)
    BY <2>2, CallerTyped
  <2>4. Standing' /\ Typed(lists_mem', caller', pages_held')
    BY <2>1, <2>2, <2>3 DEF Standing
  <2>5. joined' \in BOOLEAN
    BY <1>2, <1>3
  <2> QED
    BY <1>3, <2>4, <2>5 DEF ListsInv
<1>4. CASE Lists!alloc_page
  BY <1>2, <1>3, <1>4, alloc_pageMoves
<1>5. CASE Lists!Scan
  BY <1>2, <1>3, <1>5, TraversalMoves
<1>6. CASE Lists!Take
  BY <1>2, <1>3, <1>6, TakingMoves
<1>7. CASE Lists!Remove
  BY <1>2, <1>3, <1>7, RemovingMoves
<1>8. CASE Lists!Split
  BY <1>2, <1>3, <1>8, SplittingMoves
<1>9. CASE Lists!LinkBlock
  BY <1>2, <1>3, <1>9, LinkingMoves
<1>10. CASE Lists!MarkAllocated
  BY <1>2, <1>3, <1>10, MarkAllocatedMoves
<1>11. CASE Lists!Return
  BY <1>2, <1>3, <1>11, ReturningMoves
<1>12. CASE Lists!Uncount
  BY <1>2, <1>3, <1>12, UncountingMoves
<1>13. CASE Lists!Find
  BY <1>2, <1>3, <1>13, FindingMoves
<1>14. CASE Lists!Join
  BY <1>2, <1>3, <1>14, JoiningMoves
<1>15. CASE Lists!Merge
  <2>1. /\ Typed(lists_mem', caller', pages_held') /\ joined' \in BOOLEAN
        /\ ~joined' => Moving
    BY <1>2, <1>15, MergingMoves
  <2>2. ~joined' => Standing'
    BY <2>1 DEF Moving, Moves, Standing
  <2> QED
    BY <2>1, <2>2 DEF ListsInv
<1>16. CASE \E p \in pages_held : Lists!free_page(p)
  <2>1. PICK p \in pages_held : Lists!free_page(p)
    BY <1>16
  <2> QED
    BY <1>2, <1>3, <2>1, free_pageMoves
<1> QED
  BY <1>4, <1>5, <1>6, <1>7, <1>8, <1>9, <1>10, <1>11, <1>12, <1>13, <1>14, <1>15, <1>16
     DEF Lists!Caller

\* The handler finds the lists between two calls of its caller, and leaves them so.
LEMMA HandlerKeeps ==
  ASSUME Small, ListsInv, Lists!KeyboardInterrupt
  PROVE  ListsInv'
<1>1. /\ joined = FALSE /\ caller.pc = "idle" /\ Lists!HasPage(lists_mem)
      /\ caller' = caller /\ pages_held' = pages_held
  BY DEF Lists!KeyboardInterrupt, ListsInv
<1>2. PICK mem, x, c, B : mem = lists_mem /\ x = lists_mem' /\ c = caller /\ B = pages_held
  OBVIOUS
<1>3. Rests(mem, c, B)
  BY <1>1, <1>2, PhaseIs DEF ListsInv, Standing
<1>4. AtRest(mem, B) /\ c = Stands("idle", 0, NULL, NULL, NULL) /\ Lists!HasPage(mem)
  BY <1>1, <1>2, <1>3 DEF Rests
<1>5. PICK m1 : m1 = Lists!AllocPage(mem)
  OBVIOUS
<1>6. PICK s : s = Lists!FreePage(Lists!AllocPage(m1), Lists!NextPage(m1))
  OBVIOUS
<1>7. PICK r : r = IF Lists!HasPage(m1) THEN Lists!FreePage(s.mem, Lists!NextPage(mem))
                   ELSE Lists!FreePage(m1, Lists!NextPage(mem))
  OBVIOUS
<1>8. /\ x = r.mem
      /\ joined' = (joined \/ r.order > 1 \/ (Lists!HasPage(m1) /\ s.order > 1))
  BY <1>1, <1>2, <1>5, <1>6, <1>7 DEF Lists!KeyboardInterrupt
<1>9. /\ x \in Memory /\ ~x.halted /\ SameCounts(mem, x)
      /\ ~joined' => AtRest(x, B)
  <2>1. CASE Lists!HasPage(m1)
    <3>1. HandlesTwo(mem, s, r)
      BY <1>5, <1>6, <1>7, <2>1 DEF HandlesTwo
    <3>2. /\ r.mem \in Memory /\ ~r.mem.halted /\ SameCounts(mem, r.mem)
          /\ ~(s.order > 1) /\ ~(r.order > 1) => AtRest(r.mem, B)
      BY <1>4, <1>5, <2>1, <3>1, HandlesTwoKeeps
    <3>3. ~joined' => ~(s.order > 1) /\ ~(r.order > 1)
      BY <1>8, <2>1
    <3> QED
      BY <1>8, <3>2, <3>3
  <2>2. CASE ~Lists!HasPage(m1)
    <3>1. HandlesOne(mem, r)
      BY <1>5, <1>7, <2>2 DEF HandlesOne
    <3>2. /\ r.mem \in Memory /\ ~r.mem.halted /\ SameCounts(mem, r.mem)
          /\ ~(r.order > 1) => AtRest(r.mem, B)
      BY <1>4, <3>1, HandlesOneKeeps
    <3>3. ~joined' => ~(r.order > 1)
      BY <1>8
    <3> QED
      BY <1>8, <3>2, <3>3
  <2> QED
    BY <2>1, <2>2
<1>10. Typed(x, c, B)
  <2>1. B \subseteq Lists!Page /\ mem.allocated_pages \in 0..ListPages /\ mem.free_pages \in 0..ListPages
    BY <1>4, AtRestIs
  <2>2. x.allocated_pages \in 0..ListPages /\ x.free_pages \in 0..ListPages
    BY <1>9, <2>1 DEF SameCounts
  <2>3. 0 \in 0..(BUDDY_MAX_ORDER + 1) /\ NULL \in Pointer
    BY NullPointer DEF Small
  <2> QED
    BY <1>4, <1>9, <2>1, <2>2, <2>3, TypedBy
<1>11. ~joined' => CallerIs(x, c, B)
  BY <1>4, <1>9 DEF CallerIs, Rests
<1>12. joined' \in BOOLEAN
  BY <1>8
<1> QED
  BY <1>1, <1>2, <1>10, <1>11, <1>12 DEF ListsInv, Standing

LEMMA ListsStand ==
  ASSUME Small, ListsInv, UNCHANGED lists
  PROVE  ListsInv'
BY DEF ListsInv, Standing, lists

LEMMA ListsStep ==
  ASSUME Small, ListsInv, Lists!Next
  PROVE  ListsInv'
BY CallerKeeps, HandlerKeeps DEF Lists!Next

-----------------------------------------------------------------------------
(***************************************************************************)
(* What the lists are to Buddy's callers.                                  *)
(***************************************************************************)
\* Pages that are handed out one at a time.
Singles(B) == {[page |-> p, order |-> 0] : p \in B}

LEMMA SinglesAre ==
  ASSUME Small, NEW B, B \subseteq Lists!Page
  PROVE  /\ Singles(B) \subseteq Blocks /\ PagesOf(Singles(B)) = B /\ Disjoint(Singles(B))
         /\ \A b \in Singles(B) : b.page \in B /\ b.order = 0 /\ Pages(b) = {b.page}
         /\ \A p \in B : Pages([page |-> p, order |-> 0]) = {p}
<1>1. B \subseteq Nat /\ 0 \in Orders
  BY PageFacts, OrderFacts
<1>2. Singles(B) \subseteq Blocks
  BY <1>1 DEF Singles, Blocks
<1>3. ASSUME NEW p \in B
      PROVE  Span(p, 0) = {p}
  <2>1. p \in Nat /\ Size(0) = 1
    BY <1>1, Sizes1
  <2>2. \A q : q \in Span(p, 0) <=> q \in Int /\ p <= q /\ q < p + 1
    BY <1>1, <2>1, SpanFacts
  <2>3. \A q \in Int : p <= q /\ q < p + 1 <=> q = p
    BY <2>1
  <2> QED
    BY <2>1, <2>2, <2>3
<1>4. \A p \in B : Pages([page |-> p, order |-> 0]) = {p}
  BY <1>3 DEF Pages
<1>5. \A b \in Singles(B) : b.page \in B /\ b.order = 0 /\ Pages(b) = {b.page}
                            /\ b = [page |-> b.page, order |-> 0]
  BY <1>4 DEF Singles
<1>6. \A p \in B : [page |-> p, order |-> 0] \in Singles(B)
  BY DEF Singles
<1>7. PagesOf(Singles(B)) = B
  <2>1. ASSUME NEW p \in PagesOf(Singles(B))
        PROVE  p \in B
    <3>1. PICK b \in Singles(B) : p \in Pages(b)
      BY DEF PagesOf
    <3> QED
      BY <1>5, <3>1
  <2>2. ASSUME NEW p \in B
        PROVE  p \in PagesOf(Singles(B))
    BY <1>4, <1>6 DEF PagesOf
  <2> QED
    BY <2>1, <2>2
<1>8. Disjoint(Singles(B))
  BY <1>5 DEF Disjoint
<1> QED
  BY <1>2, <1>4, <1>5, <1>7, <1>8

\* The page allocator's promises, of lists L and pages B that callers hold.
OneUse(L, B) ==
  /\ \A k \in Orders : \A b \in Singles(B) : Elems(L[k]) \cap Pages(b) = {}
  /\ \A k, l \in Orders : k # l => Elems(L[k]) \cap Elems(L[l]) = {}
  /\ \A k \in Orders : Cardinality(Elems(L[k])) = Len(L[k])
  /\ Disjoint(FreeOf(L)) /\ Disjoint(Singles(B))
  /\ \A f \in FreeOf(L) : \A b \in Singles(B) : Pages(f) \cap Pages(b) = {}

LEMMA BookedUse ==
  ASSUME Small, NEW mem, NEW B, NEW L, Booked(mem, B, L)
  PROVE  /\ OneUse(L, B)
         /\ mem.bits = {0} \cup PagesOf(Singles(B))
         /\ mem.free_pages = MapThenSumSet(LAMBDA b : Size(b.order), FreeOf(L))
         /\ mem.allocated_pages = MapThenSumSet(LAMBDA b : Size(b.order), Singles(B))
<1>1. /\ Tidy(mem, L) /\ Shape(mem, L) /\ Disjoint(FreeOf(L)) /\ mem \in Memory
      /\ B \subseteq Lists!Page /\ mem.bits = {0} \cup B
      /\ mem.allocated_pages = Cardinality(B) /\ mem.free_pages = Cardinality(PagesOf(FreeOf(L)))
      /\ PagesOf(FreeOf(L)) \subseteq Lists!Page \ ({0} \cup mem.bits)
  BY DEF Booked, Tidy
<1>2. /\ Singles(B) \subseteq Blocks /\ PagesOf(Singles(B)) = B /\ Disjoint(Singles(B))
      /\ \A b \in Singles(B) : b.page \in B /\ b.order = 0 /\ Pages(b) = {b.page}
  BY <1>1, SinglesAre
<1>3. /\ FreeOf(L) \subseteq Blocks
      /\ \A k \in Orders : \A p \in Elems(L[k]) :
           /\ [page |-> p, order |-> k] \in FreeOf(L)
           /\ [page |-> p, order |-> k].page = p
  BY <1>1, ShapeFree
<1>4. \A f \in FreeOf(L) : Pages(f) \subseteq PagesOf(FreeOf(L)) /\ f.page \in Pages(f)
  BY <1>3, BlockFacts DEF PagesOf
<1>5. PagesOf(FreeOf(L)) \cap B = {}
  BY <1>1
<1>6. \A f \in FreeOf(L) : \A b \in Singles(B) : Pages(f) \cap Pages(b) = {}
  BY <1>2, <1>4, <1>5
<1>7. \A k \in Orders : \A b \in Singles(B) : Elems(L[k]) \cap Pages(b) = {}
  <2> SUFFICES ASSUME NEW k \in Orders, NEW b \in Singles(B), NEW p \in Elems(L[k]), p \in Pages(b)
               PROVE  FALSE
    OBVIOUS
  <2>1. p \in PagesOf(FreeOf(L))
    BY <1>3, <1>4
  <2>2. p \in B
    BY <1>2
  <2> QED
    BY <1>5, <2>1, <2>2
<1>8. \A k \in Orders : Cardinality(Elems(L[k])) = Len(L[k])
  <2> SUFFICES ASSUME NEW k \in Orders PROVE Cardinality(Elems(L[k])) = Len(L[k])
    OBVIOUS
  <2>1. L[k] \in Seq(Nat) /\ OneEach(L[k])
    BY <1>1, ShapeIs, PageSeq
  <2> QED
    BY <2>1, CountElems
<1>9. \A k, l \in Orders : k # l => Elems(L[k]) \cap Elems(L[l]) = {}
  BY <1>1 DEF Shape, Apart
<1>10. IsFiniteSet(Lists!Page)
  BY PagesFinite
<1>11. MapThenSumSet(LAMBDA b : Size(b.order), FreeOf(L)) = Cardinality(PagesOf(FreeOf(L)))
  BY <1>1, <1>3, <1>10, SumIsCount
<1>12. MapThenSumSet(LAMBDA b : Size(b.order), Singles(B)) = Cardinality(PagesOf(Singles(B)))
  BY <1>1, <1>2, <1>10, SumIsCount
<1> QED
  BY <1>1, <1>2, <1>6, <1>7, <1>8, <1>9, <1>11, <1>12 DEF OneUse

LEMMA SameSum ==
  \A S : Lists!Allocator!MapThenSumSet(LAMBDA b : Lists!Allocator!Size(b.order), S)
           = MapThenSumSet(LAMBDA b : Size(b.order), S)
BY DEF MapThenSumSet, MapThenFoldSet, Lists!Allocator!MapThenSumSet, Lists!Allocator!MapThenFoldSet,
       Size, Lists!Allocator!Size

Words(n) == (n + 64 - 1) \div 64

Fits(n)  == n \in Nat \ {0} /\ n <= 32768

LEMMA WordsAre ==
  ASSUME NEW n, Fits(n)
  PROVE  Words(n) \in 1..512
BY DEF Words, Fits

LEMMA FewPages ==
  ASSUME Small
  PROVE  Fits(ListPages)
<1>1. PICK z : z = Size(BUDDY_MAX_ORDER) /\ z \in Nat
  BY OrderFacts
<1>2. ListPages \in Nat /\ z < ListPages /\ ListPages <= 32768
  BY <1>1, PageFacts
<1>3. ListPages \in Nat \ {0} /\ ListPages <= 32768
  BY <1>1, <1>2
<1> QED
  BY <1>3 DEF Fits

\* One page has room for the bits.
LEMMA OneBitmapPage ==
  ASSUME Small
  PROVE  Lists!Allocator!BitmapPages([base |-> 0, pages |-> ListPages]) = {0}
<1>1. PICK w : w = Words(ListPages)
  OBVIOUS
<1>2. w \in 1..512
  BY <1>1, FewPages, WordsAre
<1>3. (w * 8 + 4096 - 1) \div 4096 = 1
  BY <1>2
<1>4. Lists!Allocator!bitmap_pages([base |-> 0, pages |-> ListPages]) = 1
  BY <1>1, <1>3 DEF Words, Lists!Allocator!bitmap_pages, Lists!Allocator!bitmap_size_words,
     Lists!Allocator!CeilDiv, Lists!Allocator!WORD_BITS, Lists!Allocator!PAGE_SIZE
<1>5. 0..(1 - 1) = {0}
  OBVIOUS
<1> QED
  BY <1>4, <1>5 DEF Lists!Allocator!BitmapPages

\* What Buddy's variables are here.
Free_lists == [k \in Lists!Orders |-> Lists!Walk(Lists!Seen.mem, Lists!Seen.mem.head[k])]

LEMMA ViewIs ==
  ASSUME Small
  PROVE  /\ Free_lists = ListsOf(Lists!Seen.mem)
         /\ \A k \in Orders : Lists!Allocator!Listed(k) = Elems(Free_lists[k])
         /\ Lists!Allocator!FreeBlocks = FreeOf(Free_lists)
         /\ \A b : Lists!Allocator!Pages(b) = Pages(b)
         /\ \A S : Lists!Allocator!Disjoint(S) = Disjoint(S)
<1>1. Lists!Orders = Orders /\ Lists!Allocator!Orders = Orders
  BY DEF Lists!Orders, Lists!Allocator!Orders, Orders
<1>2. Free_lists = ListsOf(Lists!Seen.mem)
  BY <1>1 DEF Free_lists, ListsOf
<1>3. \A k \in Orders : Lists!Allocator!Listed(k) = Elems(Free_lists[k])
  BY DEF Lists!Allocator!Listed, Elems, Free_lists
<1>4. Lists!Allocator!FreeBlocks = FreeOf(Free_lists)
  <2>1. \A f : f \in Lists!Allocator!FreeBlocks <=>
               \E k \in Orders : \E p \in Elems(Free_lists[k]) : f = [page |-> p, order |-> k]
    BY <1>1, <1>3 DEF Lists!Allocator!FreeBlocks
  <2>2. \A f : f \in FreeOf(Free_lists) <=>
               \E k \in Orders : \E p \in Elems(Free_lists[k]) : f = [page |-> p, order |-> k]
    BY DEF FreeOf
  <2> QED
    BY <2>1, <2>2
<1>5. \A b : Lists!Allocator!Pages(b) = Pages(b)
  BY DEF Lists!Allocator!Pages, Pages, Lists!Allocator!Span, Span, Lists!Allocator!Size, Size
<1>6. \A S : Lists!Allocator!Disjoint(S) = Disjoint(S)
  BY <1>5 DEF Lists!Allocator!Disjoint, Disjoint
<1> QED
  BY <1>2, <1>3, <1>4, <1>5, <1>6

\* Between two calls Buddy's promises are kept.
LEMMA PromisesKept ==
  ASSUME Small, AtRest(Lists!Seen.mem, Lists!Seen.live)
  PROVE  /\ Lists!Allocator!Usable
         /\ Lists!Allocator!PagesHaveOneUse
         /\ Lists!Allocator!BitmapIsExact
         /\ Lists!Allocator!CountsAreExact
<1>1. PICK L, B : L = Free_lists /\ B = Lists!Seen.live
  OBVIOUS
<1>2. /\ L = ListsOf(Lists!Seen.mem)
      /\ \A k \in Orders : Lists!Allocator!Listed(k) = Elems(L[k])
      /\ Lists!Allocator!FreeBlocks = FreeOf(L)
      /\ \A b : Lists!Allocator!Pages(b) = Pages(b)
      /\ \A S : Lists!Allocator!Disjoint(S) = Disjoint(S)
  BY <1>1, ViewIs
<1>3. PICK m : m = Lists!Seen.mem
  OBVIOUS
<1>4. Booked(m, B, L)
  BY <1>1, <1>2, <1>3 DEF AtRest
<1>5. /\ OneUse(L, B)
      /\ m.bits = {0} \cup PagesOf(Singles(B))
      /\ m.free_pages = MapThenSumSet(LAMBDA b : Size(b.order), FreeOf(L))
      /\ m.allocated_pages = MapThenSumSet(LAMBDA b : Size(b.order), Singles(B))
  BY <1>4, BookedUse
<1>6. Lists!Orders = Orders /\ Lists!Allocator!Orders = Orders
  BY DEF Lists!Orders, Lists!Allocator!Orders, Orders
<1>7. {[page |-> p, order |-> 0] : p \in Lists!Seen.live} = Singles(B)
  BY <1>1 DEF Singles
<1>8. ~Lists!Allocator!Clobbered
  <2>1. /\ \A k \in Orders : \A b \in Singles(B) : Elems(L[k]) \cap Pages(b) = {}
        /\ \A k, l \in Orders : k # l => Elems(L[k]) \cap Elems(L[l]) = {}
    BY <1>5 DEF OneUse
  <2>2. ~(\E k \in Orders, b \in Singles(B) : Lists!Allocator!Listed(k) \cap Lists!Allocator!Pages(b) # {})
    BY <1>2, <2>1
  <2>3. ~(\E k, l \in Orders : k # l /\ Lists!Allocator!Listed(k) \cap Lists!Allocator!Listed(l) # {})
    BY <1>2, <2>1
  <2>4. \A k \in Orders : Lists!Allocator!Cardinality(Lists!Allocator!Listed(k)) = Len(L[k])
    <3>1. \A S : Lists!Allocator!Cardinality(S) = Cardinality(S)
      BY DEF Lists!Allocator!Cardinality, Cardinality
    <3> QED
      BY <1>2, <1>5, <3>1 DEF OneUse
  <2>5. \A k \in Orders :
          L[k] = [j \in Lists!Orders |-> Lists!Walk(Lists!Seen.mem, Lists!Seen.mem.head[j])][k]
    BY <1>1 DEF Free_lists
  <2> QED
    BY <1>6, <1>7, <2>2, <2>3, <2>4, <2>5 DEF Lists!Allocator!Clobbered
<1>9. Lists!Allocator!PagesHaveOneUse
  BY <1>2, <1>5, <1>7, <1>8 DEF Lists!Allocator!PagesHaveOneUse, OneUse
<1>10. Lists!Allocator!BitmapIsExact
  BY <1>2, <1>3, <1>5, <1>7, OneBitmapPage DEF Lists!Allocator!BitmapIsExact, PagesOf
<1>11. Lists!Allocator!CountsAreExact
  BY <1>2, <1>3, <1>5, <1>7, SameSum DEF Lists!Allocator!CountsAreExact
<1> QED
  BY <1>8, <1>9, <1>10, <1>11 DEF Lists!Allocator!Usable

LEMMA SeenIs == Lists!Seen = SeenBy(lists_mem, caller, pages_held)
BY DEF Lists!Seen, Lists!Quiet, SeenBy, Before

LEMMA BeforeIs ==
  ASSUME NEW mem, NEW B
  PROVE  Before(mem, B).mem = mem /\ Before(mem, B).live = B
BY DEF Before

LEMMA InvIsSound ==
  ASSUME Small, ListsInv
  PROVE  Lists!ListsAreSound
<1>1. /\ Typed(lists_mem, caller, pages_held) /\ joined \in BOOLEAN
      /\ lists_mem \in Memory /\ ~lists_mem.halted
  BY DEF ListsInv, Typed
<1>2. Lists!TypeOK
  <2>1. Lists!Orders = Orders /\ Pointer = Lists!Page \cup {NULL}
    BY DEF Lists!Orders, Orders, Pointer
  <2>2. /\ lists_mem.head \in [Orders -> Pointer] /\ lists_mem.next \in [Lists!Page -> Pointer]
        /\ lists_mem.prev \in [Lists!Page -> Pointer] /\ lists_mem.bits \subseteq Lists!Page
        /\ lists_mem.halted \in BOOLEAN
    BY <1>1, MemoryIs
  <2>3. /\ lists_mem.allocated_pages \in 0..ListPages /\ lists_mem.free_pages \in 0..ListPages
        /\ caller.k \in 0..(BUDDY_MAX_ORDER + 1) /\ caller.block \in Pointer /\ caller.link \in Pointer
        /\ pages_held \subseteq Lists!Page
    BY <1>1 DEF Typed
  <2> QED
    BY <1>1, <2>1, <2>2, <2>3 DEF Lists!TypeOK
<1>3. Lists!NoFault
  BY <1>1 DEF Lists!NoFault, Typed
<1>4. Lists!HandlerLeavesNoTrace
  <2> SUFFICES ASSUME caller.pc = "idle"
               PROVE  /\ Lists!Allocator!PagesHaveOneUse
                      /\ Lists!Allocator!BitmapIsExact
                      /\ Lists!Allocator!CountsAreExact
    BY DEF Lists!HandlerLeavesNoTrace, Lists!Quiet
  <2>1. CASE joined
    BY <2>1 DEF Lists!Allocator!PagesHaveOneUse, Lists!Allocator!BitmapIsExact,
                Lists!Allocator!CountsAreExact
  <2>2. CASE ~joined
    <3>1. Rests(lists_mem, caller, pages_held)
      BY <2>2, PhaseIs DEF ListsInv, Standing
    <3>2. AtRest(lists_mem, pages_held)
      BY <3>1 DEF Rests
    <3>3. Lists!Seen = Before(lists_mem, pages_held)
      BY SeenIs DEF SeenBy
    <3> QED
      BY <3>2, <3>3, BeforeIs, PromisesKept
  <2> QED
    BY <1>1, <2>1, <2>2
<1> QED
  BY <1>2, <1>3, <1>4 DEF Lists!ListsAreSound

-----------------------------------------------------------------------------
(***************************************************************************)
(* A call does what Buddy says.                                            *)
(***************************************************************************)
LEMMA SameMerging ==
  /\ Lists!Allocator!Orders = Orders
  /\ \A k : Lists!Allocator!Size(k) = Size(k)
  /\ \A p, q : Lists!Allocator!Smaller(p, q) = Smaller(p, q)
  /\ \A S : Lists!Allocator!Min(S) = Min(S)
<1>1. Lists!Allocator!Orders = Orders
  BY DEF Lists!Allocator!Orders, Orders
<1>2. \A k : Lists!Allocator!Size(k) = Size(k)
  BY DEF Lists!Allocator!Size, Size
<1>3. \A p, q : Lists!Allocator!Smaller(p, q) = Smaller(p, q)
  BY DEF Lists!Allocator!Smaller, Smaller
<1>4. \A S : Lists!Allocator!Min(S) = Min(S)
  BY DEF Lists!Allocator!Min, Min
<1> QED
  BY <1>1, <1>2, <1>3, <1>4

LEMMA SameWithout == \A s, p : Lists!Allocator!Without(s, p) = Without(s, p)
BY SameMerging DEF Lists!Allocator!Without, Without

LEMMA SameMergeFrom == \A b, k : Lists!Allocator!MergeFrom(b, k) = MergeFrom(b, k)
BY DEF Lists!Allocator!MergeFrom, MergeFrom, Lists!Allocator!Orders, Orders,
       Lists!Allocator!Smaller, Smaller, Lists!Allocator!Buddy, Buddy, Lists!Allocator!Size, Size

LEMMA LeastIs ==
  ASSUME NEW S, S \subseteq Int, NEW x \in S, \A y \in S : x <= y
  PROVE  Min(S) = x
<1>1. \A z \in S : (\A y \in S : z <= y) => z = x
  OBVIOUS
<1> QED
  BY <1>1 DEF Min

\* The first block, and where it was.
TakenFrom(b, B, x, C, L, from, e) ==
  /\ from \in Orders /\ L[from] # <<>>
  /\ Min({k \in Orders : k >= 0 /\ L[k] # <<>>}) = from
  /\ ListsOf(x) = Halved(L, 0, from)
  /\ x.bits = b.bits \cup {e}
  /\ Singles(C) = Singles(B) \cup {[page |-> e, order |-> 0]}
  /\ Pages([page |-> e, order |-> 0]) = {e}

LEMMA TakesIs ==
  ASSUME Small, NEW b, NEW B, AtRest(b, B), NEW x, NEW C, TakesPage(b, B, x, C),
         NEW L, L = ListsOf(b), NEW from, from = Lists!FirstList(b), NEW e, e = Head(L[from])
  PROVE  TakenFrom(b, B, x, C, L, from, e)
<1>1. /\ from \in Orders /\ L[from] # <<>> /\ e = Lists!NextPage(b) /\ e \in Lists!Page
      /\ Booked(b, B, L) /\ Tidy(b, L) /\ Shape(b, L) /\ b \in Memory
  BY FirstOf DEF TakesPage, Tidy
<1>2. C = B \cup {e} /\ Booked(x, C, Halved(L, 0, from))
  BY <1>1 DEF TakesPage
<1>3. ListsOf(x) = Halved(L, 0, from)
  BY <1>2, BookedAtRest
<1>4. {k \in Orders : k >= 0 /\ L[k] # <<>>} = {k \in Lists!Orders : b.head[k] # NULL}
  <2>1. \A k \in Orders : b.head[k] # NULL <=> L[k] # <<>>
    BY <1>1, HeadIs
  <2>2. Lists!Orders = Orders /\ \A k \in Orders : k >= 0
    BY DEF Lists!Orders, Orders
  <2> QED
    BY <2>1, <2>2
<1>5. Min({k \in Orders : k >= 0 /\ L[k] # <<>>}) = from
  BY <1>4, SameMin DEF Lists!FirstList
<1>6. x.bits = b.bits \cup {e}
  BY <1>1, <1>2 DEF Booked
<1>7. Singles(C) = Singles(B) \cup {[page |-> e, order |-> 0]}
  BY <1>2 DEF Singles
<1>8. Pages([page |-> e, order |-> 0]) = {e}
  <2>1. {e} \subseteq Lists!Page /\ e \in {e}
    BY <1>1
  <2> QED
    BY <2>1, SinglesAre
<1> QED
  BY <1>1, <1>3, <1>5, <1>6, <1>7, <1>8 DEF TakenFrom

LEMMA BuddyAllocates ==
  ASSUME Small, NEW s, s = Lists!Seen, NEW u, u = Lists!Seen', AtRest(s.mem, s.live),
         TakesPage(s.mem, s.live, u.mem, u.live), joined' = joined
  PROVE  Lists!Allocator!buddy_alloc_pages(0)
<1>1. PICK b, B, x, C : b = s.mem /\ B = s.live /\ x = u.mem /\ C = u.live
  OBVIOUS
<1>2. PICK L, from, e : L = ListsOf(b) /\ from = Lists!FirstList(b) /\ e = Head(L[from])
  OBVIOUS
<1>3. /\ from \in Orders /\ L[from] # <<>>
      /\ Min({k \in Orders : k >= 0 /\ L[k] # <<>>}) = from
      /\ ListsOf(x) = Halved(L, 0, from)
      /\ x.bits = b.bits \cup {e}
      /\ Singles(C) = Singles(B) \cup {[page |-> e, order |-> 0]}
      /\ Pages([page |-> e, order |-> 0]) = {e}
      /\ x.allocated_pages = b.allocated_pages + 1 /\ x.free_pages = b.free_pages - 1
  <2>1. AtRest(b, B) /\ TakesPage(b, B, x, C)
    BY <1>1
  <2>2. x.allocated_pages = b.allocated_pages + 1 /\ x.free_pages = b.free_pages - 1
    BY <2>1 DEF TakesPage
  <2>3. TakenFrom(b, B, x, C, L, from, e)
    BY <1>2, <2>1, TakesIs, Zenon
  <2> QED
    BY <2>2, <2>3 DEF TakenFrom
<1>4. Lists!Allocator!Usable
  BY PromisesKept
<1>5. Free_lists = L
  BY <1>1, <1>2, ViewIs
<1>6. Free_lists' = Halved(L, 0, from)
  <2>1. Lists!Orders = Orders
    BY DEF Lists!Orders, Orders
  <2>2. Free_lists' = [k \in Lists!Orders |-> Lists!Walk(x, x.head[k])]
    BY <1>1 DEF Free_lists
  <2> QED
    BY <1>3, <2>1, <2>2 DEF ListsOf
<1> DEFINE fits == {k \in Lists!Allocator!Orders : k >= 0 /\ Free_lists[k] # <<>>}
           first == Lists!Allocator!Min(fits)
           block == [page |-> Head(Free_lists[first]), order |-> 0]
<1>7. fits = {k \in Orders : k >= 0 /\ L[k] # <<>>} /\ fits # {} /\ first = from
  <2>1. fits = {k \in Orders : k >= 0 /\ L[k] # <<>>}
    BY <1>5, SameMerging
  <2>2. \A k \in Orders : k >= 0
    BY DEF Orders
  <2> QED
    BY <1>3, <2>1, <2>2, SameMerging
<1>8. block = [page |-> e, order |-> 0] /\ block.page = e
  BY <1>2, <1>5, <1>7
<1> HIDE DEF fits, first, block
<1>9. Free_lists' =
        [k \in Lists!Allocator!Orders |->
           IF k = first THEN Tail(Free_lists[k])
           ELSE IF k \in 0..(first - 1) THEN <<block.page + Lists!Allocator!Size(k)>> \o Free_lists[k]
           ELSE Free_lists[k]]
  BY <1>2, <1>5, <1>6, <1>7, <1>8, SameMerging DEF Halved
<1>10. Lists!Seen'.mem.bits = Lists!Seen.mem.bits \cup Lists!Allocator!Pages(block)
  BY <1>1, <1>3, <1>8, ViewIs
<1>11. /\ Lists!Seen'.mem.allocated_pages = Lists!Seen.mem.allocated_pages + Lists!Allocator!Size(0)
       /\ Lists!Seen'.mem.free_pages = Lists!Seen.mem.free_pages - Lists!Allocator!Size(0)
  BY <1>1, <1>3, Sizes1, SameMerging
<1>12. {[page |-> p, order |-> 0] : p \in Lists!Seen'.live}
         = {[page |-> p, order |-> 0] : p \in Lists!Seen.live} \cup {block}
  BY <1>1, <1>3, <1>8 DEF Singles
<1> QED
  BY <1>4, <1>7, <1>9, <1>10, <1>11, <1>12
     DEF Lists!Allocator!buddy_alloc_pages, Free_lists, fits, first, block

LEMMA WordsCover ==
  ASSUME NEW n, Fits(n)
  PROVE  \A q \in 0..(n - 1) : q \in 0..(Words(n) * 64 - 1)
BY DEF Words, Fits

\* A listed page is really free.
LEMMA ListedIsReallyFree ==
  ASSUME Small, NEW L, L = Free_lists, NEW q \in Lists!Page, q \in Elems(L[0]), NEW bits, q \notin bits
  PROVE  Lists!Allocator!buddy_block_really_free(q, 0, bits)
<1>1. 0 \in Orders /\ q \in Nat
  BY PageFacts, OrderFacts
<1>2. q \in Lists!Allocator!Listed(0)
  BY <1>1, ViewIs
<1>3. Lists!Allocator!Span(q, 0) = {q}
  <2>1. Pages([page |-> q, order |-> 0]) = {q}
    <3>1. {q} \subseteq Lists!Page /\ q \in {q}
      OBVIOUS
    <3> QED
      BY <3>1, SinglesAre
  <2> QED
    BY <2>1 DEF Pages, Span, Size, Lists!Allocator!Span, Lists!Allocator!Size
<1>4. Lists!Allocator!bitmap_size_words([base |-> 0, pages |-> ListPages]) = Words(ListPages)
  BY DEF Lists!Allocator!bitmap_size_words, Lists!Allocator!CeilDiv, Lists!Allocator!WORD_BITS, Words
<1>5. q \in 0..(Words(ListPages) * 64 - 1)
  <2>1. q \in 0..(ListPages - 1)
    BY DEF Lists!Page
  <2> QED
    BY <2>1, FewPages, WordsCover
<1> QED
  BY <1>2, <1>3, <1>4, <1>5 DEF Lists!Allocator!buddy_block_really_free, Lists!Allocator!WORD_BITS

\* Where the merging stops that starts with a page.
Stops(b, k, bits) ==
  k = BUDDY_MAX_ORDER \/ ~Lists!Allocator!buddy_block_really_free(Buddy(MergeFrom(b, k), k), k, bits)

LEMMA StopsAt ==
  ASSUME Small, NEW b \in Blocks, b.order = 0, NEW bits, NEW n \in {0, 1},
         Stops(b, n, bits), n = 1 => ~Stops(b, 0, bits)
  PROVE  Lists!Allocator!MergeStop(b, bits) = n
<1> DEFINE S == {k \in Orders : k >= 0 /\ Stops(b, k, bits)}
<1>1. Lists!Allocator!MergeStop(b, bits) = Min(S)
  <2>1. \A k : Lists!Allocator!Buddy(Lists!Allocator!MergeFrom(b, k), k) = Buddy(MergeFrom(b, k), k)
    BY SameMergeFrom, SameBuddy
  <2>2. {k \in Lists!Allocator!Orders :
           /\ k >= b.order
           /\ \/ k = BUDDY_MAX_ORDER
              \/ ~Lists!Allocator!buddy_block_really_free(
                    Lists!Allocator!Buddy(Lists!Allocator!MergeFrom(b, k), k), k, bits)} = S
    BY <2>1, SameMerging DEF Stops
  <2> QED
    BY <2>2, SameMerging DEF Lists!Allocator!MergeStop
<1>2. Orders \subseteq Nat /\ n \in Orders
  BY OrderFacts DEF Small
<1>3. S \subseteq Int /\ n \in S
  <2>1. n >= 0 /\ Stops(b, n, bits)
    OBVIOUS
  <2>2. n \in S
    BY <1>2, <2>1
  <2>3. Orders \subseteq Int
    BY <1>2
  <2> QED
    BY <2>2, <2>3
<1>4. \A k \in S : n <= k
  <2> SUFFICES ASSUME NEW k \in S PROVE n <= k
    OBVIOUS
  <2>1. k \in Nat
    BY <1>2
  <2>2. n = 1 => k # 0
    OBVIOUS
  <2> QED
    BY <2>1, <2>2
<1> HIDE DEF S
<1> QED
  BY <1>1, <1>3, <1>4, LeastIs

\* The first places of the merging.
LEMMA FirstPlaces ==
  ASSUME Small, NEW p \in Nat, NEW b, b = [page |-> p, order |-> 0]
  PROVE  /\ b \in Blocks /\ b.page = p /\ b.order = 0 /\ 0 \in Orders /\ 1 \in Orders
         /\ MergeFrom(b, 0) = p /\ MergeFrom(b, 1) = Smaller(p, Buddy(p, 0))
<1>1. 0 \in Orders /\ 1 \in Orders
  BY DEF Small, Orders
<1>2. b \in Blocks /\ b.page = p /\ b.order = 0
  BY <1>1 DEF Blocks
<1>3. MergeFrom(b, 0) = p
  BY <1>1, <1>2, MergeIs
<1>4. MergeFrom(b, 1) = Smaller(MergeFrom(b, 1 - 1), Buddy(MergeFrom(b, 1 - 1), 1 - 1))
  BY <1>1, <1>2, MergeIs
<1> QED
  BY <1>1, <1>2, <1>3, <1>4

\* What a page that is given back is merged with.
GivenTo(b, B, x, C, p, L, bits, top) ==
  /\ x.bits = bits /\ Singles(C) = Singles(B) \ {[page |-> p, order |-> 0]}
  /\ x.allocated_pages = b.allocated_pages - 1 /\ x.free_pages = b.free_pages + 1
  /\ ListsOf(x) = [k \in Orders |->
       IF k = top THEN <<MergeFrom([page |-> p, order |-> 0], k)>> \o L[k]
       ELSE IF k \in 0..(top - 1)
       THEN Without(L[k], Buddy(MergeFrom([page |-> p, order |-> 0], k), k))
       ELSE L[k]]
  /\ top = 0 \/ top = 1

LEMMA GivesIs ==
  ASSUME Small, NEW s, s = Lists!Seen, NEW b, NEW B, b = s.mem, B = s.live, AtRest(b, B),
         NEW x, NEW C, GivesPage(b, B, x, C)
  PROVE  \E p \in B :
           LET f == [page |-> p, order |-> 0]
               bits == b.bits \ {p}
           IN /\ GivenTo(b, B, x, C, p, ListsOf(b), bits, Lists!Allocator!MergeStop(f, bits))
              /\ Pages(f) = {p} /\ p \in b.bits /\ f \in Singles(B)
<1>1. PICK p, q, L :
        /\ p \in B /\ q = Buddy(p, 0) /\ L = ListsOf(b) /\ C = B \ {p}
        /\ x.allocated_pages = b.allocated_pages - 1 /\ x.free_pages = b.free_pages + 1
        /\ \/ q \notin Elems(L[0]) /\ Booked(x, C, Alone(L, p))
           \/ /\ q \in Elems(L[0]) /\ Booked(x, C, Together(L, p, q))
              /\ BUDDY_MAX_ORDER = 1 \/ Buddy(Smaller(p, q), 1) \notin Elems(L[1])
  BY DEF GivesPage
<1>2. /\ Booked(b, B, L) /\ Tidy(b, L) /\ Shape(b, L) /\ B \subseteq Lists!Page \ {0}
      /\ b.bits = {0} \cup B /\ PagesOf(FreeOf(L)) \subseteq Lists!Page \ ({0} \cup b.bits)
  BY <1>1 DEF AtRest, Booked, Tidy
<1>3. p \in Lists!Page /\ p \in Nat /\ p \in b.bits /\ p # 0
  BY <1>1, <1>2, PageFacts
<1> DEFINE f == [page |-> p, order |-> 0]
           bits == b.bits \ {p}
<1>4. /\ f \in Blocks /\ f.page = p /\ f.order = 0 /\ 0 \in Orders /\ 1 \in Orders
      /\ MergeFrom(f, 0) = p /\ MergeFrom(f, 1) = Smaller(p, q)
  BY <1>1, <1>3, FirstPlaces
<1>5. Pages(f) = {p} /\ f \in Singles(B)
  BY <1>1, <1>2, SinglesAre DEF Singles
<1>6. Singles(C) = Singles(B) \ {f}
  <2>1. \A r : [page |-> r, order |-> 0] = f => r = p
    <3>1. \A r : [page |-> r, order |-> 0].page = r
      OBVIOUS
    <3> QED
      BY <1>4, <3>1
  <2> QED
    BY <1>1, <2>1 DEF Singles
<1>7. x.bits = bits
  BY <1>1, <1>2, <1>3 DEF Booked
<1>8. L = Free_lists
  BY <1>1, ViewIs
<1>9. \A k \in Orders : Lists!Allocator!Listed(k) = Elems(L[k])
  BY <1>8, ViewIs
<1>10. L \in [Orders -> Seq(Lists!Page)]
  BY <1>2 DEF Shape
<1> DEFINE top == Lists!Allocator!MergeStop(f, bits)
<1>11. CASE q \notin Elems(L[0]) /\ Booked(x, C, Alone(L, p))
  <2>1. ~Lists!Allocator!buddy_block_really_free(q, 0, bits)
    BY <1>4, <1>9, <1>11 DEF Lists!Allocator!buddy_block_really_free
  <2>2. Stops(f, 0, bits)
    BY <1>1, <1>4, <2>1 DEF Stops
  <2>3. top = 0
    BY <1>4, <2>2, StopsAt
  <2> HIDE DEF f, bits, top
  <2>4. ListsOf(x) = Alone(L, p)
    BY <1>11, BookedAtRest
  <2>5. Alone(L, p) = [k \in Orders |->
          IF k = 0 THEN <<MergeFrom(f, k)>> \o L[k]
          ELSE IF k \in 0..(0 - 1) THEN Without(L[k], Buddy(MergeFrom(f, k), k)) ELSE L[k]]
    <3>1. 0..(0 - 1) = {}
      OBVIOUS
    <3> QED
      BY <1>4, <1>10, <3>1 DEF Alone
  <2>6. GivenTo(b, B, x, C, p, L, bits, top)
    BY <1>1, <1>6, <1>7, <2>3, <2>4, <2>5 DEF GivenTo, f
  <2> QED
    BY <1>1, <1>3, <1>5, <2>6 DEF f, bits, top
<1>12. CASE /\ q \in Elems(L[0]) /\ Booked(x, C, Together(L, p, q))
            /\ BUDDY_MAX_ORDER = 1 \/ Buddy(Smaller(p, q), 1) \notin Elems(L[1])
  <2>1. q \in PagesOf(FreeOf(L)) /\ q \in Lists!Page
    <3>1. /\ q \in Lists!Page /\ [page |-> q, order |-> 0] \in FreeOf(L)
          /\ [page |-> q, order |-> 0].page = q /\ FreeOf(L) \subseteq Blocks
      BY <1>2, <1>4, <1>12, ShapeFree
    <3>2. q \in Pages([page |-> q, order |-> 0])
      BY <3>1, BlockFacts
    <3> QED
      BY <3>1, <3>2 DEF PagesOf
  <2>2. q \notin bits
    BY <1>2, <2>1
  <2>3. Lists!Allocator!buddy_block_really_free(q, 0, bits)
    BY <1>8, <1>12, <2>1, <2>2, ListedIsReallyFree
  <2>4. ~Stops(f, 0, bits)
    <3>1. BUDDY_MAX_ORDER # 0
      BY DEF Small
    <3> QED
      BY <1>1, <1>4, <2>3, <3>1 DEF Stops
  <2>5. Stops(f, 1, bits)
    BY <1>4, <1>9, <1>12 DEF Stops, Lists!Allocator!buddy_block_really_free
  <2>6. top = 1
    BY <1>4, <2>4, <2>5, StopsAt
  <2> HIDE DEF f, bits, top
  <2>7. ListsOf(x) = Together(L, p, q)
    BY <1>12, BookedAtRest
  <2>8. Together(L, p, q) = [k \in Orders |->
          IF k = 1 THEN <<MergeFrom(f, k)>> \o L[k]
          ELSE IF k \in 0..(1 - 1) THEN Without(L[k], Buddy(MergeFrom(f, k), k)) ELSE L[k]]
    <3>1. \A k \in Orders : k \in 0..(1 - 1) <=> k = 0
      BY DEF Orders
    <3>2. Buddy(MergeFrom(f, 0), 0) = q
      BY <1>1, <1>4
    <3> QED
      BY <1>4, <1>10, <3>1, <3>2 DEF Together
  <2>9. GivenTo(b, B, x, C, p, L, bits, top)
    BY <1>1, <1>6, <1>7, <2>6, <2>7, <2>8 DEF GivenTo, f
  <2> QED
    BY <1>1, <1>3, <1>5, <2>9 DEF f, bits, top
<1> QED
  BY <1>1, <1>11, <1>12

LEMMA BuddyFrees ==
  ASSUME Small, NEW s, s = Lists!Seen, NEW u, u = Lists!Seen', AtRest(s.mem, s.live),
         GivesPage(s.mem, s.live, u.mem, u.live), joined \in BOOLEAN, joined' = joined
  PROVE  \E p \in s.live : Lists!Allocator!buddy_free_pages([page |-> p, order |-> 0])
<1>1. PICK b, B, x, C : b = s.mem /\ B = s.live /\ x = u.mem /\ C = u.live
  OBVIOUS
<1>2. PICK p \in B :
        LET f == [page |-> p, order |-> 0]
            bits == b.bits \ {p}
        IN /\ GivenTo(b, B, x, C, p, ListsOf(b), bits, Lists!Allocator!MergeStop(f, bits))
           /\ Pages(f) = {p} /\ p \in b.bits /\ f \in Singles(B)
  BY <1>1, GivesIs
<1> DEFINE f == [page |-> p, order |-> 0]
           bits == b.bits \ {p}
           top == Lists!Allocator!MergeStop(f, bits)
<1>3. PICK L : L = ListsOf(b)
  OBVIOUS
<1>4. /\ x.bits = bits /\ Singles(C) = Singles(B) \ {f}
      /\ x.allocated_pages = b.allocated_pages - 1 /\ x.free_pages = b.free_pages + 1
      /\ ListsOf(x) = [k \in Orders |->
           IF k = top THEN <<MergeFrom(f, k)>> \o L[k]
           ELSE IF k \in 0..(top - 1) THEN Without(L[k], Buddy(MergeFrom(f, k), k)) ELSE L[k]]
      /\ top = 0 \/ top = 1
      /\ Pages(f) = {p} /\ p \in b.bits /\ f \in Singles(B)
  BY <1>2, <1>3 DEF GivenTo
<1>5. f.order = 0
  OBVIOUS
<1> HIDE DEF f, bits, top
<1>6. Lists!Allocator!Usable
  BY PromisesKept
<1>7. Free_lists = L
  BY <1>1, <1>3, ViewIs
<1>8. Free_lists' = ListsOf(x)
  <2>1. Lists!Orders = Orders
    BY DEF Lists!Orders, Orders
  <2>2. Free_lists' = [k \in Lists!Orders |-> Lists!Walk(x, x.head[k])]
    BY <1>1 DEF Free_lists
  <2> QED
    BY <2>1, <2>2 DEF ListsOf
<1>9. Lists!Seen.mem.bits \ Lists!Allocator!Pages(f) = bits
  BY <1>1, <1>4, ViewIs DEF bits
<1>10. Lists!Allocator!Pages(f) \subseteq Lists!Seen.mem.bits
  BY <1>1, <1>4, ViewIs
<1>11. Free_lists' =
         [k \in Lists!Allocator!Orders |->
            IF k = top THEN <<Lists!Allocator!MergeFrom(f, k)>> \o Free_lists[k]
            ELSE IF k \in f.order..(top - 1)
            THEN Lists!Allocator!Without(Free_lists[k],
                                         Lists!Allocator!Buddy(Lists!Allocator!MergeFrom(f, k), k))
            ELSE Free_lists[k]]
  BY <1>4, <1>5, <1>7, <1>8, SameMerging, SameWithout, SameMergeFrom, SameBuddy
<1>12. /\ Lists!Seen'.mem.allocated_pages = Lists!Seen.mem.allocated_pages - Lists!Allocator!Size(f.order)
       /\ Lists!Seen'.mem.free_pages = Lists!Seen.mem.free_pages + Lists!Allocator!Size(f.order)
  BY <1>1, <1>4, <1>5, Sizes1, SameMerging
<1>13. joined' = (joined \/ \E k \in f.order..(top - 1) : k > 0)
  <2>1. ~\E k \in f.order..(top - 1) : k > 0
    BY <1>4, <1>5
  <2> QED
    BY <2>1
<1>14. Lists!Seen'.mem.bits = bits
  BY <1>1, <1>4
<1>15. Lists!Allocator!FreeBlock(f)
  BY <1>6, <1>9, <1>10, <1>11, <1>12, <1>13, <1>14
     DEF Lists!Allocator!FreeBlock, Free_lists, top
<1>16. /\ {[page |-> r, order |-> 0] : r \in Lists!Seen'.live}
            = {[page |-> r, order |-> 0] : r \in Lists!Seen.live} \ {f}
       /\ f \in {[page |-> r, order |-> 0] : r \in Lists!Seen.live}
  BY <1>1, <1>4 DEF Singles
<1>17. Lists!Allocator!buddy_free_pages(f)
  BY <1>15, <1>16 DEF Lists!Allocator!buddy_free_pages
<1> QED
  BY <1>1, <1>17 DEF f

\* Nothing to see.
LEMMA BuddyStands ==
  ASSUME Lists!Seen' = Lists!Seen, joined' = joined
  PROVE  UNCHANGED Lists!Allocator!vars
<1>1. Free_lists' = Free_lists
  BY DEF Free_lists
<1> QED
  BY <1>1 DEF Lists!Allocator!vars, Free_lists

LEMMA MovingIsBuddy ==
  ASSUME Small, Moving, joined \in BOOLEAN, joined' = joined
  PROVE  Lists!Allocator!Next \/ UNCHANGED Lists!Allocator!vars
<1>1. PICK s, u : s = Lists!Seen /\ u = Lists!Seen'
  OBVIOUS
<1>2. s = SeenBy(lists_mem, caller, pages_held) /\ u = SeenBy(lists_mem', caller', pages_held')
  BY <1>1, SeenIs DEF Lists!Seen, Lists!Quiet, SeenBy, Before
<1>3. u = s \/ Follows(s, u)
  BY <1>2 DEF Moving, Moves
<1>4. CASE u = s
  BY <1>1, <1>4, BuddyStands
<1>5. CASE Follows(s, u)
  <2>1. AtRest(s.mem, s.live)
    BY <1>5 DEF Follows
  <2>2. CASE TakesPage(s.mem, s.live, u.mem, u.live)
    <3>1. Lists!Allocator!buddy_alloc_pages(0)
      BY <1>1, <2>1, <2>2, BuddyAllocates
    <3> QED
      BY <3>1 DEF Lists!Allocator!Next
  <2>3. CASE GivesPage(s.mem, s.live, u.mem, u.live)
    <3>1. PICK p \in s.live : Lists!Allocator!buddy_free_pages([page |-> p, order |-> 0])
      BY <1>1, <2>1, <2>3, BuddyFrees
    <3>2. [page |-> p, order |-> 0] \in {[page |-> r, order |-> 0] : r \in Lists!Seen.live}
      BY <1>1, <3>1
    <3> QED
      BY <3>1, <3>2 DEF Lists!Allocator!Next
  <2> QED
    BY <1>5, <2>2, <2>3 DEF Follows
<1> QED
  BY <1>3, <1>4, <1>5

LEMMA StepIsBuddy ==
  ASSUME Small, ListsInv, Lists!Next
  PROVE  Lists!BuddyStep
<1>1. CASE Lists!KeyboardInterrupt
  BY <1>1 DEF Lists!BuddyStep
<1>2. CASE Lists!Caller
  <2>1. CASE joined'
    BY <2>1 DEF Lists!BuddyStep
  <2>2. CASE ~joined'
    <3>1. Moving /\ joined' \in BOOLEAN
      BY <1>2, <2>2, CallerKeeps DEF ListsInv
    <3>2. joined = FALSE
      BY <1>2 DEF ListsInv, Lists!Caller, Lists!alloc_page, Lists!Scan, Lists!Take, Lists!Remove,
         Lists!RemoveStep, Lists!Split, Lists!LinkBlock, Lists!LinkStep, Lists!MarkAllocated,
         Lists!Return, Lists!free_page, Lists!Uncount, Lists!Merge, Lists!Find, Lists!Join, Lists!Runs
    <3>3. joined' = joined /\ joined \in BOOLEAN
      BY <2>2, <3>1, <3>2
    <3> QED
      BY <3>1, <3>3, MovingIsBuddy DEF Lists!BuddyStep
  <2> QED
    BY <2>1, <2>2
<1> QED
  BY <1>1, <1>2 DEF Lists!Next

-----------------------------------------------------------------------------
(***************************************************************************)
(* The lists that buddy_allocator_init() leaves.                           *)
(***************************************************************************)
LEMMA RemainderIs ==
  ASSUME NEW z \in Nat \ {0}, NEW x \in Int
  PROVE  /\ x % z \in 0..(z - 1) /\ x \div z \in Int
         /\ x = z * (x \div z) + (x % z)
<1>1. x % z \in 0..(z - 1) /\ x \div z \in Int
  BY Z3
<1>2. x = z * (x \div z) + (x % z)
  BY Z3
<1> QED
  BY <1>1, <1>2

LEMMA TimesMore ==
  ASSUME NEW z \in Nat \ {0}, NEW j \in Int
  PROVE  z * (j + 1) = z * j + z /\ z * 0 = 0 /\ z * j \in Int
OBVIOUS

\* A multiple of z is a multiple of z.
LEMMA MultipleIs ==
  ASSUME NEW z \in Nat \ {0}, NEW j \in Int
  PROVE  (z * j) % z = 0
<1>1. PICK x, q, r : x = z * j /\ q = x \div z /\ r = x % z
  OBVIOUS
<1>2. x \in Int
  BY <1>1, TimesMore
<1>3. r \in 0..(z - 1) /\ q \in Int /\ x = z * q + r
  BY <1>1, <1>2, RemainderIs
<1>4. z * q \in Int
  BY <1>3, TimesMore
<1>5. ~(j < q)
  <2>1. j < q => z * j + z <= z * q
    BY <1>3, TimesIs
  <2> QED
    BY <1>1, <1>2, <1>3, <1>4, <2>1
<1>6. ~(q < j)
  <2>1. q < j => z * q + z <= z * j
    BY <1>3, TimesIs
  <2> QED
    BY <1>1, <1>2, <1>3, <1>4, <2>1
<1>7. q = j
  BY <1>3, <1>5, <1>6
<1>8. x = x + r
  BY <1>1, <1>3, <1>7
<1>9. r = 0
  BY <1>2, <1>3, <1>8
<1> QED
  BY <1>1, <1>9

\* The region is n blocks of the largest size z, which begin at f[0], f[1] and so on.
Tiled(z, n, f) ==
  /\ n \in Nat /\ n >= 2
  /\ f \in [0..n -> Nat] /\ f[0] = 0 /\ f[n] = ListPages
  /\ \A j \in 0..(n - 1) : f[j + 1] = f[j] + z
  /\ \A j, k \in 0..n : j < k => f[j] + z <= f[k]
  /\ \A p \in 0..(ListPages - 1) : \E j \in 0..(n - 1) : f[j] <= p /\ p < f[j] + z
  /\ \A p : p \in Lists!Largest <=> \E j \in 1..(n - 1) : p = f[j]

LEMMA RegionIsTiled ==
  ASSUME Small
  PROVE  \E n, f : Tiled(Size(BUDDY_MAX_ORDER), n, f)
<1>1. PICK z, s : z = Size(BUDDY_MAX_ORDER) /\ s = ListPages
  OBVIOUS
<1>2. z \in Nat \ {0} /\ s \in Nat /\ z < s /\ s % z = 0
  BY <1>1, OrderFacts, PageFacts
<1>3. PICK n : n = s \div z
  OBVIOUS
<1>4. n \in Int /\ s = z * n
  <2>1. n \in Int /\ s = z * n + (s % z)
    BY <1>2, <1>3, RemainderIs
  <2>2. z * n \in Int
    BY <1>2, <2>1, TimesMore
  <2> QED
    BY <1>2, <2>1, <2>2
<1>5. n \in Nat /\ n >= 2
  <2>1. n <= 1 => z * n <= z * 1
    BY <1>2, <1>4, TimesIs
  <2>2. z * 1 = z
    BY <1>2
  <2> QED
    BY <1>2, <1>4, <2>1, <2>2
<1> DEFINE f == [j \in 0..n |-> z * j]
<1>6. \A j \in Int : z * j \in Int /\ z * (j + 1) = z * j + z /\ z * 0 = 0 /\ (j \in Nat => z * j \in Nat)
  BY <1>2, TimesMore, TimesIs
<1>7. \A j \in 0..n : f[j] = z * j /\ j \in Nat
  OBVIOUS
<1>8. f \in [0..n -> Nat]
  BY <1>6, <1>7
<1>9. f[0] = 0 /\ f[n] = s
  BY <1>4, <1>5, <1>6, <1>7
<1>10. \A j \in 0..(n - 1) : f[j + 1] = f[j] + z /\ j \in 0..n /\ j + 1 \in 0..n
  <2>1. \A j \in 0..(n - 1) : j \in 0..n /\ j + 1 \in 0..n /\ j \in Int
    BY <1>5
  <2> QED
    BY <1>6, <1>7, <2>1
<1>11. \A j, k \in Int : j < k => z * j + z <= z * k
  BY <1>2, TimesIs
<1>12. \A j, k \in 0..n : j < k => f[j] + z <= f[k]
  BY <1>7, <1>11
<1>13. \A p \in 0..(s - 1) : \E j \in 0..(n - 1) : f[j] <= p /\ p < f[j] + z
  <2> SUFFICES ASSUME NEW p \in 0..(s - 1)
               PROVE  \E j \in 0..(n - 1) : f[j] <= p /\ p < f[j] + z
    OBVIOUS
  <2>1. PICK q, r : q = p \div z /\ r = p % z
    OBVIOUS
  <2>2. p \in Int /\ 0 <= p /\ p < s
    BY <1>2
  <2>3. r \in 0..(z - 1) /\ q \in Int /\ p = z * q + r
    BY <1>2, <2>1, <2>2, RemainderIs
  <2>4. z * q \in Int
    BY <1>6, <2>3
  <2>5. ~(n <= q)
    <3>1. n <= q => z * n <= z * q
      BY <1>2, <1>4, <2>3, TimesIs
    <3> QED
      BY <1>2, <1>4, <2>2, <2>3, <2>4, <3>1
  <2>6. ~(q < 0)
    <3>1. q < 0 => z * q + z <= z * 0
      BY <1>11, <2>3
    <3> QED
      BY <1>2, <1>6, <2>2, <2>3, <2>4, <3>1
  <2>7. q \in 0..(n - 1) /\ q \in 0..n
    BY <1>5, <2>3, <2>5, <2>6
  <2>8. f[q] = z * q
    BY <1>7, <2>7
  <2>9. f[q] <= p /\ p < f[q] + z
    BY <1>2, <2>3, <2>4, <2>8
  <2> QED
    BY <2>7, <2>9
<1>14. \A p : p \in Lists!Largest <=> \E j \in 1..(n - 1) : p = f[j]
  <2>1. \A p : p \in Lists!Largest <=> p \in 1..(s - 1) /\ p % z = 0
    BY <1>1 DEF Lists!Largest, Size
  <2>2. ASSUME NEW p \in 1..(s - 1), p % z = 0
        PROVE  \E j \in 1..(n - 1) : p = f[j]
    <3>1. PICK q : q = p \div z
      OBVIOUS
    <3>2. p \in Int /\ 1 <= p /\ p < s
      BY <1>2
    <3>3. q \in Int /\ p = z * q + (p % z)
      BY <1>2, <3>1, <3>2, RemainderIs
    <3>4. z * q \in Int /\ p = z * q
      BY <1>6, <2>2, <3>3
    <3>5. n <= q => z * n <= z * q
      BY <1>2, <1>4, <3>3, TimesIs
    <3>6. q <= 0 => z * q <= z * 0
      BY <1>2, <3>3, TimesIs
    <3>7. q \in 1..(n - 1) /\ q \in 0..n
      BY <1>2, <1>4, <1>5, <1>6, <3>2, <3>3, <3>4, <3>5, <3>6
    <3> QED
      BY <1>7, <3>4, <3>7
  <2>3. ASSUME NEW j \in 1..(n - 1)
        PROVE  f[j] \in 1..(s - 1) /\ f[j] % z = 0
    <3>1. j \in 0..n /\ 0 \in 0..n /\ n \in 0..n /\ 0 < j /\ j < n /\ j \in Int
      BY <1>5
    <3>2. f[j] % z = 0
      BY <1>2, <1>7, <3>1, MultipleIs
    <3>3. f[0] + z <= f[j] /\ f[j] + z <= f[n] /\ f[j] \in Nat
      BY <1>8, <1>12, <3>1
    <3>4. f[j] \in 1..(s - 1)
      BY <1>2, <1>9, <3>3
    <3> QED
      BY <3>2, <3>4
  <2> QED
    BY <2>1, <2>2, <2>3
<1> HIDE DEF f
<1>15. Tiled(z, n, f)
  BY <1>1, <1>5, <1>8, <1>9, <1>10, <1>12, <1>13, <1>14 DEF Tiled
<1> QED
  BY <1>1, <1>15

\* They list every block but the first, which has the bits; the last one comes first.
Reversed(n, f) == [i \in 1..(n - 1) |-> f[n - i]]
InitLists(n, f) == [k \in Orders |-> IF k = BUDDY_MAX_ORDER THEN Reversed(n, f) ELSE <<>>]

LEMMA ReversedIs ==
  ASSUME Small, NEW z, z = Size(BUDDY_MAX_ORDER), NEW n, NEW f, Tiled(z, n, f),
         NEW s, s = Reversed(n, f)
  PROVE  /\ s \in Seq(Lists!Page) /\ Len(s) = n - 1 /\ s # <<>> /\ DOMAIN s = 1..(n - 1)
         /\ \A i \in 1..(n - 1) : s[i] = f[n - i] /\ n - i \in 1..(n - 1) /\ s[i] \in Lists!Largest
         /\ Elems(s) = Lists!Largest /\ Lists!Largest \subseteq Lists!Page
         /\ OneEach(s)
<1>1. /\ n \in Nat /\ n >= 2 /\ f \in [0..n -> Nat] /\ f[0] = 0 /\ f[n] = ListPages
      /\ \A j, k \in 0..n : j < k => f[j] + z <= f[k]
      /\ \A p : p \in Lists!Largest <=> \E j \in 1..(n - 1) : p = f[j]
  BY DEF Tiled
<1>2. z \in Nat \ {0}
  BY OrderFacts
<1>3. Lists!Largest \subseteq Lists!Page
  BY PageFacts DEF Lists!Largest, Lists!Page
<1>4. \A i \in 1..(n - 1) : n - i \in 1..(n - 1) /\ n - i \in 0..n /\ n - (n - i) = i
  BY <1>1
<1>5. \A i \in 1..(n - 1) : s[i] = f[n - i] /\ s[i] \in Lists!Largest
  BY <1>1, <1>4 DEF Reversed
<1>6. s \in [1..(n - 1) -> Lists!Page] /\ n - 1 \in Nat
  <2>1. \A i \in 1..(n - 1) : s[i] \in Lists!Page
    BY <1>3, <1>5
  <2> QED
    BY <1>1, <2>1 DEF Reversed
<1>7. s \in Seq(Lists!Page) /\ Len(s) = n - 1 /\ DOMAIN s = 1..(n - 1)
  BY <1>6
<1>8. s # <<>>
  BY <1>1, <1>7
<1>9. Elems(s) = Lists!Largest
  <2>1. \A p \in Elems(s) : p \in Lists!Largest
    BY <1>5, <1>7 DEF Elems
  <2>2. ASSUME NEW p \in Lists!Largest PROVE p \in Elems(s)
    <3>1. PICK j \in 1..(n - 1) : p = f[j]
      BY <1>1
    <3>2. PICK i : i = n - j
      OBVIOUS
    <3>3. i \in 1..(n - 1) /\ n - i = j
      BY <1>4, <3>2
    <3>4. s[i] = p
      BY <1>5, <3>1, <3>3
    <3> QED
      BY <1>7, <3>3, <3>4 DEF Elems
  <2> QED
    BY <2>1, <2>2
<1>10. OneEach(s)
  <2> SUFFICES ASSUME NEW i \in 1..(n - 1), NEW j \in 1..(n - 1), s[i] = s[j]
               PROVE  i = j
    BY <1>7 DEF OneEach
  <2>1. PICK a, b : a = n - i /\ b = n - j
    OBVIOUS
  <2>2. a \in 0..n /\ b \in 0..n /\ f[a] = f[b] /\ f[a] \in Nat
    <3>1. a \in 0..n /\ b \in 0..n
      BY <1>4, <2>1
    <3>2. s[i] = f[a] /\ s[j] = f[b]
      BY <1>5, <2>1
    <3> QED
      BY <1>1, <3>1, <3>2
  <2>3. ~(a < b) /\ ~(b < a)
    BY <1>1, <1>2, <2>2
  <2>4. a = b
    BY <2>2, <2>3
  <2> QED
    BY <1>1, <2>1, <2>4
<1> QED
  BY <1>3, <1>4, <1>5, <1>7, <1>8, <1>9, <1>10

\* The first and the last of the blocks.
LEMMA LargestEnds ==
  ASSUME Small, NEW z, z = Size(BUDDY_MAX_ORDER), NEW n, NEW f, Tiled(z, n, f)
  PROVE  /\ Lists!Max(Lists!Largest) = f[n - 1] /\ Lists!Min(Lists!Largest) = f[1] /\ Lists!Largest # {}
         /\ \A j \in 1..(n - 1) : /\ f[j] = f[1] <=> j = 1
                                  /\ f[j] = f[n - 1] <=> j = n - 1
                                  /\ f[j] - z = f[j - 1] /\ f[j] + z = f[j + 1]
<1>1. /\ n \in Nat /\ n >= 2 /\ f \in [0..n -> Nat]
      /\ \A j \in 0..(n - 1) : f[j + 1] = f[j] + z
      /\ \A j, k \in 0..n : j < k => f[j] + z <= f[k]
      /\ \A p : p \in Lists!Largest <=> \E j \in 1..(n - 1) : p = f[j]
  BY DEF Tiled
<1>2. z \in Nat \ {0}
  BY OrderFacts
<1>3. 1 \in 1..(n - 1) /\ n - 1 \in 1..(n - 1) /\ 1..(n - 1) \subseteq 0..n
  BY <1>1
<1>4. \A j \in 1..(n - 1) : f[j] \in Nat
  BY <1>1, <1>3
<1>5. \A j, k \in 1..(n - 1) : j < k => f[j] < f[k]
  <2> SUFFICES ASSUME NEW j \in 1..(n - 1), NEW k \in 1..(n - 1), j < k
               PROVE  f[j] < f[k]
    OBVIOUS
  <2>1. f[j] + z <= f[k] /\ f[j] \in Nat /\ f[k] \in Nat
    BY <1>1, <1>3, <1>4
  <2> QED
    BY <1>2, <2>1
<1>6. \A j, k \in 1..(n - 1) : f[j] = f[k] => j = k
  <2> SUFFICES ASSUME NEW j \in 1..(n - 1), NEW k \in 1..(n - 1), f[j] = f[k]
               PROVE  j = k
    OBVIOUS
  <2>1. ~(j < k) /\ ~(k < j)
    BY <1>4, <1>5
  <2> QED
    BY <1>1, <2>1
<1>7. \A j \in 1..(n - 1) : f[1] <= f[j] /\ f[j] <= f[n - 1]
  <2> SUFFICES ASSUME NEW j \in 1..(n - 1) PROVE f[1] <= f[j] /\ f[j] <= f[n - 1]
    OBVIOUS
  <2>1. (j = 1 \/ 1 < j) /\ (j = n - 1 \/ j < n - 1)
    BY <1>1
  <2> QED
    BY <1>3, <1>4, <1>5, <2>1
<1>8. /\ f[1] \in Lists!Largest /\ \A p \in Lists!Largest : f[1] <= p /\ p \in Int
      /\ f[n - 1] \in Lists!Largest /\ \A p \in Lists!Largest : p <= f[n - 1]
  BY <1>1, <1>3, <1>4, <1>7
<1>9. Lists!Min(Lists!Largest) = f[1]
  BY <1>8, LeastIs, SameMin
<1>10. Lists!Max(Lists!Largest) = f[n - 1]
  <2>1. \A p \in Lists!Largest : (\A r \in Lists!Largest : p >= r) => p = f[n - 1]
    BY <1>8
  <2>2. \A r \in Lists!Largest : f[n - 1] >= r
    BY <1>8
  <2> QED
    BY <1>8, <2>1, <2>2 DEF Lists!Max
<1>11. ASSUME NEW j \in 1..(n - 1) PROVE f[j] - z = f[j - 1] /\ f[j] + z = f[j + 1]
  <2>1. j - 1 \in 0..(n - 1) /\ j \in 0..(n - 1) /\ j - 1 + 1 = j /\ j - 1 \in 0..n
    BY <1>1
  <2>2. f[j - 1 + 1] = f[j - 1] + z /\ f[j + 1] = f[j] + z /\ f[j - 1] \in Nat
    BY <1>1, <2>1
  <2>3. f[j] = f[j - 1] + z
    BY <2>1, <2>2
  <2> QED
    BY <1>2, <2>2, <2>3
<1>12. \A j \in 1..(n - 1) : (f[j] = f[1] <=> j = 1) /\ (f[j] = f[n - 1] <=> j = n - 1)
  BY <1>3, <1>6
<1> QED
  BY <1>8, <1>9, <1>10, <1>11, <1>12

LEMMA InitShape ==
  ASSUME Small, Lists!Init, NEW z, z = Size(BUDDY_MAX_ORDER), NEW n, NEW f, Tiled(z, n, f)
  PROVE  /\ lists_mem \in Memory /\ ~lists_mem.halted /\ lists_mem.bits = {0}
         /\ lists_mem.free_pages = ListPages - z /\ lists_mem.allocated_pages = 0
         /\ Shape(lists_mem, InitLists(n, f))
<1>1. PICK s, L, G : s = Reversed(n, f) /\ L = InitLists(n, f) /\ G = Lists!Largest
  OBVIOUS
<1>2. /\ s \in Seq(Lists!Page) /\ Len(s) = n - 1 /\ s # <<>> /\ DOMAIN s = 1..(n - 1)
      /\ \A i \in 1..(n - 1) : s[i] = f[n - i] /\ n - i \in 1..(n - 1) /\ s[i] \in G
      /\ Elems(s) = G /\ G \subseteq Lists!Page
      /\ OneEach(s)
  BY <1>1, ReversedIs
<1>3. /\ Lists!Max(G) = f[n - 1] /\ Lists!Min(G) = f[1] /\ G # {}
      /\ \A j \in 1..(n - 1) : /\ f[j] = f[1] <=> j = 1
                               /\ f[j] = f[n - 1] <=> j = n - 1
                               /\ f[j] - z = f[j - 1] /\ f[j] + z = f[j + 1]
  BY <1>1, LargestEnds
<1>4. n \in Nat /\ n >= 2
  BY DEF Tiled
<1>5. z \in Nat \ {0} /\ 2^BUDDY_MAX_ORDER = z
  BY OrderFacts DEF Size
<1>6. Lists!Orders = Orders /\ BUDDY_MAX_ORDER \in Orders /\ Lists!Page = 0..(ListPages - 1)
  BY OrderFacts, PageFacts DEF Lists!Orders, Orders
<1> DEFINE head == [k \in Orders |-> IF k = BUDDY_MAX_ORDER THEN f[n - 1] ELSE NULL]
           next == [p \in Lists!Page |-> IF p \in G /\ p # f[1] THEN p - z ELSE NULL]
           prev == [p \in Lists!Page |-> IF p \in G /\ p # f[n - 1] THEN p + z ELSE NULL]
<1>7. lists_mem = [head |-> head, next |-> next, prev |-> prev, bits |-> {0},
                   free_pages |-> ListPages - z, allocated_pages |-> 0, halted |-> FALSE]
  BY <1>1, <1>3, <1>5, <1>6 DEF Lists!Init
<1>8. \A j \in 1..(n - 1) : f[j] \in G
  BY <1>1 DEF Tiled
<1>9. G \subseteq {f[j] : j \in 1..(n - 1)}
  BY <1>1 DEF Tiled
<1>10. head \in [Orders -> Pointer]
  <2>1. f[n - 1] \in Pointer /\ NULL \in Pointer
    <3>1. n - 1 \in 1..(n - 1)
      BY <1>4
    <3> QED
      BY <1>2, <1>8, <3>1, NullPointer
  <2> QED
    BY <2>1
<1>11. next \in [Lists!Page -> Pointer]
  <2> SUFFICES ASSUME NEW p \in G, p # f[1] PROVE p - z \in Pointer
    BY NullPointer
  <2>1. PICK j \in 1..(n - 1) : p = f[j]
    BY <1>9
  <2>2. j - 1 \in 1..(n - 1)
    BY <1>3, <1>4, <2>1
  <2> QED
    BY <1>2, <1>3, <1>8, <2>1, <2>2, NullPointer
<1>12. prev \in [Lists!Page -> Pointer]
  <2> SUFFICES ASSUME NEW p \in G, p # f[n - 1] PROVE p + z \in Pointer
    BY NullPointer
  <2>1. PICK j \in 1..(n - 1) : p = f[j]
    BY <1>9
  <2>2. j + 1 \in 1..(n - 1)
    BY <1>3, <1>4, <2>1
  <2> QED
    BY <1>2, <1>3, <1>8, <2>1, <2>2, NullPointer
<1> HIDE DEF head, next, prev
<1>13. /\ lists_mem.head = head /\ lists_mem.next = next /\ lists_mem.prev = prev
       /\ lists_mem.bits = {0} /\ ~lists_mem.halted
       /\ lists_mem.free_pages = ListPages - z /\ lists_mem.allocated_pages = 0
  BY <1>7
<1>14. lists_mem \in Memory
  <2>1. ListPages - z \in Int /\ 0 \in Lists!Page
    BY <1>5, PageFacts
  <2> QED
    BY <1>7, <1>10, <1>11, <1>12, <2>1 DEF Memory
<1>15. \A k \in Orders : L[k] = IF k = BUDDY_MAX_ORDER THEN s ELSE <<>>
  BY <1>1 DEF InitLists
<1>16. L \in [Orders -> Seq(Lists!Page)]
  <2>1. <<>> \in Seq(Lists!Page)
    OBVIOUS
  <2> QED
    BY <1>1, <1>2, <2>1 DEF InitLists
<1>17. Apart(L)
  <2>1. OneEach(<<>>) /\ Elems(<<>>) = {}
    BY DEF OneEach, Elems
  <2> QED
    BY <1>2, <1>15, <2>1 DEF Apart
<1>18. Chain(lists_mem, BUDDY_MAX_ORDER, s)
  <2>1. lists_mem.head[BUDDY_MAX_ORDER] = s[1]
    <3>1. 1 \in 1..(n - 1)
      BY <1>4
    <3> QED
      BY <1>2, <1>6, <1>13, <3>1 DEF head
  <2>2. ASSUME NEW i \in 1..(n - 1)
        PROVE  lists_mem.next[s[i]] = IF i = n - 1 THEN NULL ELSE s[i + 1]
    <3>1. PICK j \in 1..(n - 1) : j = n - i /\ s[i] = f[j] /\ s[i] \in G /\ s[i] \in Lists!Page
      BY <1>2
    <3>2. lists_mem.next[s[i]] = IF j = 1 THEN NULL ELSE f[j - 1]
      BY <1>3, <1>13, <3>1 DEF next
    <3>3. (j = 1 <=> i = n - 1) /\ (i # n - 1 => i + 1 \in 1..(n - 1) /\ n - (i + 1) = j - 1)
      BY <1>4, <3>1
    <3> QED
      BY <1>2, <3>2, <3>3
  <2>3. ASSUME NEW i \in 1..(n - 1)
        PROVE  lists_mem.prev[s[i]] = IF i = 1 THEN NULL ELSE s[i - 1]
    <3>1. PICK j \in 1..(n - 1) : j = n - i /\ s[i] = f[j] /\ s[i] \in G /\ s[i] \in Lists!Page
      BY <1>2
    <3>2. lists_mem.prev[s[i]] = IF j = n - 1 THEN NULL ELSE f[j + 1]
      BY <1>3, <1>13, <3>1 DEF prev
    <3>3. (j = n - 1 <=> i = 1) /\ (i # 1 => i - 1 \in 1..(n - 1) /\ n - (i - 1) = j + 1)
      BY <1>4, <3>1
    <3> QED
      BY <1>2, <3>2, <3>3
  <2> QED
    BY <1>2, <2>1, <2>2, <2>3 DEF Chain
<1>19. ASSUME NEW k \in Orders, k # BUDDY_MAX_ORDER PROVE Chain(lists_mem, k, <<>>)
  <2>1. lists_mem.head[k] = NULL
    BY <1>13, <1>19 DEF head
  <2> QED
    BY <2>1 DEF Chain
<1>20. Shape(lists_mem, L)
  BY <1>15, <1>16, <1>17, <1>18, <1>19 DEF Shape
<1> QED
  BY <1>1, <1>13, <1>14, <1>20

\* The blocks have every page but those of the first one.
LEMMA InitFree ==
  ASSUME Small, NEW mem, NEW z, z = Size(BUDDY_MAX_ORDER), NEW n, NEW f, Tiled(z, n, f),
         Shape(mem, InitLists(n, f))
  PROVE  Disjoint(FreeOf(InitLists(n, f))) /\ PagesOf(FreeOf(InitLists(n, f))) = z..(ListPages - 1)
<1>1. PICK L, F : L = InitLists(n, f) /\ F = FreeOf(L)
  OBVIOUS
<1>2. z \in Nat \ {0} /\ BUDDY_MAX_ORDER \in Orders /\ ListPages \in Nat
  BY OrderFacts, PageFacts DEF Orders
<1>3. /\ n \in Nat /\ n >= 2 /\ f \in [0..n -> Nat] /\ f[0] = 0 /\ f[n] = ListPages
      /\ \A j, k \in 0..n : j < k => f[j] + z <= f[k]
      /\ \A p \in 0..(ListPages - 1) : \E j \in 0..(n - 1) : f[j] <= p /\ p < f[j] + z
      /\ \A p : p \in Lists!Largest <=> \E j \in 1..(n - 1) : p = f[j]
  BY DEF Tiled
<1>4. F \subseteq Blocks /\ \A g : g \in F <=> g \in Blocks /\ g.page \in Elems(L[g.order])
  BY <1>1, ShapeFree
<1>5. \A k \in Orders : Elems(L[k]) = IF k = BUDDY_MAX_ORDER THEN Lists!Largest ELSE {}
  <2>1. \A k \in Orders : L[k] = IF k = BUDDY_MAX_ORDER THEN Reversed(n, f) ELSE <<>>
    BY <1>1 DEF InitLists
  <2>2. Elems(<<>>) = {}
    BY DEF Elems
  <2>3. Elems(Reversed(n, f)) = Lists!Largest
    BY ReversedIs
  <2> QED
    BY <2>1, <2>2, <2>3
<1>6. ASSUME NEW g \in F
      PROVE  /\ g.order = BUDDY_MAX_ORDER /\ g.page \in Lists!Largest
             /\ g = [page |-> g.page, order |-> BUDDY_MAX_ORDER]
             /\ \A q : q \in Pages(g) <=> q \in Int /\ g.page <= q /\ q < g.page + z
  <2>1. g \in Blocks /\ g.order \in Orders /\ g.page \in Nat /\ g = [page |-> g.page, order |-> g.order]
        /\ Pages(g) = Span(g.page, g.order)
    BY <1>4, BlockFacts
  <2>2. g.order = BUDDY_MAX_ORDER /\ g.page \in Lists!Largest
    BY <1>4, <1>5, <2>1
  <2>3. \A q : q \in Span(g.page, g.order) <=> q \in Int /\ g.page <= q /\ q < g.page + Size(g.order)
    BY <2>1, SpanFacts
  <2> QED
    BY <2>1, <2>2, <2>3
<1>7. ASSUME NEW g \in F, NEW h \in F, g # h PROVE Pages(g) \cap Pages(h) = {}
  <2>1. PICK i \in 1..(n - 1), j \in 1..(n - 1) : g.page = f[i] /\ h.page = f[j]
    BY <1>3, <1>6
  <2>2. i # j
    BY <1>6, <1>7, <2>1
  <2>3. i \in 0..n /\ j \in 0..n /\ (i < j \/ j < i)
    BY <1>3, <2>2
  <2>4. (f[i] + z <= f[j] \/ f[j] + z <= f[i]) /\ f[i] \in Nat /\ f[j] \in Nat
    BY <1>3, <2>3
  <2>5. \A q : ~(q \in Pages(g) /\ q \in Pages(h))
    BY <1>2, <1>6, <2>1, <2>4
  <2> QED
    BY <2>5
<1>8. ASSUME NEW q \in PagesOf(F) PROVE q \in z..(ListPages - 1)
  <2>1. PICK g \in F : q \in Pages(g)
    BY DEF PagesOf
  <2>2. PICK j \in 1..(n - 1) : g.page = f[j]
    BY <1>3, <1>6
  <2>3. 0 \in 0..n /\ n \in 0..n /\ j \in 0..n /\ 0 < j /\ j < n
    BY <1>3
  <2>4. f[0] + z <= f[j] /\ f[j] + z <= f[n] /\ f[j] \in Nat
    BY <1>3, <2>3
  <2>5. q \in Int /\ f[j] <= q /\ q < f[j] + z
    BY <1>6, <2>1, <2>2
  <2>6. z <= f[j] /\ f[j] + z <= ListPages
    BY <1>2, <1>3, <2>4
  <2> QED
    BY <1>2, <2>4, <2>5, <2>6
<1>9. ASSUME NEW q \in z..(ListPages - 1) PROVE q \in PagesOf(F)
  <2>1. q \in Int /\ z <= q /\ q \in 0..(ListPages - 1)
    BY <1>2
  <2>2. PICK j \in 0..(n - 1) : f[j] <= q /\ q < f[j] + z
    BY <1>3, <2>1
  <2>3. j # 0
    BY <1>2, <1>3, <2>1, <2>2
  <2>4. j \in 1..(n - 1)
    BY <1>3, <2>3
  <2> DEFINE g == [page |-> f[j], order |-> BUDDY_MAX_ORDER]
  <2>5. f[j] \in Lists!Largest /\ f[j] \in Nat
    BY <1>3, <2>4
  <2>6. g \in Blocks /\ g.page = f[j] /\ g.order = BUDDY_MAX_ORDER
    BY <1>2, <2>5 DEF Blocks
  <2> HIDE DEF g
  <2>7. g \in F
    BY <1>2, <1>4, <1>5, <2>5, <2>6
  <2>8. q \in Pages(g)
    BY <1>6, <2>1, <2>2, <2>6, <2>7
  <2> QED
    BY <2>7, <2>8 DEF PagesOf
<1>10. Disjoint(F)
  BY <1>7 DEF Disjoint
<1>11. PagesOf(F) = z..(ListPages - 1)
  BY <1>8, <1>9
<1> QED
  BY <1>1, <1>10, <1>11

-----------------------------------------------------------------------------
(***************************************************************************)
(* The lists of every behaviour.                                           *)
(***************************************************************************)
LEMMA ListsStart ==
  ASSUME Small, Lists!Init
  PROVE  ListsInv
<1>1. PICK z : z = Size(BUDDY_MAX_ORDER)
  OBVIOUS
<1>2. PICK n, f : Tiled(z, n, f)
  BY <1>1, RegionIsTiled
<1>3. PICK mem, L : mem = lists_mem /\ L = InitLists(n, f)
  OBVIOUS
<1>4. /\ mem \in Memory /\ ~mem.halted /\ mem.bits = {0}
      /\ mem.free_pages = ListPages - z /\ mem.allocated_pages = 0
      /\ Shape(mem, L)
  BY <1>1, <1>2, <1>3, InitShape
<1>5. Disjoint(FreeOf(L)) /\ PagesOf(FreeOf(L)) = z..(ListPages - 1)
  BY <1>1, <1>2, <1>3, <1>4, InitFree
<1>6. z \in Nat \ {0} /\ ListPages \in Nat /\ Lists!Page = 0..(ListPages - 1)
  BY <1>1, OrderFacts, PageFacts DEF Orders
<1>7. z <= ListPages
  <2>1. /\ n \in Nat /\ n >= 2 /\ f[0] = 0 /\ f[n] = ListPages
        /\ \A j, k \in 0..n : j < k => f[j] + z <= f[k]
    BY <1>2 DEF Tiled
  <2>2. 0 \in 0..n /\ n \in 0..n /\ 0 < n
    BY <2>1
  <2>3. f[0] + z <= f[n]
    BY <2>1, <2>2
  <2> QED
    BY <1>6, <2>1, <2>3
<1>8. Cardinality(z..(ListPages - 1)) = ListPages - z
  <2>1. z \in Int /\ ListPages - 1 \in Int
    BY <1>6
  <2>2. Cardinality(z..(ListPages - 1)) = IF z > ListPages - 1 THEN 0 ELSE (ListPages - 1) - z + 1
    BY <2>1, FS_Interval
  <2> QED
    BY <1>6, <1>7, <2>2
<1>9. Tidy(mem, L)
  <2>1. z..(ListPages - 1) \subseteq Lists!Page \ {0}
    BY <1>6
  <2> QED
    BY <1>4, <1>5, <2>1 DEF Tidy
<1>10. Booked(mem, {}, L)
  <2>1. Cardinality({}) = 0
    BY FS_EmptySet
  <2> QED
    BY <1>4, <1>5, <1>8, <1>9, <2>1 DEF Booked
<1>11. AtRest(mem, {})
  BY <1>10, BookedAtRest
<1>12. caller = Stands("idle", 0, NULL, NULL, NULL) /\ pages_held = {} /\ joined = FALSE
  BY IdleIs DEF Lists!Init
<1>13. CallerIs(lists_mem, caller, pages_held)
  BY <1>3, <1>11, <1>12 DEF CallerIs, Rests
<1> QED
  BY <1>12, <1>13, CallerTyped DEF ListsInv, Standing

LEMMA ListsAlways ==
  ASSUME Small
  PROVE  Lists!Spec => []ListsInv
<1>1. Lists!Init => ListsInv
  BY ListsStart
<1>2. ListsInv /\ [Lists!Next]_(Lists!vars) => ListsInv'
  BY ListsStep, ListsStand DEF Lists!vars, lists
<1> QED
  BY <1>1, <1>2, PTL DEF Lists!Spec

LEMMA ListsDo ==
  ASSUME Small, ListsInv, [Lists!Next]_(Lists!vars)
  PROVE  [Lists!BuddyStep]_(Lists!vars)
BY StepIsBuddy

\* For a caller that holds a lock during its calls of buddy_alloc_pages() and
\* buddy_free_pages(), so that the keyboard interrupts between them: between two calls
\* linked lists, bitmap and counters agree and every page has one use, no call faults or
\* is accused of freeing twice, until blocks of more than a page merge.
THEOREM ListsCorrect ==
  ASSUME Small
  PROVE  Lists!Spec => []Lists!ListsAreSound
<1>1. ListsInv => Lists!ListsAreSound
  BY InvIsSound
<1> QED
  BY <1>1, ListsAlways, PTL

\* The statements of a call on the linked lists, interrupts off, amount to one step of the
\* allocator on sequences (Buddy), which takes place when the call returns.
THEOREM ListsRefinement ==
  ASSUME Small
  PROVE  Lists!Spec => Lists!ImplementsBuddy
<1>1. ListsInv /\ [Lists!Next]_(Lists!vars) => [Lists!BuddyStep]_(Lists!vars)
  BY ListsDo
<1> QED
  BY <1>1, ListsAlways, PTL DEF Lists!Spec, Lists!ImplementsBuddy

-----------------------------------------------------------------------------
(***************************************************************************)
(* The same in the behaviours of MCMemory, where other memory may be the   *)
(* subject.                                                                *)
(***************************************************************************)
ListsHold == subject = "lists" => ListsInv

LEMMA ListsMove ==
  ASSUME [MCNext]_<<heap, lists, usermem, subject>>
  PROVE  subject' = subject /\ (subject = "lists" => [Lists!Next]_lists)
BY DEF MCNext

LEMMA ListsHoldAlways ==
  ASSUME Small
  PROVE  MCSpec => []ListsHold
<1>1. MCInit => ListsHold
  BY ListsStart DEF MCInit, ListsHold
<1>2. ListsHold /\ [MCNext]_<<heap, lists, usermem, subject>> => ListsHold'
  BY ListsMove, ListsStep, ListsStand DEF ListsHold, lists
<1> QED
  BY <1>1, <1>2, PTL DEF MCSpec

\* The linked lists implement Buddy in the run's behaviours.
THEOREM ListsRefinedHere ==
  ASSUME Small
  PROVE  MCSpec => ImplementsBuddy
<1>1. ListsHold /\ [MCNext]_<<heap, lists, usermem, subject>>
        => [subject = "lists" => Lists!BuddyStep]_lists
  <2> SUFFICES ASSUME ListsHold, [MCNext]_<<heap, lists, usermem, subject>>, subject = "lists",
                      ~UNCHANGED lists
               PROVE  Lists!BuddyStep
    OBVIOUS
  <2>1. ListsInv /\ Lists!Next
    BY ListsMove DEF ListsHold
  <2> QED
    BY <2>1, StepIsBuddy
<1> QED
  BY <1>1, ListsHoldAlways, PTL DEF MCSpec, ImplementsBuddy
=============================================================================
