---------------------------- MODULE KheapProofs ----------------------------
(***************************************************************************)
(* Proofs about Kheap, for every size of word, header, page and page       *)
(* table, every number of frames and every set of requests: its type       *)
(* invariant, and Tiled, Coalesced, LiveIntact and PagesReturned.          *)
(***************************************************************************)
EXTENDS Kheap, FiniteSetTheorems, TLAPS

\* Where a header_t * points: NULL, or the heap.
Addr      == {NULL} \union {a \in Nat : a >= HEAP_START}
HeaderSet == [prev : Addr, next : Addr, allocated : BOOLEAN, length : Nat]

Types ==
  /\ pc \in {"idle", "scan", "grow", "shrink", "oom", "wild"}
  /\ hdr \in [DOMAIN hdr -> HeaderSet]
  /\ DOMAIN hdr \subseteq Addr /\ NULL \in DOMAIN hdr
  /\ heap_first \in Addr /\ heap_max \in Nat
  /\ req \in Nat /\ asked \in Nat /\ wrapped \in BOOLEAN
  /\ cur_header \in Addr /\ prev_header \in Addr
  /\ \A b \in live : b \in [ptr : Nat, len : Nat] /\ b.ptr >= HEAP_START + HDR
  /\ chunks \subseteq Nat
  /\ split \in Nat
  /\ pc \in {"grow", "shrink"} => cur_header # NULL
  /\ pc = "scan" => prev_header \in DOMAIN hdr

FirstPage == HEAP_START \div PAGE
EndPage   == heap_max \div PAGE

\* The mapped pages are those from HEAP_START to heap_max, and each frame that was taken is
\* behind one of them or is a table.
Paging ==
  /\ heap_max = PAGE * EndPage /\ FirstPage <= EndPage
  /\ mapped = FirstPage .. EndPage - 1
  /\ tables \subseteq Nat /\ IsFiniteSet(tables)
  /\ frames \in Nat
  /\ frames + (EndPage - FirstPage) + Cardinality(tables) = Frames
-----------------------------------------------------------------------------
(***************************************************************************)
(* Arithmetic.                                                             *)
(***************************************************************************)
LEMMA Sizes ==
  /\ HDR \in Nat /\ HDR > 0 /\ PAGE \in Nat /\ PAGE > 0 /\ TablePages \in Nat /\ TablePages > 0
  /\ HEAP_START \in Nat /\ HEAP_START >= PAGE /\ HEAP_START >= HDR
  /\ WORD \in Nat /\ WORD < 2 * HEAP_START /\ HEAP_START < WORD /\ Frames \in Nat
  /\ Requests \subseteq Nat
BY HeapAssumption

\* Quotient and remainder.
LEMMA Divide ==
  ASSUME NEW x \in Nat, NEW b \in Nat, b > 0
  PROVE  /\ x \div b \in Nat /\ x % b \in 0 .. b - 1
         /\ x = b * (x \div b) + (x % b)
OBVIOUS

LEMMA Quotient ==
  ASSUME NEW q \in Nat, NEW b \in Nat, b > 0, NEW s \in 0 .. b - 1
  PROVE  (b * q + s) \div b = q
OBVIOUS

LEMMA Start == HEAP_START = PAGE * FirstPage /\ FirstPage \in Nat
<1>1. HEAP_START % PAGE = 0
  BY HeapAssumption
<1> QED BY <1>1, Sizes, Divide DEF FirstPage

LEMMA Products ==
  ASSUME NEW b \in Nat, b > 0, NEW x \in Int, NEW y \in Int
  PROVE  /\ x <= y <=> b * x <= b * y
         /\ x < y <=> b * x < b * y
         /\ b * (x + 1) = b * x + b
         /\ b * (x - 1) = b * x - b
OBVIOUS
-----------------------------------------------------------------------------
(***************************************************************************)
(* Types, and the pages and frames that kmalloc takes and kfree returns.   *)
(* They hold whatever the list looks like.                                 *)
(***************************************************************************)
LEMMA InitTypes == Init => Types /\ Paging
<1> SUFFICES ASSUME Init PROVE Types /\ Paging
  OBVIOUS
<1>1. Types
  BY Sizes DEF Init, Types, Addr, HeaderSet, NULL
<1>2. EndPage = FirstPage
  BY DEF Init, EndPage, FirstPage
<1>3. IsFiniteSet({}) /\ Cardinality({}) = 0
  BY FS_EmptySet
<1>4. FirstPage .. EndPage - 1 = {}
  BY <1>2, Start
<1> QED BY <1>1, <1>2, <1>3, <1>4, Start, Sizes DEF Init, Paging

\* What the merges leave is a memory of headers again.
LEMMA GlueTypes ==
  ASSUME NEW D \in SUBSET Addr, NEW h \in [D -> HeaderSet], NEW c \in D, c # NULL,
         h[c].next \in D, h[c].prev \in D
  PROVE  /\ GlueNext(h, c) \in [D -> HeaderSet]
         /\ GlueNext(h, c)[c].prev \in D
         /\ GluePrev(h, c) \in [D -> HeaderSet]
         /\ Glued(h, c) \in D /\ Glued(h, c) # NULL
<1>1. h[c] \in HeaderSet /\ h[h[c].next] \in HeaderSet /\ h[h[c].prev] \in HeaderSet
  OBVIOUS
<1>2. h[c].length + h[h[c].next].length \in Nat /\ h[h[c].prev].length + h[c].length \in Nat
  BY <1>1 DEF HeaderSet
<1>3. GluePrev(h, c) \in [D -> HeaderSet]
  BY <1>1, <1>2 DEF GluePrev, HeaderSet
<1>4. GlueNext(h, c) \in [D -> HeaderSet]
  BY <1>1, <1>2 DEF GlueNext, HeaderSet
<1>5. GlueNext(h, c)[c].prev \in D
  BY <1>1, <1>2 DEF GlueNext, HeaderSet
<1> QED BY <1>3, <1>4, <1>5 DEF Glued, FreeAt

LEMMA KfreeTypes ==
  ASSUME Types, NEW b \in live, Kfree(b)
  PROVE  Types'
<1> USE DEF Types
<1> DEFINE c  == b.ptr - HDR
           h0 == Freed(c)
           h1 == GlueNext(h0, c)
           h2 == GluePrev(h1, c)
           g  == Glued(h1, c)
           D  == DOMAIN hdr
<1>1. c \in D /\ c # NULL /\ hdr[c].next \in D /\ hdr[c].prev \in D
  <2>1. Reach(c)
    BY DEF Kfree
  <2>2. c # NULL
    BY Sizes DEF NULL
  <2> HIDE DEF c
  <2> QED BY <2>1, <2>2 DEF Reach, Readable
<1>2. h0 \in [D -> HeaderSet] /\ h0[c].next = hdr[c].next /\ h0[c].prev = hdr[c].prev
  BY <1>1 DEF Freed, HeaderSet
<1>3. h1 \in [D -> HeaderSet] /\ h1[c].prev \in D
  BY <1>1, <1>2, GlueTypes
<1>4. h1[c].next \in Addr
  BY <1>1, <1>3 DEF HeaderSet
<1> HIDE DEF h0, h1
<1>5. h2 \in [D -> HeaderSet] /\ g \in D /\ g # NULL
  <2>1. h1[c].prev \in D /\ h1[c] \in HeaderSet /\ h1[h1[c].prev] \in HeaderSet
    BY <1>1, <1>3
  <2>2. h1[h1[c].prev].length + h1[c].length \in Nat
    BY <2>1 DEF HeaderSet
  <2>3. h2 \in [D -> HeaderSet]
    BY <1>3, <2>1, <2>2, ZenonT(30) DEF GluePrev, HeaderSet
  <2>4. g \in D /\ g # NULL
    BY <1>1, <2>1 DEF Glued, FreeAt
  <2> QED BY <2>3, <2>4
<1>6. /\ cur_header' = g /\ chunks' \subseteq chunks /\ live' = live \ {b}
      /\ UNCHANGED <<heap_max, req, asked, wrapped, prev_header>>
      /\ hdr' = h2 \/ hdr' = [h2 EXCEPT ![h2[g].prev].next = NULL]
      /\ heap_first' \in {NULL, heap_first} /\ pc' \in {"idle", "shrink"}
      /\ split' \in Nat
  <2>1. Call
    BY DEF Kfree
  <2>2. pc = "idle" /\ split' \in Nat
    BY <2>1 DEF Call
  <2>3. cur_header' = g
    BY DEF Kfree, h0, h1
  <2>4. hdr' = h2 \/ hdr' = [h2 EXCEPT ![h2[g].prev].next = NULL]
    BY DEF Kfree, h0, h1
  <2>5. heap_first' = NULL \/ heap_first' = heap_first
    BY DEF Kfree
  <2>6. pc' = "shrink" \/ pc' = pc
    BY DEF Kfree
  <2>7. chunks' \subseteq chunks /\ live' = live \ {b}
    BY DEF Kfree
  <2>8. UNCHANGED <<heap_max, req, asked, wrapped, prev_header>>
    BY DEF Kfree, request
  <2> QED BY <2>2, <2>3, <2>4, <2>5, <2>6, <2>7, <2>8
<1> HIDE DEF h2, g
<1>7. hdr' \in [D -> HeaderSet]
  BY <1>5, <1>6 DEF HeaderSet, Addr
<1> QED BY <1>5, <1>6, <1>7 DEF Addr

LEMMA PagesKept ==
  ASSUME Paging, UNCHANGED <<mapped, tables, frames, heap_max>>
  PROVE  Paging'
BY DEF Paging, EndPage

LEMMA GrowPages ==
  ASSUME Types, Paging, GrowPage
  PROVE  Types' /\ Paging'
<1> DEFINE p    == heap_max \div PAGE
           need == {p \div TablePages} \ tables
<1>1. CASE frames < 1 + Cardinality(need)
  <2>1. pc' = "oom" /\ UNCHANGED <<hdr, heap_first, heap_max, paging, request, cur_header,
                                   prev_header, live, chunks, split>>
    BY <1>1 DEF GrowPage
  <2> QED BY <2>1, PagesKept DEF Types, paging, request
<1>2. CASE ~(frames < 1 + Cardinality(need))
  <2>1. /\ frames' = frames - 1 - Cardinality(need)
        /\ tables' = tables \union need
        /\ mapped' = mapped \union {p}
        /\ heap_max' = heap_max + PAGE
        /\ UNCHANGED <<pc, hdr, heap_first, request, cur_header, prev_header, live, chunks,
                       split>>
    BY <1>2 DEF GrowPage
  <2>2. p \in Nat /\ p = EndPage /\ p \div TablePages \in Nat
    BY Sizes, Divide DEF Types, EndPage
  <2>3. /\ IsFiniteSet(tables') /\ tables' \subseteq Nat
        /\ Cardinality(need) \in Nat
        /\ Cardinality(tables') = Cardinality(tables) + Cardinality(need)
    <3>1. IsFiniteSet(tables) /\ tables \subseteq Nat /\ Cardinality(tables) \in Nat
      BY FS_CardinalityType DEF Paging
    <3>2. CASE p \div TablePages \in tables
      <4>1. need = {} /\ tables' = tables
        BY <2>1, <3>2
      <4>2. Cardinality(need) = 0
        BY <4>1, FS_EmptySet
      <4> HIDE DEF need
      <4> QED BY <3>1, <4>1, <4>2
    <3>3. CASE p \div TablePages \notin tables
      <4>1. need = {p \div TablePages} /\ tables' = tables \union {p \div TablePages}
        BY <2>1, <3>3
      <4>2. Cardinality(need) = 1
        BY <4>1, FS_Singleton
      <4>3. /\ IsFiniteSet(tables \union {p \div TablePages})
            /\ Cardinality(tables \union {p \div TablePages}) = Cardinality(tables) + 1
        BY <3>1, <3>3, FS_AddElement
      <4>4. tables' \subseteq Nat /\ IsFiniteSet(tables')
        BY <2>2, <3>1, <4>1, <4>3
      <4>5. Cardinality(tables') = Cardinality(tables) + 1
        BY <4>1, <4>3
      <4> HIDE DEF need
      <4> QED BY <3>1, <4>2, <4>4, <4>5
    <3> QED BY <3>2, <3>3
  <2>4. EndPage' = EndPage + 1 /\ heap_max' = PAGE * (EndPage + 1)
    <3>1. heap_max' = PAGE * (EndPage + 1)
      BY <2>1, <2>2, Sizes, Products DEF Paging
    <3>2. EndPage + 1 \in Nat /\ 0 \in 0 .. PAGE - 1 /\ heap_max' = PAGE * (EndPage + 1) + 0
      BY <2>2, <3>1, Sizes
    <3>3. heap_max' \div PAGE = EndPage + 1
      BY <3>2, Sizes, Quotient
    <3> QED BY <3>1, <3>3 DEF EndPage
  <2>5. mapped' = FirstPage .. EndPage' - 1
    <3>1. mapped = FirstPage .. EndPage - 1 /\ mapped' = mapped \union {EndPage}
      BY <2>1, <2>2 DEF Paging
    <3>2. FirstPage \in Nat /\ EndPage \in Nat /\ FirstPage <= EndPage
      BY <2>2, Start DEF Paging
    <3>3. EndPage' = EndPage + 1
      BY <2>4
    <3>4. mapped' = FirstPage .. EndPage
      BY <3>1, <3>2
    <3> QED BY <3>2, <3>3, <3>4
  <2>6. frames' \in Nat /\ frames' + (EndPage' - FirstPage) + Cardinality(tables') = Frames
    <3>1. Cardinality(tables) \in Nat
      BY FS_CardinalityType DEF Paging
    <3>2. frames \in Nat /\ frames + (EndPage - FirstPage) + Cardinality(tables) = Frames
      BY DEF Paging
    <3> HIDE DEF need, p
    <3> QED BY <1>2, <2>1, <2>2, <2>3, <2>4, <3>1, <3>2, Start
  <2>7. Paging'
    BY <2>2, <2>3, <2>4, <2>5, <2>6, Start, SMTT(30) DEF Paging, FirstPage
  <2>8. Types'
    BY <2>1, Sizes DEF Types, request
  <2> QED BY <2>7, <2>8
<1> QED BY <1>1, <1>2

LEMMA ShrinkPages ==
  ASSUME Types, Paging, ShrinkPage
  PROVE  Types' /\ Paging'
<1>1. /\ heap_max' = heap_max - PAGE /\ heap_max' >= cur_header
      /\ mapped' = mapped \ {heap_max' \div PAGE}
      /\ frames' = frames + Cardinality({heap_max' \div PAGE} \intersect mapped)
      /\ hdr' = [a \in {a \in DOMAIN hdr : a + HDR <= heap_max'} |-> hdr[a]]
      /\ pc = "shrink"
      /\ UNCHANGED <<pc, heap_first, tables, request, cur_header, prev_header, live, chunks,
                     split>>
  BY DEF ShrinkPage, PageUnused
<1>2. heap_max' \in Nat /\ heap_max' >= HEAP_START /\ EndPage \in Nat
  <2>1. cur_header \in Nat /\ cur_header >= HEAP_START /\ heap_max \in Nat
    BY <1>1 DEF Types, Addr
  <2>2. EndPage \in Nat
    BY <2>1, Sizes, Divide DEF EndPage
  <2> QED BY <1>1, <2>1, <2>2, Sizes
<1>3. EndPage' = EndPage - 1 /\ heap_max' = PAGE * (EndPage - 1) /\ EndPage - 1 >= FirstPage
  <2>1. heap_max' = PAGE * (EndPage - 1)
    BY <1>1, <1>2, Sizes, Products DEF Paging
  <2>2. PAGE * FirstPage <= PAGE * (EndPage - 1)
    BY <1>2, <2>1, Start
  <2>3. FirstPage <= EndPage - 1
    BY <1>2, <2>2, Sizes, Start, Products
  <2>4. EndPage - 1 \in Nat /\ 0 \in 0 .. PAGE - 1 /\ heap_max' = PAGE * (EndPage - 1) + 0
    BY <1>2, <2>1, <2>3, Sizes, Start
  <2>5. heap_max' \div PAGE = EndPage - 1
    BY <2>4, Sizes, Quotient
  <2> QED BY <2>1, <2>3, <2>5 DEF EndPage
<1>4. heap_max' \div PAGE = EndPage - 1
  BY <1>3 DEF EndPage
<1>5. mapped' = FirstPage .. EndPage' - 1
  BY <1>1, <1>2, <1>3, <1>4, Start DEF Paging
<1>6. frames' = frames + 1
  <2>1. {EndPage - 1} \intersect mapped = {EndPage - 1}
    BY <1>2, <1>3, Start DEF Paging
  <2>2. Cardinality({EndPage - 1}) = 1
    BY FS_Singleton
  <2> QED BY <1>1, <1>4, <2>1, <2>2
<1>7. Paging'
  <2>1. Cardinality(tables) \in Nat
    BY FS_CardinalityType DEF Paging
  <2>2. /\ frames \in Nat /\ frames + (EndPage - FirstPage) + Cardinality(tables) = Frames
        /\ tables \subseteq Nat /\ IsFiniteSet(tables)
    BY DEF Paging
  <2>3. frames' \in Nat
        /\ frames' + (EndPage' - FirstPage) + Cardinality(tables') = Frames
    BY <1>1, <1>2, <1>3, <1>6, <2>1, <2>2, Start
  <2> QED BY <1>1, <1>3, <1>5, <2>2, <2>3 DEF Paging, FirstPage
<1>8. Types'
  <2>1. hdr' \in [DOMAIN hdr' -> HeaderSet] /\ DOMAIN hdr' \subseteq Addr
    BY <1>1 DEF Types
  <2>2. NULL \in DOMAIN hdr'
    BY <1>1, <1>2, Sizes DEF Types, NULL
  <2> QED BY <1>1, <1>2, <2>1, <2>2 DEF Types, request
<1> QED BY <1>7, <1>8

LEMMA ScanTypes ==
  ASSUME Types, Paging, ScanNext \/ Reuse \/ ScanWild \/ Extend
  PROVE  Types' /\ Paging'
<1>1. Paging'
  BY PagesKept DEF ScanNext, Reuse, ScanWild, Wild, Extend, paging
<1>2. CASE ScanNext
  BY <1>1, <1>2 DEF ScanNext, Scanning, Readable, Types, request, HeaderSet
<1>3. CASE Reuse
  <2> DEFINE c == cur_header
  <2>1. c \in DOMAIN hdr /\ c # NULL /\ hdr[c] \in HeaderSet /\ hdr[c].length >= req
    BY <1>3 DEF Reuse, Scanning, Readable, Fits, Types
  <2>2. NewChunk(c) \in Addr
    BY <2>1, Sizes DEF NewChunk, Addr, HeaderSet, Types
  <2>3. Rest(c) \in HeaderSet /\ c \in Addr
    BY <2>1 DEF Rest, HeaderSet, Types, Addr
  <2>4. hdr' \in [DOMAIN hdr' -> HeaderSet] /\ DOMAIN hdr \subseteq DOMAIN hdr'
        /\ DOMAIN hdr' \subseteq Addr /\ split' \in Nat
    <3>1. CASE MustSplit(c)
      <4> DEFINE s == Store(hdr, NewChunk(c), Rest(c))
      <4>1. s \in [DOMAIN hdr \union {NewChunk(c)} -> HeaderSet]
        BY <2>3 DEF Store, Types
      <4> HIDE DEF s
      <4>2. [s EXCEPT ![c].next = NewChunk(c), ![c].length = req, ![c].allocated = TRUE]
              \in [DOMAIN hdr \union {NewChunk(c)} -> HeaderSet]
        BY <2>2, <4>1, ZenonT(30) DEF HeaderSet, Types
      <4>3. hdr' = [s EXCEPT ![c].next = NewChunk(c), ![c].length = req, ![c].allocated = TRUE]
        BY <1>3, <3>1 DEF Reuse, s
      <4> QED BY <1>3, <2>2, <4>2, <4>3 DEF Reuse, Types
    <3>2. CASE ~MustSplit(c)
      BY <1>3, <2>1, <3>2, ZenonT(30) DEF Reuse, Types, HeaderSet
    <3> QED BY <3>1, <3>2
  <2>5. Block(c) \in [ptr : Nat, len : Nat] /\ Block(c).ptr >= HEAP_START + HDR
    BY <2>1, Sizes DEF Block, Types, Addr
  <2> QED BY <1>1, <1>3, <2>4, <2>5 DEF Reuse, Types, request
<1>4. CASE ScanWild
  BY <1>1, <1>4 DEF ScanWild, Wild, Types, request
<1>5. CASE Extend
  <2>1. cur_header' \in Addr /\ cur_header' # NULL /\ heap_first' \in Addr
    <3>1. CASE prev_header # NULL
      BY <1>5, <3>1, Sizes DEF Extend, Types, Addr, HeaderSet, NULL
    <3>2. CASE prev_header = NULL
      BY <1>5, <3>2, Sizes DEF Extend, Types, Addr, NULL
    <3> QED BY <3>1, <3>2
  <2> QED BY <1>1, <1>5, <2>1 DEF Extend, Types
<1> QED BY <1>1, <1>2, <1>3, <1>4, <1>5

LEMMA OtherTypes ==
  ASSUME Types, Paging, Append \/ AppendWild \/ ShrinkDone \/ UNCHANGED vars
                        \/ (\E l \in Requests : Kmalloc(l))
                        \/ (\E b \in live : KfreeWild(b))
  PROVE  Types' /\ Paging'
<1>1. Paging'
  BY PagesKept DEF Append, AppendWild, ShrinkDone, Wild, Kmalloc, KfreeWild, vars, paging
<1>2. CASE Append
  <2> DEFINE n == [prev |-> prev_header, next |-> NULL, allocated |-> TRUE,
                   length |-> req % (WORD \div 2)]
             s == Store(hdr, cur_header, n)
  <2>1. cur_header \in Addr /\ cur_header # NULL
    BY <1>2 DEF Append, Types
  <2>2. n \in HeaderSet
    <3>1. WORD \div 2 > 0
      BY Sizes
    <3>2. req % (WORD \div 2) \in Nat
      BY <3>1, Sizes DEF Types
    <3> QED BY <3>2 DEF Types, HeaderSet, Addr
  <2>3. s \in [DOMAIN hdr \union {cur_header} -> HeaderSet]
    BY <2>2 DEF Store, Types
  <2> HIDE DEF s
  <2>4. hdr' = [s EXCEPT ![prev_header].next = cur_header]
    BY <1>2 DEF Append, s
  <2>5. hdr' \in [DOMAIN hdr \union {cur_header} -> HeaderSet]
    BY <2>1, <2>3, <2>4 DEF HeaderSet
  <2>6. Block(cur_header) \in [ptr : Nat, len : Nat]
        /\ Block(cur_header).ptr >= HEAP_START + HDR
    BY <2>1, Sizes DEF Block, Types, Addr
  <2> QED BY <1>1, <1>2, <2>1, <2>5, <2>6 DEF Append, Types, request, Addr
<1>3. CASE AppendWild
  BY <1>1, <1>3 DEF AppendWild, Wild, Types, request
<1>4. CASE ShrinkDone
  BY <1>1, <1>4 DEF ShrinkDone, Types, request
<1>5. CASE \E l \in Requests : Kmalloc(l)
  <2>1. PICK l \in Requests : Kmalloc(l)
    BY <1>5
  <2>2. (l + HDR) % WORD \in Nat /\ l \in Nat
    BY Sizes
  <2> QED BY <1>1, <2>1, <2>2 DEF Kmalloc, Call, Types, Addr, NULL
<1>6. CASE \E b \in live : KfreeWild(b)
  BY <1>1, <1>6 DEF KfreeWild, Call, Wild, Types, request
<1>7. CASE UNCHANGED vars
  BY <1>1, <1>7 DEF vars, Types, request
<1> QED BY <1>2, <1>3, <1>4, <1>5, <1>6, <1>7

LEMMA StepTypes ==
  ASSUME Types, Paging, [Next]_vars
  PROVE  Types' /\ Paging'
<1>1. CASE \E b \in live : Kfree(b)
  BY <1>1, KfreeTypes, PagesKept DEF Kfree, paging
<1>2. CASE ShrinkPage
  BY <1>2, ShrinkPages
<1>3. CASE GrowPage
  BY <1>3, GrowPages
<1> QED BY <1>1, <1>2, <1>3, ScanTypes, OtherTypes DEF Next, Step
-----------------------------------------------------------------------------
(***************************************************************************)
(* The list: C is the set of its chunks in the memory h.                   *)
(***************************************************************************)
\* The chunks lie side by side from HEAP_START, linked in both directions.
Links(h, C) ==
  /\ C \subseteq DOMAIN h
  /\ C # {} => HEAP_START \in C /\ \E x \in C : h[x].next = NULL
  /\ \A x \in C :
       /\ x \in Nat /\ x >= HEAP_START
       /\ h[x].length \in Nat /\ h[x].length >= HDR
       /\ h[x].prev = NULL <=> x = HEAP_START
       /\ h[x].prev # NULL => h[x].prev \in C /\ h[h[x].prev].next = x
       /\ h[x].next # NULL => /\ h[x].next = x + h[x].length
                              /\ h[x].next \in C
                              /\ h[h[x].next].prev = x
       /\ h[x].next = NULL => \A y \in C : y <= x
       /\ \A y \in C : x < y => x + h[x].length <= y

\* A free chunk is followed by an allocated one.
Closed(h, C) == \A x \in C : ~h[x].allocated => h[x].next # NULL /\ h[h[x].next].allocated

\* The blocks L are what the allocated chunks hold, one block each.
Owned(h, C, L) ==
  /\ \A b \in L : /\ b.ptr - HDR \in C /\ h[b.ptr - HDR].allocated
                  /\ h[b.ptr - HDR].length >= b.len + HDR
  /\ \A b, d \in L : b.ptr = d.ptr => b = d
  /\ \A x \in C : h[x].allocated => \E b \in L : b.ptr = x + HDR

\* In k chunk a has taken in chunk n, which followed it in h.
Merged(h, k, a, n) ==
  /\ DOMAIN k = DOMAIN h
  /\ \A x \in DOMAIN h \ {NULL} :
       /\ k[x].allocated = h[x].allocated
       /\ k[x].length = IF x = a THEN h[a].length + h[n].length ELSE h[x].length
       /\ k[x].next = IF x = a THEN h[n].next ELSE h[x].next
       /\ k[x].prev = IF x = h[n].next THEN a ELSE h[x].prev

LEMMA NotNull ==
  ASSUME NEW h, NEW C, Links(h, C), NEW x \in C
  PROVE  x # NULL /\ x \in DOMAIN h \ {NULL}
BY Sizes DEF Links, NULL

LEMMA Absorb ==
  ASSUME NEW h, NEW k, NEW C, Links(h, C), NEW a \in C, NEW n \in C, h[a].next = n,
         Merged(h, k, a, n)
  PROVE  Links(k, C \ {n})
<1>1. /\ n = a + h[a].length /\ h[n].prev = a /\ a \in Nat /\ n \in Nat /\ n > a
      /\ h[a].length \in Nat /\ h[n].length \in Nat /\ n # HEAP_START
  BY NotNull, Sizes DEF Links
<1>2. \A x \in C : /\ k[x].length = IF x = a THEN h[a].length + h[n].length ELSE h[x].length
                   /\ k[x].next = IF x = a THEN h[n].next ELSE h[x].next
                   /\ k[x].prev = IF x = h[n].next THEN a ELSE h[x].prev
  BY NotNull DEF Merged
<1>3. C \ {n} \subseteq DOMAIN k
  BY DEF Merged, Links
<1>4. HEAP_START \in C \ {n} /\ \E x \in C \ {n} : k[x].next = NULL
  <2>1. PICK x \in C : h[x].next = NULL
    BY DEF Links
  <2>2. HEAP_START \in C
    BY DEF Links
  <2>3. CASE x = n
    BY <1>1, <1>2, <2>1, <2>2, <2>3
  <2>4. CASE x # n
    <3>1. x # a
      BY <2>1, NotNull
    <3> QED BY <1>1, <1>2, <2>1, <2>2, <2>4, <3>1
  <2> QED BY <2>3, <2>4
<1>5. ASSUME NEW x \in C \ {n}
      PROVE  /\ x \in Nat /\ x >= HEAP_START
             /\ k[x].length \in Nat /\ k[x].length >= HDR
             /\ k[x].next = NULL => \A y \in C \ {n} : y <= x
             /\ \A y \in C \ {n} : x < y => x + k[x].length <= y
  <2>1. /\ x \in Nat /\ x >= HEAP_START /\ h[x].length \in Nat /\ h[x].length >= HDR
        /\ h[n].length >= HDR /\ \A y \in C : y \in Nat
        /\ h[x].next = NULL => \A y \in C : y <= x
        /\ h[n].next = NULL => \A y \in C : y <= n
        /\ \A y \in C : x < y => x + h[x].length <= y
        /\ \A y \in C : n < y => n + h[n].length <= y
    BY DEF Links
  <2>2. CASE x = a
    <3>1. \A y \in C \ {n} : a < y => n < y
      BY <1>1, <2>1, <2>2
    <3>2. k[x].length = h[a].length + h[n].length
      BY <1>2, <2>2
    <3>3. k[x].next = NULL => \A y \in C \ {n} : y <= a
      <4> SUFFICES ASSUME k[x].next = NULL, NEW y \in C \ {n} PROVE y <= a
        OBVIOUS
      <4>1. y <= n /\ y \in Nat
        BY <1>2, <2>1, <2>2
      <4>2. a < y => n < y
        BY <3>1
      <4> QED BY <1>1, <4>1, <4>2
    <3>4. \A y \in C \ {n} : x < y => x + k[x].length <= y
      <4> SUFFICES ASSUME NEW y \in C \ {n}, x < y PROVE x + k[x].length <= y
        OBVIOUS
      <4>1. n < y /\ y \in Nat
        BY <2>1, <2>2, <3>1
      <4>2. n + h[n].length <= y
        BY <2>1, <4>1
      <4>3. \A i, l, m, j, e \in Nat : e = i + l /\ e + m <= j => i + (l + m) <= j
        OBVIOUS
      <4> QED BY <1>1, <2>2, <3>2, <4>1, <4>2, <4>3
    <3> QED BY <1>1, <2>1, <2>2, <3>2, <3>3, <3>4, Sizes
  <2>3. CASE x # a
    BY <1>2, <2>1, <2>3
  <2> QED BY <2>2, <2>3
<1>6. ASSUME NEW x \in C \ {n}
      PROVE  /\ k[x].prev = NULL <=> x = HEAP_START
             /\ k[x].prev # NULL => k[x].prev \in C \ {n} /\ k[k[x].prev].next = x
  <2>1. CASE x = h[n].next
    <3>1. h[x].prev = n /\ n # NULL /\ a # NULL
      BY <2>1, NotNull DEF Links
    <3>2. x # HEAP_START
      BY <3>1 DEF Links
    <3> QED BY <1>1, <1>2, <2>1, <3>1, <3>2
  <2>2. CASE x # h[n].next
    <3>1. k[x].prev = h[x].prev /\ x # n
      BY <1>2, <2>2
    <3>2. ASSUME h[x].prev # NULL
          PROVE  h[x].prev \in C \ {n} /\ k[h[x].prev].next = x
      <4>1. h[x].prev \in C /\ h[h[x].prev].next = x
        BY <3>2 DEF Links
      <4>2. h[x].prev # n /\ h[x].prev # a
        BY <2>2, <3>1, <4>1
      <4> QED BY <1>2, <4>1, <4>2
    <3>3. h[x].prev = NULL <=> x = HEAP_START
      BY DEF Links
    <3> QED BY <3>1, <3>2, <3>3
  <2> QED BY <2>1, <2>2
<1>7. ASSUME NEW x \in C \ {n}, k[x].next # NULL
      PROVE  /\ k[x].next = x + k[x].length
             /\ k[x].next \in C \ {n}
             /\ k[k[x].next].prev = x
  <2>1. CASE x = a
    <3>1. k[x].next = h[n].next /\ h[n].next # NULL
      BY <1>2, <1>7, <2>1
    <3>2. h[n].next = n + h[n].length /\ h[n].next \in C /\ h[n].next # n
      BY <1>1, <3>1, Sizes DEF Links
    <3> QED BY <1>1, <1>2, <2>1, <3>1, <3>2
  <2>2. CASE x # a
    <3>1. k[x].next = h[x].next /\ h[x].next # NULL /\ k[x].length = h[x].length
      BY <1>2, <1>7, <2>2
    <3>2. h[x].next = x + h[x].length /\ h[x].next \in C /\ h[h[x].next].prev = x
      BY <3>1 DEF Links
    <3>3. h[x].next # n
      BY <1>1, <2>2, <3>2
    <3>4. h[x].next # h[n].next
      BY <3>1, <3>2 DEF Links
    <3> QED BY <1>2, <3>1, <3>2, <3>3, <3>4
  <2> QED BY <2>1, <2>2
<1> QED BY <1>3, <1>4, <1>5, <1>6, <1>7 DEF Links

\* Links depends on the chunks' own headers and links only.
LEMMA SameLinks ==
  ASSUME NEW h, NEW k, NEW C, Links(h, C), C \subseteq DOMAIN k,
         \A x \in C : k[x].length = h[x].length /\ k[x].next = h[x].next /\ k[x].prev = h[x].prev
  PROVE  Links(k, C)
BY DEF Links

\* In k the last chunk of h, g, has left the list.
Dropped(h, k, g) ==
  /\ h[g].next = NULL /\ DOMAIN k = DOMAIN h
  /\ \A x \in DOMAIN h \ {NULL} :
       /\ k[x].length = h[x].length /\ k[x].prev = h[x].prev
       /\ k[x].next = IF x = h[g].prev THEN NULL ELSE h[x].next

LEMMA Drop ==
  ASSUME NEW h, NEW k, NEW C, Links(h, C), NEW g \in C, Dropped(h, k, g)
  PROVE  /\ Links(k, C \ {g})
         /\ h[g].prev = NULL <=> C \ {g} = {}
         /\ \A x \in C \ {g} : x + h[x].length <= g
         /\ \A x \in C \ {g} : k[x].next = NULL => x = h[g].prev /\ x + k[x].length = g
<1> USE DEF Dropped
<1> DEFINE p == h[g].prev
<1>1. \A x \in C : /\ k[x].length = h[x].length /\ k[x].prev = h[x].prev
                   /\ k[x].next = IF x = p THEN NULL ELSE h[x].next
  BY NotNull
<1>2. \A x \in C \ {g} : x \in Nat /\ x < g /\ x + h[x].length <= g /\ h[x].next # NULL
  BY Sizes DEF Links
<1>3. p # NULL => p \in C \ {g} /\ h[p].next = g /\ p + h[p].length = g
  <2>1. p # NULL => p \in C /\ h[p].next = g
    BY DEF Links
  <2>2. p # NULL => p # g
    BY <2>1, NotNull
  <2>3. p # NULL => p + h[p].length = g
    BY <2>1, NotNull DEF Links
  <2> QED BY <2>1, <2>2, <2>3
<1>4. p = NULL <=> C \ {g} = {}
  <2>1. p = NULL <=> g = HEAP_START
    BY DEF Links
  <2>2. g = HEAP_START => C \ {g} = {}
    BY <1>2 DEF Links
  <2> QED BY <1>3, <2>1, <2>2
<1>6. C \ {g} # {} => HEAP_START \in C \ {g} /\ \E x \in C \ {g} : k[x].next = NULL
  <2>1. HEAP_START \in C /\ (p # NULL => g # HEAP_START)
    BY DEF Links
  <2> QED BY <1>1, <1>3, <1>4, <2>1
<1>7. ASSUME NEW x \in C \ {g}
      PROVE  /\ k[x].next # NULL => /\ k[x].next = x + k[x].length
                                    /\ k[x].next \in C \ {g}
                                    /\ k[k[x].next].prev = x
             /\ k[x].next = NULL => x = p
  <2>1. CASE x = p
    BY <1>1, <2>1
  <2>2. CASE x # p
    <3>1. /\ h[x].next = x + h[x].length /\ h[x].next \in C
          /\ h[h[x].next].prev = x /\ k[x].next = h[x].next
      BY <1>1, <1>2, <2>2 DEF Links
    <3> QED BY <1>1, <1>2, <2>2, <3>1
  <2> QED BY <2>1, <2>2
<1>8. ASSUME NEW x \in C \ {g}
      PROVE  /\ k[x].prev = NULL <=> x = HEAP_START
             /\ k[x].prev # NULL => k[x].prev \in C \ {g} /\ k[k[x].prev].next = x
  <2>1. h[x].prev # NULL => h[x].prev \in C /\ h[h[x].prev].next = x
    BY DEF Links
  <2>2. h[x].prev # NULL => h[x].prev # g /\ h[x].prev # p
    BY <1>3, <2>1, NotNull
  <2>3. h[x].prev = NULL <=> x = HEAP_START
    BY DEF Links
  <2> QED BY <1>1, <2>1, <2>2, <2>3
<1>9. ASSUME NEW x \in C \ {g}
      PROVE  /\ x \in Nat /\ x >= HEAP_START
             /\ k[x].length \in Nat /\ k[x].length >= HDR
             /\ k[x].next = NULL => \A y \in C \ {g} : y <= x
             /\ \A y \in C \ {g} : x < y => x + k[x].length <= y
  <2>1. /\ x \in Nat /\ x >= HEAP_START /\ h[x].length \in Nat /\ h[x].length >= HDR
        /\ \A y \in C : x < y => x + h[x].length <= y
    BY DEF Links
  <2>2. k[x].next = NULL => \A y \in C \ {g} : y <= x
    <3>1. k[x].next = NULL => x + h[x].length = g
      BY <1>3, <1>7, NotNull
    <3> QED BY <1>2, <2>1, <3>1
  <2> QED BY <1>1, <2>1, <2>2
<1>10. C \ {g} \subseteq DOMAIN k
  BY DEF Links
<1>11. Links(k, C \ {g})
  BY <1>6, <1>7, <1>8, <1>9, <1>10 DEF Links
<1> QED BY <1>1, <1>2, <1>3, <1>4, <1>7, <1>11, NotNull

\* In k chunk c was appended behind the last one of h, or is the first.
Pushed(h, k, C, p, c) ==
  /\ c \in Nat /\ k[c].length \in Nat /\ k[c].length >= HDR
  /\ \/ C = {} /\ p = NULL /\ c = HEAP_START
     \/ p \in C /\ h[p].next = NULL /\ c = p + h[p].length
  /\ DOMAIN k = DOMAIN h \union {c}
  /\ k[c].prev = p /\ k[c].next = NULL
  /\ \A x \in DOMAIN h \ {NULL, c} :
       /\ k[x].length = h[x].length /\ k[x].prev = h[x].prev
       /\ k[x].next = IF x = p THEN c ELSE h[x].next

LEMMA Push ==
  ASSUME NEW h, NEW k, NEW C, Links(h, C), NEW p, NEW c, Pushed(h, k, C, p, c)
  PROVE  Links(k, C \union {c})
<1> USE DEF Pushed
<1>1. CASE C = {} /\ p = NULL /\ c = HEAP_START
  BY <1>1, Sizes DEF Links, NULL
<1>2. CASE p \in C /\ h[p].next = NULL /\ c = p + h[p].length
  <2>1. \A x \in C : x \in Nat /\ x <= p /\ x + h[x].length <= c /\ x < c /\ x # NULL
    <3>1. ASSUME NEW x \in C
          PROVE  /\ x \in Nat /\ x <= p /\ h[x].length \in Nat /\ h[x].length >= HDR
                 /\ x < p => x + h[x].length <= p
      BY <1>2 DEF Links
    <3>2. p \in Nat /\ h[p].length \in Nat /\ h[p].length > 0
      BY <1>2, <3>1, Sizes
    <3> QED BY <1>2, <3>1, <3>2, NotNull, Sizes
  <2>2. \A x \in C : /\ x \in DOMAIN h \ {NULL, c}
                     /\ k[x].length = h[x].length /\ k[x].prev = h[x].prev
                     /\ k[x].next = IF x = p THEN c ELSE h[x].next
    BY <2>1 DEF Links
  <2>3. c # NULL /\ c > HEAP_START /\ p # NULL /\ c \notin C
    BY <1>2, <2>1 DEF Links, NULL
  <2>4. ASSUME NEW x \in C
        PROVE  /\ k[x].prev = NULL <=> x = HEAP_START
               /\ k[x].prev # NULL => k[x].prev \in C /\ k[k[x].prev].next = x
               /\ k[x].next # NULL => /\ k[x].next = x + k[x].length
                                      /\ k[x].next \in C \union {c}
                                      /\ k[k[x].next].prev = x
               /\ k[x].next # NULL
    <3>1. /\ h[x].prev = NULL <=> x = HEAP_START
          /\ h[x].prev # NULL => h[x].prev \in C /\ h[h[x].prev].next = x
          /\ h[x].next # NULL => /\ h[x].next = x + h[x].length
                                 /\ h[x].next \in C
                                 /\ h[h[x].next].prev = x
      BY DEF Links
    <3>2. h[x].next = NULL => x = p
      <4>1. h[x].next = NULL => p <= x
        BY <1>2 DEF Links
      <4> QED BY <1>2, <2>1, <4>1
    <3>3. h[x].prev # NULL => h[x].prev # p
      BY <1>2, <2>1, <3>1
    <3>4. CASE x = p
      BY <1>2, <2>2, <2>3, <3>1, <3>3, <3>4
    <3>5. CASE x # p
      BY <2>2, <3>1, <3>2, <3>3, <3>5
    <3> QED BY <3>4, <3>5
  <2>5. ASSUME NEW x \in C
        PROVE  /\ x \in Nat /\ x >= HEAP_START
               /\ k[x].length \in Nat /\ k[x].length >= HDR
               /\ \A y \in C \union {c} : x < y => x + k[x].length <= y
    <3>1. /\ x \in Nat /\ x >= HEAP_START /\ h[x].length \in Nat /\ h[x].length >= HDR
          /\ \A y \in C : x < y => x + h[x].length <= y
      BY DEF Links
    <3> QED BY <2>1, <2>2, <3>1
  <2>6. /\ k[c].prev # NULL /\ c # HEAP_START /\ k[c].prev \in C /\ k[k[c].prev].next = c
        /\ \A y \in C \union {c} : y <= c
    BY <1>2, <2>1, <2>2, <2>3
  <2>7. HEAP_START \in C /\ C \union {c} \subseteq DOMAIN k
    BY <1>2 DEF Links
  <2>8. c >= HEAP_START
    BY <2>3, Sizes
  <2>9. \A y \in C \union {c} : ~(c < y)
    BY <2>1
  <2> QED BY <2>4, <2>5, <2>6, <2>7, <2>8, <2>9 DEF Links
<1> QED BY <1>1, <1>2
-----------------------------------------------------------------------------
(***************************************************************************)
(* The invariant of a heap without a misplaced header.                     *)
(***************************************************************************)
\* The last chunk ends in the last page.
Full == /\ chunks = {} => heap_max = HEAP_START
        /\ \A x \in chunks : hdr[x].next = NULL => End(x) > heap_max - PAGE

Scan == /\ cur_header \in chunks \union {NULL}
        /\ IF prev_header = NULL THEN cur_header = heap_first
           ELSE prev_header \in chunks /\ hdr[prev_header].next = cur_header

\* What kmalloc appends begins where the last chunk ends, and it never maps a page
\* more than that takes.
Grow == /\ IF prev_header = NULL THEN chunks = {} /\ cur_header = HEAP_START
           ELSE /\ prev_header \in chunks /\ hdr[prev_header].next = NULL
                /\ cur_header = End(prev_header)
        /\ cur_header + req < WORD
        /\ heap_max - PAGE < cur_header + req

\* What kfree takes off the end begins where the last chunk that stays ends.
Shrink == /\ chunks = {} => cur_header = HEAP_START
          /\ \A x \in chunks : /\ End(x) <= cur_header
                               /\ hdr[x].next = NULL => End(x) = cur_header
          /\ cur_header <= heap_max

Heap ==
  /\ Links(hdr, chunks) /\ Closed(hdr, chunks) /\ Owned(hdr, chunks, live)
  /\ \A x \in chunks : End(x) <= heap_max
  /\ heap_first = IF chunks = {} /\ pc \notin {"grow", "oom"} THEN NULL ELSE HEAP_START
  /\ pc # "wild"
  /\ pc \in {"idle", "scan"} => Full
  /\ pc \in {"scan", "grow"} => req = asked + HDR
  /\ pc = "scan" => Scan
  /\ pc = "grow" => Grow
  /\ pc = "shrink" => Shrink

IInv == Types /\ Paging /\ (Sound => Heap)

\* A heap stays as it is once its headers are misplaced.
LEMMA SoundBefore ==
  ASSUME Types, [Next]_vars, Sound'
  PROVE  Sound
<1>1. wrapped \in BOOLEAN /\ split \in Nat /\ ~wrapped' /\ split' = 0
  BY DEF Types, Sound
<1>2. CASE Reuse
  BY <1>1, <1>2 DEF Reuse, Sound, request
<1>3. CASE Extend
  BY <1>1, <1>3 DEF Extend, Sound
<1>4. CASE ScanNext \/ ScanWild \/ GrowPage \/ Append \/ AppendWild \/ ShrinkPage \/ ShrinkDone
           \/ UNCHANGED vars
  <2>1. wrapped' = wrapped /\ split' = split
    BY <1>4 DEF ScanNext, ScanWild, Wild, GrowPage, Append, AppendWild, ShrinkPage,
       ShrinkDone, request, vars
  <2> QED BY <1>1, <2>1 DEF Sound
<1>5. CASE \E l \in Requests : Kmalloc(l)
  BY <1>1, <1>5 DEF Kmalloc, Call, Sound
<1>6. CASE \E b \in live : Kfree(b) \/ KfreeWild(b)
  <2>1. Call
    BY <1>6 DEF Kfree, KfreeWild
  <2> QED BY <1>1, <2>1 DEF Call, Sound
<1> QED BY <1>2, <1>3, <1>4, <1>5, <1>6 DEF Next, Step

\* Heap depends on this much of the state.
LEMMA HeapKept ==
  ASSUME Heap, UNCHANGED <<hdr, chunks, live, heap_max, heap_first>>
  PROVE  /\ Links(hdr, chunks)' /\ Closed(hdr, chunks)' /\ Owned(hdr, chunks, live)'
         /\ (\A x \in chunks : End(x) <= heap_max)'
         /\ Full => Full'
BY DEF Heap, Links, Closed, Owned, Full, End, Length

LEMMA ScanSteps ==
  ASSUME Types, Sound, Heap, Sound', ScanNext \/ Reuse \/ ScanWild \/ Extend
  PROVE  Heap'
<1> DEFINE c == cur_header
<1>1. /\ pc = "scan" /\ Scan /\ Full /\ Links(hdr, chunks) /\ Closed(hdr, chunks)
      /\ Owned(hdr, chunks, live) /\ req = asked + HDR
      /\ heap_first = IF chunks = {} THEN NULL ELSE HEAP_START
      /\ \A x \in chunks : End(x) <= heap_max
  BY DEF Heap, ScanNext, Reuse, ScanWild, Extend, Scanning
<1>2. c # NULL => c \in chunks /\ Readable(c) /\ hdr[c].length \in Nat
  BY <1>1 DEF Scan, Links, Readable
<1>3. CASE ScanNext
  <2>1. /\ prev_header' = c /\ cur_header' = hdr[c].next /\ c \in chunks /\ pc' = "scan"
        /\ UNCHANGED <<hdr, chunks, live, heap_max, heap_first, req, asked>>
    BY <1>2, <1>3 DEF ScanNext, Scanning, paging, request
  <2>2. hdr[c].next \in chunks \union {NULL} /\ c # NULL
    BY <1>1, <2>1, NotNull DEF Links
  <2>3. Scan'
    BY <2>1, <2>2 DEF Scan
  <2> QED BY <1>1, <2>1, <2>3, HeapKept DEF Heap
<1>4. CASE Reuse
  <2>1. c \in chunks /\ ~hdr[c].allocated /\ hdr[c].length >= req /\ hdr[c] \in HeaderSet
    BY <1>2, <1>4 DEF Reuse, Scanning, Fits, Readable, Types
  <2>2. ~MustSplit(c)
    BY <1>4 DEF Reuse, Sound
  <2>3. /\ hdr' = [hdr EXCEPT ![c].allocated = TRUE]
        /\ live' = live \union {Block(c)} /\ pc' = "idle"
        /\ UNCHANGED <<chunks, heap_max, heap_first>>
    BY <1>4, <2>2 DEF Reuse, paging
  <2>4. /\ DOMAIN hdr' = DOMAIN hdr
        /\ \A x \in chunks : /\ hdr'[x].length = hdr[x].length /\ hdr'[x].next = hdr[x].next
                             /\ hdr'[x].prev = hdr[x].prev
                             /\ hdr'[x].allocated = (x = c \/ hdr[x].allocated)
    <3>1. chunks \subseteq DOMAIN hdr /\ hdr \in [DOMAIN hdr -> HeaderSet]
      BY <1>1 DEF Links, Types
    <3> QED BY <2>1, <2>3, <3>1 DEF HeaderSet
  <2>5. chunks \subseteq DOMAIN hdr' /\ Links(hdr', chunks)
    <3>1. chunks \subseteq DOMAIN hdr'
      BY <1>1, <2>4 DEF Links
    <3> QED BY <1>1, <2>4, <3>1, SameLinks
  <2>6. Closed(hdr', chunks)
    <3> SUFFICES ASSUME NEW x \in chunks, ~hdr'[x].allocated
                 PROVE  hdr'[x].next # NULL /\ hdr'[hdr'[x].next].allocated
      BY DEF Closed
    <3>1. hdr[x].next # NULL /\ hdr[hdr[x].next].allocated
      BY <1>1, <2>4 DEF Closed
    <3>2. hdr[x].next \in chunks
      BY <1>1, <3>1 DEF Links
    <3> QED BY <2>4, <3>1, <3>2
  <2>7. Owned(hdr', chunks, live')
    <3>1. /\ \A b \in live : /\ b.ptr - HDR \in chunks /\ hdr[b.ptr - HDR].allocated
                             /\ hdr[b.ptr - HDR].length >= b.len + HDR
                             /\ b.ptr \in Nat
          /\ \A b, d \in live : b.ptr = d.ptr => b = d
          /\ \A x \in chunks : hdr[x].allocated => \E b \in live : b.ptr = x + HDR
      BY <1>1 DEF Owned, Types
    <3>2. Block(c).ptr = c + HDR /\ Block(c).ptr - HDR = c /\ Block(c).len = asked
      BY <1>1, <2>1, Sizes DEF Block, Links
    <3>3. \A b \in live : b.ptr # c + HDR
      <4> SUFFICES ASSUME NEW b \in live, b.ptr = c + HDR PROVE FALSE
        OBVIOUS
      <4>1. b.ptr - HDR = c
        BY <1>1, <2>1, Sizes DEF Links
      <4> QED BY <2>1, <3>1, <4>1
    <3>4. \A b \in live' : /\ b.ptr - HDR \in chunks /\ hdr'[b.ptr - HDR].allocated
                           /\ hdr'[b.ptr - HDR].length >= b.len + HDR
      <4>1. \A b \in live : /\ b.ptr - HDR \in chunks /\ hdr'[b.ptr - HDR].allocated
                            /\ hdr'[b.ptr - HDR].length >= b.len + HDR
        BY <2>4, <3>1
      <4>2. hdr'[c].allocated /\ hdr'[c].length >= asked + HDR
        BY <1>1, <2>1, <2>4
      <4> QED BY <2>1, <2>3, <3>2, <4>1, <4>2
    <3>5. \A b, d \in live' : b.ptr = d.ptr => b = d
      BY <2>3, <3>1, <3>2, <3>3
    <3>6. \A x \in chunks : hdr'[x].allocated => \E b \in live' : b.ptr = x + HDR
      BY <2>3, <2>4, <3>1, <3>2
    <3> QED BY <3>4, <3>5, <3>6 DEF Owned
  <2>8. Full' /\ \A x \in chunks' : End(x)' <= heap_max'
    BY <1>1, <2>3, <2>4 DEF Full, End, Length
  <2> QED BY <1>1, <2>3, <2>5, <2>6, <2>7, <2>8 DEF Heap
<1>5. CASE ScanWild
  <2>1. c # NULL /\ c \in chunks /\ Readable(c)
    BY <1>2, <1>5 DEF ScanWild, Scanning
  <2>2. Fits(c) /\ MustSplit(c) /\ NewChunk(c) + HDR > heap_max
    BY <1>5, <2>1 DEF ScanWild
  <2>3. hdr[c].next # NULL /\ hdr[c].next \in chunks /\ hdr[c].next = NewChunk(c)
    BY <1>1, <2>1, <2>2 DEF Fits, Closed, Links, NewChunk
  <2>4. NewChunk(c) + hdr[NewChunk(c)].length <= heap_max
        /\ hdr[NewChunk(c)].length >= HDR /\ hdr[NewChunk(c)].length \in Nat
        /\ NewChunk(c) \in Nat
    BY <1>1, <2>3 DEF End, Length, Links
  <2> QED BY <2>2, <2>4, Sizes DEF Types
<1>6. CASE Extend
  <2>1. /\ c = NULL /\ pc' = "grow" /\ cur_header' + req < WORD
        /\ UNCHANGED <<hdr, heap_max, paging, req, asked, prev_header, live, chunks>>
    <3>1. cur_header' \in Nat /\ req \in Nat
      BY <1>1, <1>6, Sizes DEF Extend, Scan, Types, Links
    <3>2. ~(cur_header' + req >= WORD)
      BY <1>6 DEF Extend, Sound
    <3>3. cur_header' + req < WORD
      <4>1. \A i, j \in Nat : ~(i >= j) => i < j
        OBVIOUS
      <4>2. \A i, j \in Nat : i + j \in Nat
        OBVIOUS
      <4>3. cur_header' + req \in Nat /\ WORD \in Nat
        BY <3>1, <4>2, Sizes, Zenon
      <4> QED BY <3>2, <4>1, <4>3, Zenon
    <3> QED BY <1>6, <3>3 DEF Extend
  <2>2. CASE prev_header = NULL
    <3>1. heap_first = NULL /\ chunks = {}
      BY <1>1, <2>1, <2>2, Sizes DEF Scan, NULL
    <3>2. cur_header' = HEAP_START /\ heap_first' = HEAP_START /\ heap_max = HEAP_START
      BY <1>1, <1>6, <2>2, <3>1 DEF Extend, Full
    <3>3. heap_max' - PAGE < cur_header' + req'
      BY <2>1, <3>2, Sizes DEF Types
    <3>4. Grow'
      BY <2>1, <2>2, <3>1, <3>2, <3>3 DEF Grow
    <3> QED BY <1>1, <2>1, <3>1, <3>2, <3>4, Sizes DEF Heap, Links, Closed, Owned
  <2>3. CASE prev_header # NULL
    <3>1. prev_header \in chunks /\ hdr[prev_header].next = NULL
      BY <1>1, <2>1, <2>3 DEF Scan
    <3>2. cur_header' = End(prev_header) /\ heap_first' = heap_first
      BY <1>6, <2>3 DEF Extend, End, Length
    <3>3. End(prev_header) > heap_max - PAGE /\ End(prev_header) \in Nat
      BY <1>1, <3>1 DEF Full, Links, End, Length
    <3>4. heap_max' - PAGE < cur_header' + req'
      BY <2>1, <3>2, <3>3, Sizes DEF Types
    <3>5. Grow'
      BY <2>1, <2>3, <3>1, <3>2, <3>4 DEF Grow, End, Length
    <3> QED BY <1>1, <2>1, <3>1, <3>2, <3>5, HeapKept DEF Heap
  <2> QED BY <2>2, <2>3
<1> QED BY <1>3, <1>4, <1>5, <1>6

\* In a heap without misplaced headers nothing wraps, so a chunk's end is its end.
LEMMA NotWrapped ==
  ASSUME Types, Heap, pc = "grow"
  PROVE  /\ ChunkEnd = cur_header + req /\ cur_header >= HEAP_START /\ req >= HDR
         /\ req % (WORD \div 2) = req
<1>1. cur_header + req < WORD /\ req = asked + HDR /\ cur_header >= HEAP_START
      /\ cur_header \in Nat /\ req \in Nat /\ asked \in Nat
  BY DEF Heap, Grow, Types, Addr
<1>2. ChunkEnd = cur_header + req
  BY <1>1, Sizes DEF ChunkEnd
<1>3. req < WORD \div 2 /\ WORD \div 2 \in Nat
  BY <1>1, Sizes
<1>4. \A m \in Nat : req < m => req % m = req
  BY <1>1
<1>5. req % (WORD \div 2) = req
  BY <1>3, <1>4
<1> QED BY <1>1, <1>2, <1>5, Sizes

LEMMA GrowSteps ==
  ASSUME Types, Sound, Heap, Sound', GrowPage \/ Append \/ AppendWild
  PROVE  Heap'
<1>1. /\ pc = "grow" /\ Grow /\ Links(hdr, chunks) /\ Closed(hdr, chunks)
      /\ Owned(hdr, chunks, live) /\ req = asked + HDR /\ heap_first = HEAP_START
      /\ \A x \in chunks : End(x) <= heap_max
  BY DEF Heap, GrowPage, Append, AppendWild
<1>2. /\ ChunkEnd = cur_header + req /\ cur_header >= HEAP_START /\ req >= HDR
      /\ req % (WORD \div 2) = req /\ cur_header \in Nat /\ req \in Nat /\ heap_max \in Nat
  BY <1>1, NotWrapped DEF Types, Addr
<1>3. CASE GrowPage
  <2>1. /\ UNCHANGED <<hdr, heap_first, req, asked, cur_header, prev_header, live, chunks>>
        /\ \/ pc' = "oom" /\ heap_max' = heap_max
           \/ pc' = "grow" /\ heap_max' = heap_max + PAGE
        /\ cur_header + req > heap_max
    BY <1>1, <1>2, <1>3 DEF GrowPage, request, paging
  <2>2. Links(hdr, chunks)' /\ Closed(hdr, chunks)' /\ Owned(hdr, chunks, live)'
    BY <1>1, <2>1 DEF Links, Closed, Owned
  <2>3. \A x \in chunks : End(x) \in Nat
    BY <1>1 DEF Links, End, Length
  <2>4. (\A x \in chunks : End(x) <= heap_max)'
    BY <1>1, <1>2, <2>1, <2>3, Sizes DEF End, Length
  <2>5. pc' = "grow" => Grow'
    <3>1. pc' = "grow" => heap_max' - PAGE = heap_max
      BY <1>2, <2>1, Sizes
    <3> QED BY <1>1, <2>1, <3>1 DEF Grow, End, Length
  <2> QED BY <1>1, <2>1, <2>2, <2>4, <2>5 DEF Heap
<1>4. CASE Append
  <2> DEFINE c == cur_header
             p == prev_header
             n == [prev |-> p, next |-> NULL, allocated |-> TRUE,
                   length |-> req % (WORD \div 2)]
             s == Store(hdr, c, n)
  <2>1. /\ hdr' = [s EXCEPT ![p].next = c]
        /\ live' = live \union {Block(c)} /\ chunks' = chunks \union {c} /\ pc' = "idle"
        /\ UNCHANGED <<heap_first, heap_max>>
        /\ c + req <= heap_max
    BY <1>2, <1>4 DEF Append, paging
  <2>2. n.prev = p /\ n.next = NULL /\ n.allocated = TRUE /\ n.length = req
    BY <1>2
  <2>3. /\ DOMAIN s = DOMAIN hdr \union {c} /\ s[c] = n
        /\ \A x \in DOMAIN hdr \ {c} : s[x] = hdr[x]
    BY DEF Store
  <2>4. p # c /\ (p # NULL => p \in chunks /\ p < c)
    BY <1>1, <1>2, Sizes DEF Grow, Links, End, Length, NULL
  <2> HIDE DEF s, n
  <2>5. n \in HeaderSet /\ \A x \in DOMAIN hdr : hdr[x] \in HeaderSet
    <3>1. n = [prev |-> p, next |-> NULL, allocated |-> TRUE, length |-> req]
      BY <1>2 DEF n
    <3> QED BY <1>2, <3>1 DEF Types, HeaderSet, Addr
  <2>6. /\ DOMAIN hdr' = DOMAIN hdr \union {c}
        /\ hdr'[c] = n
        /\ \A x \in DOMAIN hdr \ {NULL, c} :
             /\ hdr'[x].length = hdr[x].length /\ hdr'[x].prev = hdr[x].prev
             /\ hdr'[x].allocated = hdr[x].allocated
             /\ hdr'[x].next = IF x = p THEN c ELSE hdr[x].next
    BY <2>1, <2>3, <2>4, <2>5 DEF HeaderSet
  <2>7. \/ chunks = {} /\ p = NULL /\ c = HEAP_START
        \/ p \in chunks /\ hdr[p].next = NULL /\ c = p + hdr[p].length
    BY <1>1 DEF Grow, End, Length
  <2>8. Links(hdr', chunks \union {c})
    <3>1. /\ hdr'[c].prev = p /\ hdr'[c].next = NULL
          /\ hdr'[c].length \in Nat /\ hdr'[c].length >= HDR
      BY <1>2, <2>2, <2>6
    <3>2. Pushed(hdr, hdr', chunks, p, c)
      BY <1>2, <2>6, <2>7, <3>1 DEF Pushed
    <3> QED BY <1>1, <3>2, Push
  <2>9. \A x \in chunks : x \in Nat /\ x # NULL /\ x # c /\ x < c /\ x + hdr[x].length <= c
                          /\ hdr[x].length \in Nat /\ x \in DOMAIN hdr \ {NULL, c}
    <3> SUFFICES ASSUME NEW x \in chunks
                 PROVE  x \in Nat /\ x # NULL /\ x # c /\ x < c /\ x + hdr[x].length <= c
                          /\ hdr[x].length \in Nat /\ x \in DOMAIN hdr \ {NULL, c}
      OBVIOUS
    <3>1. p \in chunks /\ hdr[p].next = NULL /\ c = p + hdr[p].length
      BY <2>7
    <3>2. x \in Nat /\ x # NULL /\ hdr[x].length \in Nat /\ x <= p /\ hdr[p].length >= HDR
          /\ (x < p => x + hdr[x].length <= p) /\ x \in DOMAIN hdr
          /\ p \in Nat /\ hdr[p].length \in Nat
      BY <1>1, <3>1, NotNull DEF Links
    <3> QED BY <3>1, <3>2, Sizes
  <2>10. Closed(hdr', chunks')
    <3> SUFFICES ASSUME NEW x \in chunks', ~hdr'[x].allocated
                 PROVE  hdr'[x].next # NULL /\ hdr'[hdr'[x].next].allocated
      BY DEF Closed
    <3>1. x \in chunks /\ ~hdr[x].allocated
      BY <2>1, <2>2, <2>6, <2>9, ZenonT(30)
    <3>2. hdr[x].next # NULL /\ hdr[hdr[x].next].allocated /\ hdr[x].next \in chunks
      BY <1>1, <3>1 DEF Closed, Links
    <3>3. x # p
      BY <2>4, <2>7, <3>1, <3>2
    <3> QED BY <2>6, <2>9, <3>1, <3>2, <3>3
  <2>11. Owned(hdr', chunks', live')
    <3>1. /\ \A b \in live : /\ b.ptr - HDR \in chunks /\ hdr[b.ptr - HDR].allocated
                             /\ hdr[b.ptr - HDR].length >= b.len + HDR
                             /\ b.ptr \in Nat
          /\ \A b, d \in live : b.ptr = d.ptr => b = d
          /\ \A x \in chunks : hdr[x].allocated => \E b \in live : b.ptr = x + HDR
      BY <1>1 DEF Owned, Types
    <3>2. Block(c).ptr = c + HDR /\ Block(c).ptr - HDR = c /\ Block(c).len = asked
      BY <1>2, Sizes DEF Block
    <3>3. \A b \in live : b.ptr # c + HDR
      <4> SUFFICES ASSUME NEW b \in live, b.ptr = c + HDR PROVE FALSE
        OBVIOUS
      <4>1. b.ptr - HDR = c
        BY <1>2, Sizes
      <4> QED BY <2>9, <3>1, <4>1
    <3>4. \A b \in live' : /\ b.ptr - HDR \in chunks' /\ hdr'[b.ptr - HDR].allocated
                           /\ hdr'[b.ptr - HDR].length >= b.len + HDR
      <4>1. \A b \in live : /\ b.ptr - HDR \in chunks' /\ hdr'[b.ptr - HDR].allocated
                            /\ hdr'[b.ptr - HDR].length >= b.len + HDR
        BY <2>1, <2>6, <2>9, <3>1
      <4>2. hdr'[c].length >= asked + HDR /\ c \in chunks'
        <5>1. hdr'[c].length = req /\ c \in chunks'
          BY <2>1, <2>2, <2>6
        <5> QED BY <1>1, <1>2, <5>1
      <4>3. hdr'[c].allocated
        BY <2>2, <2>6
      <4> QED BY <2>1, <3>2, <4>1, <4>2, <4>3
    <3>5. \A b, d \in live' : b.ptr = d.ptr => b = d
      BY <2>1, <3>1, <3>2, <3>3
    <3>6. \A x \in chunks' : hdr'[x].allocated => \E b \in live' : b.ptr = x + HDR
      BY <2>1, <2>6, <2>9, <3>1, <3>2
    <3> QED BY <3>4, <3>5, <3>6 DEF Owned
  <2>12. (\A x \in chunks : End(x) <= heap_max)'
    <3>1. \A x \in chunks : x + hdr'[x].length <= heap_max
      BY <1>1, <2>6, <2>9 DEF End, Length
    <3>2. c + hdr'[c].length <= heap_max
      BY <2>1, <2>2, <2>6
    <3> QED BY <2>1, <3>1, <3>2 DEF End, Length
  <2>13. Full'
    <3>1. chunks' # {}
      BY <2>1
    <3>2. ASSUME NEW x \in chunks', hdr'[x].next = NULL
          PROVE  x + hdr'[x].length > heap_max - PAGE
      <4>1. c <= x /\ c \in chunks'
        BY <2>1, <2>8, <3>2 DEF Links
      <4>2. x = c
        BY <2>1, <2>9, <4>1, <1>2
      <4> QED BY <1>1, <1>2, <2>2, <2>6, <4>2, Sizes DEF Grow
    <3> QED BY <2>1, <3>1, <3>2 DEF Full, End, Length
  <2>14. heap_first' = HEAP_START /\ chunks' # {}
    BY <1>1, <2>1
  <2> QED BY <2>1, <2>8, <2>10, <2>11, <2>12, <2>13, <2>14 DEF Heap
<1>5. CASE AppendWild
  BY <1>2, <1>5, Sizes DEF AppendWild
<1> QED BY <1>3, <1>4, <1>5
-----------------------------------------------------------------------------
(***************************************************************************)
(* kfree: the two merges, and the chunk that goes if it is the last.       *)
(***************************************************************************)
LEMMA GlueNextMerges ==
  ASSUME NEW D, NEW h \in [D -> HeaderSet], NEW C, Links(h, C), NEW c \in C,
         FreeAt(h, h[c].next)
  PROVE  Merged(h, GlueNext(h, c), c, h[c].next)
<1> DEFINE n == h[c].next
           m == h[n].next
<1>1. n \in C /\ n # c /\ c \in D \ {NULL} /\ n \in D \ {NULL} /\ n # NULL
  <2>1. n # NULL /\ n \in C /\ n = c + h[c].length
    BY DEF FreeAt, Links
  <2>2. c \in Nat /\ h[c].length \in Nat /\ h[c].length > 0
    BY Sizes DEF Links
  <2>3. DOMAIN h = D
    OBVIOUS
  <2>4. \A x \in C : x \in D \ {NULL}
    BY <2>3, NotNull
  <2> QED BY <2>1, <2>2, <2>4
<1>2. m # c /\ (m # NULL => m \in D)
  <2>1. h[c].prev # n
    BY <1>1, Sizes DEF Links, FreeAt
  <2>2. m # NULL => m \in C /\ h[m].prev = n
    BY <1>1 DEF Links
  <2> QED BY <1>1, <2>1, <2>2, NotNull
<1>3. GlueNext(h, c) = [h EXCEPT ![c].length = @ + h[n].length, ![m].prev = c, ![c].next = m]
  BY DEF GlueNext
<1> HIDE DEF n, m
<1>4. h[c] \in HeaderSet /\ h[n] \in HeaderSet /\ \A x \in D : h[x] \in HeaderSet
  BY <1>1
<1>5. Merged(h, GlueNext(h, c), c, n)
  BY <1>1, <1>2, <1>3, <1>4 DEF Merged, HeaderSet, m
<1> QED BY <1>5 DEF n

LEMMA GluePrevMerges ==
  ASSUME NEW D, NEW h \in [D -> HeaderSet], NEW C, Links(h, C), NEW c \in C,
         FreeAt(h, h[c].prev)
  PROVE  /\ Merged(h, GluePrev(h, c), h[c].prev, c)
         /\ h[c].prev \in C /\ h[h[c].prev].next = c /\ h[c].prev # c
<1> DEFINE p == h[c].prev
           m == h[c].next
<1>1. p \in C /\ h[p].next = c /\ p # c /\ c \in D \ {NULL} /\ p \in D \ {NULL} /\ p # NULL
  <2>1. p # NULL /\ p \in C /\ h[p].next = c
    BY DEF FreeAt, Links
  <2>2. c = p + h[p].length /\ p \in Nat /\ h[p].length \in Nat /\ h[p].length > 0
    BY <2>1, NotNull, Sizes DEF Links
  <2>3. DOMAIN h = D
    OBVIOUS
  <2>4. \A x \in C : x \in D \ {NULL}
    BY <2>3, NotNull
  <2> QED BY <2>1, <2>2, <2>4
<1>2. m # p /\ (m # NULL => m \in D)
  <2>1. h[p].prev # c
    BY <1>1, Sizes DEF Links
  <2>2. m # NULL => m \in C /\ h[m].prev = c
    BY DEF Links
  <2> QED BY <1>1, <2>1, <2>2, NotNull
<1>3. GluePrev(h, c) = [h EXCEPT ![p].length = @ + h[c].length, ![p].next = m, ![m].prev = p]
  BY DEF GluePrev
<1> HIDE DEF p, m
<1>4. h[c] \in HeaderSet /\ h[p] \in HeaderSet /\ \A x \in D : h[x] \in HeaderSet
  BY <1>1
<1>5. Merged(h, GluePrev(h, c), p, c)
  BY <1>1, <1>2, <1>3, <1>4 DEF Merged, HeaderSet, m
<1> QED BY <1>1, <1>5 DEF p

\* Chunk c is free and every other free chunk is followed by c or an allocated one.
ClosedBut(h, C, c) ==
  /\ \A x \in C \ {c} : ~h[x].allocated =>
       h[x].next # NULL /\ (h[h[x].next].allocated \/ h[x].next = c)
  /\ c \in C /\ ~h[c].allocated

\* The chunks B in k cover what the chunks C did in h, and the allocated ones are there.
Kept(h, k, C, B) ==
  /\ B \subseteq C
  /\ \A x \in C : h[x].allocated => x \in B
  /\ \A x \in B : /\ k[x].allocated = h[x].allocated
                  /\ h[x].allocated => k[x].length = h[x].length
                  /\ \E y \in C : /\ x + k[x].length = y + h[y].length
                                  /\ k[x].next = NULL => h[y].next = NULL

LEMMA KeptSame == ASSUME NEW h, NEW C PROVE Kept(h, h, C, C)
BY DEF Kept

LEMMA KeptTwice ==
  ASSUME NEW h, NEW k, NEW l, NEW C, NEW B, NEW A, Kept(h, k, C, B), Kept(k, l, B, A)
  PROVE  Kept(h, l, C, A)
<1>1. A \subseteq C /\ \A x \in C : h[x].allocated => x \in A
  BY DEF Kept
<1>2. ASSUME NEW x \in A
      PROVE  /\ l[x].allocated = h[x].allocated
             /\ h[x].allocated => l[x].length = h[x].length
             /\ \E y \in C : /\ x + l[x].length = y + h[y].length
                             /\ l[x].next = NULL => h[y].next = NULL
  <2>1. x \in B /\ l[x].allocated = k[x].allocated /\ k[x].allocated = h[x].allocated
    BY DEF Kept
  <2>2. PICK y \in B : /\ x + l[x].length = y + k[y].length
                       /\ l[x].next = NULL => k[y].next = NULL
    BY DEF Kept
  <2>3. PICK z \in C : /\ y + k[y].length = z + h[z].length
                       /\ k[y].next = NULL => h[z].next = NULL
    BY DEF Kept
  <2>4. h[x].allocated => l[x].length = h[x].length
    BY <2>1 DEF Kept
  <2> QED BY <2>1, <2>2, <2>3, <2>4
<1> QED BY <1>1, <1>2 DEF Kept

LEMMA MergeKeeps ==
  ASSUME NEW h, NEW k, NEW C, Links(h, C), NEW a \in C, NEW n \in C, h[a].next = n,
         Merged(h, k, a, n), ~h[a].allocated, ~h[n].allocated
  PROVE  Kept(h, k, C, C \ {n})
<1>1. \A x \in C : /\ k[x].allocated = h[x].allocated
                   /\ k[x].length = IF x = a THEN h[a].length + h[n].length ELSE h[x].length
                   /\ k[x].next = IF x = a THEN h[n].next ELSE h[x].next
  BY NotNull DEF Merged
<1>2. n = a + h[a].length /\ a \in Nat /\ h[a].length \in Nat /\ h[n].length \in Nat
  BY NotNull DEF Links
<1>3. ASSUME NEW x \in C \ {n}
      PROVE  \E y \in C : /\ x + k[x].length = y + h[y].length
                          /\ k[x].next = NULL => h[y].next = NULL
  <2>1. CASE x = a
    <3>1. x + k[x].length = n + h[n].length /\ k[x].next = h[n].next
      BY <1>1, <1>2, <2>1
    <3> QED BY <3>1
  <2>2. CASE x # a
    BY <1>1, <2>2
  <2> QED BY <2>1, <2>2
<1>4. \A x \in C : h[x].allocated => x \in C \ {n}
  OBVIOUS
<1>5. \A x \in C \ {n} : /\ k[x].allocated = h[x].allocated
                         /\ h[x].allocated => k[x].length = h[x].length
  BY <1>1
<1> QED BY <1>3, <1>4, <1>5 DEF Kept

\* The first merge leaves no free chunk behind c ...
LEMMA FirstMerge ==
  ASSUME NEW D, NEW h \in [D -> HeaderSet], NEW C, NEW c, Links(h, C), ClosedBut(h, C, c),
         NEW k, k = GlueNext(h, c),
         NEW B, B = C \ {a \in C : a = h[c].next /\ FreeAt(h, a)}
  PROVE  /\ Links(k, B) /\ Kept(h, k, C, B) /\ ClosedBut(k, B, c)
         /\ k[c].next # NULL => k[c].next \in B /\ k[k[c].next].allocated
<1> DEFINE n == h[c].next
<1>1. c \in C /\ ~h[c].allocated /\ (n # NULL => n \in C /\ n # c)
  <2>1. n # NULL => n \in C /\ n = c + h[c].length /\ h[c].length > 0
    BY Sizes DEF ClosedBut, Links
  <2>2. c \in Nat /\ h[c].length \in Nat
    BY DEF ClosedBut, Links
  <2> QED BY <2>1, <2>2 DEF ClosedBut
<1>2. CASE FreeAt(h, n)
  <2>1. n \in C /\ n # c /\ ~h[n].allocated
    BY <1>1, <1>2 DEF FreeAt
  <2>2. B = C \ {n}
    BY <1>2, <2>1
  <2>3. Merged(h, k, c, n)
    BY <1>1, <1>2, GlueNextMerges
  <2>4. Links(k, B) /\ Kept(h, k, C, B)
    BY <1>1, <2>1, <2>2, <2>3, Absorb, MergeKeeps
  <2>5. \A x \in C : /\ k[x].allocated = h[x].allocated
                     /\ k[x].next = IF x = c THEN h[n].next ELSE h[x].next
    BY <2>3, NotNull DEF Merged
  <2>6. h[n].next # NULL /\ h[n].next \in C /\ h[n].next # c /\ h[n].next # n
        /\ h[h[n].next].allocated
    <3>1. h[n].next # NULL /\ (h[h[n].next].allocated \/ h[n].next = c)
      BY <2>1 DEF ClosedBut
    <3>2. h[n].next \in C /\ h[n].next = n + h[n].length /\ n = c + h[c].length
      BY <1>1, <1>2, <2>1, <3>1 DEF Links, FreeAt
    <3>3. c \in Nat /\ h[c].length \in Nat /\ h[n].length \in Nat
          /\ h[c].length > 0 /\ h[n].length > 0
      BY <1>1, <2>1, Sizes DEF Links
    <3> QED BY <3>1, <3>2, <3>3
  <2>7. ASSUME NEW x \in B \ {c}, ~k[x].allocated
        PROVE  k[x].next # NULL /\ (k[k[x].next].allocated \/ k[x].next = c)
    <3>1. h[x].next # NULL /\ (h[h[x].next].allocated \/ h[x].next = c) /\ x \in C
      BY <2>2, <2>5, <2>7 DEF ClosedBut
    <3>2. h[x].next \in C
      BY <3>1 DEF Links
    <3> QED BY <2>5, <2>7, <3>1, <3>2
  <2>8. ClosedBut(k, B, c)
    BY <1>1, <2>1, <2>2, <2>5, <2>7 DEF ClosedBut
  <2>9. k[c].next \in B /\ k[k[c].next].allocated
    BY <1>1, <2>2, <2>5, <2>6
  <2> QED BY <2>4, <2>8, <2>9
<1>3. CASE ~FreeAt(h, n)
  <2>1. k = h /\ B = C
    BY <1>3 DEF GlueNext
  <2>2. n # NULL => n \in C /\ h[n].allocated
    BY <1>1, <1>3 DEF FreeAt
  <2> QED BY <2>1, <2>2, KeptSame
<1> QED BY <1>2, <1>3

\* ... and the second none before what it leaves free, g.
LEMMA SecondMerge ==
  ASSUME NEW D, NEW h \in [D -> HeaderSet], NEW C, NEW c, Links(h, C), ClosedBut(h, C, c),
         h[c].next # NULL => h[c].next \in C /\ h[h[c].next].allocated,
         NEW k, k = GluePrev(h, c), NEW g, g = Glued(h, c),
         NEW B, B = C \ {a \in C : a = c /\ g # c}
  PROVE  /\ Links(k, B) /\ Kept(h, k, C, B)
         /\ g \in B /\ ~k[g].allocated
         /\ \A x \in B \ {g} : ~k[x].allocated => k[x].next # NULL /\ k[k[x].next].allocated
         /\ k[g].next # NULL => k[k[g].next].allocated
<1> DEFINE p == h[c].prev
<1>1. c \in C /\ ~h[c].allocated
  BY DEF ClosedBut
<1>2. CASE FreeAt(h, p)
  <2>1. /\ Merged(h, k, p, c) /\ p \in C /\ h[p].next = c /\ p # c /\ g = p
        /\ ~h[p].allocated
    BY <1>1, <1>2, GluePrevMerges DEF Glued, FreeAt
  <2>2. B = C \ {c}
    BY <2>1
  <2>3. Links(k, B) /\ Kept(h, k, C, B)
    BY <1>1, <2>1, <2>2, Absorb, MergeKeeps
  <2>4. \A x \in C : /\ k[x].allocated = h[x].allocated
                     /\ k[x].next = IF x = p THEN h[c].next ELSE h[x].next
    BY <2>1, NotNull DEF Merged
  <2>5. ASSUME NEW x \in B \ {g}, ~k[x].allocated
        PROVE  k[x].next # NULL /\ k[k[x].next].allocated
    <3>1. x \in C \ {c} /\ x # p /\ ~h[x].allocated
      BY <2>1, <2>2, <2>4, <2>5
    <3>2. h[x].next # NULL /\ (h[h[x].next].allocated \/ h[x].next = c)
      BY <3>1 DEF ClosedBut
    <3>3. h[x].next \in C /\ h[h[x].next].prev = x
      BY <3>1, <3>2 DEF Links
    <3>4. h[x].next # c
      BY <3>1, <3>3
    <3> QED BY <2>4, <3>1, <3>2, <3>3, <3>4
  <2>6. k[g].next # NULL => k[k[g].next].allocated
    BY <2>1, <2>4
  <2> QED BY <2>1, <2>2, <2>3, <2>4, <2>5, <2>6
<1>3. CASE ~FreeAt(h, p)
  <2>1. k = h /\ g = c /\ B = C
    BY <1>3 DEF GluePrev, Glued
  <2>2. ASSUME NEW x \in C \ {c}, ~h[x].allocated
        PROVE  h[x].next # NULL /\ h[h[x].next].allocated
    <3>1. h[x].next # NULL /\ (h[h[x].next].allocated \/ h[x].next = c)
      BY <2>2 DEF ClosedBut
    <3>2. h[h[x].next].prev = x /\ x # NULL
      BY <2>2, <3>1, NotNull DEF Links
    <3>3. h[x].next # c
      BY <1>3, <2>2, <3>2 DEF FreeAt
    <3> QED BY <3>1, <3>3
  <2> QED BY <1>1, <2>1, <2>2, KeptSame
<1> QED BY <1>2, <1>3

LEMMA FreeStep ==
  ASSUME Types, Sound, Heap, NEW b \in live, Kfree(b)
  PROVE  Heap'
<1> DEFINE c  == b.ptr - HDR
           h0 == Freed(c)
           h1 == GlueNext(h0, c)
           h2 == GluePrev(h1, c)
           g  == Glued(h1, c)
           D  == DOMAIN hdr
           B1 == chunks \ {a \in chunks : a = h0[c].next /\ FreeAt(h0, a)}
           B2 == B1 \ {a \in B1 : a = c /\ g # c}
           B3 == B2 \ {a \in B2 : a = g /\ h2[g].next = NULL}
<1>1. /\ Links(hdr, chunks) /\ Closed(hdr, chunks) /\ Owned(hdr, chunks, live)
      /\ \A x \in chunks : End(x) <= heap_max
      /\ Full /\ heap_first = IF chunks = {} THEN NULL ELSE HEAP_START
      /\ hdr \in [D -> HeaderSet]
  BY DEF Heap, Kfree, Call, Types
<1>2. /\ c \in chunks /\ c \in D /\ c # NULL /\ hdr[c].allocated /\ b.ptr = c + HDR
  <2>1. c \in chunks /\ hdr[c].allocated
    BY <1>1 DEF Owned
  <2>2. b.ptr = c + HDR
    BY Sizes DEF Types
  <2> QED BY <1>1, <2>1, <2>2, NotNull
<1>3. /\ h0 \in [D -> HeaderSet]
      /\ \A x \in D : /\ h0[x].length = hdr[x].length /\ h0[x].next = hdr[x].next
                      /\ h0[x].prev = hdr[x].prev
                      /\ h0[x].allocated = (x # c /\ hdr[x].allocated)
  BY <1>1, <1>2 DEF Freed, HeaderSet
<1>4. chunks \subseteq D
  BY <1>1 DEF Links
<1> HIDE DEF h0
<1>5. Links(h0, chunks)
  <2>1. chunks \subseteq DOMAIN h0
    BY <1>3, <1>4
  <2> QED BY <1>1, <1>3, <1>4, <2>1, SameLinks
<1>6. ClosedBut(h0, chunks, c)
  <2>1. ASSUME NEW x \in chunks \ {c}, ~h0[x].allocated
        PROVE  h0[x].next # NULL /\ (h0[h0[x].next].allocated \/ h0[x].next = c)
    <3>1. hdr[x].next # NULL /\ hdr[hdr[x].next].allocated
      BY <1>1, <1>3, <1>4, <2>1 DEF Closed
    <3>2. hdr[x].next \in chunks
      BY <1>1, <3>1 DEF Links
    <3> QED BY <1>3, <1>4, <2>1, <3>1, <3>2
  <2> QED BY <1>2, <1>3, <2>1 DEF ClosedBut
<1>7. /\ Links(h1, B1) /\ Kept(h0, h1, chunks, B1) /\ ClosedBut(h1, B1, c)
      /\ h1[c].next # NULL => h1[c].next \in B1 /\ h1[h1[c].next].allocated
  <2> HIDE DEF h1, B1
  <2>1. h1 = GlueNext(h0, c) /\ B1 = chunks \ {a \in chunks : a = h0[c].next /\ FreeAt(h0, a)}
    BY DEF h1, B1
  <2> QED BY <1>3, <1>5, <1>6, <2>1, FirstMerge
<1>8. h1 \in [D -> HeaderSet] /\ h1[c].prev \in D
  <2>1. h0[c].next \in D /\ h0[c].prev \in D
    BY <1>2, <1>3 DEF Kfree, Reach, Readable
  <2>2. D \in SUBSET Addr
    BY DEF Types
  <2> QED BY <1>2, <1>3, <2>1, <2>2, GlueTypes
<1>9. /\ Links(h2, B2) /\ Kept(h1, h2, B1, B2)
      /\ g \in B2 /\ ~h2[g].allocated
      /\ \A x \in B2 \ {g} : ~h2[x].allocated => h2[x].next # NULL /\ h2[h2[x].next].allocated
      /\ h2[g].next # NULL => h2[h2[g].next].allocated
  <2> HIDE DEF h1, B1, h2, B2, g
  <2>1. h2 = GluePrev(h1, c) /\ g = Glued(h1, c) /\ B2 = B1 \ {a \in B1 : a = c /\ g # c}
    BY DEF h2, B2, g
  <2> QED BY <1>7, <1>8, <2>1, SecondMerge
<1>10. Kept(h0, h2, chunks, B2)
  <2> HIDE DEF h0, h1, h2, B1, B2
  <2> QED BY <1>7, <1>9, KeptTwice
<1>11. h2 \in [D -> HeaderSet]
  <2> HIDE DEF h1
  <2>1. h1[c].prev \in D /\ h1[c] \in HeaderSet /\ h1[h1[c].prev] \in HeaderSet
    BY <1>2, <1>8
  <2>2. h1[h1[c].prev].length + h1[c].length \in Nat
    BY <2>1 DEF HeaderSet
  <2> QED BY <1>8, <2>1, <2>2 DEF GluePrev, HeaderSet
<1>12. /\ chunks' = B3 /\ cur_header' = g /\ live' = live \ {b} /\ heap_max' = heap_max
       /\ IF h2[g].next = NULL
            THEN /\ hdr' = [h2 EXCEPT ![h2[g].prev].next = NULL]
                 /\ heap_first' = IF h2[g].prev = NULL THEN NULL ELSE heap_first
                 /\ pc' = "shrink"
            ELSE hdr' = h2 /\ UNCHANGED <<heap_first, pc>>
  <2>1. /\ chunks' = chunks \
              ({a \in chunks : a = hdr[c].next /\ FreeAt(hdr, a)}
               \union {a \in chunks : a = c /\ g # c}
               \union {a \in chunks : a = g /\ h2[g].next = NULL})
        /\ cur_header' = g /\ live' = live \ {b} /\ heap_max' = heap_max
        /\ IF h2[g].next = NULL
             THEN /\ hdr' = [h2 EXCEPT ![h2[g].prev].next = NULL]
                  /\ heap_first' = IF h2[g].prev = NULL THEN NULL ELSE heap_first
                  /\ pc' = "shrink"
             ELSE hdr' = h2 /\ UNCHANGED <<heap_first, pc>>
    BY DEF Kfree, h0
  <2>2. \A a \in chunks : a = hdr[c].next /\ FreeAt(hdr, a) <=> a = h0[c].next /\ FreeAt(h0, a)
    <3>1. \A a \in chunks : a = hdr[c].next => a # c
      BY <1>1, <1>2, Sizes DEF Links, NULL
    <3> QED BY <1>2, <1>3, <1>4, <3>1 DEF FreeAt
  <2> HIDE DEF h1, h2, g
  <2>3. chunks' = B3
    BY <2>1, <2>2
  <2> QED BY <2>1, <2>3
<1> HIDE DEF h1, h2, g, B1, B2, B3
\* What Kept says of hdr.
<1>13. /\ B2 \subseteq chunks
       /\ \A x \in chunks : hdr[x].allocated /\ x # c =>
                              x \in B2 /\ h2[x].allocated /\ h2[x].length = hdr[x].length
       /\ \A x \in B2 : h2[x].allocated => hdr[x].allocated /\ x # c
       /\ \A x \in B2 : \E y \in chunks : /\ x + h2[x].length = y + hdr[y].length
                                          /\ h2[x].next = NULL => hdr[y].next = NULL
  <2>1. \A x \in chunks : /\ h0[x].length = hdr[x].length /\ h0[x].next = hdr[x].next
                          /\ h0[x].allocated <=> (x # c /\ hdr[x].allocated)
    BY <1>3, <1>4
  <2>2. /\ B2 \subseteq chunks
        /\ \A x \in chunks : h0[x].allocated => x \in B2
        /\ \A x \in B2 : /\ h2[x].allocated = h0[x].allocated
                         /\ h0[x].allocated => h2[x].length = h0[x].length
    BY <1>10 DEF Kept
  <2>6. \A x \in B2 : h2[x].allocated <=> h0[x].allocated
    BY <2>2, Zenon
  <2>3. ASSUME NEW x \in chunks, hdr[x].allocated, x # c
        PROVE  x \in B2 /\ h2[x].allocated /\ h2[x].length = hdr[x].length
    <3>1. h0[x].allocated /\ x \in B2
      BY <2>1, <2>2, <2>3, Zenon
    <3> QED BY <2>1, <2>2, <2>6, <3>1, Zenon
  <2>4. ASSUME NEW x \in B2, h2[x].allocated
        PROVE  hdr[x].allocated /\ x # c
    BY <2>1, <2>2, <2>4, <2>6, Zenon
  <2>5. ASSUME NEW x \in B2
        PROVE  \E y \in chunks : /\ x + h2[x].length = y + hdr[y].length
                                 /\ h2[x].next = NULL => hdr[y].next = NULL
    <3>1. PICK y \in chunks : /\ x + h2[x].length = y + h0[y].length
                              /\ h2[x].next = NULL => h0[y].next = NULL
      BY <1>10 DEF Kept
    <3> QED BY <2>1, <3>1
  <2> QED BY <2>2, <2>3, <2>4, <2>5
<1>14. ASSUME NEW x \in B2
       PROVE  /\ x + h2[x].length <= heap_max
              /\ h2[x].next = NULL => x + h2[x].length > heap_max - PAGE
  <2>1. PICK y \in chunks : /\ x + h2[x].length = y + hdr[y].length
                            /\ h2[x].next = NULL => hdr[y].next = NULL
    BY <1>13
  <2>2. y + hdr[y].length <= heap_max
        /\ (hdr[y].next = NULL => y + hdr[y].length > heap_max - PAGE)
    BY <1>1 DEF Full, End, Length
  <2> QED BY <2>1, <2>2
<1>15. ASSUME NEW k, NEW C \in SUBSET B2,
              \A x \in B2 : k[x].allocated = h2[x].allocated /\ k[x].length = h2[x].length,
              \A x \in B2 : x \notin C => ~h2[x].allocated
       PROVE  Owned(k, C, live \ {b})
  <2>1. ASSUME NEW d \in live \ {b}
        PROVE  /\ d.ptr - HDR \in C /\ k[d.ptr - HDR].allocated
               /\ k[d.ptr - HDR].length >= d.len + HDR
    <3>1. d.ptr - HDR \in chunks /\ hdr[d.ptr - HDR].allocated
          /\ hdr[d.ptr - HDR].length >= d.len + HDR /\ d.ptr # b.ptr
          /\ d.ptr \in Nat /\ b.ptr \in Nat
      BY <1>1 DEF Owned, Types
    <3>2. d.ptr - HDR # c
      BY <3>1, Sizes
    <3> QED BY <1>13, <1>15, <3>1, <3>2
  <2>2. \A d, e \in live \ {b} : d.ptr = e.ptr => d = e
    BY <1>1 DEF Owned
  <2>3. ASSUME NEW x \in C, k[x].allocated
        PROVE  \E d \in live \ {b} : d.ptr = x + HDR
    <3>1. hdr[x].allocated /\ x # c /\ x \in chunks
      BY <1>13, <1>15, <2>3
    <3>2. PICK d \in live : d.ptr = x + HDR
      BY <1>1, <3>1 DEF Owned
    <3>3. d # b
      <4>1. x \in Nat /\ c \in Nat
        BY <1>1, <1>2, <3>1 DEF Links
      <4> QED BY <1>2, <3>1, <3>2, <4>1, Sizes
    <3> QED BY <3>2, <3>3
  <2> QED BY <2>1, <2>2, <2>3 DEF Owned
<1>16. CASE h2[g].next # NULL
  <2>1. hdr' = h2 /\ chunks' = B2 /\ heap_first' = heap_first /\ pc' = "idle"
    BY <1>12, <1>16 DEF B3, Kfree, Call
  <2>2. Closed(h2, B2) /\ Links(h2, B2)
    BY <1>9, <1>16 DEF Closed
  <2>3. Owned(h2, B2, live')
    BY <1>12, <1>15
  <2>4. Full'
    <3>1. \A x \in B2 : h2[x].next = NULL => x + h2[x].length > heap_max - PAGE
      BY <1>14
    <3>2. B2 # {}
      BY <1>9
    <3> QED BY <1>12, <2>1, <3>1, <3>2 DEF Full, End, Length
  <2>5. (\A x \in chunks : End(x) <= heap_max)'
    BY <1>12, <1>14, <2>1 DEF End, Length
  <2>6. chunks # {} /\ chunks' # {}
    BY <1>2, <1>9, <2>1
  <2> QED BY <1>1, <2>1, <2>2, <2>3, <2>4, <2>5, <2>6 DEF Heap
<1>17. CASE h2[g].next = NULL
  <2> DEFINE q == h2[g].prev
             k == [h2 EXCEPT ![q].next = NULL]
  <2>1. hdr' = k /\ chunks' = B2 \ {g} /\ pc' = "shrink" /\ cur_header' = g
        /\ heap_first' = IF q = NULL THEN NULL ELSE heap_first
    BY <1>12, <1>17 DEF B3
  <2>2. /\ DOMAIN k = DOMAIN h2
        /\ \A x \in DOMAIN h2 \ {NULL} :
             /\ k[x].length = h2[x].length /\ k[x].prev = h2[x].prev
             /\ k[x].allocated = h2[x].allocated
             /\ k[x].next = IF x = q THEN NULL ELSE h2[x].next
    BY <1>11 DEF HeaderSet
  <2> HIDE DEF k
  <2>3. /\ Links(k, B2 \ {g})
        /\ B2 \ {g} = {} => g = HEAP_START
        /\ q = NULL <=> B2 \ {g} = {}
        /\ \A x \in B2 \ {g} : x + h2[x].length <= g
        /\ \A x \in B2 \ {g} : k[x].next = NULL => x = q /\ x + k[x].length = g
    <3>1. Dropped(h2, k, g)
      BY <1>17, <2>2 DEF Dropped
    <3>2. Links(h2, B2) /\ g \in B2
      BY <1>9
    <3>3. /\ Links(k, B2 \ {g})
          /\ B2 \ {g} = {} => g = HEAP_START
          /\ h2[g].prev = NULL <=> B2 \ {g} = {}
          /\ \A x \in B2 \ {g} : x + h2[x].length <= g
          /\ \A x \in B2 \ {g} :
               k[x].next = NULL => x = h2[g].prev /\ x + k[x].length = g
      <4> HIDE DEF q
      <4>1. Links(k, B2 \ {g})
        BY <3>1, <3>2, Drop
      <4>2. B2 \ {g} = {} => g = HEAP_START
        BY <3>2 DEF Links
      <4>3. h2[g].prev = NULL <=> B2 \ {g} = {}
        BY <3>1, <3>2, Drop
      <4>4. \A x \in B2 \ {g} : x + h2[x].length <= g
        BY <3>1, <3>2, Drop
      <4>5. ASSUME NEW x \in B2 \ {g}, k[x].next = NULL
            PROVE  x = h2[g].prev /\ x + k[x].length = g
        BY <3>1, <3>2, <4>5, Drop, ZenonT(30)
      <4> QED BY <4>1, <4>2, <4>3, <4>4, <4>5
    <3> QED BY <3>3
  <2>4. \A x \in B2 : /\ k[x].allocated = h2[x].allocated /\ k[x].length = h2[x].length
                      /\ k[x].next = IF x = q THEN NULL ELSE h2[x].next
    BY <1>9, <2>2, NotNull
  <2>5. Closed(k, B2 \ {g})
    <3> SUFFICES ASSUME NEW x \in B2 \ {g}, ~k[x].allocated
                 PROVE  k[x].next # NULL /\ k[k[x].next].allocated
      BY DEF Closed
    <3>1. h2[x].next # NULL /\ h2[h2[x].next].allocated
      BY <1>9, <2>4
    <3>2. h2[x].next \in B2
      BY <1>9, <3>1 DEF Links
    <3>3. x # q
      <4>1. x = q => h2[x].next = g
        BY <1>9, NotNull DEF Links
      <4> QED BY <1>9, <3>1, <4>1
    <3> QED BY <2>4, <3>1, <3>2, <3>3
  <2>6. Owned(k, B2 \ {g}, live')
    BY <1>9, <1>12, <1>15, <2>4
  <2>7. (\A x \in chunks : End(x) <= heap_max)'
    BY <1>12, <1>14, <2>1, <2>4 DEF End, Length
  <2>8. g \in Nat /\ h2[g].length \in Nat /\ g + h2[g].length <= heap_max /\ heap_max \in Nat
    BY <1>9, <1>14 DEF Links, Types
  <2>9. Shrink'
    <3>1. g <= heap_max
      BY <2>8
    <3> QED BY <1>12, <2>1, <2>3, <2>4, <3>1 DEF Shrink, End, Length
  <2>10. heap_first' = IF chunks' = {} THEN NULL ELSE HEAP_START
    BY <1>1, <1>2, <2>1, <2>3
  <2> QED BY <2>1, <2>3, <2>5, <2>6, <2>7, <2>9, <2>10 DEF Heap
<1> QED BY <1>16, <1>17

LEMMA ShrinkSteps ==
  ASSUME Types, Paging, Heap, ShrinkPage \/ ShrinkDone
  PROVE  Heap'
<1>1. /\ pc = "shrink" /\ Shrink /\ Links(hdr, chunks) /\ Closed(hdr, chunks)
      /\ Owned(hdr, chunks, live) /\ heap_max \in Nat /\ cur_header \in Nat
      /\ heap_first = IF chunks = {} THEN NULL ELSE HEAP_START
      /\ \A x \in chunks : End(x) <= heap_max
  BY DEF Heap, ShrinkPage, ShrinkDone, Types, Addr, NULL
<1>2. \A x \in chunks : /\ x \in DOMAIN hdr /\ x \in Nat /\ hdr[x].length \in Nat
                        /\ hdr[x].length >= HDR /\ x + hdr[x].length <= cur_header
  BY <1>1 DEF Links, Shrink, End, Length
<1>3. CASE ShrinkPage
  <2>1. /\ heap_max' = heap_max - PAGE /\ heap_max' >= cur_header /\ pc' = "shrink"
        /\ hdr' = [a \in {a \in DOMAIN hdr : a + HDR <= heap_max'} |-> hdr[a]]
        /\ UNCHANGED <<heap_first, cur_header, live, chunks>>
    BY <1>1, <1>3 DEF ShrinkPage, PageUnused
  <2>2. heap_max' \in Int
    BY <1>1, <2>1, Sizes
  <2>3. \A x \in chunks : x + HDR <= heap_max'
    <3> SUFFICES ASSUME NEW x \in chunks PROVE x + HDR <= heap_max'
      OBVIOUS
    <3>1. \A i, j, n, m, o \in Int : j >= n /\ i + j <= m /\ m <= o => i + n <= o
      OBVIOUS
    <3> QED BY <1>1, <1>2, <2>1, <2>2, <3>1, Sizes
  <2>4. \A x \in chunks : x \in DOMAIN hdr' /\ hdr'[x] = hdr[x]
    BY <1>2, <2>1, <2>3
  <2>5. chunks \subseteq DOMAIN hdr' /\ Links(hdr', chunks)
    <3>1. chunks \subseteq DOMAIN hdr'
      BY <2>4
    <3> QED BY <1>1, <2>4, <3>1, SameLinks
  <2>6. Closed(hdr', chunks) /\ Owned(hdr', chunks, live)
    <3>1. \A x \in chunks : hdr[x].next # NULL => hdr[x].next \in chunks
      BY <1>1 DEF Links
    <3> QED BY <1>1, <2>4, <3>1 DEF Closed, Owned
  <2>7. Shrink'
    BY <1>1, <2>1, <2>4 DEF Shrink, End, Length
  <2>8. (\A x \in chunks : End(x) <= heap_max)'
    <3>1. \A x \in chunks : x + hdr'[x].length <= heap_max'
      <4> SUFFICES ASSUME NEW x \in chunks PROVE x + hdr'[x].length <= heap_max'
        OBVIOUS
      <4>1. \A i, m, o \in Int : i <= m /\ m <= o => i <= o
        OBVIOUS
      <4>2. hdr'[x].length = hdr[x].length /\ x + hdr[x].length \in Int
        BY <1>2, <2>4
      <4> QED BY <1>1, <1>2, <2>1, <2>2, <4>1, <4>2
    <3> QED BY <2>1, <3>1 DEF End, Length
  <2> QED BY <1>1, <2>1, <2>5, <2>6, <2>7, <2>8 DEF Heap
<1>4. CASE ShrinkDone
  <2>1. /\ heap_max - PAGE < cur_header /\ pc' = "idle"
        /\ UNCHANGED <<hdr, heap_first, heap_max, live, chunks>>
    BY <1>1, <1>4, Sizes DEF ShrinkDone, PageUnused, paging
  <2>2. Full
    <3>1. ASSUME chunks = {} PROVE heap_max = HEAP_START
      <4>1. cur_header = HEAP_START
        BY <1>1, <3>1 DEF Shrink
      <4>2. /\ heap_max = PAGE * EndPage /\ FirstPage <= EndPage /\ EndPage \in Nat
            /\ FirstPage \in Nat /\ HEAP_START = PAGE * FirstPage
        BY <1>1, Start, Sizes, Divide DEF Paging, EndPage
      <4>3. PAGE * (EndPage - 1) < PAGE * FirstPage
        BY <2>1, <4>1, <4>2, Sizes, Products
      <4>4. EndPage - 1 < FirstPage
        BY <4>2, <4>3, Sizes, Products
      <4>5. EndPage = FirstPage
        BY <4>2, <4>4
      <4> QED BY <4>2, <4>5
    <3>2. \A x \in chunks : hdr[x].next = NULL => End(x) > heap_max - PAGE
      BY <1>1, <2>1, Sizes DEF Shrink
    <3> QED BY <3>1, <3>2 DEF Full
  <2> QED BY <1>1, <2>1, <2>2, HeapKept DEF Heap
<1> QED BY <1>3, <1>4

LEMMA CallSteps ==
  ASSUME Types, Sound', Heap, (\E l \in Requests : Kmalloc(l)) \/ (\E b \in live : KfreeWild(b))
  PROVE  Heap'
<1>1. /\ pc = "idle" /\ Full /\ Links(hdr, chunks) /\ Closed(hdr, chunks)
      /\ Owned(hdr, chunks, live) /\ heap_first = IF chunks = {} THEN NULL ELSE HEAP_START
      /\ \A x \in chunks : End(x) <= heap_max
  BY DEF Heap, Kmalloc, KfreeWild, Call
<1>2. CASE \E l \in Requests : Kmalloc(l)
  <2>1. PICK l \in Requests : Kmalloc(l)
    BY <1>2
  <2>2. /\ req' = (l + HDR) % WORD /\ asked' = l /\ wrapped' = (l + HDR >= WORD)
        /\ cur_header' = heap_first /\ prev_header' = NULL /\ pc' = "scan"
        /\ UNCHANGED <<hdr, heap_first, heap_max, live, chunks>>
    BY <2>1 DEF Kmalloc, paging
  <2>3. req' = asked' + HDR
    <3>1. ~(l + HDR >= WORD)
      BY <2>2 DEF Sound
    <3>2. l + HDR \in Nat /\ WORD \in Nat
      BY Sizes
    <3>3. \A i, m \in Nat : ~(i >= m) => i % m = i
      OBVIOUS
    <3>4. (l + HDR) % WORD = l + HDR
      BY <3>1, <3>2, <3>3
    <3> QED BY <2>2, <3>4
  <2>4. Scan'
    <3>1. heap_first \in chunks \union {NULL}
      BY <1>1 DEF Links
    <3> QED BY <2>2, <3>1 DEF Scan
  <2> QED BY <1>1, <2>2, <2>3, <2>4, HeapKept DEF Heap
<1>3. CASE \E b \in live : KfreeWild(b)
  <2>1. PICK b \in live : KfreeWild(b)
    BY <1>3
  <2> DEFINE c == b.ptr - HDR
  <2>2. c \in chunks
    BY <1>1 DEF Owned
  <2>3. \A x \in chunks \union {NULL} : Readable(x)
    BY <1>1 DEF Links, Readable, Types
  <2>4. \A x \in chunks : hdr[x].next \in chunks \union {NULL}
                          /\ hdr[x].prev \in chunks \union {NULL}
    BY <1>1 DEF Links
  <2>5. Reach(c)
    <3>1. hdr[c].next # NULL => hdr[c].next \in chunks
      BY <2>2, <2>4
    <3>2. hdr[c].prev # NULL => hdr[c].prev \in chunks
      BY <2>2, <2>4
    <3> QED BY <2>2, <2>3, <2>4, <3>1, <3>2 DEF Reach, FreeAt
  <2> QED BY <2>1, <2>5 DEF KfreeWild
<1> QED BY <1>2, <1>3

LEMMA Inductive ==
  ASSUME IInv, [Next]_vars
  PROVE  IInv'
<1>1. Types' /\ Paging'
  BY StepTypes DEF IInv
<1>2. ASSUME Sound' PROVE Heap'
  <2>1. Types /\ Paging /\ Sound /\ Heap
    BY <1>2, SoundBefore DEF IInv
  <2>2. CASE ScanNext \/ Reuse \/ ScanWild \/ Extend
    BY <1>2, <2>1, <2>2, ScanSteps
  <2>3. CASE GrowPage \/ Append \/ AppendWild
    BY <1>2, <2>1, <2>3, GrowSteps
  <2>4. CASE ShrinkPage \/ ShrinkDone
    BY <2>1, <2>4, ShrinkSteps
  <2>5. CASE \E b \in live : Kfree(b)
    BY <2>1, <2>5, FreeStep
  <2>6. CASE (\E l \in Requests : Kmalloc(l)) \/ (\E b \in live : KfreeWild(b))
    BY <1>2, <2>1, <2>6, CallSteps
  <2>7. CASE UNCHANGED vars
    BY <2>1, <2>7, HeapKept DEF vars, Heap, Scan, Grow, Shrink, End, Length, request, paging
  <2> QED BY <2>2, <2>3, <2>4, <2>5, <2>6, <2>7 DEF Next, Step
<1> QED BY <1>1, <1>2 DEF IInv

LEMMA Initially == Init => IInv
<1> SUFFICES ASSUME Init PROVE IInv
  OBVIOUS
<1>1. Heap
  BY DEF Init, Heap, Links, Closed, Owned, Full
<1> QED BY <1>1, InitTypes DEF IInv

\* The type invariant, the pages and frames, and, until a header is misplaced, the list
\* and the blocks in it hold in every state of every run of kmalloc and kfree.
THEOREM Invariant == Spec => []IInv
<1>1. Init => IInv
  BY Initially
<1>2. IInv /\ [Next]_vars => IInv'
  BY Inductive
<1> QED BY <1>1, <1>2, PTL DEF Spec

\* Every variable of the heap keeps its type: no length, no address and no number of
\* free frames ever goes negative, not even behind a misplaced header.
THEOREM TypeCorrect == Spec => []TypeOK
<1>1. ASSUME IInv PROVE TypeOK
  <2>1. mapped \subseteq Nat
    BY <1>1, Start DEF IInv, Paging
  <2>2. tables \subseteq Nat /\ frames \in Nat
    BY <1>1 DEF IInv, Paging
  <2>3. Addr \subseteq Nat
    BY DEF Addr, NULL
  <2>4. \A a \in DOMAIN hdr : hdr[a] \in Header
    BY <1>1, <2>3 DEF IInv, Types, Header, HeaderSet
  <2> QED BY <1>1, <2>1, <2>2, <2>3, <2>4 DEF IInv, Types, TypeOK
<1> QED BY <1>1, Invariant, PTL

\* Until a header is misplaced no call reads one in a page that is not mapped.
THEOREM NeverWild == Spec => [](Sound => pc # "wild")
<1>1. IInv => (Sound => pc # "wild")
  BY DEF IInv, Heap
<1> QED BY <1>1, Invariant, PTL

\* The list covers the heap without a gap and is linked in both directions through every
\* append of kmalloc and every merge and cut of kfree (mm/kheap.c:9, :65, :87).
THEOREM ListTiled == Spec => []Tiled
<1>1. ASSUME IInv PROVE Tiled
  <2> SUFFICES ASSUME Sound PROVE Tiled
    BY DEF Tiled
  <2>1. Links(hdr, chunks)
        /\ heap_first = IF chunks = {} /\ pc \notin {"grow", "oom"} THEN NULL ELSE HEAP_START
    BY <1>1 DEF IInv, Heap
  <2> QED BY <2>1 DEF Tiled, Links, End, Length
<1> QED BY <1>1, Invariant, PTL

\* glue_chunk and free_chunk leave no two free chunks side by side and none at the end.
THEOREM FreeMerged == Spec => []Coalesced
<1>1. IInv => Coalesced
  BY DEF IInv, Heap, Closed, Coalesced
<1> QED BY <1>1, Invariant, PTL

LEMMA InPages ==
  ASSUME Types, Paging, NEW a \in Nat, HEAP_START <= a, a < heap_max
  PROVE  a \div PAGE \in mapped
<1> DEFINE q == a \div PAGE
           r == a % PAGE
<1>1. q \in Nat /\ r \in 0 .. PAGE - 1 /\ a = PAGE * q + r
  BY Sizes, Divide
<1> HIDE DEF q, r
<1>2. FirstPage \in Nat /\ EndPage \in Nat /\ PAGE * FirstPage <= a /\ a < PAGE * EndPage
      /\ PAGE * q \in Nat
  <2>1. FirstPage \in Nat /\ PAGE * FirstPage <= a
    BY Start
  <2>2. EndPage \in Nat
    BY Sizes, Divide DEF Types, EndPage
  <2>3. a < PAGE * EndPage
    BY DEF Paging
  <2>4. PAGE * q \in Nat
    BY <1>1, Sizes
  <2> QED BY <2>1, <2>2, <2>3, <2>4
<1>3. q < EndPage
  <2>1. PAGE * q < PAGE * EndPage
    BY <1>1, <1>2, Sizes
  <2> QED BY <1>1, <1>2, <2>1, Sizes, Products
<1>4. FirstPage <= q
  <2>1. PAGE * (q + 1) = PAGE * q + PAGE
    BY <1>1, Sizes, Products
  <2>2. PAGE * FirstPage < PAGE * (q + 1)
    BY <1>1, <1>2, <2>1, Sizes
  <2>3. FirstPage < q + 1
    BY <1>1, <1>2, <2>2, Sizes, Products
  <2> QED BY <1>1, <1>2, <2>3
<1>5. q \in FirstPage .. EndPage - 1
  BY <1>1, <1>2, <1>3, <1>4
<1> QED BY <1>5 DEF q, Paging

LEMMA Apart ==
  ASSUME Types, Heap
  PROVE  Disjoint
<1> SUFFICES ASSUME NEW b \in live, NEW d \in live, b # d
             PROVE  Extent(b) \intersect Extent(d) = {}
  BY DEF Disjoint, Overlap
<1> DEFINE x == b.ptr - HDR
           y == d.ptr - HDR
<1>1. /\ x \in chunks /\ y \in chunks /\ b.ptr # d.ptr
      /\ hdr[x].length >= b.len + HDR /\ hdr[y].length >= d.len + HDR
  BY DEF Heap, Owned
<1>2. /\ x \in Nat /\ y \in Nat /\ hdr[x].length \in Nat /\ hdr[y].length \in Nat
      /\ x < y => x + hdr[x].length <= y
      /\ y < x => y + hdr[y].length <= x
  BY <1>1 DEF Heap, Links
<1>3. b.ptr \in Nat /\ d.ptr \in Nat /\ b.len \in Nat /\ d.len \in Nat
  BY DEF Types
<1>4. b.ptr = x + HDR /\ d.ptr = y + HDR /\ x # y
  BY <1>1, <1>3, Sizes
<1>5. Extent(b) = x .. x + HDR + b.len - 1 /\ Extent(d) = y .. y + HDR + d.len - 1
  BY <1>4 DEF Extent
<1> HIDE DEF x, y
<1>6. \A i, j, l, n, a \in Nat :
        i + l <= j /\ l >= n + HDR /\ a <= i + HDR + n - 1 => a < j
  BY Sizes
<1>7. ASSUME NEW a \in Extent(b), a \in Extent(d) PROVE FALSE
  <2>1. a \in Nat /\ x <= a /\ y <= a /\ a <= x + HDR + b.len - 1 /\ a <= y + HDR + d.len - 1
    BY <1>2, <1>3, <1>5, <1>7, Sizes
  <2>2. x < y => a < y
    BY <1>1, <1>2, <1>3, <1>6, <2>1
  <2>3. y < x => a < x
    BY <1>1, <1>2, <1>3, <1>6, <2>1
  <2> QED BY <1>2, <1>4, <2>1, <2>2, <2>3
<1> QED BY <1>7

\* kmalloc never gives a caller bytes that another holds: every block keeps its header and
\* its size and lies in mapped pages, through every merge, append and returned page.
THEOREM BlocksIntact == Spec => []LiveIntact
<1>1. ASSUME IInv PROVE LiveIntact
  <2> SUFFICES ASSUME Sound PROVE LiveIntact
    BY DEF LiveIntact
  <2>1. Types /\ Paging /\ Heap
    BY <1>1 DEF IInv
  <2>2. ASSUME NEW b \in live
        PROVE  LET c == b.ptr - HDR
               IN  /\ c \in DOMAIN hdr
                   /\ hdr[c].allocated /\ Length(c) >= b.len + HDR
                   /\ \A a \in Extent(b) : a \div PAGE \in mapped
    <3> DEFINE c == b.ptr - HDR
    <3>1. c \in chunks /\ hdr[c].allocated /\ hdr[c].length >= b.len + HDR
      BY <2>1 DEF Heap, Owned
    <3>2. c \in DOMAIN hdr /\ c \in Nat /\ c >= HEAP_START /\ hdr[c].length \in Nat
          /\ c + hdr[c].length <= heap_max
      BY <2>1, <3>1 DEF Heap, Links, End, Length
    <3>3. b.ptr \in Nat /\ b.len \in Nat /\ heap_max \in Nat
      BY <2>1 DEF Types
    <3>4. Extent(b) = c .. c + HDR + b.len - 1
      BY <3>3, Sizes DEF Extent
    <3> HIDE DEF c
    <3>5. ASSUME NEW a \in Extent(b) PROVE a \in Nat /\ HEAP_START <= a /\ a < heap_max
      BY <3>1, <3>2, <3>3, <3>4, <3>5, Sizes
    <3>6. \A a \in Extent(b) : a \div PAGE \in mapped
      BY <2>1, <3>5, InPages
    <3> QED BY <3>1, <3>2, <3>6 DEF c, Length
  <2> QED BY <2>1, <2>2, Apart DEF LiveIntact
<1> QED BY <1>1, Invariant, PTL

\* Between calls the heap has mapped what it needs and no page more: free_chunk
\* (mm/kheap.c:65) gives back every page behind the last byte a caller holds.
THEOREM NothingKept == Spec => []PagesReturned
<1>1. ASSUME IInv PROVE PagesReturned
  <2> SUFFICES ASSUME Sound, pc = "idle" PROVE PagesReturned
    BY DEF PagesReturned
  <2>1. Types /\ Paging /\ Heap /\ Full
    BY <1>1 DEF IInv, Heap
  <2>2. FirstPage \in Nat /\ EndPage \in Nat /\ heap_max = PAGE * EndPage
        /\ FirstPage <= EndPage /\ mapped = FirstPage .. EndPage - 1
        /\ HEAP_START = PAGE * FirstPage
    BY <2>1, Sizes, Start, Divide DEF Types, Paging, EndPage
  <2>3. mapped = {p \in 0 .. heap_max \div PAGE :
                    HEAP_START <= p * PAGE /\ p * PAGE < heap_max}
    <3>1. \A p \in Nat : /\ HEAP_START <= p * PAGE <=> FirstPage <= p
                         /\ p * PAGE < heap_max <=> p < EndPage
      <4> SUFFICES ASSUME NEW p \in Nat
                   PROVE  /\ HEAP_START <= p * PAGE <=> FirstPage <= p
                          /\ p * PAGE < heap_max <=> p < EndPage
        OBVIOUS
      <4>1. p * PAGE = PAGE * p
        BY Sizes
      <4> QED BY <2>2, <4>1, Sizes, Products
    <3>2. heap_max \div PAGE = EndPage
      BY DEF EndPage
    <3> QED BY <2>2, <3>1, <3>2
  <2>4. frames + Cardinality(mapped) + Cardinality(tables) = Frames
    <3>1. Cardinality(mapped) = EndPage - FirstPage
      <4>1. Cardinality(FirstPage .. EndPage - 1) =
              IF FirstPage > EndPage - 1 THEN 0 ELSE (EndPage - 1) - FirstPage + 1
        BY <2>2, FS_Interval
      <4> QED BY <2>2, <4>1
    <3> QED BY <2>1, <3>1 DEF Paging
  <2>5. chunks # {} => \E b \in live : End(b.ptr - HDR) > heap_max - PAGE
    <3> SUFFICES ASSUME chunks # {} PROVE \E b \in live : End(b.ptr - HDR) > heap_max - PAGE
      OBVIOUS
    <3>1. PICK x \in chunks : hdr[x].next = NULL
      BY <2>1 DEF Heap, Links
    <3>2. hdr[x].allocated /\ End(x) > heap_max - PAGE /\ x \in Nat
      BY <2>1, <3>1 DEF Heap, Closed, Full, Links
    <3>3. PICK b \in live : b.ptr = x + HDR
      BY <2>1, <3>2 DEF Heap, Owned
    <3>4. b.ptr - HDR = x
      BY <3>2, <3>3, Sizes
    <3> QED BY <3>2, <3>4
  <2>6. live # {} => chunks # {}
    BY <2>1 DEF Heap, Owned
  <2>7. chunks = {} => heap_max = HEAP_START
    BY <2>1 DEF Full
  <2> QED BY <2>3, <2>4, <2>5, <2>6, <2>7 DEF PagesReturned
<1> QED BY <1>1, Invariant, PTL
-----------------------------------------------------------------------------
(***************************************************************************)
(* A call ends.                                                            *)
(***************************************************************************)
\* How far a call is from its end: its loops, and what is before the one it is in.
Loops == CASE pc = "scan"              -> 2
           [] pc \in {"grow", "shrink"} -> 1
           [] OTHER                    -> 0

Ahead == CASE pc = "scan"   -> IF cur_header = NULL THEN 0 ELSE heap_max - cur_header
           [] pc = "grow"   -> IF ChunkEnd > heap_max THEN ChunkEnd - heap_max ELSE 0
           [] pc = "shrink" -> heap_max
           [] OTHER         -> 0

Nearer == /\ Ahead \in Nat /\ Ahead' \in Nat
          /\ Loops' < Loops \/ (Loops' = Loops /\ Ahead' < Ahead)

\* Each step of a call brings its end nearer, through every walk over the list, every
\* page that is mapped and every page that is returned: no loop of kmalloc and kfree goes
\* on for ever while no header is misplaced (mm/kheap.c:14, :56, :68).
THEOREM CallsAdvance == Spec => [][Step /\ Sound => Nearer]_vars
<1>1. ASSUME IInv, IInv', Step, Sound PROVE Nearer
  <2>1. /\ cur_header \in Nat /\ heap_max \in Nat /\ req \in Nat
        /\ cur_header' \in Nat /\ heap_max' \in Nat /\ req' \in Nat
    BY <1>1 DEF IInv, Types, Addr, NULL
  <2>2. ChunkEnd \in Nat /\ ChunkEnd' \in Nat
    <3>1. \A x \in Nat : x % WORD \in Nat
      BY Sizes
    <3>2. \A x, y \in Nat : x + y \in Nat
      OBVIOUS
    <3>3. ChunkEnd = (cur_header + req) % WORD /\ ChunkEnd' = (cur_header' + req') % WORD
      BY DEF ChunkEnd
    <3> QED BY ONLY <2>1, <3>1, <3>2, <3>3, Zenon
  <2>3. /\ Heap /\ Types
        /\ pc = "scan" /\ cur_header # NULL =>
             cur_header \in chunks /\ heap_max - cur_header \in Nat \ {0}
    <3>1. Heap /\ Types
      BY <1>1 DEF IInv
    <3>2. ASSUME pc = "scan", cur_header # NULL
          PROVE  cur_header \in chunks /\ heap_max - cur_header \in Nat \ {0}
      <4>1. cur_header \in chunks
        BY <3>1, <3>2 DEF Heap, Scan
      <4>2. cur_header + hdr[cur_header].length <= heap_max
        BY <3>1, <4>1 DEF Heap, End, Length
      <4>3. hdr[cur_header].length \in Nat /\ hdr[cur_header].length >= HDR
        BY <3>1, <4>1 DEF Heap, Links
      <4> QED BY <2>1, <4>1, <4>2, <4>3, Sizes
    <3> QED BY <3>1, <3>2
  <2>4. CASE ScanNext
    <3>1. /\ pc = "scan" /\ pc' = "scan" /\ cur_header # NULL /\ heap_max' = heap_max
          /\ cur_header' = hdr[cur_header].next /\ UNCHANGED <<hdr, chunks>>
      BY <2>4 DEF ScanNext, Scanning
    <3>2. Ahead = heap_max - cur_header /\ Ahead \in Nat \ {0}
      BY <2>3, <3>1 DEF Ahead
    <3>3. CASE cur_header' = NULL
      BY <3>1, <3>2, <3>3 DEF Nearer, Ahead, Loops
    <3>4. CASE cur_header' # NULL
      <4>1. cur_header' > cur_header
        <5>1. /\ hdr[cur_header].next = cur_header + hdr[cur_header].length
              /\ hdr[cur_header].length \in Nat /\ hdr[cur_header].length >= HDR
          BY <2>3, <3>1, <3>4 DEF Heap, Links
        <5> QED BY <2>1, <3>1, <5>1, Sizes
      <4>2. heap_max' - cur_header' \in Nat
        <5>1. cur_header' \in chunks
          BY <2>3, <3>1, <3>4 DEF Heap, Links
        <5>2. cur_header' + hdr[cur_header'].length <= heap_max
          BY <2>3, <5>1 DEF Heap, End, Length
        <5>3. hdr[cur_header'].length \in Nat
          BY <2>3, <5>1 DEF Heap, Links
        <5> QED BY <2>1, <3>1, <5>2, <5>3
      <4>3. Ahead' = heap_max' - cur_header' /\ Loops' = Loops
        BY <3>1, <3>4 DEF Ahead, Loops
      <4> QED BY <2>1, <3>1, <3>2, <4>1, <4>2, <4>3 DEF Nearer
    <3> QED BY <3>3, <3>4
  <2>5. Ahead \in Nat /\ Ahead' \in Nat
    <3>1. Ahead \in Nat
      BY <2>1, <2>2, <2>3 DEF Ahead
    <3>2. ~ ScanNext => Ahead' \in Nat
      <4>1. ~ ScanNext => pc' # "scan"
        BY <1>1 DEF Step, Reuse, ScanWild, Wild, Extend, GrowPage, Append, AppendWild,
           ShrinkPage, ShrinkDone
      <4> QED BY <2>1, <2>2, <4>1 DEF Ahead
    <3> QED BY <2>4, <3>1, <3>2 DEF Nearer
  <2>6. CASE Reuse \/ ScanWild \/ Extend
    <3>1. pc = "scan" /\ pc' \in {"idle", "wild", "grow"}
      BY <2>6 DEF Reuse, ScanWild, Wild, Extend, Scanning
    <3> QED BY <2>5, <3>1 DEF Nearer, Loops
  <2>7. CASE GrowPage
    <3>1. /\ pc = "grow" /\ ChunkEnd > heap_max
          /\ pc' = "oom" \/ (pc' = "grow" /\ heap_max' = heap_max + PAGE)
          /\ ChunkEnd' = ChunkEnd
      BY <2>7 DEF GrowPage, ChunkEnd, request
    <3>2. CASE pc' = "oom"
      BY <2>5, <3>1, <3>2 DEF Nearer, Loops
    <3>3. CASE pc' = "grow" /\ heap_max' = heap_max + PAGE
      <4>1. /\ Ahead = ChunkEnd - heap_max
            /\ Ahead' = IF ChunkEnd > heap_max + PAGE THEN ChunkEnd - (heap_max + PAGE) ELSE 0
        BY <3>1, <3>3 DEF Ahead
      <4>2. Ahead' < Ahead
        BY <2>1, <2>2, <3>1, <4>1, Sizes
      <4>3. Loops' = Loops
        BY <3>1, <3>3 DEF Loops
      <4> QED BY <2>5, <4>2, <4>3 DEF Nearer
    <3> QED BY <3>1, <3>2, <3>3
  <2>8. CASE ShrinkPage
    <3>1. pc = "shrink" /\ pc' = "shrink" /\ heap_max' = heap_max - PAGE
      BY <2>8 DEF ShrinkPage
    <3>2. Ahead' < Ahead /\ Loops' = Loops
      BY <2>1, <3>1, Sizes DEF Ahead, Loops
    <3> QED BY <2>5, <3>2 DEF Nearer
  <2>9. CASE Append \/ AppendWild \/ ShrinkDone
    <3>1. pc \in {"grow", "shrink"} /\ pc' \in {"idle", "wild"}
      BY <2>9 DEF Append, AppendWild, Wild, ShrinkDone
    <3> QED BY <2>5, <3>1 DEF Nearer, Loops
  <2> QED BY <1>1, <2>4, <2>6, <2>7, <2>8, <2>9 DEF Step
<1> QED BY <1>1, Invariant, PTL
=============================================================================
