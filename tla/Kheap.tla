------------------------------- MODULE Kheap -------------------------------
(***************************************************************************)
(* The kernel heap of mm/kheap.c: a doubly linked list of chunks, each     *)
(* with a header in front of the caller's bytes, in pages that kmalloc     *)
(* maps at heap_max and kfree gives back.  Nothing in the kernel calls the *)
(* heap from an interrupt, so calls do not interleave; an action is a      *)
(* call, an iteration of one of its loops, or what follows a loop.         *)
(*                                                                         *)
(* Memory holds the headers that were stored in mapped pages, and at NULL  *)
(* the words of physical page 0, where the code's stores through a null    *)
(* prev or next pointer land: page 0 is identity-mapped.                   *)
(***************************************************************************)
EXTENDS Naturals, FiniteSets

CONSTANTS
  WORD,        \* values of a uint32_t (2^32); a header's length has a bit less
  HDR,         \* sizeof(header_t)
  PAGE,        \* bytes in a page
  HEAP_START,  \* where the heap's addresses begin
  TablePages,  \* pages a page table maps
  Frames,      \* frames the physical allocator has for the heap
  Requests,    \* sizes that kmalloc is called with
  LateCalls    \* bound: calls that begin after split_chunk has stored a header

ASSUME HeapAssumption ==
  /\ HDR \in Nat \ {0}
  /\ PAGE \in Nat \ {0}
  /\ TablePages \in Nat \ {0}
  /\ HEAP_START \in Nat /\ HEAP_START >= PAGE /\ HEAP_START >= HDR
  /\ HEAP_START % PAGE = 0
  /\ WORD \in Nat /\ 2 * HEAP_START > WORD /\ HEAP_START < WORD
  /\ Frames \in Nat
  /\ Requests \subseteq 0 .. WORD - 1
  /\ LateCalls \in Nat

NULL == 0

VARIABLES
  pc,          \* where the running call is, or how the kernel died
  hdr,         \* address |-> header: what a header_t * can be read through
  heap_first, heap_max,
  mapped,      \* page numbers with a present entry
  tables,      \* page tables the directory names
  frames,      \* frames left on the physical allocator's stack
  req,         \* l of kmalloc, with its header
  asked,       \* history: l as the caller gave it
  cur_header, prev_header,
  live,        \* history: blocks callers hold, [ptr, len]
  chunks,      \* history: the chunks the list should consist of
  split,       \* history: 0 until split_chunk has stored a header, then the
               \* number of calls since, with that one
  wrapped      \* history: a request went over the end of the address space

paging  == <<mapped, tables, frames>>
request == <<req, asked, wrapped>>
vars    == <<pc, hdr, heap_first, heap_max, paging, request, cur_header, prev_header,
             live, chunks, split>>

Header == [prev : Nat, next : Nat, allocated : BOOLEAN, length : Nat]

Init ==
  /\ pc = "idle"
  /\ hdr = [a \in {NULL} |-> [prev |-> 0, next |-> 0, allocated |-> FALSE, length |-> 0]]
  /\ heap_first = NULL
  /\ heap_max = HEAP_START
  /\ mapped = {}
  /\ tables = {}
  /\ frames = Frames
  /\ req = 0 /\ asked = 0 /\ wrapped = FALSE
  /\ cur_header = NULL
  /\ prev_header = NULL
  /\ live = {}
  /\ chunks = {}
  /\ split = 0
-----------------------------------------------------------------------------
Readable(a) == a \in DOMAIN hdr
Store(h, a, header) == [b \in DOMAIN h \union {a} |-> IF b = a THEN header ELSE h[b]]

\* A block and the header in front of it, as the addresses they take.
Extent(b) == b.ptr - HDR .. b.ptr + b.len - 1
Overlap(b, c) == b # c /\ Extent(b) \intersect Extent(c) # {}

\* Bounds: callers fill the blocks they hold, so once two of them overlap the
\* headers hold the callers' data and the model makes no further call, nor after a
\* request that wrapped; and it follows a heap with a misplaced header for LateCalls
\* calls.
Disjoint == \A b, c \in live : ~Overlap(b, c)
Call == /\ pc = "idle"
        /\ Disjoint /\ ~wrapped
        /\ split <= LateCalls
        /\ split' = IF split = 0 THEN 0 ELSE split + 1

Block(c) == [ptr |-> c + HDR, len |-> asked]

\* A header is read in a page that is not mapped, or was mapped afresh.
Wild == pc' = "wild" /\ UNCHANGED <<hdr, heap_first, heap_max, paging, request, cur_header,
                                    prev_header, live, chunks>>
-----------------------------------------------------------------------------
(***************************************************************************)
(* kmalloc                                                                 *)
(***************************************************************************)
Kmalloc(l) ==
  /\ Call
  /\ req' = (l + HDR) % WORD
  /\ asked' = l
  /\ wrapped' = (l + HDR >= WORD)
  /\ cur_header' = heap_first
  /\ prev_header' = NULL
  /\ pc' = "scan"
  /\ UNCHANGED <<hdr, heap_first, heap_max, paging, live, chunks>>

Scanning == pc = "scan" /\ cur_header # NULL

\* Mutants: a chunk that is too small, and the header of the rest closed on itself.
FitsAny(c)    == ~hdr[c].allocated
RestCircular(c) == [prev |-> c, next |-> c + hdr[c].length, allocated |-> FALSE,
                    length |-> hdr[c].length - req]

Fits(c) == ~hdr[c].allocated /\ hdr[c].length >= req

ScanNext ==
  /\ Scanning
  /\ Readable(cur_header)
  /\ ~Fits(cur_header)
  /\ prev_header' = cur_header
  /\ cur_header' = hdr[cur_header].next
  /\ UNCHANGED <<pc, hdr, heap_first, heap_max, paging, request, live, chunks, split>>

\* split_chunk puts the header of the rest behind the whole chunk.
NewChunk(c)  == c + hdr[c].length
MustSplit(c) == hdr[c].length - req > HDR
Rest(c) == [prev |-> c, next |-> NULL, allocated |-> FALSE,
            length |-> hdr[c].length - req]

Reuse ==
  /\ Scanning
  /\ Readable(cur_header)
  /\ Fits(cur_header)
  /\ LET c == cur_header
     IN  IF MustSplit(c)
           THEN /\ NewChunk(c) + HDR <= heap_max
                /\ hdr' = [Store(hdr, NewChunk(c), Rest(c)) EXCEPT
                             ![c].next = NewChunk(c),
                             ![c].length = req,
                             ![c].allocated = TRUE]
                /\ split' = IF split = 0 THEN 1 ELSE split
           ELSE hdr' = [hdr EXCEPT ![c].allocated = TRUE] /\ UNCHANGED split
  /\ live' = live \union {Block(cur_header)}
  /\ pc' = "idle"
  /\ UNCHANGED <<heap_first, heap_max, paging, request, cur_header, prev_header, chunks>>

ScanWild ==
  /\ Scanning
  /\ \/ ~Readable(cur_header)
     \/ /\ Readable(cur_header) /\ Fits(cur_header) /\ MustSplit(cur_header)
        /\ NewChunk(cur_header) + HDR > heap_max
  /\ Wild /\ UNCHANGED split

\* No chunk fits: append one behind the last.
Extend ==
  /\ pc = "scan" /\ cur_header = NULL
  /\ IF prev_header # NULL
       THEN /\ cur_header' = prev_header + hdr[prev_header].length
            /\ UNCHANGED heap_first
       ELSE cur_header' = HEAP_START /\ heap_first' = HEAP_START
  /\ wrapped' = (wrapped \/ cur_header' + req >= WORD)
  /\ pc' = "grow"
  /\ UNCHANGED <<hdr, heap_max, paging, req, asked, prev_header, live, chunks, split>>

\* start + len, in 32 bits.
ChunkEnd == (cur_header + req) % WORD

\* alloc_chunk, one page; vmm_map takes a frame more for a missing page table.
GrowPage ==
  /\ pc = "grow"
  /\ ChunkEnd > heap_max
  /\ LET p    == heap_max \div PAGE
         need == {p \div TablePages} \ tables
     IN  IF frames < 1 + Cardinality(need)
           THEN pc' = "oom" /\ UNCHANGED <<paging, heap_max>>
           ELSE /\ frames' = frames - 1 - Cardinality(need)
                /\ tables' = tables \union need
                /\ mapped' = mapped \union {p}
                /\ heap_max' = heap_max + PAGE
                /\ UNCHANGED pc
  /\ UNCHANGED <<hdr, heap_first, request, cur_header, prev_header, live, chunks, split>>

Append ==
  /\ pc = "grow"
  /\ ChunkEnd <= heap_max
  /\ cur_header + HDR <= heap_max
  /\ hdr' = [Store(hdr, cur_header,
                   [prev |-> prev_header, next |-> NULL,
                    allocated |-> TRUE, length |-> req % (WORD \div 2)])
             EXCEPT ![prev_header].next = cur_header]
  /\ live' = live \union {Block(cur_header)}
  /\ chunks' = chunks \union {cur_header}
  /\ pc' = "idle"
  /\ UNCHANGED <<heap_first, heap_max, paging, request, cur_header, prev_header, split>>
\* A chunk that wrapped got no page, nor may its header have one.
AppendWild == /\ pc = "grow" /\ ChunkEnd <= heap_max
              /\ cur_header + HDR > heap_max
              /\ Wild /\ UNCHANGED split
-----------------------------------------------------------------------------
(***************************************************************************)
(* kfree                                                                   *)
(***************************************************************************)
\* The two merges of glue_chunk, on the memory h they find.
FreeAt(h, c) == c # NULL /\ ~h[c].allocated
\* Mutants: the chunk behind does not learn of the merge, or there is none.
GlueNextHalf(h, c) ==
  IF FreeAt(h, h[c].next)
    THEN [h EXCEPT ![c].length = @ + h[h[c].next].length,
                   ![c].next = h[h[c].next].next]
    ELSE h
GlueNextNever(h, c) == h

GlueNext(h, c) ==
  IF FreeAt(h, h[c].next)
    THEN [h EXCEPT ![c].length = @ + h[h[c].next].length,
                   ![h[h[c].next].next].prev = c,
                   ![c].next = h[h[c].next].next]
    ELSE h
GluePrev(h, c) ==
  IF FreeAt(h, h[c].prev)
    THEN [h EXCEPT ![h[c].prev].length = @ + h[c].length,
                   ![h[c].prev].next = h[c].next,
                   ![h[c].next].prev = h[c].prev]
    ELSE h
Glued(h, c) == IF FreeAt(h, h[c].prev) THEN h[c].prev ELSE c

Freed(c) == [hdr EXCEPT ![c].allocated = FALSE]

\* Every header that glue_chunk and free_chunk go through is there to read.
Reach(c) == /\ Readable(c)
            /\ Readable(hdr[c].next) /\ Readable(hdr[c].prev)
            /\ FreeAt(hdr, hdr[c].next) => Readable(hdr[hdr[c].next].next)
            /\ FreeAt(hdr, hdr[c].prev) => Readable(hdr[hdr[c].prev].prev)

Kfree(b) ==
  /\ Call
  /\ b \in live
  /\ LET c  == b.ptr - HDR
         h1 == GlueNext(Freed(c), c)
         h2 == GluePrev(h1, c)
         g  == Glued(h1, c)
     IN  /\ Reach(c)
         /\ chunks' = chunks \
              ({a \in chunks : a = hdr[c].next /\ FreeAt(hdr, a)}
               \union {a \in chunks : a = c /\ g # c}
               \union {a \in chunks : a = g /\ h2[g].next = NULL})
         /\ cur_header' = g
         /\ IF h2[g].next = NULL
              THEN \* free_chunk
                   /\ hdr' = [h2 EXCEPT ![h2[g].prev].next = NULL]
                   /\ heap_first' = IF h2[g].prev = NULL THEN NULL ELSE heap_first
                   /\ pc' = "shrink"
              ELSE hdr' = h2 /\ UNCHANGED <<heap_first, pc>>
  /\ live' = live \ {b}
  /\ UNCHANGED <<heap_max, paging, request, prev_header>>

KfreeWild(b) == Call /\ b \in live /\ ~Reach(b.ptr - HDR) /\ Wild

\* The last page of the heap holds nothing but the chunk; a mutant of that test.
PageUnusedMore == heap_max - PAGE > cur_header
PageUnused     == heap_max - PAGE >= cur_header

\* The loop of free_chunk: give back the last page ...
ShrinkPage ==
  /\ pc = "shrink"
  /\ PageUnused
  /\ heap_max' = heap_max - PAGE
  /\ mapped' = mapped \ {heap_max' \div PAGE}
  /\ frames' = frames + Cardinality({heap_max' \div PAGE} \intersect mapped)
  /\ hdr' = [a \in {a \in DOMAIN hdr : a + HDR <= heap_max'} |-> hdr[a]]
  /\ UNCHANGED <<pc, heap_first, tables, request, cur_header, prev_header, live, chunks, split>>

\* ... until it holds the end of the chunk before.
ShrinkDone ==
  /\ pc = "shrink"
  /\ ~PageUnused
  /\ pc' = "idle"
  /\ UNCHANGED <<hdr, heap_first, heap_max, paging, request, cur_header, prev_header, live,
                 chunks, split>>

Step == ScanNext \/ Reuse \/ ScanWild \/ Extend \/ GrowPage \/ Append \/ AppendWild
          \/ ShrinkPage \/ ShrinkDone

Next == \/ Step
        \/ \E l \in Requests : Kmalloc(l)
        \/ \E b \in live : Kfree(b) \/ KfreeWild(b)

Spec == Init /\ [][Next]_vars

\* The processor goes on with a call it has begun.
FairSpec == Spec /\ WF_vars(Step)
-----------------------------------------------------------------------------
\* Every variable has its type: no length and no address of the heap goes negative.
TypeOK ==
  /\ pc \in {"idle", "scan", "grow", "shrink", "oom", "wild"}
  /\ DOMAIN hdr \subseteq Nat /\ NULL \in DOMAIN hdr
  /\ \A a \in DOMAIN hdr : hdr[a] \in Header
  /\ heap_first \in Nat /\ heap_max \in Nat
  /\ mapped \subseteq Nat /\ tables \subseteq Nat /\ frames \in Nat
  /\ req \in Nat /\ asked \in Nat /\ wrapped \in BOOLEAN
  /\ cur_header \in Nat /\ prev_header \in Nat
  /\ \A b \in live : b \in [ptr : Nat, len : Nat]
  /\ chunks \subseteq Nat
  /\ split \in Nat

(***************************************************************************)
(* Until a split, which stores its header over the chunk behind, or a      *)
(* request that is too large for 32 bits.                                  *)
(***************************************************************************)
Sound == split = 0 /\ ~wrapped

Length(c) == hdr[c].length
End(c)    == c + Length(c)

\* Through all merges, appended chunks and returned pages, every block that a
\* caller holds keeps its header and its size, lies in mapped memory and shares
\* no byte with another (kmalloc, kheap.c:9; glue_chunk, kheap.c:87), unless someone
\* asks for more than lies between the heap's end and that of the address space.
LiveIntact ==
  Sound =>
    /\ Disjoint
    /\ \A b \in live :
         LET c == b.ptr - HDR
         IN  /\ c \in DOMAIN hdr
             /\ hdr[c].allocated /\ Length(c) >= b.len + HDR
             /\ \A a \in Extent(b) : a \div PAGE \in mapped

\* The list covers the heap from HEAP_START without a gap, forward and backward
\* (kmalloc relies on it to append, glue_chunk to merge).
Tiled ==
  Sound =>
    /\ heap_first = IF chunks = {} /\ pc \notin {"grow", "oom"} THEN NULL ELSE HEAP_START
    /\ \A c \in chunks :
         /\ c \in DOMAIN hdr
         /\ hdr[c].prev = NULL <=> c = HEAP_START
         /\ hdr[c].prev # NULL => hdr[c].prev \in chunks /\ hdr[hdr[c].prev].next = c
         /\ hdr[c].next # NULL => /\ hdr[c].next = End(c)
                                  /\ hdr[c].next \in chunks
                                  /\ hdr[hdr[c].next].prev = c
         /\ hdr[c].next = NULL => \A d \in chunks : d <= c

\* A free chunk is followed by an allocated one: kfree leaves no two free chunks
\* side by side and none at the end of the heap, which would keep its pages.
Coalesced ==
  Sound =>
    \A c \in chunks : ~hdr[c].allocated => /\ hdr[c].next # NULL
                                           /\ hdr[hdr[c].next].allocated

\* Between calls the heap has mapped what lies below heap_max and no more, every
\* frame it took is in use, and its last page holds a byte of a caller's chunk:
\* free_chunk (kheap.c:65) returns the rest, all of it when nothing is held.
PagesReturned ==
  Sound /\ pc = "idle" =>
    /\ mapped = {p \in 0 .. heap_max \div PAGE :
                   HEAP_START <= p * PAGE /\ p * PAGE < heap_max}
    /\ frames + Cardinality(mapped) + Cardinality(tables) = Frames
    /\ IF live = {} THEN heap_max = HEAP_START
       ELSE \E b \in live : End(b.ptr - HDR) > heap_max - PAGE

\* A call that has begun returns, or ends in a panic or a page fault: the walk of
\* the list ends even after a misplaced header has cut it.
CallReturns == pc \in {"scan", "grow", "shrink"} ~> pc \in {"idle", "oom", "wild"}

\* What the finished item "Kernel Heap" of the README promises: kmalloc never
\* gives a caller memory that another one holds.
LiveDisjoint == Disjoint
=============================================================================
