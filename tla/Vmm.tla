-------------------------------- MODULE Vmm --------------------------------
(***************************************************************************)
(* Virtual memory (mm/vmm.c): the page directory, which is reached through *)
(* itself, the page tables, and the translations the processor caches.     *)
(* The callers are those of mm/kheap.c, one page of the heap at a time.    *)
(*                                                                         *)
(* A virtual page is a number; its quotient and remainder by Entries are   *)
(* the indices of its directory and its table entry.  The last table holds *)
(* the directory as a table, so the window page_tables[] shows each table  *)
(* as a page; page_directory[] is the last page of the table before.       *)
(***************************************************************************)
EXTENDS Naturals, Sequences, FiniteSets

CONSTANTS
  Entries,    \* words in a page (1024)
  Frames,     \* frames of physical memory
  Early,      \* pmm_loc when init_vmm begins: it takes the four frames behind
  Available,  \* frames that pmm_free_available_pages frees
  LowFrames,  \* frames whose address has an empty top byte (4096)
  StackDir,   \* directory index of the page allocator's stack (1020)
  HeapStart,  \* first page of the heap (832 * 1024)
  HeapPages,  \* bound: pages the heap grows to
  Data        \* words that users of the heap fill its pages with

\* The heap is below the stack and the window, and init_vmm's frames are below those
\* that the memset of vmm_map hits.  That the last of them is available, the case
\* that Pmm treats, is left out here.
ASSUME VmmAssumption ==
  /\ Entries \in Nat /\ Entries > 3
  /\ Frames \in Nat /\ Frames >= Entries
  /\ LowFrames \in Nat \ {0}
  /\ HeapStart \in Nat /\ HeapPages \in Nat
  /\ StackDir \in 1 .. Entries - 3
  /\ HeapStart + HeapPages <= StackDir * Entries
  /\ Early \in Nat /\ Early + 4 < HeapStart \div Entries
  /\ Available \subseteq Early + 5 .. Frames - 1
  /\ Data \subseteq [frame : 0 .. Frames - 1, present : BOOLEAN]

Frame == 0 .. Frames - 1
Index == 0 .. Entries - 1
Page  == 0 .. Entries * Entries - 1
Word  == [frame : Frame, present : BOOLEAN]

NoFrame == Frames
NoPage  == Entries * Entries
Zero    == [frame |-> 0, present |-> FALSE]

Entry(f) == [frame |-> f, present |-> TRUE]

\* The frames of init_vmm: the directory and three tables.
Directory == Early + 1
LowTable  == Early + 2
Window    == Early + 3

WindowDir == Entries - 2     \* 1022
SelfDir   == Entries - 1     \* 1023

VARIABLES
  phase,     \* "boot", "run", or how the kernel ended
  mem,       \* contents of the frames
  stale,     \* translations the processor may have cached that no table holds now
  free,      \* frames on the stack of the page allocator
  maps,      \* history: the frames behind the pages of the heap, up to heap_max
  dirty,     \* history: tables whose frame was not clean when vmm_map took it
  scrubbed   \* history: tables that the memset of vmm_map has hit

vars == <<phase, mem, stale, free, maps, dirty, scrubbed>>

\* What the boot loader and the firmware have left.
Left == {Zero, Entry(0)}

Init ==
  /\ phase = "boot"
  /\ \E w \in Left : mem = [f \in Frame |-> [e \in Index |-> w]]
  /\ stale = {}
  /\ free = {}
  /\ maps = <<>>
  /\ dirty = {} /\ scrubbed = {}
-----------------------------------------------------------------------------
(***************************************************************************)
(* The processor.                                                          *)
(***************************************************************************)
Dir(v)  == v \div Entries
Slot(v) == v % Entries

Walk(m, v) ==
  LET d == m[Directory][Dir(v)]
  IN  IF d.present /\ m[d.frame][Slot(v)].present THEN m[d.frame][Slot(v)].frame
      ELSE NoFrame

\* A translation may stay in the cache when its entry changes, until invlpg.
StaleAfter(m, flushed) ==
  {p \in stale \union {<<u, Walk(mem, u)>> : u \in Page} :
     p[1] # flushed /\ p[2] # NoFrame /\ p[2] # Walk(m, p[1])}

\* Where an access may go.
Reach(v) == {Walk(mem, v)} \union {f \in Frame : <<v, f>> \in stale}
-----------------------------------------------------------------------------
(***************************************************************************)
(* init_vmm.                                                               *)
(***************************************************************************)
\* Paging is off until the directory is loaded.  The table of the stack is not
\* cleared: memset gets the address in its first entry, and clears memory nothing
\* here depends on, or memory without which the machine dies.
\* Mutant: the last table shows itself, not the directory.
FirstDirectoryTwice ==
  [i \in Index |-> CASE i = 0         -> Entry(LowTable)
                     [] i = StackDir  -> Entry(Early + 4)
                     [] i = WindowDir -> Entry(Window)
                     [] i = SelfDir   -> Entry(Window)
                     [] OTHER         -> Zero]

FirstDirectory ==
  [i \in Index |-> CASE i = 0         -> Entry(LowTable)
                     [] i = StackDir  -> Entry(Early + 4)
                     [] i = WindowDir -> Entry(Window)
                     [] i = SelfDir   -> Entry(Directory)
                     [] OTHER         -> Zero]

InitVmm ==
  /\ phase = "boot"
  /\ phase' \in {"run", "crash"}
  /\ mem' = [mem EXCEPT ![Directory] = FirstDirectory,
                        ![LowTable]  = [i \in Index |-> Entry(i)],
                        ![Window]    = [i \in Index |-> IF i = SelfDir THEN Entry(Directory)
                                                        ELSE Zero]]
  /\ free' = Available
  /\ UNCHANGED <<stale, maps, dirty, scrubbed>>
-----------------------------------------------------------------------------
(***************************************************************************)
(* vmm_map.                                                                *)
(***************************************************************************)
DirectoryPage == WindowDir * Entries + SelfDir     \* 0xFFBFF000
TablePage(i)  == SelfDir * Entries + i             \* 0xFFC00000

Store(m, v, e, w) == [m EXCEPT ![Walk(m, v)][e] = w]

\* memset(v * 4096 + 3, 0, 4096): the three bytes before keep their value, and three
\* bytes of the next page lose it.
Scrub(m, v) ==
  LET a == Walk(m, v)
      b == Walk(m, v + 1)
      Keep(w) == [w EXCEPT !.frame = @ % LowFrames]
      Lose(w) == [frame |-> w.frame - (w.frame % LowFrames), present |-> FALSE]
  IN  [f \in Frame |->
         [e \in Index |->
            CASE f = a /\ e > 0 -> Zero
              [] f = a /\ e = 0 -> Keep(m[f][e])
              [] f = b /\ e = 0 -> Lose(m[f][e])
              [] OTHER          -> m[f][e]]]

\* Mutant: the physical address of the new table.
ClearedPhysical(m, i) == Scrub(m, m[Walk(m, DirectoryPage)][i].frame)

\* `memset(page_tables[pt_idx], 0, 0x1000)': the address is what entry pt_idx of the
\* window's first page holds, which is the identity-mapped page pt_idx.
Cleared(m, i) == Scrub(m, m[Walk(m, TablePage(0))][i].frame)

\* Mutants: the entry is left, or the cache is.
UnmapLeft(v)  == mem
FlushedNot(v) == NoPage

\* vmm_unmap: the entry, and invlpg.
Unmap(v)   == Store(mem, TablePage(Dir(v)), Slot(v), Zero)
Flushed(v) == v

\* A directory entry of zero asks for a table.
NeedsTable(v) == mem[Walk(mem, DirectoryPage)][Dir(v)] = Zero

WithTable(v, t) == Cleared(Store(mem, DirectoryPage, Dir(v), Entry(t)), Dir(v))

Enter(m, v, w) == Store(m, TablePage(Dir(v)), Slot(v), w)

\* Page k of the heap; heap_max is the page behind the last.
HeapPage(k) == HeapStart + k - 1
Top         == Len(maps)

NewTable(v, t) ==
  LET m     == WithTable(v, t)
      clean == m[t] = [e \in Index |-> Zero]
      inUse == {m[Directory][i].frame : i \in {j \in Index : m[Directory][j].present}}
  IN  /\ dirty' = IF clean THEN dirty ELSE dirty \union {Dir(v)}
      /\ scrubbed' = scrubbed \union ({Dir(v), Dir(v) + 1} \intersect (inUse \ {t}))

(***************************************************************************)
(* The heap's calls, and its users.                                        *)
(***************************************************************************)
\* alloc_chunk: a frame for the page behind the heap, and perhaps one for a table.
Grow ==
  LET v == HeapPage(Top + 1)
  IN  /\ phase = "run" /\ Top < HeapPages
      /\ \E f \in free :
           /\ maps' = Append(maps, f)
           /\ IF NeedsTable(v)
                THEN \E t \in free \ {f} :
                       /\ mem' = Enter(WithTable(v, t), v, Entry(f))
                       /\ free' = free \ {f, t}
                       /\ NewTable(v, t)
                ELSE /\ mem' = Enter(mem, v, Entry(f))
                     /\ free' = free \ {f}
                     /\ UNCHANGED <<dirty, scrubbed>>
      /\ stale' = StaleAfter(mem', NoPage)
      /\ UNCHANGED phase

\* pmm_alloc_page panics.
OutOfMemory ==
  /\ phase = "run" /\ Top < HeapPages
  /\ Cardinality(free) < (IF NeedsTable(HeapPage(Top + 1)) THEN 2 ELSE 1)
  /\ phase' = "panic"
  /\ UNCHANGED <<mem, stale, free, maps, dirty, scrubbed>>

\* vmm_get_mapping, Zero when there is none: an entry that is not zero is taken for a
\* mapping.
GetMapping(v) == IF NeedsTable(v) THEN Zero
                 ELSE mem[Walk(mem, TablePage(Dir(v)))][Slot(v)]

\* free_chunk: the frame of the last page goes back, then the page is unmapped.  The
\* frame is what a local variable holds by chance when there is no mapping.
Shrink ==
  LET v == HeapPage(Top)
      w == GetMapping(v)
  IN  /\ phase = "run" /\ Top > 0
      /\ IF w = Zero
           THEN phase' = "wild" /\ UNCHANGED free
           ELSE /\ free' = IF w.frame < Early + 4 THEN free ELSE free \union {w.frame}
                /\ UNCHANGED phase
      /\ mem' = Unmap(v)
      /\ stale' = StaleAfter(mem', Flushed(v))
      /\ maps' = SubSeq(maps, 1, Top - 1)
      /\ UNCHANGED <<dirty, scrubbed>>

\* A user of the heap fills a page, through whatever translation the processor has;
\* without one page_fault ends the kernel.
Fill(k, w) ==
  /\ phase = "run"
  /\ \E f \in Reach(HeapPage(k)) :
       IF f = NoFrame
         THEN phase' = "panic" /\ UNCHANGED <<mem, stale>>
         ELSE /\ mem' = [mem EXCEPT ![f] = [e \in Index |-> w]]
              /\ stale' = StaleAfter(mem', NoPage)
              /\ UNCHANGED phase
  /\ UNCHANGED <<free, maps, dirty, scrubbed>>

Next == \/ InitVmm \/ Grow \/ OutOfMemory \/ Shrink
        \/ \E k \in 1 .. Top, w \in Data : Fill(k, w)

Spec == Init /\ [][Next]_vars
-----------------------------------------------------------------------------
\* Every variable has its type.
TypeOK ==
  /\ phase \in {"boot", "run", "panic", "wild", "crash"}
  /\ mem \in [Frame -> [Index -> Word]]
  /\ stale \subseteq Page \X Frame
  /\ free \subseteq Frame
  /\ maps \in Seq(Frame) /\ Len(maps) <= HeapPages
  /\ dirty \subseteq Index /\ scrubbed \subseteq Frame

\* The directory and every table are where vmm_map looks for them (vmm.c:19-24), with
\* no older translation in the way.
Windows ==
  phase = "run" =>
    /\ Reach(DirectoryPage) = {Directory}
    /\ \A i \in Index : mem[Directory][i].present =>
                          Reach(TablePage(i)) = {mem[Directory][i].frame}

\* The entry of a heap page names the frame that was mapped there, until the memset of
\* vmm_map (vmm.c:21) has hit the page's table; and no other translation is cached,
\* unless the entry replaced one that came with the frame of the table (vmm.c:24).
Mapped ==
  phase = "run" =>
    \A k \in 1 .. Top :
      LET v == HeapPage(k)
      IN  mem[Directory][Dir(v)].frame \notin scrubbed =>
            /\ Walk(mem, v) = maps[k]
            /\ Dir(v) \notin dirty => Reach(v) = {maps[k]}

\* A page that is not mapped, or no longer, faults: no entry and no cached translation
\* is left (vmm.c:29), unless its table came from a frame that had been used
\* (vmm.c:20).
Faults ==
  phase = "run" =>
    \A v \in HeapStart .. StackDir * Entries - 1 :
      v \notin {HeapPage(k) : k \in 1 .. Top} /\ Dir(v) \notin dirty => Reach(v) = {NoFrame}

\* What a heap page holds changes only when it is filled, or when vmm_map makes the
\* table whose index is the page's frame or the frame before (vmm.c:21).
NewDir(i) == mem[Directory][i] = Zero /\ mem'[Directory][i] # Zero
Isolated ==
  [][phase = "run" /\ scrubbed = {} =>
       \A k \in 1 .. Top :
         mem'[maps[k]] # mem[maps[k]] =>
           \/ \E w \in Data : Fill(k, w)
           \/ \E i \in Index : NewDir(i) /\ maps[k] \in {i, i + 1}]_vars
=============================================================================
