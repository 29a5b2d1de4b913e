-------------------------------- MODULE Pmm --------------------------------
(***************************************************************************)
(* The physical page allocator of mm/pmm.c together with the page table    *)
(* mm/vmm.c gives it.                                                      *)
(*                                                                         *)
(* Free frames are kept on a stack of 32-bit words that grows upward from  *)
(* the virtual address PMM_STACK_ADDR.  The stack is itself paged memory:  *)
(* whenever it is full, the frame being freed is not pushed but mapped as  *)
(* the next page of the stack.  The page table of that window is the last  *)
(* frame init_vmm takes from the early bump allocator, so a write to the   *)
(* stack goes through an entry of a frame the allocator owns as well.      *)
(*                                                                         *)
(* An address in the window is the pair the MMU makes of it: a page number *)
(* and the index of a word in that page.  A word is a page-table entry or  *)
(* a stack slot: a frame number and the PAGE_PRESENT bit.                  *)
(***************************************************************************)
EXTENDS Naturals, Sequences, FiniteSets

CONSTANTS
  AddrSpace,  \* frames in the 32-bit physical address space (2^20)
  Entries,    \* words in a page: entries of a table, slots of a stack page (1024)
  PageBytes,  \* bytes in a page (4096)
  MemUpper,   \* mboot_info->mem_upper, in KiB
  Regions     \* the multiboot memory map: <<[base, len, available], ...>> in pages

\* init_pmm rounds the KiB count mem_upper as if it were a byte address.
InitLoc == MemUpper \div PageBytes + 1

ASSUME ConstantsAssumption ==
  /\ AddrSpace \in Nat
  /\ Entries \in Nat \ {0}
  /\ PageBytes \in Nat \ {0}
  /\ MemUpper \in Nat
  /\ InitLoc + 4 < AddrSpace
  /\ Regions \in Seq([base : Nat, len : Nat, available : BOOLEAN])

Frame   == 0 .. AddrSpace - 1
NoFrame == AddrSpace
Entry   == 0 .. Entries - 1
Word    == [frame : Frame, present : BOOLEAN]

\* The loop of pmm_free_available_pages computes in 32 bits.
First(r) == r.base % AddrSpace
End(r)   == (First(r) + (r.len % AddrSpace)) % AddrSpace

VARIABLES
  phase,          \* what start_kernel has reached, or how the kernel died
  pmm_loc,        \* frame named by the early bump pointer
  stackTable,     \* frame of page_directory[PAGE_DIR_INDEX(PMM_STACK_ADDR >> 12)]
  pmm_stack_loc,  \* [page, entry]: next free slot
  pmm_stack_max,  \* number of pages of the stack that were mapped
  mem,            \* contents of the frames, word by word
  tlb,            \* cached translation of each page of the window, or NoFrame
  region,         \* entry of the memory map being freed
  page,           \* j of the freeing loop
  owned,          \* history: frames handed out by pmm_alloc_page and not freed
  backing,        \* history: the frame vmm_map put behind each page of the stack
  drained         \* history: a pop has read a slot that a table entry overwrote

stackVars == <<pmm_stack_loc, pmm_stack_max, mem, tlb, backing>>
vars == <<phase, pmm_loc, stackTable, pmm_stack_loc, pmm_stack_max, mem, tlb,
          region, page, owned, backing, drained>>

Phase == {"init_pmm", "init_vmm", "free", "run", "oom", "fault", "crash"}

\* What the boot loader may have left in frames nobody cleared.
Stale == {[frame |-> 0, present |-> p] : p \in BOOLEAN}

Init ==
  /\ phase = "init_pmm"
  /\ pmm_loc = 0
  /\ stackTable = NoFrame
  /\ pmm_stack_loc = [page |-> 0, entry |-> 0]
  /\ pmm_stack_max = 0
  /\ \E word \in Stale : mem = [f \in Frame |-> [e \in Entry |-> word]]
  /\ tlb = [k \in Entry |-> NoFrame]
  /\ region = 1
  /\ page = 0
  /\ owned = {}
  /\ backing = [k \in Entry |-> NoFrame]
  /\ drained = FALSE
-----------------------------------------------------------------------------
\* Mutants: what the code would be with a typical slip in it.
EmptyEarly      == pmm_stack_loc.page = 0 /\ pmm_stack_loc.entry <= 1
FullLate        == pmm_stack_max < pmm_stack_loc.page
DownToBase(a)   == [a EXCEPT !.page = 0, !.entry = 0]

Empty == pmm_stack_loc = [page |-> 0, entry |-> 0]
Full  == pmm_stack_max <= pmm_stack_loc.page

Up(a)   == IF a.entry = Entries - 1
             THEN [page |-> a.page + 1, entry |-> 0]
             ELSE [a EXCEPT !.entry = @ + 1]
Down(a) == IF a.entry = 0
             THEN [page |-> a.page - 1, entry |-> Entries - 1]
             ELSE [a EXCEPT !.entry = @ - 1]

Below(k, e) == \/ k < pmm_stack_loc.page
               \/ k = pmm_stack_loc.page /\ e < pmm_stack_loc.entry

\* The MMU: a cached translation wins over the table; NoFrame is a page fault.
Translate(k) ==
  IF tlb[k] # NoFrame THEN tlb[k]
  ELSE IF mem[stackTable][k].present THEN mem[stackTable][k].frame
  ELSE NoFrame

\* The stack's first page is backed by the stack's own page table.
Aliased == backing[0] = stackTable

\* Slots that vmm_map overwrote when it mapped a later page of an aliased stack.
Clobbered(k, e) == Aliased /\ k = 0 /\ e \in 1 .. pmm_stack_max - 1
-----------------------------------------------------------------------------
(***************************************************************************)
(* Boot, with interrupts off.                                              *)
(***************************************************************************)
InitPmm ==
  /\ phase = "init_pmm"
  /\ pmm_loc' = InitLoc
  /\ phase' = "init_vmm"
  /\ UNCHANGED <<stackTable, stackVars, region, page, owned, drained>>

\* The early branch of pmm_alloc_page: `return pmm_loc += 0x1000'.  init_vmm
\* takes the page directory, the identity table, the table of the directory
\* window and, last, the table of the stack.  The memset meant to clear the
\* latter goes to the address found in its uncleared first entry: it clears
\* memory nothing here depends on, or memory without which the machine dies.
EarlyAlloc(n) == pmm_loc + n

InitVmm ==
  /\ phase = "init_vmm"
  /\ pmm_loc' = EarlyAlloc(4)
  /\ stackTable' = EarlyAlloc(4)
  /\ phase' \in {"free", "crash"}
  /\ page' = IF Regions = <<>> THEN 0 ELSE First(Regions[1])
  /\ UNCHANGED <<stackVars, region, owned, drained>>

\* pmm_free_page, with the vmm_map it calls.  The window has one page table;
\* the guard Full => pmm_stack_max < Entries names that bound (1024 pages of
\* 1024 slots, as many as a 32-bit address space has frames).
FreePage(f, next) ==
  \/ /\ f < pmm_loc
     /\ phase' = next
     /\ UNCHANGED stackVars
  \/ /\ f >= pmm_loc
     /\ Full
     /\ pmm_stack_max < Entries
     /\ mem' = [mem EXCEPT ![stackTable][pmm_stack_max] =
                             [frame |-> f, present |-> TRUE]]
     /\ pmm_stack_max' = pmm_stack_max + 1
     /\ backing' = [backing EXCEPT ![pmm_stack_max] = f]
     /\ phase' = next
     /\ UNCHANGED <<pmm_stack_loc, tlb>>
  \/ /\ f >= pmm_loc
     /\ ~Full
     /\ LET k  == pmm_stack_loc.page
            fr == Translate(k)
        IN  \/ /\ fr # NoFrame
               /\ mem' = [mem EXCEPT ![fr][pmm_stack_loc.entry] =
                                       [frame |-> f, present |-> FALSE]]
               /\ tlb' = [tlb EXCEPT ![k] = fr]
               /\ pmm_stack_loc' = Up(pmm_stack_loc)
               /\ phase' = next
               /\ UNCHANGED <<pmm_stack_max, backing>>
            \/ /\ fr = NoFrame
               /\ phase' = "fault"
               /\ UNCHANGED stackVars

\* Mutants: a page too many, a page too few.
InRegionOver  == /\ phase = "free"
                 /\ region <= Len(Regions)
                 /\ Regions[region].available
                 /\ page <= End(Regions[region])
InRegionUnder == /\ phase = "free"
                 /\ region <= Len(Regions)
                 /\ Regions[region].available
                 /\ page + 1 < End(Regions[region])

\* pmm_free_available_pages: one iteration of the inner loop ...
InRegion == /\ phase = "free"
            /\ region <= Len(Regions)
            /\ Regions[region].available
            /\ page < End(Regions[region])

FreeAvailable ==
  /\ InRegion
  /\ FreePage(page, "free")
  /\ page' = page + 1
  /\ UNCHANGED <<pmm_loc, stackTable, region, owned, drained>>

\* ... and one step of the outer one.
NextRegion ==
  /\ phase = "free"
  /\ region <= Len(Regions)
  /\ ~InRegion
  /\ region' = region + 1
  /\ page' = IF region < Len(Regions) THEN First(Regions[region + 1]) ELSE page
  /\ phase' = IF region < Len(Regions) THEN "free" ELSE "run"
  /\ UNCHANGED <<pmm_loc, stackTable, stackVars, owned, drained>>
-----------------------------------------------------------------------------
(***************************************************************************)
(* The allocator in use.                                                   *)
(***************************************************************************)
\* pmm_alloc_page after paging_active was set.
Alloc ==
  /\ phase = "run"
  /\ LET top == Down(pmm_stack_loc)
         fr  == Translate(top.page)
     IN  \/ /\ Empty
            /\ phase' = "oom"
            /\ UNCHANGED <<pmm_stack_loc, tlb, owned, drained>>
         \/ /\ ~Empty
            /\ fr # NoFrame
            /\ pmm_stack_loc' = top
            /\ tlb' = [tlb EXCEPT ![top.page] = fr]
            /\ owned' = owned \union {mem[fr][top.entry].frame}
            /\ drained' = (drained \/ Clobbered(top.page, top.entry))
            /\ UNCHANGED phase
         \/ /\ ~Empty
            /\ fr = NoFrame
            /\ pmm_stack_loc' = top
            /\ phase' = "fault"
            /\ UNCHANGED <<tlb, owned, drained>>
  /\ UNCHANGED <<pmm_loc, stackTable, pmm_stack_max, mem, region, page, backing>>

\* A holder gives back a frame it was handed.
Free(f) ==
  /\ phase = "run"
  /\ f \in owned
  /\ FreePage(f, "run")
  /\ owned' = owned \ {f}
  /\ UNCHANGED <<pmm_loc, stackTable, region, page, drained>>

\* The processor may drop any translation at any time.
Evict(k) ==
  /\ phase \in {"free", "run"}
  /\ tlb[k] # NoFrame
  /\ tlb' = [tlb EXCEPT ![k] = NoFrame]
  /\ UNCHANGED <<phase, pmm_loc, stackTable, pmm_stack_loc, pmm_stack_max, mem,
                 region, page, owned, backing, drained>>

Next ==
  \/ InitPmm
  \/ InitVmm
  \/ FreeAvailable
  \/ NextRegion
  \/ Alloc
  \/ \E f \in Frame : Free(f)
  \/ \E k \in Entry : Evict(k)

Spec == Init /\ [][Next]_vars
-----------------------------------------------------------------------------
(***************************************************************************)
(* Properties.                                                             *)
(***************************************************************************)
\* Every variable has its type; in particular the stack pointer stays on a slot and
\* the stack within the pages its one page table can map.
TypeOK ==
  /\ phase \in Phase
  /\ pmm_loc \in Frame
  /\ stackTable \in Frame \union {NoFrame}
  /\ pmm_stack_loc \in [page : Nat, entry : Entry]
  /\ pmm_stack_max \in 0 .. Entries
  /\ mem \in [Frame -> [Entry -> Word]]
  /\ tlb \in [Entry -> Frame \union {NoFrame}]
  /\ region \in Nat \ {0}
  /\ page \in Nat
  /\ owned \in SUBSET Frame
  /\ backing \in [Entry -> Frame \union {NoFrame}]
  /\ drained \in BOOLEAN

\* What a pop of slot (k, e) returns while page k is reachable.
Slot(k, e) == mem[backing[k]][e].frame

Occupied(k, e)    == k \in 0 .. pmm_stack_max - 1 /\ e \in Entry /\ Below(k, e)
Trustworthy(k, e) == Occupied(k, e) /\ ~Clobbered(k, e)

StackPages == {backing[k] : k \in 0 .. pmm_stack_max - 1}
FreeFrames == {f \in Frame : \E k, e \in Entry : Trustworthy(k, e) /\ Slot(k, e) = f}

\* Frames with a use: a holder, a page of the stack, a table of init_vmm.
Tables == InitLoc .. pmm_loc
InUse  == owned \union StackPages \union Tables

\* The frames the memory map gives the allocator.
Managed == {f \in Frame : /\ f >= pmm_loc
                          /\ \E r \in DOMAIN Regions :
                               /\ Regions[r].available
                               /\ f \in First(Regions[r]) .. End(Regions[r]) - 1}

\* The map a well-behaved firmware reports: ascending, without overlaps, below 4 GiB.
SortedMap ==
  \A a, b \in DOMAIN Regions :
    a < b /\ Regions[a].available => End(Regions[a]) <= First(Regions[b])

\* No free frame has a use and none is on the stack twice, so pmm_alloc_page
\* (pmm.c:13) never gives one frame to two owners.  An aliased stack keeps this
\* promise for every slot outside its first pmm_stack_max ones, until one of
\* those is popped.
StackIntegrity ==
  ~drained =>
    \A k, l \in Entry : \A d, e \in Entry :
      Trustworthy(k, d) =>
        /\ Slot(k, d) \notin InUse
        /\ Trustworthy(l, e) /\ <<k, d>> # <<l, e>> => Slot(k, d) # Slot(l, e)

\* Away from aliasing the allocator never touches an unmapped page of its own
\* stack, however translations come and go: the page test of pmm_free_page
\* (pmm.c:31) maps each page before the first slot in it is used.
StackMapped == phase = "fault" => Aliased

\* Every frame of the map that was freed is on the stack, behind it or with a
\* holder; an aliased stack loses one frame for each later page, no more.
FramesAccounted ==
  phase = "run" /\ ~drained =>
    LET lost == Managed \ (FreeFrames \union StackPages \union owned)
    IN  Cardinality(lost) <= IF Aliased THEN pmm_stack_max - 1 ELSE 0

\* The allocator without its stack: an interface its clients can rely on.
Allocator == INSTANCE FrameAllocator WITH
               free <- FreeFrames,
               held <- owned,
               kept <- StackPages,
               up   <- phase = "run"
Implements == Allocator!Spec
=============================================================================
