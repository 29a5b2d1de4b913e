----------------------------- MODULE PmmProofs -----------------------------
(***************************************************************************)
(* Proofs about Pmm and PmmImage, for every size of memory, every page     *)
(* size and every sorted memory map.  First the stack: the type invariant, *)
(* StackIntegrity and StackMapped.  Then the frames: none is lost, but for *)
(* those that an aliased stack loses (FramesAccounted); where the stack's  *)
(* table is not in memory that the map calls available the page allocator  *)
(* implements FrameAllocator; and what was loaded before it is not handed  *)
(* out while frames above it are left (ImageKept).                         *)
(***************************************************************************)
EXTENDS PmmImage, SequenceTheorems, FiniteSetTheorems, TLAPS

Booted == phase \notin {"init_pmm", "init_vmm"}

\* The stack pointer is at or below the first address that is not mapped.
Position ==
  /\ pmm_stack_loc.page <= pmm_stack_max
  /\ pmm_stack_loc.page = pmm_stack_max => pmm_stack_loc.entry = 0
  /\ \A k \in Entry : k >= pmm_stack_max => backing[k] = NoFrame

BootState ==
  /\ phase = "init_pmm" => pmm_loc = 0
  /\ phase = "init_vmm" => pmm_loc = InitLoc
  /\ ~Booted => pmm_stack_max = 0 /\ owned = {} /\ region = 1
  /\ Booted => pmm_loc = InitLoc + 4 /\ stackTable = pmm_loc
  /\ drained => Booted /\ Aliased

Core == TypeOK /\ Position

\* Cached or walked, a translation leads to the frame vmm_map put there.
Translations ==
  \A k \in Entry :
    /\ tlb[k] # NoFrame => k < pmm_stack_max /\ tlb[k] = backing[k]
    /\ k < pmm_stack_max =>
         /\ backing[k] \in Frame
         /\ mem[stackTable][k].present => mem[stackTable][k].frame = backing[k]
         /\ Aliased \/ mem[stackTable][k].present

\* The pages of the stack are distinct, and only the first can be its table.
Pages ==
  \A k \in Entry : k < pmm_stack_max =>
    /\ backing[k] >= pmm_loc
    /\ k # 0 => backing[k] > pmm_loc
    /\ \A l \in Entry : l < pmm_stack_max /\ l # k => backing[l] # backing[k]

\* Slots name distinct frames above the early ones that are not behind the stack.
Slots ==
  \A k, d \in Entry : Trustworthy(k, d) =>
    /\ Slot(k, d) > pmm_loc
    /\ \A l \in Entry : l < pmm_stack_max => Slot(k, d) # backing[l]
    /\ \A l, e \in Entry :
         Trustworthy(l, e) /\ (k # l \/ d # e) => Slot(k, d) # Slot(l, e)

OnStack(f) == \/ \E k \in Entry : k < pmm_stack_max /\ backing[k] = f
              \/ \E k, e \in Entry : Trustworthy(k, e) /\ Slot(k, e) = f

Held == \A f \in owned : f > pmm_loc /\ ~OnStack(f)

\* The walk over the memory map has passed frame f.
Seen(f) == \E a \in DOMAIN Regions :
             /\ Regions[a].available
             /\ f < End(Regions[a])
             /\ a < region \/ (a = region /\ f < page)

Walk ==
  phase = "free" =>
    /\ owned = {}
    /\ region <= Len(Regions) => page >= First(Regions[region])
    /\ \A f \in Frame : OnStack(f) => Seen(f)

Safe == Translations /\ Pages /\ Slots /\ Held /\ Walk

IInv == Core /\ BootState /\ StackMapped /\ (~drained => Safe)
-----------------------------------------------------------------------------
(***************************************************************************)
(* Arithmetic of the memory map and of the stack pointer.                  *)
(***************************************************************************)
LEMMA Early == InitLoc \in Nat /\ InitLoc + 4 \in Frame
BY ConstantsAssumption DEF InitLoc, Frame

LEMMA Wrap == \A a \in Nat : a % AddrSpace \in 0 .. AddrSpace - 1
BY ConstantsAssumption, Early DEF Frame

LEMMA RegionBounds ==
  \A a \in DOMAIN Regions : First(Regions[a]) \in Nat /\ End(Regions[a]) \in Frame
<1> SUFFICES ASSUME NEW a \in DOMAIN Regions
             PROVE  First(Regions[a]) \in Nat /\ End(Regions[a]) \in Frame
  OBVIOUS
<1>1. Regions[a] \in [base : Nat, len : Nat, available : BOOLEAN]
  <2>1. a \in 1 .. Len(Regions)
    BY ConstantsAssumption
  <2> QED BY <2>1, ConstantsAssumption, ElementOfSeq, Zenon
<1>2. First(Regions[a]) \in Nat
  BY <1>1, Wrap, ConstantsAssumption DEF First
<1>3. Regions[a].len % AddrSpace \in Nat
  BY <1>1, Wrap, ConstantsAssumption
<1>4. First(Regions[a]) + (Regions[a].len % AddrSpace) \in Nat
  BY <1>2, <1>3
<1> QED BY <1>2, <1>4, Wrap DEF End, Frame

\* One slot more is occupied after a push, and one less after a pop.
LEMMA UpBelow ==
  ASSUME TypeOK
  PROVE  LET a == Up(pmm_stack_loc)
         IN  /\ a \in [page : Nat, entry : Entry]
             /\ a.page = pmm_stack_loc.page
                  \/ (a.page = pmm_stack_loc.page + 1 /\ a.entry = 0)
             /\ \A k \in Nat, e \in Entry :
                  (k < a.page \/ (k = a.page /\ e < a.entry)) <=>
                    (Below(k, e) \/ (k = pmm_stack_loc.page /\ e = pmm_stack_loc.entry))
<1> DEFINE p == pmm_stack_loc.page
           d == pmm_stack_loc.entry
<1>1. /\ p \in Nat /\ d \in Entry
      /\ pmm_stack_loc = [page |-> p, entry |-> d]
  BY DEF TypeOK
<1>2. CASE d = Entries - 1
  <2>1. Up(pmm_stack_loc) = [page |-> p + 1, entry |-> 0]
    BY <1>2 DEF Up
  <2> QED BY <1>1, <1>2, <2>1, ConstantsAssumption DEF Below, Entry
<1>3. CASE d # Entries - 1
  <2>1. Up(pmm_stack_loc) = [page |-> p, entry |-> d + 1]
    BY <1>1, <1>3 DEF Up
  <2> QED BY <1>1, <1>3, <2>1, ConstantsAssumption DEF Below, Entry
<1> QED BY <1>2, <1>3

LEMMA DownBelow ==
  ASSUME TypeOK, ~Empty
  PROVE  LET a == Down(pmm_stack_loc)
         IN  /\ a \in [page : Nat, entry : Entry]
             /\ Below(a.page, a.entry)
             /\ \A k \in Nat, e \in Entry :
                  (k < a.page \/ (k = a.page /\ e < a.entry)) <=>
                    (Below(k, e) /\ ~(k = a.page /\ e = a.entry))
<1> DEFINE p == pmm_stack_loc.page
           d == pmm_stack_loc.entry
<1>1. /\ p \in Nat /\ d \in Entry
      /\ pmm_stack_loc = [page |-> p, entry |-> d]
  BY DEF TypeOK
<1>2. CASE d = 0
  <2>1. Down(pmm_stack_loc) = [page |-> p - 1, entry |-> Entries - 1] /\ p > 0
    BY <1>1, <1>2 DEF Down, Empty
  <2> QED BY <1>1, <1>2, <2>1, ConstantsAssumption DEF Below, Entry
<1>3. CASE d # 0
  <2>1. Down(pmm_stack_loc) = [page |-> p, entry |-> d - 1]
    BY <1>1, <1>3 DEF Down
  <2> QED BY <1>1, <1>3, <2>1, ConstantsAssumption DEF Below, Entry
<1> QED BY <1>2, <1>3
-----------------------------------------------------------------------------
(***************************************************************************)
(* pmm_free_page: what a call does to the stack.                           *)
(***************************************************************************)
FreeVars == <<pmm_loc, stackTable, drained>>

\* The frame is new to the stack, and the frame of the table comes first.
Fresh(f) == /\ ~OnStack(f)
            /\ f > pmm_loc \/ (Full /\ pmm_stack_max = 0)

StackInv == Core /\ stackTable = pmm_loc /\ Translations /\ Pages /\ Slots

LEMMA FrameFacts == /\ Frame \subseteq Nat
                    /\ NoFrame \notin Frame /\ NoFrame \in Nat
                    /\ Entry \subseteq Nat /\ 0 \in Entry
BY ConstantsAssumption DEF Frame, NoFrame, Entry

\* A translation exists only as a frame.
LEMMA TranslateFrame ==
  ASSUME TypeOK, stackTable \in Frame, NEW k \in Entry
  PROVE  Translate(k) \in Frame \union {NoFrame}
<1>1. mem[stackTable][k] \in Word
  BY DEF TypeOK
<1> QED BY <1>1 DEF Translate, Word, TypeOK

\* What FreePage changes, whatever it frees.
LEMMA FreePageCore ==
  ASSUME Core, stackTable \in Frame,
         NEW f \in Frame, NEW next \in Phase, FreePage(f, next)
  PROVE  /\ phase' \in {next, "fault"}
         /\ pmm_stack_loc' \in [page : Nat, entry : Entry]
         /\ pmm_stack_max' \in 0 .. Entries
         /\ mem' \in [Frame -> [Entry -> Word]]
         /\ tlb' \in [Entry -> Frame \union {NoFrame}]
         /\ backing' \in [Entry -> Frame \union {NoFrame}]
         /\ Position'
         /\ Aliased /\ UNCHANGED stackTable => Aliased'
<1>1. CASE UNCHANGED stackVars /\ phase' \in {next, "fault"}
  BY <1>1 DEF stackVars, Core, TypeOK, Position, Aliased
<1>2. CASE /\ Full
           /\ pmm_stack_max < Entries
           /\ mem' = [mem EXCEPT ![stackTable][pmm_stack_max] =
                                   [frame |-> f, present |-> TRUE]]
           /\ pmm_stack_max' = pmm_stack_max + 1
           /\ backing' = [backing EXCEPT ![pmm_stack_max] = f]
           /\ phase' = next
           /\ UNCHANGED <<pmm_stack_loc, tlb>>
  <2>1. pmm_stack_max \in Entry
    BY <1>2, ConstantsAssumption DEF Core, TypeOK, Entry
  <2>2. mem' \in [Frame -> [Entry -> Word]]
    BY <1>2, <2>1 DEF Core, TypeOK, Word
  <2>3. pmm_stack_max' \in 0 .. Entries
    BY <1>2, <2>1, ConstantsAssumption DEF Entry
  <2>4. backing' \in [Entry -> Frame \union {NoFrame}]
    BY <1>2, <2>1 DEF Core, TypeOK
  <2>5. Position'
    BY <1>2, <2>1, <2>3, FrameFacts DEF Core, Position, TypeOK
  <2>6. Aliased /\ UNCHANGED stackTable => Aliased'
    BY <1>2, <2>1, FrameFacts DEF Core, TypeOK, Position, Aliased
  <2> QED BY <1>2, <2>2, <2>3, <2>4, <2>5, <2>6 DEF Core, TypeOK
<1>3. CASE /\ ~Full
           /\ Translate(pmm_stack_loc.page) # NoFrame
           /\ mem' = [mem EXCEPT ![Translate(pmm_stack_loc.page)][pmm_stack_loc.entry] =
                                   [frame |-> f, present |-> FALSE]]
           /\ tlb' = [tlb EXCEPT ![pmm_stack_loc.page] = Translate(pmm_stack_loc.page)]
           /\ pmm_stack_loc' = Up(pmm_stack_loc)
           /\ phase' = next
           /\ UNCHANGED <<pmm_stack_max, backing>>
  <2>1. pmm_stack_loc.page \in Entry /\ pmm_stack_loc.entry \in Entry
    BY <1>3, ConstantsAssumption DEF Full, Core, TypeOK, Entry
  <2>2. Translate(pmm_stack_loc.page) \in Frame
    BY <1>3, <2>1, TranslateFrame DEF Core
  <2>3. mem' \in [Frame -> [Entry -> Word]]
    BY <1>3, <2>1, <2>2 DEF Core, TypeOK, Word
  <2>4. tlb' \in [Entry -> Frame \union {NoFrame}]
    BY <1>3, <2>1, <2>2 DEF Core, TypeOK
  <2>5. pmm_stack_loc' \in [page : Nat, entry : Entry]
    BY <1>3, UpBelow DEF Core
  <2>6. pmm_stack_loc.page + 1 <= pmm_stack_max
    BY <1>3, <2>1, FrameFacts DEF Full, Core, TypeOK
  <2>7. Position'
    BY <1>3, <2>1, <2>6, UpBelow, FrameFacts DEF Core, Position, TypeOK
  <2> QED BY <1>3, <2>3, <2>4, <2>5, <2>7 DEF Core, TypeOK, Aliased
<1> QED BY <1>1, <1>2, <1>3 DEF FreePage

\* An access to a page of the stack ends in the frame behind it.
LEMMA TranslateBacking ==
  ASSUME StackInv, NEW k \in Entry, k < pmm_stack_max
  PROVE  /\ backing[k] \in Frame
         /\ Translate(k) # NoFrame => Translate(k) = backing[k]
         /\ Translate(k) = NoFrame => Aliased
BY FrameFacts DEF StackInv, Translations, Translate

\* A push writes one slot and, in the page of an aliased stack that is also its
\* table, makes at most one entry of the table not present.
LEMMA PushSafe ==
  ASSUME StackInv, NEW f \in Frame, Fresh(f), ~Full,
         NEW k \in Entry, NEW e \in Entry,
         k = pmm_stack_loc.page, e = pmm_stack_loc.entry,
         mem' = [mem EXCEPT ![backing[k]][e] = [frame |-> f, present |-> FALSE]],
         tlb' = [tlb EXCEPT ![k] = backing[k]],
         pmm_stack_loc' = Up(pmm_stack_loc),
         UNCHANGED <<pmm_stack_max, backing, FreeVars>>
  PROVE  /\ Translations' /\ Pages' /\ Slots'
         /\ \A g \in Frame : OnStack(g)' => OnStack(g) \/ g = f
<1>1. k < pmm_stack_max /\ pmm_stack_max \in Nat /\ pmm_loc \in Nat
  BY FrameFacts, ConstantsAssumption DEF Full, StackInv, Core, TypeOK
<1>2. f > pmm_loc
  BY <1>1, FrameFacts DEF Fresh
<1>3. \A l \in Entry : l < pmm_stack_max =>
        backing[l] \in Frame /\ (backing[l] = stackTable => l = 0)
  BY <1>1, FrameFacts DEF StackInv, Translations, Pages
<1>4. \A a \in Frame : \A b \in Entry :
        mem'[a][b] = IF a = backing[k] /\ b = e
                       THEN [frame |-> f, present |-> FALSE] ELSE mem[a][b]
  BY <1>1, <1>3 DEF StackInv, Core, TypeOK
<1>5. Aliased' = Aliased
  BY DEF Aliased, FreeVars
<1>6. Translations'
  <2> SUFFICES ASSUME NEW l \in Entry
               PROVE  /\ tlb'[l] # NoFrame => l < pmm_stack_max /\ tlb'[l] = backing[l]
                      /\ l < pmm_stack_max =>
                           /\ backing[l] \in Frame
                           /\ mem'[stackTable][l].present =>
                                mem'[stackTable][l].frame = backing[l]
                           /\ Aliased \/ mem'[stackTable][l].present
    BY <1>5 DEF Translations, FreeVars
  <2>1. tlb'[l] # NoFrame => l < pmm_stack_max /\ tlb'[l] = backing[l]
    BY <1>1 DEF StackInv, Translations, Core, TypeOK
  <2>2. ASSUME l < pmm_stack_max
        PROVE  /\ backing[l] \in Frame
               /\ mem'[stackTable][l].present =>
                    mem'[stackTable][l].frame = backing[l]
               /\ Aliased \/ mem'[stackTable][l].present
    <3>1. stackTable \in Frame
      BY DEF StackInv, Core, TypeOK
    <3>2. CASE stackTable = backing[k] /\ l = e
      <4>1. Aliased
        BY <1>1, <1>3, <3>2 DEF Aliased
      <4> QED BY <1>3, <1>4, <2>2, <3>1, <3>2, <4>1
    <3>3. CASE ~(stackTable = backing[k] /\ l = e)
      BY <1>4, <2>2, <3>1, <3>3 DEF StackInv, Translations
    <3> QED BY <3>2, <3>3
  <2> QED BY <2>1, <2>2
<1>7. Pages'
  BY DEF StackInv, Pages, FreeVars
<1>8. \A l, d \in Entry : Trustworthy(l, d)' => Trustworthy(l, d) \/ (l = k /\ d = e)
  BY <1>5, UpBelow, FrameFacts
  DEF Trustworthy, Occupied, Clobbered, Below, StackInv, Core, FreeVars
<1>9. \A l, d \in Entry : Trustworthy(l, d)' =>
        /\ l < pmm_stack_max
        /\ Slot(l, d)' = IF l = k /\ d = e THEN f ELSE Slot(l, d)
  <2> SUFFICES ASSUME NEW l \in Entry, NEW d \in Entry, Trustworthy(l, d)'
               PROVE  /\ l < pmm_stack_max
                      /\ Slot(l, d)' = IF l = k /\ d = e THEN f ELSE Slot(l, d)
    OBVIOUS
  <2>1. l < pmm_stack_max
    BY <1>1, FrameFacts DEF Trustworthy, Occupied
  <2>2. backing[l] = backing[k] => l = k
    BY <1>1, <2>1 DEF StackInv, Pages
  <2> QED BY <1>1, <1>3, <1>4, <2>1, <2>2 DEF Slot
<1>10. \A l \in Entry : l < pmm_stack_max => f # backing[l]
  BY DEF Fresh, OnStack
<1>11. \A l, d \in Entry : Trustworthy(l, d) => Slot(l, d) # f
  BY DEF Fresh, OnStack
<1>12. Slots'
  BY <1>2, <1>8, <1>9, <1>10, <1>11 DEF StackInv, Slots, FreeVars
<1>13. \A g \in Frame : OnStack(g)' => OnStack(g) \/ g = f
  BY <1>8, <1>9 DEF OnStack
<1> QED BY <1>6, <1>7, <1>12, <1>13

\* Mapping a new page of the stack writes its entry of the table, which on an
\* aliased stack is one more clobbered slot.
LEMMA MapSafe ==
  ASSUME StackInv, NEW f \in Frame, Fresh(f), f >= pmm_loc, Full,
         NEW k \in Entry, k = pmm_stack_max,
         mem' = [mem EXCEPT ![stackTable][k] = [frame |-> f, present |-> TRUE]],
         pmm_stack_max' = k + 1,
         backing' = [backing EXCEPT ![k] = f],
         UNCHANGED <<pmm_stack_loc, tlb, FreeVars>>
  PROVE  /\ Translations' /\ Pages' /\ Slots'
         /\ \A g \in Frame : OnStack(g)' => OnStack(g) \/ g = f
<1>1. /\ pmm_loc \in Nat /\ stackTable \in Frame
      /\ pmm_stack_loc.page = k /\ pmm_stack_loc.entry = 0
  BY FrameFacts DEF Full, StackInv, Core, TypeOK, Position
<1>2. \A l \in Entry : backing'[l] = IF l = k THEN f ELSE backing[l]
  BY DEF StackInv, Core, TypeOK
<1>3. \A l \in Entry : l < pmm_stack_max' <=> l < k \/ l = k
  BY FrameFacts
<1>4. \A a \in Frame : \A b \in Entry :
        mem'[a][b] = IF a = stackTable /\ b = k
                       THEN [frame |-> f, present |-> TRUE] ELSE mem[a][b]
  BY <1>1 DEF StackInv, Core, TypeOK
<1>5. k # 0 => f > pmm_loc /\ (Aliased' <=> Aliased)
  BY <1>2, FrameFacts DEF Fresh, Aliased, FreeVars
<1>6. \A l \in Entry : l < pmm_stack_max => f # backing[l]
  BY DEF Fresh, OnStack
<1>7. Translations'
  <2> SUFFICES ASSUME NEW l \in Entry
               PROVE  /\ tlb[l] # NoFrame => l < pmm_stack_max' /\ tlb[l] = backing'[l]
                      /\ l < pmm_stack_max' =>
                           /\ backing'[l] \in Frame
                           /\ mem'[stackTable][l].present =>
                                mem'[stackTable][l].frame = backing'[l]
                           /\ Aliased' \/ mem'[stackTable][l].present
    BY DEF Translations, FreeVars
  <2>1. CASE l = k
    BY <1>1, <1>2, <1>3, <1>4, <2>1, FrameFacts DEF StackInv, Translations
  <2>2. CASE l # k
    BY <1>1, <1>2, <1>3, <1>4, <1>5, <2>2, FrameFacts DEF StackInv, Translations
  <2> QED BY <2>1, <2>2
<1>8. Pages'
  BY <1>1, <1>2, <1>3, <1>5, <1>6 DEF StackInv, Pages, FreeVars
<1>9. \A l, d \in Entry : Trustworthy(l, d)' =>
        /\ l < k
        /\ Trustworthy(l, d)
        /\ Slot(l, d)' = Slot(l, d)
  <2> SUFFICES ASSUME NEW l \in Entry, NEW d \in Entry, Trustworthy(l, d)'
               PROVE  l < k /\ Trustworthy(l, d) /\ Slot(l, d)' = Slot(l, d)
    OBVIOUS
  <2>1. l < k
    BY <1>1, FrameFacts DEF Trustworthy, Occupied, Below
  <2>2. ~Clobbered(l, d) /\ (backing[l] = stackTable => d # k)
    <3>1. CASE l = 0
      BY <1>5, <2>1, <3>1, FrameFacts DEF Trustworthy, Clobbered, Aliased
    <3>2. CASE l # 0
      BY <1>1, <2>1, <3>2, FrameFacts DEF Clobbered, StackInv, Pages
    <3> QED BY <3>1, <3>2
  <2>3. Trustworthy(l, d)
    BY <1>1, <2>1, <2>2, FrameFacts DEF Trustworthy, Occupied, Below
  <2>4. backing[l] \in Frame
    BY <2>1 DEF StackInv, Translations
  <2> QED BY <1>2, <1>4, <2>1, <2>2, <2>3, <2>4, FrameFacts DEF Slot
<1>10. \A l, d \in Entry : Trustworthy(l, d) => Slot(l, d) # f
  BY DEF Fresh, OnStack
<1>11. Slots'
  BY <1>2, <1>3, <1>9, <1>10 DEF StackInv, Slots, FreeVars
<1>12. \A g \in Frame : OnStack(g)' => OnStack(g) \/ g = f
  BY <1>2, <1>3, <1>9 DEF OnStack
<1> QED BY <1>7, <1>8, <1>11, <1>12

\* Both together: freeing a fresh frame keeps the stack sound.
LEMMA FreePageSafe ==
  ASSUME StackInv, NEW f \in Frame, f >= pmm_loc => Fresh(f),
         NEW next \in Phase \ {"fault"}, FreePage(f, next), UNCHANGED FreeVars
  PROVE  /\ Translations' /\ Pages' /\ Slots'
         /\ \A g \in Frame : OnStack(g)' => OnStack(g) \/ g = f
         /\ StackMapped'
<1>1. CASE UNCHANGED stackVars /\ phase' = next
  <2>1. Translations' /\ Pages' /\ Slots' /\ \A g \in Frame : OnStack(g)' => OnStack(g)
    BY <1>1 DEF stackVars, FreeVars, StackInv, Translations, Pages, Slots, OnStack,
                Trustworthy, Occupied, Clobbered, Below, Slot, Aliased
  <2> QED BY <1>1, <2>1 DEF StackMapped
<1>2. CASE f >= pmm_loc /\ Full
  <2>1. phase' = next /\ pmm_stack_max < Entries
    BY <1>2, FrameFacts DEF FreePage, StackInv, Core, TypeOK
  <2>2. pmm_stack_max \in Entry
    BY <2>1, ConstantsAssumption DEF StackInv, Core, TypeOK, Entry
  <2>3. /\ mem' = [mem EXCEPT ![stackTable][pmm_stack_max] =
                                [frame |-> f, present |-> TRUE]]
        /\ pmm_stack_max' = pmm_stack_max + 1
        /\ backing' = [backing EXCEPT ![pmm_stack_max] = f]
        /\ UNCHANGED <<pmm_stack_loc, tlb>>
    BY <1>2, FrameFacts DEF FreePage, StackInv, Core, TypeOK
  <2>4. /\ Translations' /\ Pages' /\ Slots'
        /\ \A g \in Frame : OnStack(g)' => OnStack(g) \/ g = f
    BY <1>2, <2>2, <2>3, MapSafe
  <2> QED BY <2>1, <2>4 DEF StackMapped
<1>3. CASE f >= pmm_loc /\ ~Full
  <2> DEFINE k == pmm_stack_loc.page
             e == pmm_stack_loc.entry
  <2>1. k \in Entry /\ e \in Entry /\ k < pmm_stack_max
    BY <1>3, ConstantsAssumption DEF Full, StackInv, Core, TypeOK, Entry
  <2>2. CASE Translate(k) # NoFrame
    <3>1. Translate(k) = backing[k]
      BY <2>1, <2>2, TranslateBacking
    <3>2. f >= pmm_loc /\ pmm_loc \in Nat
      BY <1>3, FrameFacts DEF StackInv, Core, TypeOK
    <3>3. /\ mem' = [mem EXCEPT ![backing[k]][e] = [frame |-> f, present |-> FALSE]]
          /\ tlb' = [tlb EXCEPT ![k] = backing[k]]
          /\ pmm_stack_loc' = Up(pmm_stack_loc)
          /\ phase' = next
          /\ UNCHANGED <<pmm_stack_max, backing>>
      BY <1>3, <2>2, <3>1, <3>2, FrameFacts DEF FreePage
    <3>4. /\ Translations' /\ Pages' /\ Slots'
          /\ \A g \in Frame : OnStack(g)' => OnStack(g) \/ g = f
      BY <1>3, <2>1, <3>2, <3>3, PushSafe
    <3> QED BY <3>3, <3>4 DEF StackMapped
  <2>3. CASE Translate(k) = NoFrame
    <3>1. phase' = "fault" /\ UNCHANGED stackVars
      BY <1>3, <2>3, FrameFacts DEF FreePage, StackInv, Core, TypeOK
    <3>2. Aliased
      BY <2>1, <2>3, TranslateBacking
    <3> QED BY <3>1, <3>2
        DEF stackVars, FreeVars, StackInv, Translations, Pages, Slots, OnStack,
            Trustworthy, Occupied, Clobbered, Below, Slot, Aliased,
            StackMapped
  <2> QED BY <2>2, <2>3
<1>4. CASE f < pmm_loc
  BY <1>1, <1>4, FrameFacts DEF FreePage, StackInv, Core, TypeOK
<1> QED BY <1>2, <1>3, <1>4, FrameFacts DEF StackInv, Core, TypeOK
-----------------------------------------------------------------------------
(***************************************************************************)
(* The type invariant, for every memory map.                               *)
(***************************************************************************)
LEMMA CoreInit == Init => Core /\ BootState
<1> SUFFICES ASSUME Init PROVE Core /\ BootState
  OBVIOUS
<1>1. TypeOK
  <2>1. 0 \in Frame /\ 0 \in Entry
    BY Early, FrameFacts, ConstantsAssumption DEF Frame
  <2>2. mem \in [Frame -> [Entry -> Word]]
    <3>1. PICK word \in Stale : mem = [f \in Frame |-> [e \in Entry |-> word]]
      BY DEF Init
    <3>2. word \in Word
      BY <2>1, <3>1 DEF Word, Stale
    <3> QED BY <3>1, <3>2
  <2>3. 0 \in 0 .. Entries /\ 1 \in Nat \ {0}
    BY ConstantsAssumption
  <2>4. phase \in Phase
    BY DEF Init, Phase
  <2> QED BY <2>1, <2>2, <2>3, <2>4 DEF Init, TypeOK
<1>2. Position
  BY ConstantsAssumption DEF Init, Position
<1>3. BootState
  BY DEF Init, BootState, Booted
<1> QED BY <1>1, <1>2, <1>3 DEF Core

\* The page a pop reads from is mapped.
LEMMA TopFacts ==
  ASSUME Core, ~Empty
  PROVE  LET top == Down(pmm_stack_loc)
         IN  /\ top \in [page : Nat, entry : Entry]
             /\ top.page \in Entry /\ top.page < pmm_stack_max
<1> DEFINE top == Down(pmm_stack_loc)
<1>1. top \in [page : Nat, entry : Entry] /\ Below(top.page, top.entry)
  BY DownBelow DEF Core
<1> HIDE DEF top
<1>2. /\ top.page \in Nat /\ top.entry \in Nat
      /\ pmm_stack_loc.page \in Nat /\ pmm_stack_loc.entry \in Nat
      /\ pmm_stack_max \in 0 .. Entries
  BY <1>1, FrameFacts DEF Core, TypeOK
<1>3. top.page < pmm_stack_max
  BY <1>1, <1>2 DEF Below, Core, Position
<1>4. top.page \in Entry
  BY <1>2, <1>3, ConstantsAssumption DEF Entry
<1> QED BY <1>1, <1>3, <1>4 DEF top

LEMMA AllocCore ==
  ASSUME Core, BootState, Alloc
  PROVE  Core' /\ BootState'
<1> DEFINE top == Down(pmm_stack_loc)
           fr  == Translate(top.page)
<1>0. /\ stackTable \in Frame /\ Booted
      /\ UNCHANGED <<pmm_loc, stackTable, pmm_stack_max, mem, region, page, backing>>
  BY DEF Alloc, BootState, Booted, Core, TypeOK
<1>1. CASE Empty
  BY <1>0, <1>1 DEF Alloc, Core, BootState, TypeOK, Position, Booted, Phase, Aliased
<1>2. CASE ~Empty
  <2>1. top \in [page : Nat, entry : Entry] /\ top.page \in Entry /\ top.page < pmm_stack_max
    BY <1>2, TopFacts
  <2>2. pmm_stack_loc' = top
    BY <1>2 DEF Alloc
  <2>3. Position'
    BY <1>0, <2>1, <2>2, FrameFacts DEF Core, TypeOK, Position
  <2>4. CASE fr # NoFrame
    <3>1. fr \in Frame
      BY <1>0, <2>1, <2>4, TranslateFrame DEF Core
    <3>2. mem[fr][top.entry] \in Word
      BY <2>1, <3>1 DEF Core, TypeOK
    <3>3. /\ tlb' = [tlb EXCEPT ![top.page] = fr]
          /\ owned' = owned \union {mem[fr][top.entry].frame}
          /\ drained' = (drained \/ Clobbered(top.page, top.entry))
          /\ UNCHANGED phase
      BY <1>2, <2>4 DEF Alloc
    <3>4. TypeOK'
      <4>1. drained' \in BOOLEAN
        BY <3>3
      <4>2. tlb' \in [Entry -> Frame \union {NoFrame}] /\ owned' \in SUBSET Frame
        BY <2>1, <3>1, <3>2, <3>3 DEF Core, TypeOK, Word
      <4> QED BY <1>0, <2>1, <2>2, <3>3, <4>1, <4>2 DEF Core, TypeOK
    <3>5. BootState'
      BY <1>0, <3>3 DEF BootState, Booted, Aliased, Clobbered
    <3> QED BY <2>3, <3>4, <3>5 DEF Core
  <2>5. CASE fr = NoFrame
    <3>1. phase' = "fault" /\ UNCHANGED <<tlb, owned, drained>>
      BY <1>2, <2>5 DEF Alloc
    <3>2. TypeOK'
      BY <1>0, <2>1, <2>2, <3>1 DEF Core, TypeOK, Phase
    <3>3. BootState'
      BY <1>0, <3>1 DEF BootState, Booted, Aliased
    <3> QED BY <2>3, <3>2, <3>3 DEF Core
  <2> QED BY <2>4, <2>5
<1> QED BY <1>1, <1>2

LEMMA CoreNext == Core /\ BootState /\ [Next]_vars => Core' /\ BootState'
<1> SUFFICES ASSUME Core, BootState, [Next]_vars
             PROVE  Core' /\ BootState'
  OBVIOUS
<1>1. CASE InitPmm
  <2>1. InitLoc \in Frame
    BY Early, FrameFacts, ConstantsAssumption DEF Frame
  <2>2. Core'
    BY <1>1, <2>1 DEF InitPmm, stackVars, Core, TypeOK, Position, Phase
  <2>3. BootState'
    BY <1>1 DEF InitPmm, stackVars, BootState, Booted, Aliased
  <2> QED BY <2>2, <2>3
<1>2. CASE InitVmm
  <2>1. pmm_loc' = InitLoc + 4 /\ stackTable' = InitLoc + 4
    BY <1>2 DEF InitVmm, EarlyAlloc, BootState
  <2>2. page' \in Nat
    <3>1. Regions # <<>> => 1 \in DOMAIN Regions
      BY ConstantsAssumption, EmptySeq
    <3> QED BY <1>2, <3>1, RegionBounds DEF InitVmm
  <2>3. Core'
    BY <1>2, <2>1, <2>2, Early DEF InitVmm, stackVars, Core, TypeOK, Position, Phase
  <2>4. BootState'
    BY <1>2, <2>1 DEF InitVmm, stackVars, BootState, Booted, Aliased
  <2> QED BY <2>3, <2>4
<1>3. CASE FreeAvailable
  <2>1. page \in Frame /\ page' = page + 1 /\ Booted
    <3>1. region \in DOMAIN Regions /\ page < End(Regions[region])
      BY <1>3, ConstantsAssumption DEF FreeAvailable, InRegion, Core, TypeOK, BootState
    <3>2. page \in Nat /\ End(Regions[region]) \in 0 .. AddrSpace - 1
      BY <3>1, RegionBounds DEF Core, TypeOK, Frame
    <3> QED BY <1>3, <3>1, <3>2, ConstantsAssumption
            DEF FreeAvailable, InRegion, Booted, Frame
  <2>2. /\ FreePage(page, "free") /\ stackTable \in Frame /\ "free" \in Phase
        /\ UNCHANGED <<pmm_loc, stackTable, region, owned, drained>>
    BY <1>3, <2>1 DEF FreeAvailable, BootState, Core, TypeOK, Phase
  <2>3. /\ phase' \in {"free", "fault"}
        /\ pmm_stack_loc' \in [page : Nat, entry : Entry]
        /\ pmm_stack_max' \in 0 .. Entries
        /\ mem' \in [Frame -> [Entry -> Word]]
        /\ tlb' \in [Entry -> Frame \union {NoFrame}]
        /\ backing' \in [Entry -> Frame \union {NoFrame}]
        /\ Position'
        /\ Aliased => Aliased'
    BY <2>1, <2>2, FreePageCore
  <2>4. Core'
    BY <2>1, <2>2, <2>3, FrameFacts DEF Core, TypeOK, Phase
  <2>5. BootState'
    BY <2>1, <2>2, <2>3 DEF BootState, Booted
  <2> QED BY <2>4, <2>5
<1>4. CASE NextRegion
  <2>1. page' \in Nat /\ region' \in Nat
    <3>1. region < Len(Regions) => region + 1 \in DOMAIN Regions
      BY ConstantsAssumption DEF Core, TypeOK
    <3> QED BY <1>4, <3>1, RegionBounds DEF NextRegion, Core, TypeOK
  <2>2. Core'
    BY <1>4, <2>1 DEF NextRegion, stackVars, Core, TypeOK, Position, Phase
  <2>3. BootState'
    BY <1>4 DEF NextRegion, stackVars, BootState, Booted, Aliased
  <2> QED BY <2>2, <2>3
<1>5. CASE Alloc
  BY <1>5, AllocCore
<1>6. ASSUME NEW f \in Frame, Free(f)
      PROVE  Core' /\ BootState'
  <2>1. /\ FreePage(f, "run") /\ stackTable \in Frame /\ "run" \in Phase /\ Booted
        /\ owned' = owned \ {f}
        /\ UNCHANGED <<pmm_loc, stackTable, region, page, drained>>
    BY <1>6 DEF Free, BootState, Booted, Core, TypeOK, Phase
  <2>2. /\ phase' \in {"run", "fault"}
        /\ pmm_stack_loc' \in [page : Nat, entry : Entry]
        /\ pmm_stack_max' \in 0 .. Entries
        /\ mem' \in [Frame -> [Entry -> Word]]
        /\ tlb' \in [Entry -> Frame \union {NoFrame}]
        /\ backing' \in [Entry -> Frame \union {NoFrame}]
        /\ Position'
        /\ Aliased => Aliased'
    BY <1>6, <2>1, FreePageCore
  <2>3. Core'
    BY <2>1, <2>2 DEF Core, TypeOK, Phase
  <2>4. BootState'
    BY <2>1, <2>2 DEF BootState, Booted
  <2> QED BY <2>3, <2>4
<1>7. ASSUME NEW k \in Entry, Evict(k)
      PROVE  Core' /\ BootState'
  BY <1>7 DEF Evict, Core, TypeOK, Position, BootState, Booted, Aliased
<1>8. CASE UNCHANGED vars
  BY <1>8 DEF vars, Core, TypeOK, Position, BootState, Booted, Aliased
<1> QED BY <1>1, <1>2, <1>3, <1>4, <1>5, <1>6, <1>7, <1>8 DEF Next

\* TypeOK for every memory map, sorted or not: the stack pointer, the window's
\* pages and what the entries name stay within what pmm.c and vmm.c can address.
THEOREM TypeCorrect == Spec => []TypeOK
<1>1. Init => Core /\ BootState
  BY CoreInit
<1>2. Core /\ BootState /\ [Next]_vars => (Core /\ BootState)'
  BY CoreNext
<1>3. Core /\ BootState => TypeOK
  BY DEF Core
<1> QED BY <1>1, <1>2, <1>3, PTL DEF Spec
-----------------------------------------------------------------------------
(***************************************************************************)
(* The safety invariants, for a memory map without overlaps.               *)
(***************************************************************************)
\* The walk is behind the frame it frees next.
LEMMA SeenBelow ==
  ASSUME SortedMap, IInv, ~drained, InRegion, page \in Frame, NEW g \in Frame, Seen(g)
  PROVE  g < page
<1>1. region \in DOMAIN Regions /\ page >= First(Regions[region])
  BY ConstantsAssumption DEF InRegion, IInv, Safe, Walk, Core, TypeOK
<1>2. PICK a \in DOMAIN Regions : /\ Regions[a].available
                                  /\ g < End(Regions[a])
                                  /\ a < region \/ (a = region /\ g < page)
  BY DEF Seen
<1>3. CASE a < region
  <2>1. End(Regions[a]) <= First(Regions[region])
    BY <1>1, <1>2, <1>3 DEF SortedMap
  <2>2. /\ End(Regions[a]) \in Nat /\ First(Regions[region]) \in Nat
        /\ g \in Nat /\ page \in Nat
    BY <1>1, RegionBounds, FrameFacts
  <2> QED BY <1>1, <1>2, <2>1, <2>2
<1>4. CASE ~(a < region)
  BY <1>2, <1>4
<1> QED BY <1>3, <1>4

\* The frame the boot loop frees is one it has not freed before.
LEMMA WalkFresh ==
  ASSUME SortedMap, IInv, ~drained, InRegion, Booted, page \in Frame, page >= pmm_loc
  PROVE  Fresh(page)
<1>1. /\ region \in DOMAIN Regions
      /\ \A g \in Frame : OnStack(g) => Seen(g)
      /\ page >= First(Regions[region])
      /\ phase = "free"
  BY ConstantsAssumption DEF InRegion, IInv, Safe, Walk, Core, TypeOK
<1>2. ASSUME NEW g \in Frame, Seen(g)
      PROVE  g < page
  BY <1>2, SeenBelow
<1>3. ~OnStack(page)
  BY <1>1, <1>2, FrameFacts
<1>4. ASSUME pmm_stack_max # 0
      PROVE  page > pmm_loc
  <2>1. 0 \in Entry /\ 0 < pmm_stack_max
    BY <1>4, FrameFacts DEF IInv, Core, TypeOK
  <2>2. backing[0] \in Frame /\ backing[0] >= pmm_loc
    BY <2>1 DEF IInv, Safe, Pages, Translations
  <2>3. OnStack(backing[0])
    BY <2>1 DEF OnStack
  <2>4. backing[0] < page
    BY <1>1, <1>2, <2>2, <2>3
  <2>5. pmm_loc \in Nat /\ backing[0] \in Nat /\ page \in Nat
    BY <2>2, FrameFacts DEF IInv, Core, TypeOK
  <2> QED BY <2>2, <2>4, <2>5
<1>5. pmm_stack_max = 0 => Full
  BY FrameFacts DEF Full, IInv, Core, TypeOK
<1> QED BY <1>3, <1>4, <1>5 DEF Fresh

LEMMA SafeInit == Init => Safe
BY FrameFacts DEF Init, Safe, Translations, Pages, Slots, Held, Walk,
                  Trustworthy, Occupied

\* Before the first page of the stack is mapped nothing is on it.
LEMMA BootSafe ==
  ASSUME IInv, InitPmm \/ InitVmm
  PROVE  Safe' /\ StackMapped'
<1>1. /\ ~Booted /\ pmm_stack_max = 0 /\ owned = {} /\ region = 1
      /\ UNCHANGED <<stackVars, region, owned>>
      /\ phase' \in {"init_vmm", "free", "crash"}
  BY DEF InitPmm, InitVmm, IInv, BootState, Booted
<1>2. /\ pmm_stack_max' = 0
      /\ \A k \in Entry : ~(k < pmm_stack_max')
      /\ \A k \in Entry : tlb'[k] = NoFrame
  <2>1. pmm_stack_max' = 0 /\ tlb' = tlb
    BY <1>1 DEF stackVars
  <2>2. \A k \in Entry : ~(k < 0)
    BY FrameFacts
  <2>3. Translations
    BY <1>1 DEF IInv, BootState, Safe
  <2>4. \A k \in Entry : tlb[k] = NoFrame
    BY <1>1, <2>2, <2>3 DEF Translations
  <2> QED BY <2>1, <2>2, <2>4
<1>3. \A k, e \in Entry : ~Trustworthy(k, e)'
  BY <1>1, <1>2, FrameFacts DEF Trustworthy, Occupied
<1>4. \A g : ~OnStack(g)'
  BY <1>2, <1>3 DEF OnStack
<1>5. Translations' /\ Pages' /\ Slots'
  BY <1>2, <1>3 DEF Translations, Pages, Slots
<1>6. Held'
  BY <1>1 DEF Held
<1>7. Walk'
  <2> SUFFICES ASSUME phase' = "free", region' <= Len(Regions)
               PROVE  page' >= First(Regions[region'])
    BY <1>1, <1>4 DEF Walk
  <2>1. Regions # <<>> /\ region' = 1 /\ page' = First(Regions[1]) /\ 1 \in DOMAIN Regions
    BY <1>1, EmptySeq, ConstantsAssumption DEF InitPmm, InitVmm
  <2>2. First(Regions[1]) \in Nat
    BY <2>1, RegionBounds
  <2> QED BY <2>1, <2>2
<1> QED BY <1>1, <1>5, <1>6, <1>7 DEF Safe, StackMapped

\* Nothing that Safe reads changes, and the walk does not start over.
LEMMA SafeStutter ==
  ASSUME Safe, StackMapped,
         UNCHANGED <<pmm_loc, stackTable, stackVars, region, page, owned>>,
         phase' = phase \/ phase' \in {"run", "oom"}
  PROVE  Safe' /\ StackMapped'
BY DEF stackVars, Safe, Translations, Pages, Slots, Held, Walk, OnStack, Seen,
       Trustworthy, Occupied, Clobbered, Below, Slot, Aliased, StackMapped

LEMMA FreeAvailableSafe ==
  ASSUME SortedMap, IInv, ~drained, FreeAvailable
  PROVE  Safe' /\ StackMapped'
<1>1. /\ InRegion /\ phase = "free" /\ Booted
      /\ FreePage(page, "free") /\ page' = page + 1
      /\ UNCHANGED <<pmm_loc, stackTable, region, owned, drained>>
      /\ region \in DOMAIN Regions /\ Regions[region].available
      /\ page < End(Regions[region])
  BY ConstantsAssumption
  DEF FreeAvailable, InRegion, Booted, IInv, Core, TypeOK
<1>2. page \in Frame
  <2>1. page \in Nat /\ End(Regions[region]) \in 0 .. AddrSpace - 1
    BY <1>1, RegionBounds DEF IInv, Core, TypeOK, Frame
  <2> QED BY <1>1, <2>1, ConstantsAssumption DEF Frame
<1>3. page >= pmm_loc => Fresh(page)
  BY <1>1, <1>2, WalkFresh
<1>4. StackInv
  BY <1>1 DEF StackInv, IInv, Safe, BootState
<1>5. /\ Translations' /\ Pages' /\ Slots'
      /\ \A g \in Frame : OnStack(g)' => OnStack(g) \/ g = page
      /\ StackMapped'
  BY <1>1, <1>2, <1>3, <1>4, FreePageSafe DEF FreeVars, Phase
<1>6. owned = {} /\ Held'
  BY <1>1 DEF IInv, Safe, Walk, Held
<1>7. Walk'
  <2>1. page' >= First(Regions[region]) /\ page < page'
    BY <1>1, <1>2, FrameFacts, RegionBounds DEF IInv, Safe, Walk
  <2>2. ASSUME NEW g \in Frame, OnStack(g)'
        PROVE  Seen(g)'
    <3>1. CASE g = page
      BY <1>1, <2>1, <3>1 DEF Seen
    <3>2. CASE OnStack(g)
      <4>1. Seen(g)
        BY <1>1, <3>2 DEF IInv, Safe, Walk
      <4> QED BY <1>1, <1>2, <2>1, <4>1, FrameFacts DEF Seen
    <3> QED BY <1>5, <2>2, <3>1, <3>2
  <2> QED BY <1>1, <1>6, <2>1, <2>2 DEF Walk
<1> QED BY <1>5, <1>6, <1>7 DEF Safe

LEMMA NextRegionSafe ==
  ASSUME IInv, ~drained, NextRegion
  PROVE  Safe' /\ StackMapped'
<1>1. /\ phase = "free" /\ region' = region + 1 /\ region \in Nat \ {0}
      /\ UNCHANGED <<pmm_loc, stackTable, stackVars, owned, drained>>
      /\ phase' \in {"free", "run"}
      /\ phase' = "free" => page' = First(Regions[region + 1]) /\ region < Len(Regions)
  BY DEF NextRegion, IInv, Core, TypeOK
<1>2. /\ Translations' /\ Pages' /\ Slots' /\ Held' /\ StackMapped'
      /\ \A g \in Frame : OnStack(g)' => OnStack(g)
  BY <1>1
  DEF stackVars, IInv, Safe, Translations, Pages, Slots, Held, OnStack,
      Trustworthy, Occupied, Clobbered, Below, Slot, Aliased, StackMapped
<1>3. ASSUME phase' = "free"
      PROVE  page' >= First(Regions[region'])
  <2>1. region + 1 \in DOMAIN Regions
    BY <1>1, <1>3, ConstantsAssumption
  <2>2. First(Regions[region + 1]) \in Nat
    BY <2>1, RegionBounds
  <2> QED BY <1>1, <1>3, <2>2
<1>4. \A g \in Frame : Seen(g) => Seen(g)'
  BY <1>1, ConstantsAssumption DEF Seen
<1> QED BY <1>1, <1>2, <1>3, <1>4 DEF IInv, Safe, Walk

LEMMA AllocSafe ==
  ASSUME IInv, Alloc, ~drained, ~drained'
  PROVE  Safe' /\ StackMapped'
<1> DEFINE top == Down(pmm_stack_loc)
           fr  == Translate(top.page)
<1>1. /\ phase = "run" /\ StackInv
      /\ UNCHANGED <<pmm_loc, stackTable, pmm_stack_max, mem, region, page, backing>>
  BY DEF Alloc, StackInv, IInv, Safe, BootState, Booted
<1>2. CASE Empty
  <2>1. UNCHANGED <<pmm_stack_loc, tlb, owned>> /\ phase' = "oom"
    BY <1>2 DEF Alloc
  <2> QED BY <1>1, <2>1, SafeStutter DEF stackVars, IInv
<1>3. CASE ~Empty
  <2>1. /\ top \in [page : Nat, entry : Entry]
        /\ top.page \in Entry /\ top.page < pmm_stack_max
    BY <1>3, TopFacts DEF IInv
  <2>2. pmm_stack_loc' = top
    BY <1>3 DEF Alloc
  <2>3. \A k, e \in Entry :
          Trustworthy(k, e)' <=> Trustworthy(k, e) /\ ~(k = top.page /\ e = top.entry)
    BY <1>1, <1>3, <2>2, DownBelow, FrameFacts
    DEF Trustworthy, Occupied, Clobbered, Below, Aliased, IInv, Core
  <2>4. \A k, e \in Entry : Slot(k, e)' = Slot(k, e)
    BY <1>1 DEF Slot
  <2>5. Pages' /\ Slots'
    BY <1>1, <2>3, <2>4 DEF StackInv, Pages, Slots
  <2>6. \A g \in Frame : OnStack(g)' => OnStack(g)
    BY <1>1, <2>3, <2>4 DEF OnStack
  <2>7. CASE fr = NoFrame
    <3>1. phase' = "fault" /\ UNCHANGED <<tlb, owned>>
      BY <1>3, <2>7 DEF Alloc
    <3>2. Aliased'
      BY <1>1, <2>1, <2>7, TranslateBacking DEF Aliased
    <3>3. Translations' /\ Held' /\ Walk'
      BY <1>1, <2>6, <3>1 DEF StackInv, IInv, Core, TypeOK, Safe, Translations,
                              Held, Walk, Aliased
    <3> QED BY <2>5, <3>2, <3>3 DEF Safe, StackMapped
  <2>8. CASE fr # NoFrame
    <3> DEFINE v == mem[fr][top.entry].frame
    <3>1. /\ tlb' = [tlb EXCEPT ![top.page] = fr]
          /\ owned' = owned \union {v}
          /\ phase' = phase /\ ~Clobbered(top.page, top.entry)
      BY <1>3, <2>8 DEF Alloc
    <3>2. fr = backing[top.page]
      BY <1>1, <2>1, <2>8, TranslateBacking
    <3>3. Trustworthy(top.page, top.entry) /\ v = Slot(top.page, top.entry)
      BY <1>3, <2>1, <3>1, <3>2, DownBelow, FrameFacts
      DEF Trustworthy, Occupied, Slot, IInv, Core, TypeOK
    <3>4. v > pmm_loc /\ \A g \in Frame : g = v => ~OnStack(g)'
      <4>1. v > pmm_loc /\ \A l \in Entry : l < pmm_stack_max => v # backing[l]
        BY <1>1, <2>1, <3>3 DEF StackInv, Slots
      <4>2. \A l, e \in Entry : Trustworthy(l, e)' => Slot(l, e)' # v
        BY <1>1, <2>1, <2>3, <2>4, <3>3 DEF StackInv, Slots
      <4>3. ASSUME NEW g \in Frame, g = v
            PROVE  ~OnStack(g)'
        BY <1>1, <4>1, <4>2, <4>3 DEF OnStack
      <4> QED BY <4>1, <4>3
    <3>5. Held'
      <4>1. \A g \in owned : g \in Frame /\ g > pmm_loc /\ ~OnStack(g)
        BY DEF IInv, Core, TypeOK, Safe, Held
      <4>2. v \in Frame
        <5>1. mem[fr][top.entry] \in Word
          BY <2>1, <3>2, <1>1, TranslateBacking DEF IInv, Core, TypeOK
        <5> QED BY <5>1 DEF Word
      <4>3. ASSUME NEW g \in owned'
            PROVE  g > pmm_loc' /\ ~OnStack(g)'
        <5>1. CASE g = v
          BY <1>1, <3>4, <4>2, <5>1
        <5>2. CASE g \in owned
          BY <1>1, <2>6, <4>1, <5>2
        <5> QED BY <3>1, <4>3, <5>1, <5>2
      <4> QED BY <4>3 DEF Held
    <3>6. Translations'
      BY <1>1, <2>1, <3>1, <3>2 DEF StackInv, Translations, Core, TypeOK, Aliased
    <3>7. Walk' /\ StackMapped'
      BY <1>1, <3>1 DEF Walk, StackMapped
    <3> QED BY <2>5, <3>5, <3>6, <3>7 DEF Safe
  <2> QED BY <2>7, <2>8
<1> QED BY <1>2, <1>3

LEMMA FreeSafe ==
  ASSUME IInv, ~drained, NEW f \in Frame, Free(f)
  PROVE  Safe' /\ StackMapped'
<1>1. /\ phase = "run" /\ Booted /\ f \in owned
      /\ FreePage(f, "run") /\ owned' = owned \ {f}
      /\ UNCHANGED <<pmm_loc, stackTable, region, page, drained>>
  BY DEF Free, Booted
<1>2. StackInv
  BY <1>1 DEF StackInv, IInv, Safe, BootState
<1>3. Fresh(f)
  BY <1>1 DEF Fresh, IInv, Safe, Held
<1>4. /\ Translations' /\ Pages' /\ Slots'
      /\ \A g \in Frame : OnStack(g)' => OnStack(g) \/ g = f
      /\ StackMapped'
  BY <1>1, <1>2, <1>3, FreePageSafe DEF FreeVars, Phase
<1>5. Held'
  BY <1>1, <1>4 DEF IInv, Core, TypeOK, Safe, Held
<1>6. Walk'
  <2>1. phase' # "free"
    BY <1>1 DEF FreePage
  <2> QED BY <2>1 DEF Walk
<1> QED BY <1>4, <1>5, <1>6 DEF Safe

LEMMA EvictSafe ==
  ASSUME IInv, ~drained, NEW k \in Entry, Evict(k)
  PROVE  Safe' /\ StackMapped'
<1>1. /\ tlb' = [tlb EXCEPT ![k] = NoFrame]
      /\ UNCHANGED <<phase, pmm_loc, stackTable, pmm_stack_loc, pmm_stack_max, mem,
                     region, page, owned, backing, drained>>
  BY DEF Evict
<1>2. Translations'
  BY <1>1 DEF IInv, Core, TypeOK, Safe, Translations, Aliased
<1> QED BY <1>1, <1>2 DEF IInv, Safe, Pages, Slots, Held, Walk, OnStack, Seen,
        Trustworthy, Occupied, Clobbered, Below, Slot, Aliased, StackMapped

\* Once a clobbered slot has been popped nothing but the alias is left to say.
LEMMA DrainedMapped ==
  ASSUME Core', BootState', drained'
  PROVE  StackMapped'
BY DEF BootState, StackMapped

LEMMA Inductive == SortedMap /\ IInv /\ [Next]_vars => IInv'
<1> SUFFICES ASSUME SortedMap, IInv, [Next]_vars
             PROVE  IInv'
  OBVIOUS
<1>1. Core' /\ BootState'
  BY CoreNext DEF IInv
<1>2. CASE drained'
  BY <1>1, <1>2, DrainedMapped DEF IInv
<1>3. ASSUME ~drained'
      PROVE  Safe' /\ StackMapped'
  <2>1. ~drained
    BY <1>3 DEF Next, vars, InitPmm, InitVmm, FreeAvailable, NextRegion, Alloc,
                Free, Evict
  <2>2. CASE InitPmm \/ InitVmm
    BY <2>2, BootSafe
  <2>3. CASE FreeAvailable
    BY <2>1, <2>3, FreeAvailableSafe
  <2>4. CASE NextRegion
    BY <2>1, <2>4, NextRegionSafe
  <2>5. CASE Alloc
    BY <1>3, <2>1, <2>5, AllocSafe
  <2>6. ASSUME NEW f \in Frame, Free(f)
        PROVE  Safe' /\ StackMapped'
    BY <2>1, <2>6, FreeSafe
  <2>7. ASSUME NEW k \in Entry, Evict(k)
        PROVE  Safe' /\ StackMapped'
    BY <2>1, <2>7, EvictSafe
  <2>8. CASE UNCHANGED vars
    <3>1. UNCHANGED <<pmm_loc, stackTable, stackVars, region, page, owned>> /\ phase' = phase
      BY <2>8 DEF vars, stackVars
    <3> QED BY <2>1, <3>1, SafeStutter DEF IInv
  <2> QED BY <2>2, <2>3, <2>4, <2>5, <2>6, <2>7, <2>8 DEF Next
<1> QED BY <1>1, <1>2, <1>3 DEF IInv

LEMMA Invariance == SortedMap => (Spec => []IInv)
<1>1. Init => IInv
  BY CoreInit, SafeInit DEF IInv, Init, StackMapped
<1>2. ASSUME SortedMap
      PROVE  IInv /\ [Next]_vars => IInv'
  BY <1>2, Inductive
<1>3. SUFFICES ASSUME SortedMap PROVE Spec => []IInv
  OBVIOUS
<1> QED BY <1>1, <1>2, <1>3, PTL DEF Spec

\* The walk of a sorted memory map leaves a stack that names each free frame
\* once and none that has a use, and pmm_alloc_page and pmm_free_page keep it so,
\* until an aliased stack hands out a slot that vmm_map overwrote.
THEOREM StackSound == SortedMap => (Spec => []StackIntegrity)
<1>1. IInv => StackIntegrity
  <2> SUFFICES ASSUME IInv, ~drained, NEW k \in Entry, NEW l \in Entry,
                      NEW d \in Entry, NEW e \in Entry, Trustworthy(k, d)
               PROVE  /\ Slot(k, d) \notin InUse
                      /\ Trustworthy(l, e) /\ <<k, d>> # <<l, e>> =>
                           Slot(k, d) # Slot(l, e)
    BY DEF StackIntegrity
  <2>1. /\ Slot(k, d) > pmm_loc
        /\ \A i \in Entry : i < pmm_stack_max => Slot(k, d) # backing[i]
        /\ \A i, j \in Entry :
             Trustworthy(i, j) /\ (k # i \/ d # j) => Slot(k, d) # Slot(i, j)
    BY DEF IInv, Safe, Slots
  <2>2. Slot(k, d) \notin owned
    BY DEF IInv, Safe, Held, OnStack
  <2>3. Slot(k, d) \notin StackPages
    <3>1. 0 .. pmm_stack_max - 1 \subseteq Entry
      BY ConstantsAssumption DEF IInv, Core, TypeOK, Entry
    <3> QED BY <2>1, <3>1, FrameFacts DEF StackPages, IInv, Core, TypeOK
  <2>4. Slot(k, d) \notin Tables
    BY <2>1, FrameFacts, Early DEF Tables, IInv, Core, TypeOK
  <2> QED BY <2>1, <2>2, <2>3, <2>4 DEF InUse
<1>2. SUFFICES ASSUME SortedMap PROVE Spec => []StackIntegrity
  OBVIOUS
<1>3. Spec => []IInv
  BY <1>2, Invariance
<1> QED BY <1>1, <1>3, PTL

\* With a sorted memory map a page fault on the stack needs the alias.
THEOREM StackReachable == SortedMap => (Spec => []StackMapped)
<1>1. SUFFICES ASSUME SortedMap PROVE Spec => []StackMapped
  OBVIOUS
<1>2. Spec => []IInv
  BY <1>1, Invariance
<1>3. IInv => StackMapped
  BY DEF IInv
<1> QED BY <1>2, <1>3, PTL
-----------------------------------------------------------------------------
(***************************************************************************)
(* The frames.                                                             *)
(***************************************************************************)
Somewhere == FreeFrames \union StackPages \union owned

\* The walk over the memory map has freed frame f.
Passed(f) == \E a \in DOMAIN Regions :
               /\ Regions[a].available
               /\ f \in First(Regions[a]) .. End(Regions[a]) - 1
               /\ a < region \/ (a = region /\ f < page)

Missing == {f \in Frame : f >= pmm_loc /\ Passed(f)} \ Somewhere

\* The stack pointer is above the slots that vmm_map overwrote.
Covered == Aliased => \A e \in Entry : 1 <= e /\ e < pmm_stack_max => Below(0, e)

Accounting ==
  phase \in {"free", "run"} =>
    /\ Covered
    /\ Cardinality(Missing) <= IF Aliased THEN pmm_stack_max - 1 ELSE 0
    /\ phase = "run" => region > Len(Regions)

AInv == IInv /\ (~drained => Accounting)
-----------------------------------------------------------------------------
(***************************************************************************)
(* What a call of pmm_free_page adds to the stack.                         *)
(***************************************************************************)
LEMMA StackPagesFacts ==
  ASSUME TypeOK
  PROVE  /\ 0 .. pmm_stack_max - 1 \subseteq Entry
         /\ StackPages = {backing[k] : k \in {l \in Entry : l < pmm_stack_max}}
<1>1. /\ pmm_stack_max \in Nat /\ pmm_stack_max <= Entries /\ Entries \in Nat
  BY ConstantsAssumption DEF TypeOK
<1>2. 0 .. pmm_stack_max - 1 = {l \in Entry : l < pmm_stack_max}
  BY <1>1 DEF Entry
<1> QED
  BY <1>2 DEF StackPages

LEMMA AliasedMapped ==
  ASSUME Core, stackTable \in Frame, Aliased
  PROVE  0 < pmm_stack_max
<1>1. backing[0] # NoFrame
  BY FrameFacts DEF Aliased
<1> QED
  BY <1>1, FrameFacts DEF Core, TypeOK, Position

\* Slot (k, d) was filled before slot (l, e).
Under(k, d, l, e) == k < l \/ (k = l /\ d < e)

\* The slots that can be trusted are as they were, and there are no new ones.
SlotsKept ==
  \A l, d \in Entry : Trustworthy(l, d)' => Trustworthy(l, d) /\ Slot(l, d)' = Slot(l, d)

\* Frame f was put above the other slots.
PutOnTop(f) ==
  \E k, e \in Entry : \A l, d \in Entry :
    Trustworthy(l, d)' =>
      IF l = k /\ d = e
        THEN Slot(l, d)' = f
        ELSE Trustworthy(l, d) /\ Slot(l, d)' = Slot(l, d) /\ Under(l, d, k, e)

\* The highest slot holds frame v.
OnTop(v) ==
  \E k, e \in Entry :
    /\ Trustworthy(k, e) /\ Slot(k, e) = v
    /\ \A l, d \in Entry : Below(l, d) => Under(l, d, k, e) \/ (l = k /\ d = e)

\* A push adds its frame, and no slot is lost.
LEMMA PushAdds ==
  ASSUME StackInv, Covered, NEW f \in Frame, ~Full,
         NEW k \in Entry, NEW e \in Entry,
         k = pmm_stack_loc.page, e = pmm_stack_loc.entry,
         mem' = [mem EXCEPT ![backing[k]][e] = [frame |-> f, present |-> FALSE]],
         pmm_stack_loc' = Up(pmm_stack_loc),
         UNCHANGED <<pmm_stack_max, backing, FreeVars>>
  PROVE  /\ FreeFrames' = FreeFrames \union {f} /\ PutOnTop(f)
         /\ StackPages' = StackPages /\ (Aliased' <=> Aliased) /\ Covered'
<1>1. k < pmm_stack_max /\ pmm_stack_max \in Nat
  BY FrameFacts, ConstantsAssumption DEF Full, StackInv, Core, TypeOK
<1>2. Aliased' = Aliased /\ StackPages' = StackPages
  BY DEF Aliased, FreeVars, StackPages
<1>3. \A l \in Entry : l < pmm_stack_max => backing[l] \in Frame
  BY DEF StackInv, Translations
<1>4. \A a \in Frame : \A b \in Entry :
        mem'[a][b] = IF a = backing[k] /\ b = e
                       THEN [frame |-> f, present |-> FALSE] ELSE mem[a][b]
  BY <1>1, <1>3 DEF StackInv, Core, TypeOK
<1>5. \A l, d \in Entry : Below(l, d)' <=> Below(l, d) \/ (l = k /\ d = e)
  BY UpBelow, FrameFacts DEF Below, StackInv, Core
<1>6. ~Clobbered(k, e)
  <2> SUFFICES ASSUME Clobbered(k, e) PROVE FALSE
    OBVIOUS
  <2>1. Aliased /\ k = 0 /\ 1 <= e /\ e < pmm_stack_max
    BY <1>1, FrameFacts DEF Clobbered
  <2>2. Below(k, e)
    BY <2>1 DEF Covered
  <2> QED BY <2>2, FrameFacts DEF Below
<1>7. \A l, d \in Entry : Trustworthy(l, d)' <=> Trustworthy(l, d) \/ (l = k /\ d = e)
  <2>1. \A l, d \in Entry : Clobbered(l, d)' <=> Clobbered(l, d)
    BY <1>2 DEF Clobbered
  <2>2. k \in 0 .. pmm_stack_max - 1
    BY <1>1, FrameFacts
  <2> QED BY <1>5, <1>6, <2>1, <2>2 DEF Trustworthy, Occupied
<1>8. \A l, d \in Entry : l < pmm_stack_max =>
        Slot(l, d)' = IF l = k /\ d = e THEN f ELSE Slot(l, d)
  <2> SUFFICES ASSUME NEW l \in Entry, NEW d \in Entry, l < pmm_stack_max
               PROVE  Slot(l, d)' = IF l = k /\ d = e THEN f ELSE Slot(l, d)
    OBVIOUS
  <2>1. backing[l] = backing[k] => l = k
    BY <1>1 DEF StackInv, Pages
  <2> QED BY <1>3, <1>4, <2>1 DEF Slot
<1>9. \A l, d \in Entry : Trustworthy(l, d) \/ Trustworthy(l, d)' => l < pmm_stack_max
  BY <1>1, FrameFacts DEF Trustworthy, Occupied
<1>10. ~Trustworthy(k, e)
  BY FrameFacts DEF Trustworthy, Occupied, Below
<1>11. FreeFrames' = FreeFrames \union {f}
  <2>1. ASSUME NEW g \in FreeFrames' PROVE g \in FreeFrames \union {f}
    <3>1. PICK l \in Entry, d \in Entry : Trustworthy(l, d)' /\ Slot(l, d)' = g
      BY <2>1 DEF FreeFrames
    <3> QED BY <3>1, <1>7, <1>8, <1>9, <2>1 DEF FreeFrames
  <2>2. ASSUME NEW g \in FreeFrames PROVE g \in FreeFrames'
    <3>1. PICK l \in Entry, d \in Entry : Trustworthy(l, d) /\ Slot(l, d) = g
      BY <2>2 DEF FreeFrames
    <3>2. Trustworthy(l, d)' /\ Slot(l, d)' = g /\ g \in Frame
      BY <3>1, <1>7, <1>8, <1>9, <1>10, <2>2 DEF FreeFrames
    <3> QED BY <3>2 DEF FreeFrames
  <2>3. f \in FreeFrames'
    <3>1. Trustworthy(k, e)' /\ Slot(k, e)' = f
      BY <1>1, <1>7, <1>8
    <3> QED BY <3>1 DEF FreeFrames
  <2> QED BY <2>1, <2>2, <2>3
<1>12. Covered'
  BY <1>2, <1>5, FrameFacts DEF Covered
<1>13. PutOnTop(f)
  <2>1. \A l, d \in Entry : Trustworthy(l, d) => Under(l, d, k, e)
    BY DEF Trustworthy, Occupied, Below, Under
  <2>2. ASSUME NEW l \in Entry, NEW d \in Entry, Trustworthy(l, d)'
        PROVE  IF l = k /\ d = e
                 THEN Slot(l, d)' = f
                 ELSE Trustworthy(l, d) /\ Slot(l, d)' = Slot(l, d) /\ Under(l, d, k, e)
    BY <1>7, <1>8, <1>9, <2>1, <2>2
  <2> QED BY <2>2 DEF PutOnTop
<1> QED
  BY <1>2, <1>11, <1>12, <1>13

\* A new page of the stack: on an aliased one the slot is lost that the entry overwrites.
LEMMA MapAdds ==
  ASSUME StackInv, NEW f \in Frame, Fresh(f), Full,
         NEW k \in Entry, k = pmm_stack_max,
         mem' = [mem EXCEPT ![stackTable][k] = [frame |-> f, present |-> TRUE]],
         pmm_stack_max' = k + 1,
         backing' = [backing EXCEPT ![k] = f],
         UNCHANGED <<pmm_stack_loc, tlb, FreeVars>>
  PROVE  /\ StackPages' = StackPages \union {f} /\ Covered'
         /\ FreeFrames' \subseteq FreeFrames /\ SlotsKept
         /\ \A g \in FreeFrames :
              g \in FreeFrames' \/ (Aliased /\ Trustworthy(0, k) /\ g = Slot(0, k))
         /\ k # 0 => (Aliased' <=> Aliased)
         /\ k = 0 => FreeFrames = {} /\ StackPages = {} /\ ~Aliased
<1>1. /\ stackTable \in Frame /\ k \in Nat
      /\ pmm_stack_loc.page = k /\ pmm_stack_loc.entry = 0
  BY FrameFacts DEF Full, StackInv, Core, TypeOK, Position
<1>2. \A l \in Entry : backing'[l] = IF l = k THEN f ELSE backing[l]
  BY DEF StackInv, Core, TypeOK
<1>3. \A l \in Entry : l < pmm_stack_max' <=> l < k \/ l = k
  BY <1>1, FrameFacts
<1>4. \A a \in Frame : \A b \in Entry :
        mem'[a][b] = IF a = stackTable /\ b = k
                       THEN [frame |-> f, present |-> TRUE] ELSE mem[a][b]
  BY <1>1 DEF StackInv, Core, TypeOK
<1>5. k # 0 => (Aliased' <=> Aliased)
  BY <1>2, FrameFacts DEF Aliased, FreeVars
<1>6. StackPages' = StackPages \union {f}
  <2>1. 0 .. pmm_stack_max' - 1 = (0 .. pmm_stack_max - 1) \union {k}
    BY <1>1
  <2>2. 0 .. pmm_stack_max - 1 \subseteq Entry /\ k \notin 0 .. pmm_stack_max - 1
    BY <1>1, StackPagesFacts DEF StackInv, Core
  <2>3. \A l \in 0 .. pmm_stack_max - 1 : backing'[l] = backing[l]
    BY <1>2, <2>2
  <2>4. backing'[k] = f
    BY <1>2
  <2> QED BY <2>1, <2>3, <2>4 DEF StackPages
<1>7. \A l, d \in Entry : Trustworthy(l, d)' =>
        /\ l < k
        /\ Trustworthy(l, d)
        /\ Slot(l, d)' = Slot(l, d)
  <2> SUFFICES ASSUME NEW l \in Entry, NEW d \in Entry, Trustworthy(l, d)'
               PROVE  l < k /\ Trustworthy(l, d) /\ Slot(l, d)' = Slot(l, d)
    OBVIOUS
  <2>1. l < k
    BY <1>1, FrameFacts DEF Trustworthy, Occupied, Below
  <2>2. ~Clobbered(l, d) /\ (backing[l] = stackTable => d # k)
    <3>1. CASE l = 0
      BY <1>5, <2>1, <3>1, FrameFacts DEF Trustworthy, Clobbered, Aliased
    <3>2. CASE l # 0
      BY <1>1, <2>1, <3>2, FrameFacts DEF Clobbered, StackInv, Pages
    <3> QED BY <3>1, <3>2
  <2>3. Trustworthy(l, d)
    BY <1>1, <2>1, <2>2, FrameFacts DEF Trustworthy, Occupied, Below
  <2>4. backing[l] \in Frame
    BY <2>1 DEF StackInv, Translations
  <2> QED BY <1>2, <1>4, <2>1, <2>2, <2>3, <2>4, FrameFacts DEF Slot
<1>8. ASSUME NEW l \in Entry, NEW d \in Entry, Trustworthy(l, d), ~(Aliased /\ l = 0 /\ d = k)
      PROVE  Trustworthy(l, d)' /\ Slot(l, d)' = Slot(l, d)
  <2>1. l < k /\ l \in Nat /\ d \in Nat
    BY <1>8, <1>1, FrameFacts DEF Trustworthy, Occupied
  <2>2. ~Clobbered(l, d)'
    <3> SUFFICES ASSUME Clobbered(l, d)' PROVE FALSE
      OBVIOUS
    <3>1. Aliased /\ l = 0 /\ d \in 1 .. k
      BY <1>5, <2>1, <1>1 DEF Clobbered
    <3>2. d \in 1 .. pmm_stack_max - 1
      BY <3>1, <1>8, <2>1, <1>1
    <3> QED BY <3>1, <3>2, <1>8 DEF Trustworthy, Clobbered
  <2>3. Occupied(l, d)'
    BY <1>8, <2>1, <1>1 DEF Trustworthy, Occupied, Below
  <2>4. backing[l] = stackTable => d # k
    <3>1. backing[l] = stackTable => l = 0
      BY <1>1, <2>1, FrameFacts DEF StackInv, Pages
    <3> QED BY <3>1, <1>8 DEF Aliased
  <2>5. backing[l] \in Frame
    BY <2>1 DEF StackInv, Translations
  <2>6. Slot(l, d)' = Slot(l, d)
    BY <1>2, <1>4, <2>1, <2>4, <2>5, FrameFacts DEF Slot
  <2> QED BY <2>2, <2>3, <2>6 DEF Trustworthy
<1>9. FreeFrames' \subseteq FreeFrames
  BY <1>7 DEF FreeFrames
<1>10. ASSUME NEW g \in FreeFrames
       PROVE  g \in FreeFrames' \/ (Aliased /\ Trustworthy(0, k) /\ g = Slot(0, k))
  <2>1. PICK l \in Entry, d \in Entry : Trustworthy(l, d) /\ Slot(l, d) = g
    BY <1>10 DEF FreeFrames
  <2>2. CASE Aliased /\ l = 0 /\ d = k
    BY <2>1, <2>2
  <2>3. CASE ~(Aliased /\ l = 0 /\ d = k)
    BY <1>8, <1>10, <2>1, <2>3 DEF FreeFrames
  <2> QED BY <2>2, <2>3
<1>11. Covered'
  <2> SUFFICES ASSUME NEW d \in Entry, 1 <= d, d < pmm_stack_max' PROVE Below(0, d)'
    BY DEF Covered
  <2>1. 0 < k
    BY <1>1, FrameFacts
  <2> QED BY <2>1, <1>1 DEF Below
<1>12. k = 0 => FreeFrames = {} /\ StackPages = {} /\ ~Aliased
  <2> SUFFICES ASSUME k = 0 PROVE FreeFrames = {} /\ StackPages = {} /\ ~Aliased
    OBVIOUS
  <2>1. 0 .. pmm_stack_max - 1 = {}
    OBVIOUS
  <2>2. ~Aliased
    BY <1>1, AliasedMapped DEF StackInv
  <2> QED BY <2>1, <2>2 DEF FreeFrames, StackPages, Trustworthy, Occupied
<1>13. SlotsKept
  BY <1>7 DEF SlotsKept
<1> QED
  BY <1>5, <1>6, <1>9, <1>10, <1>11, <1>12, <1>13

Pushed(f) ==
  /\ FreeFrames' = FreeFrames \union {f} /\ PutOnTop(f) /\ StackPages' = StackPages
  /\ Aliased' <=> Aliased
  /\ pmm_stack_max' = pmm_stack_max

Extended(f) ==
  /\ StackPages' = StackPages \union {f} /\ FreeFrames' \subseteq FreeFrames /\ SlotsKept
  /\ \A g \in FreeFrames :
       \/ g \in FreeFrames'
       \/ Aliased /\ Trustworthy(0, pmm_stack_max) /\ g = Slot(0, pmm_stack_max)
  /\ pmm_stack_max # 0 => (Aliased' <=> Aliased)
  /\ pmm_stack_max = 0 => FreeFrames = {} /\ StackPages = {} /\ ~Aliased
  /\ pmm_stack_max' = pmm_stack_max + 1

\* pmm_free_page pushes the frame, or makes it the next page of the stack.
LEMMA FreePageAdds ==
  ASSUME StackInv, Covered, NEW f \in Frame, f >= pmm_loc, Fresh(f),
         NEW next \in Phase \ {"fault"}, FreePage(f, next), UNCHANGED FreeVars, phase' # "fault"
  PROVE  Covered' /\ (Pushed(f) \/ Extended(f)) /\ phase' = next
<1>1. ~(f < pmm_loc)
  BY FrameFacts DEF StackInv, Core, TypeOK
<1>2. CASE Full
  <2>1. phase' = next /\ pmm_stack_max < Entries
    BY <1>1, <1>2 DEF FreePage
  <2>2. pmm_stack_max \in Entry
    BY <2>1, ConstantsAssumption DEF StackInv, Core, TypeOK, Entry
  <2>3. /\ mem' = [mem EXCEPT ![stackTable][pmm_stack_max] =
                                [frame |-> f, present |-> TRUE]]
        /\ pmm_stack_max' = pmm_stack_max + 1
        /\ backing' = [backing EXCEPT ![pmm_stack_max] = f]
        /\ UNCHANGED <<pmm_stack_loc, tlb>>
    BY <1>1, <1>2 DEF FreePage
  <2>4. Covered' /\ Extended(f)
    BY <1>2, <2>2, <2>3, MapAdds DEF Extended
  <2> QED BY <2>1, <2>4
<1>3. CASE ~Full
  <2> DEFINE k == pmm_stack_loc.page
             e == pmm_stack_loc.entry
  <2>1. k \in Entry /\ e \in Entry /\ k < pmm_stack_max
    BY <1>3, ConstantsAssumption DEF Full, StackInv, Core, TypeOK, Entry
  <2>2. Translate(k) # NoFrame
    BY <1>1, <1>3 DEF FreePage
  <2>3. Translate(k) = backing[k]
    BY <2>1, <2>2, TranslateBacking
  <2>4. /\ mem' = [mem EXCEPT ![backing[k]][e] = [frame |-> f, present |-> FALSE]]
        /\ pmm_stack_loc' = Up(pmm_stack_loc)
        /\ phase' = next
        /\ UNCHANGED <<pmm_stack_max, backing>>
    BY <1>1, <1>3, <2>2, <2>3 DEF FreePage
  <2>5. Covered' /\ Pushed(f)
    BY <1>3, <2>1, <2>4, PushAdds DEF Pushed
  <2> QED BY <2>4, <2>5
<1> QED
  BY <1>2, <1>3

\* pmm_alloc_page takes a frame off the stack and leaves the others.
LEMMA AllocTakes ==
  ASSUME StackInv, Alloc, phase' = "run", ~drained'
  PROVE  /\ \E v \in FreeFrames : /\ FreeFrames' = FreeFrames \ {v}
                                  /\ owned' = owned \union {v}
                                  /\ OnTop(v)
         /\ SlotsKept
         /\ StackPages' = StackPages /\ (Aliased' <=> Aliased)
         /\ pmm_stack_max' = pmm_stack_max
         /\ Covered => Covered'
<1> DEFINE top == Down(pmm_stack_loc)
           fr  == Translate(top.page)
           v   == mem[fr][top.entry].frame
<1>1. /\ ~Empty /\ fr # NoFrame /\ pmm_stack_loc' = top /\ owned' = owned \union {v}
      /\ ~Clobbered(top.page, top.entry)
      /\ UNCHANGED <<pmm_loc, stackTable, pmm_stack_max, mem, region, page, backing>>
  BY DEF Alloc
<1>2. /\ top \in [page : Nat, entry : Entry]
      /\ top.page \in Entry /\ top.page < pmm_stack_max
  BY <1>1, TopFacts DEF StackInv
<1>3. \A k, e \in Entry : Below(k, e)' <=> Below(k, e) /\ ~(k = top.page /\ e = top.entry)
  BY <1>1, DownBelow, FrameFacts DEF Below, StackInv, Core
<1>4. \A k, e \in Entry :
        Trustworthy(k, e)' <=> Trustworthy(k, e) /\ ~(k = top.page /\ e = top.entry)
  BY <1>1, <1>3 DEF Trustworthy, Occupied, Clobbered, Aliased
<1>5. \A k, e \in Entry : Slot(k, e)' = Slot(k, e)
  BY <1>1 DEF Slot
<1>6. fr = backing[top.page]
  BY <1>1, <1>2, TranslateBacking
<1>7. Trustworthy(top.page, top.entry) /\ v = Slot(top.page, top.entry)
  BY <1>1, <1>2, <1>6, DownBelow, FrameFacts
  DEF Trustworthy, Occupied, Slot, StackInv, Core, TypeOK
<1>8. v \in Frame
  <2>1. mem[fr][top.entry] \in Word
    BY <1>2, <1>6, TranslateBacking DEF StackInv, Core, TypeOK
  <2> QED BY <2>1 DEF Word
<1>9. v \in FreeFrames
  BY <1>2, <1>7, <1>8 DEF FreeFrames
<1> HIDE DEF v, fr
<1>10. FreeFrames' = FreeFrames \ {v}
  <2>1. ASSUME NEW g \in FreeFrames'
        PROVE  g \in FreeFrames \ {v}
    <3>1. PICK k \in Entry, e \in Entry : Trustworthy(k, e)' /\ Slot(k, e)' = g
      BY <2>1 DEF FreeFrames
    <3>2. Trustworthy(k, e) /\ Slot(k, e) = g /\ (k # top.page \/ e # top.entry)
      BY <3>1, <1>4, <1>5
    <3>3. g # v
      BY <3>2, <1>2, <1>7 DEF StackInv, Slots
    <3> QED BY <3>2, <3>3, <2>1 DEF FreeFrames
  <2>2. ASSUME NEW g \in FreeFrames, g # v
        PROVE  g \in FreeFrames'
    <3>1. PICK k \in Entry, e \in Entry : Trustworthy(k, e) /\ Slot(k, e) = g
      BY <2>2 DEF FreeFrames
    <3>2. ~(k = top.page /\ e = top.entry)
      BY <3>1, <2>2, <1>7
    <3> QED BY <3>1, <3>2, <1>4, <1>5, <2>2 DEF FreeFrames
  <2> QED BY <2>1, <2>2
<1>11. StackPages' = StackPages /\ (Aliased' <=> Aliased)
  BY <1>1 DEF StackPages, Aliased
<1>12. Covered => Covered'
  <2> SUFFICES ASSUME Covered, Aliased, NEW e \in Entry, 1 <= e, e < pmm_stack_max
               PROVE  Below(0, e)'
    BY <1>1, <1>11 DEF Covered
  <2>1. Below(0, e)
    BY DEF Covered
  <2>2. Clobbered(0, e)
    BY FrameFacts DEF Clobbered, StackInv, Core, TypeOK
  <2> QED BY <2>1, <2>2, <1>1, <1>3, FrameFacts
<1>13. SlotsKept
  BY <1>4, <1>5 DEF SlotsKept
<1>14. OnTop(v)
  <2>1. \A l, d \in Entry :
          Below(l, d) => Under(l, d, top.page, top.entry) \/ (l = top.page /\ d = top.entry)
    BY <1>1, DownBelow, FrameFacts DEF Under, StackInv, Core
  <2> QED BY <1>2, <1>7, <2>1 DEF OnTop
<1> QED
  BY <1>1, <1>9, <1>10, <1>11, <1>12, <1>13, <1>14
-----------------------------------------------------------------------------
(***************************************************************************)
(* How many frames are missing.                                            *)
(***************************************************************************)
Limit == IF Aliased THEN pmm_stack_max - 1 ELSE 0

LEMMA FewerMissing ==
  ASSUME NEW S \in SUBSET Frame, NEW T \in SUBSET S
  PROVE  /\ Cardinality(S) \in Nat /\ Cardinality(T) \in Nat /\ Cardinality(T) <= Cardinality(S)
         /\ Cardinality(S) = 0 => T = {}
<1>1. IsFiniteSet(Frame)
  BY FS_Interval, ConstantsAssumption DEF Frame
<1>2. IsFiniteSet(S)
  BY <1>1, FS_Subset
<1>3. IsFiniteSet(T) /\ Cardinality(T) <= Cardinality(S)
  BY <1>2, FS_Subset
<1>4. Cardinality(S) \in Nat /\ Cardinality(T) \in Nat
  BY <1>2, <1>3, FS_CardinalityType
<1>5. Cardinality(S) = 0 => S = {}
  BY <1>2, FS_EmptySet
<1> QED
  BY <1>3, <1>4, <1>5

LEMMA OneMoreMissing ==
  ASSUME NEW S \in SUBSET Frame, NEW x, NEW T, T \subseteq S \union {x}
  PROVE  Cardinality(S) \in Nat /\ Cardinality(T) \in Nat /\ Cardinality(T) <= Cardinality(S) + 1
<1>1. IsFiniteSet(Frame)
  BY FS_Interval, ConstantsAssumption DEF Frame
<1>2. IsFiniteSet(S)
  BY <1>1, FS_Subset
<1>3. /\ IsFiniteSet(S \union {x})
      /\ Cardinality(S \union {x}) = IF x \in S THEN Cardinality(S) ELSE Cardinality(S) + 1
  BY <1>2, FS_AddElement
<1>4. IsFiniteSet(T) /\ Cardinality(T) <= Cardinality(S \union {x})
  BY <1>3, FS_Subset
<1>5. Cardinality(S) \in Nat /\ Cardinality(T) \in Nat
  BY <1>2, <1>4, FS_CardinalityType
<1> QED
  BY <1>3, <1>4, <1>5

\* A call of pmm_free_page for the next frame of the walk, or for one a holder had.
LEMMA FreeAccounted ==
  ASSUME StackInv, Covered, Cardinality(Missing) <= Limit,
         NEW f \in Frame, f >= pmm_loc, Fresh(f), NEW next \in {"free", "run"},
         FreePage(f, next), UNCHANGED FreeVars, phase' # "fault",
         \A g \in Frame : Passed(g)' => Passed(g) \/ g = f,
         owned \ {f} \subseteq owned'
  PROVE  Covered' /\ (Cardinality(Missing) <= Limit)' /\ phase' = next
<1>1. Covered' /\ (Pushed(f) \/ Extended(f)) /\ phase' = next
  <2>1. next \in Phase \ {"fault"}
    BY DEF Phase
  <2> QED BY <2>1, FreePageAdds
<1>2. pmm_stack_max \in Nat /\ pmm_loc' = pmm_loc /\ Missing \subseteq Frame
  BY ConstantsAssumption DEF StackInv, Core, TypeOK, FreeVars, Missing
<1>3. Aliased => 0 < pmm_stack_max
  BY AliasedMapped DEF StackInv, Core, TypeOK
<1>4. CASE Pushed(f)
  <2>1. Missing' \subseteq Missing
    BY <1>2, <1>4 DEF Pushed, Missing, Somewhere
  <2>2. Limit' = Limit
    BY <1>4 DEF Pushed, Limit
  <2>3. Limit \in Int
    BY <1>2 DEF Limit
  <2>4. /\ Cardinality(Missing) \in Nat /\ Cardinality(Missing') \in Nat
        /\ Cardinality(Missing') <= Cardinality(Missing)
    BY <1>2, <2>1, FewerMissing
  <2> QED BY <1>1, <2>2, <2>3, <2>4
<1>5. CASE Extended(f) /\ ~Aliased
  <2>1. Missing' \subseteq Missing
    BY <1>2, <1>5 DEF Extended, Missing, Somewhere
  <2>2. /\ Cardinality(Missing) \in Nat /\ Cardinality(Missing') \in Nat
        /\ Cardinality(Missing') <= Cardinality(Missing)
    BY <1>2, <2>1, FewerMissing
  <2>3. Limit = 0 /\ Limit' \in Nat
    BY <1>2, <1>5 DEF Limit, Extended
  <2> QED BY <1>1, <2>2, <2>3
<1>6. CASE Extended(f) /\ Aliased
  <2>1. Missing' \subseteq Missing \union {Slot(0, pmm_stack_max)}
    BY <1>2, <1>6 DEF Extended, Missing, Somewhere
  <2>2. /\ Cardinality(Missing) \in Nat /\ Cardinality(Missing') \in Nat
        /\ Cardinality(Missing') <= Cardinality(Missing) + 1
    BY <1>2, <2>1, OneMoreMissing
  <2>3. Limit = pmm_stack_max - 1 /\ Limit' = pmm_stack_max
    BY <1>2, <1>3, <1>6 DEF Limit, Extended
  <2> QED BY <1>1, <1>2, <2>2, <2>3
<1> QED
  BY <1>1, <1>4, <1>5, <1>6

\* A step that loses nothing.
LEMMA NothingLost ==
  ASSUME Core, Cardinality(Missing) <= Limit,
         \A g \in Frame : g >= pmm_loc' /\ Passed(g)' => g >= pmm_loc /\ Passed(g),
         Somewhere \subseteq Somewhere', Aliased' <=> Aliased, pmm_stack_max' = pmm_stack_max
  PROVE  (Cardinality(Missing) <= Limit)'
<1>1. Missing' \subseteq Missing /\ Missing \subseteq Frame
  BY DEF Missing
<1>2. /\ Cardinality(Missing) \in Nat /\ Cardinality(Missing') \in Nat
      /\ Cardinality(Missing') <= Cardinality(Missing)
  BY <1>1, FewerMissing
<1>3. Limit' = Limit /\ Limit \in Int
  BY ConstantsAssumption DEF Limit, Core, TypeOK
<1> QED
  BY <1>2, <1>3

LEMMA StackSame ==
  ASSUME UNCHANGED <<pmm_loc, stackTable, pmm_stack_loc, pmm_stack_max, mem, backing, owned>>
  PROVE  /\ Somewhere' = Somewhere /\ (Aliased' <=> Aliased) /\ pmm_stack_max' = pmm_stack_max
         /\ Covered => Covered'
BY DEF Somewhere, FreeFrames, StackPages, Aliased, Covered, Trustworthy, Occupied, Clobbered,
       Below, Slot

LEMMA NextRegionPassed ==
  ASSUME Core, Safe, NextRegion
  PROVE  /\ \A g \in Frame : Passed(g)' => Passed(g)
         /\ phase' = "run" => region' > Len(Regions)
<1>1. /\ phase = "free" /\ region \in Nat /\ region >= 1 /\ region <= Len(Regions)
      /\ ~InRegion /\ region' = region + 1
      /\ Len(Regions) \in Nat /\ DOMAIN Regions = 1 .. Len(Regions)
  BY ConstantsAssumption DEF NextRegion, Core, TypeOK
<1>2. page \in Nat /\ page' = IF region < Len(Regions) THEN First(Regions[region + 1]) ELSE page
  BY DEF NextRegion, Core, TypeOK
<1>3. ASSUME NEW g \in Frame, NEW a \in DOMAIN Regions, Regions[a].available,
             g \in First(Regions[a]) .. End(Regions[a]) - 1,
             a < region' \/ (a = region' /\ g < page')
      PROVE  Passed(g)
  <2>1. First(Regions[a]) \in Nat /\ End(Regions[a]) \in Nat /\ a \in Nat /\ g \in Nat
    <3>1. First(Regions[a]) \in Nat /\ End(Regions[a]) \in Frame
      BY RegionBounds
    <3>2. a \in Nat
      BY <1>1
    <3> QED BY <3>1, <3>2, FrameFacts
  <2>2. CASE a < region
    BY <1>3, <2>2 DEF Passed
  <2>3. CASE a = region
    <3>1. ~(page < End(Regions[region]))
      BY <1>1, <1>3, <2>3 DEF InRegion
    <3>2. g < page
      BY <3>1, <2>1, <2>3, <1>2, <1>3
    <3> QED BY <3>2, <2>3, <1>3 DEF Passed
  <2>4. CASE a = region'
    <3>1. page' = First(Regions[a]) /\ g < page'
      BY <1>1, <1>2, <1>3, <2>1, <2>4
    <3> QED BY <3>1, <2>1, <1>3
  <2> QED BY <1>1, <1>3, <2>1, <2>2, <2>3, <2>4
<1>4. ASSUME NEW g \in Frame, Passed(g)' PROVE Passed(g)
  <2>1. PICK a \in DOMAIN Regions : /\ Regions[a].available
                                    /\ g \in First(Regions[a]) .. End(Regions[a]) - 1
                                    /\ a < region' \/ (a = region' /\ g < page')
    BY <1>4 DEF Passed
  <2> QED BY <2>1, <1>3
<1>5. phase' = "run" => region' > Len(Regions)
  BY <1>1 DEF NextRegion
<1> QED
  BY <1>4, <1>5

LEMMA NothingPassed ==
  ASSUME region' = 1, page' = IF Regions = <<>> THEN 0 ELSE First(Regions[1])
  PROVE  \A g \in Frame : ~Passed(g)'
<1> SUFFICES ASSUME NEW g \in Frame, NEW a \in DOMAIN Regions,
                    g \in First(Regions[a]) .. End(Regions[a]) - 1,
                    a < 1 \/ (a = 1 /\ g < page')
             PROVE  FALSE
  BY DEF Passed
<1>1. a \in 1 .. Len(Regions) /\ Len(Regions) \in Nat
  BY ConstantsAssumption
<1>2. a = 1 /\ Regions # <<>>
  BY <1>1
<1>3. page' = First(Regions[a])
  BY <1>2
<1>4. First(Regions[a]) \in Nat /\ g \in Nat
  BY RegionBounds, FrameFacts
<1> QED BY <1>1, <1>3, <1>4

LEMMA AccountingNext ==
  ASSUME SortedMap, AInv, [Next]_vars
  PROVE  (~drained => Accounting)'
<1> SUFFICES ASSUME ~drained', phase' \in {"free", "run"}
             PROVE  /\ Covered' /\ (Cardinality(Missing) <= Limit)'
                    /\ phase' = "run" => region' > Len(Regions)
  BY DEF Accounting, Limit
<1>1. ~drained
  BY DEF Next, vars, InitPmm, InitVmm, FreeAvailable, NextRegion, Alloc, Free, Evict
<1>2. IInv /\ Safe /\ Core /\ Core' /\ BootState'
  BY <1>1, CoreNext DEF AInv, IInv
<1>3. CASE InitPmm
  BY <1>3 DEF InitPmm
<1>4. CASE InitVmm
  <2>1. /\ phase' = "free" /\ region' = 1 /\ pmm_stack_max' = 0
        /\ page' = IF Regions = <<>> THEN 0 ELSE First(Regions[1])
    BY <1>2, <1>4 DEF InitVmm, IInv, BootState, Booted, stackVars
  <2>2. stackTable' \in Frame
    BY <1>2, <2>1 DEF BootState, Booted, Core, TypeOK
  <2>3. ~Aliased'
    <3>1. backing'[0] = NoFrame
      BY <1>2, <2>1, FrameFacts DEF Core, Position
    <3> QED BY <2>2, <3>1, FrameFacts DEF Aliased
  <2>4. \A g \in Frame : ~Passed(g)'
    BY <2>1, NothingPassed
  <2>5. Missing' = {}
    BY <2>4 DEF Missing
  <2>6. Cardinality(Missing') = 0
    BY <2>5, FS_EmptySet
  <2> QED BY <2>1, <2>3, <2>6 DEF Covered, Limit
<1>5. ASSUME phase \in {"free", "run"}
      PROVE  /\ Covered /\ Cardinality(Missing) <= Limit /\ (phase = "run" => region > Len(Regions))
             /\ StackInv /\ Booted
  BY <1>1, <1>2, <1>5 DEF AInv, Accounting, Limit, StackInv, IInv, Safe, BootState, Booted
<1>6. CASE FreeAvailable
  <2>1. /\ InRegion /\ phase = "free" /\ Booted /\ phase' # "fault"
        /\ FreePage(page, "free") /\ page' = page + 1
        /\ UNCHANGED <<pmm_loc, stackTable, region, owned, drained>>
        /\ region \in DOMAIN Regions /\ Regions[region].available
        /\ page < End(Regions[region]) /\ page \in Nat
    BY <1>2, <1>6, ConstantsAssumption DEF FreeAvailable, InRegion, Booted, Core, TypeOK
  <2>2. page \in Frame
    <3>1. End(Regions[region]) \in 0 .. AddrSpace - 1
      BY <2>1, RegionBounds DEF Frame
    <3> QED BY <2>1, <3>1, ConstantsAssumption DEF Frame
  <2>3. \A g \in Frame : Passed(g)' => Passed(g) \/ g = page
    BY <2>1, FrameFacts DEF Passed
  <2>4. CASE page >= pmm_loc
    <3>1. Fresh(page)
      BY <1>1, <1>2, <2>1, <2>2, <2>4, WalkFresh
    <3>2. UNCHANGED FreeVars
      BY <2>1 DEF FreeVars
    <3>3. Covered' /\ (Cardinality(Missing) <= Limit)' /\ phase' = "free"
      BY <1>5, <2>1, <2>2, <2>3, <2>4, <3>1, <3>2, FreeAccounted
    <3> QED BY <3>3
  <2>5. CASE page < pmm_loc
    <3>1. UNCHANGED stackVars /\ phase' = "free"
      BY <2>1, <2>5, <1>2, FrameFacts DEF FreePage, Core, TypeOK
    <3>2. /\ Somewhere' = Somewhere /\ (Aliased' <=> Aliased) /\ pmm_stack_max' = pmm_stack_max
          /\ Covered'
      BY <1>5, <2>1, <3>1, StackSame DEF stackVars
    <3>3. \A g \in Frame : g >= pmm_loc' /\ Passed(g)' => g >= pmm_loc /\ Passed(g)
      BY <1>2, <2>1, <2>3, <2>5, FrameFacts DEF Core, TypeOK
    <3> QED BY <1>2, <1>5, <2>1, <3>1, <3>2, <3>3, NothingLost
  <2> QED BY <1>2, <2>1, <2>4, <2>5, FrameFacts DEF Core, TypeOK
<1>7. CASE NextRegion
  <2>1. /\ phase = "free"
        /\ UNCHANGED <<pmm_loc, stackTable, stackVars, owned, drained>>
    BY <1>7 DEF NextRegion
  <2>2. /\ Somewhere' = Somewhere /\ (Aliased' <=> Aliased) /\ pmm_stack_max' = pmm_stack_max
        /\ Covered'
    BY <1>5, <2>1, StackSame DEF stackVars
  <2>3. /\ \A g \in Frame : Passed(g)' => Passed(g)
        /\ phase' = "run" => region' > Len(Regions)
    BY <1>2, <1>7, NextRegionPassed
  <2> QED BY <1>2, <1>5, <2>1, <2>2, <2>3, NothingLost
<1>8. CASE Alloc
  <2>1. phase = "run" /\ phase' = "run" /\ UNCHANGED <<pmm_loc, region, page>>
    BY <1>8 DEF Alloc
  <2>2. PICK v \in FreeFrames : FreeFrames' = FreeFrames \ {v} /\ owned' = owned \union {v}
    BY <1>5, <1>8, <2>1, AllocTakes
  <2>3. /\ StackPages' = StackPages /\ (Aliased' <=> Aliased)
        /\ pmm_stack_max' = pmm_stack_max /\ Covered'
    BY <1>5, <1>8, <2>1, AllocTakes
  <2>4. Somewhere \subseteq Somewhere'
    BY <2>2, <2>3 DEF Somewhere
  <2>5. \A g \in Frame : g >= pmm_loc' /\ Passed(g)' => g >= pmm_loc /\ Passed(g)
    BY <2>1 DEF Passed
  <2> QED BY <1>2, <1>5, <2>1, <2>3, <2>4, <2>5, NothingLost
<1>9. ASSUME NEW f \in Frame, Free(f)
      PROVE  /\ Covered' /\ (Cardinality(Missing) <= Limit)'
             /\ phase' = "run" => region' > Len(Regions)
  <2>1. /\ phase = "run" /\ phase' # "fault" /\ f \in owned
        /\ FreePage(f, "run") /\ owned' = owned \ {f}
        /\ UNCHANGED <<pmm_loc, stackTable, region, page, drained>>
    BY <1>9 DEF Free
  <2>2. f > pmm_loc /\ ~OnStack(f)
    BY <1>2, <2>1 DEF Safe, Held
  <2>3. Fresh(f) /\ f >= pmm_loc
    BY <2>2, <1>2, FrameFacts DEF Fresh, Core, TypeOK
  <2>4. \A g \in Frame : Passed(g)' => Passed(g) \/ g = f
    BY <2>1 DEF Passed
  <2>5. UNCHANGED FreeVars
    BY <2>1 DEF FreeVars
  <2>6. Covered' /\ (Cardinality(Missing) <= Limit)'
    BY <1>5, <2>1, <2>3, <2>4, <2>5, FreeAccounted
  <2> QED BY <1>5, <2>1, <2>6
<1>10. ASSUME NEW k \in Entry, Evict(k)
       PROVE  /\ Covered' /\ (Cardinality(Missing) <= Limit)'
              /\ phase' = "run" => region' > Len(Regions)
  <2>1. /\ phase \in {"free", "run"} /\ phase' = phase
        /\ UNCHANGED <<pmm_loc, stackTable, pmm_stack_loc, pmm_stack_max, mem, backing, owned>>
        /\ UNCHANGED <<region, page>>
    BY <1>10 DEF Evict
  <2>2. \A g \in Frame : g >= pmm_loc' /\ Passed(g)' => g >= pmm_loc /\ Passed(g)
    BY <2>1 DEF Passed
  <2> QED BY <1>2, <1>5, <2>1, <2>2, StackSame, NothingLost
<1>11. CASE UNCHANGED vars
  <2>1. /\ phase \in {"free", "run"} /\ phase' = phase
        /\ UNCHANGED <<pmm_loc, stackTable, pmm_stack_loc, pmm_stack_max, mem, backing, owned>>
        /\ UNCHANGED <<region, page>>
    BY <1>11 DEF vars
  <2>2. \A g \in Frame : g >= pmm_loc' /\ Passed(g)' => g >= pmm_loc /\ Passed(g)
    BY <2>1 DEF Passed
  <2> QED BY <1>2, <1>5, <2>1, <2>2, StackSame, NothingLost
<1> QED
  BY <1>3, <1>4, <1>6, <1>7, <1>8, <1>9, <1>10, <1>11 DEF Next

LEMMA Accounted == SortedMap => (Spec => []AInv)
<1> SUFFICES ASSUME SortedMap PROVE Spec => []AInv
  OBVIOUS
<1>1. Init => AInv
  <2>1. Init => IInv
    BY CoreInit, SafeInit DEF IInv, Init, StackMapped
  <2> QED BY <2>1 DEF AInv, Init, Accounting
<1>2. AInv /\ [Next]_vars => AInv'
  BY Inductive, AccountingNext DEF AInv
<1> QED
  BY <1>1, <1>2, PTL DEF Spec

\* However calls to pmm_alloc_page and pmm_free_page follow each other, every frame of a
\* sorted memory map is on the stack, behind it or with a holder; a stack whose first
\* page is its own table loses one for each later page, no more.
THEOREM NoFrameLost == SortedMap => (Spec => []FramesAccounted)
<1>1. AInv => FramesAccounted
  <2> SUFFICES ASSUME AInv, phase = "run", ~drained
               PROVE  Cardinality(Managed \ Somewhere) <= Limit
    BY DEF FramesAccounted, Somewhere, Limit
  <2>1. /\ Cardinality(Missing) <= Limit /\ region > Len(Regions) /\ Core
    BY DEF AInv, Accounting, Limit, IInv
  <2>2. Managed \ Somewhere \subseteq Missing /\ Missing \subseteq Frame
    <3>1. DOMAIN Regions = 1 .. Len(Regions) /\ Len(Regions) \in Nat /\ region \in Nat
      BY <2>1, ConstantsAssumption DEF Core, TypeOK
    <3>2. \A a \in DOMAIN Regions : a < region
      BY <2>1, <3>1
    <3> QED BY <3>2 DEF Managed, Missing, Passed
  <2>3. /\ Cardinality(Missing) \in Nat /\ Cardinality(Managed \ Somewhere) \in Nat
        /\ Cardinality(Managed \ Somewhere) <= Cardinality(Missing)
    BY <2>2, FewerMissing
  <2>4. Limit \in Int
    BY <2>1, ConstantsAssumption DEF Limit, Core, TypeOK
  <2> QED BY <2>1, <2>3, <2>4
<1> SUFFICES ASSUME SortedMap PROVE Spec => []FramesAccounted
  OBVIOUS
<1>2. Spec => []AInv
  BY Accounted
<1> QED
  BY <1>1, <1>2, PTL
-----------------------------------------------------------------------------
(***************************************************************************)
(* The abstract allocator.                                                 *)
(***************************************************************************)
\* The stack's table is in memory that the map does not call available.
Outside ==
  \A r \in DOMAIN Regions :
    Regions[r].available => InitLoc + 4 \notin First(Regions[r]) .. End(Regions[r]) - 1

RInv == AInv /\ (Booted => ~Aliased)

LEMMA Sound ==
  ASSUME RInv
  PROVE  /\ IInv /\ Core /\ BootState /\ ~drained
         /\ Booted => StackInv /\ Safe /\ ~Aliased /\ phase # "fault"
         /\ phase \in {"free", "run"} => Covered
<1>1. IInv /\ Core /\ BootState /\ (drained => Booted /\ Aliased)
  BY DEF RInv, AInv, IInv, BootState
<1>2. ~drained
  BY <1>1 DEF RInv
<1> QED
  BY <1>1, <1>2 DEF RInv, AInv, IInv, BootState, StackInv, Safe, StackMapped, Accounting

\* A frame that is not on the stack is neither free nor kept.
LEMMA NotOnStack ==
  ASSUME TypeOK, NEW f \in Frame, ~OnStack(f)
  PROVE  f \notin FreeFrames /\ f \notin StackPages
BY StackPagesFacts DEF OnStack, FreeFrames

\* The frame that the walk frees is not the one of the stack's table.
LEMMA WalkOutside ==
  ASSUME Outside, IInv, ~drained, phase = "free", InRegion, page \in Frame
  PROVE  page # stackTable
<1>1. /\ region \in DOMAIN Regions /\ Regions[region].available
      /\ page < End(Regions[region]) /\ page >= First(Regions[region])
  BY ConstantsAssumption DEF InRegion, IInv, Safe, Walk, Core, TypeOK
<1>2. First(Regions[region]) \in Nat /\ End(Regions[region]) \in Frame
  BY <1>1, RegionBounds
<1>3. page \in First(Regions[region]) .. End(Regions[region]) - 1
  <2>1. First(Regions[region]) \in Nat /\ End(Regions[region]) \in Nat /\ page \in Nat
    BY <1>2, FrameFacts
  <2>2. \A a, b, c \in Nat : a >= b /\ a < c => a \in b .. c - 1
    OBVIOUS
  <2> QED BY <2>1, <2>2, <1>1
<1>4. stackTable = InitLoc + 4
  BY DEF IInv, BootState, Booted
<1> QED
  BY <1>1, <1>3, <1>4 DEF Outside

LEMMA NeverAliased ==
  ASSUME SortedMap, Outside, RInv, [Next]_vars, AInv', Booted'
  PROVE  ~Aliased'
<1>1. Core /\ BootState /\ Core' /\ BootState' /\ IInv /\ ~drained
  BY Sound DEF AInv, IInv
<1>2. stackTable' \in Frame
  BY <1>1 DEF BootState, Core, TypeOK
<1>3. ASSUME NEW f \in Frame, NEW next \in Phase, Booted, f # stackTable, FreePage(f, next),
             UNCHANGED stackTable
      PROVE  ~Aliased'
  <2>1. ~Aliased
    BY <1>3 DEF RInv
  <2>2. CASE backing' = backing
    BY <1>3, <2>1, <2>2 DEF Aliased
  <2>3. CASE backing' = [backing EXCEPT ![pmm_stack_max] = f]
    BY <1>1, <1>3, <2>1, <2>3, FrameFacts DEF Aliased, Core, TypeOK
  <2> QED BY <1>3, <2>2, <2>3 DEF FreePage, stackVars
<1>4. CASE InitPmm
  BY <1>4 DEF InitPmm, Booted
<1>5. CASE InitVmm
  <2>1. backing' = backing /\ pmm_stack_max = 0
    BY <1>1, <1>5 DEF InitVmm, stackVars, BootState, Booted
  <2>2. backing'[0] = NoFrame
    BY <1>1, <2>1, FrameFacts DEF Core, Position
  <2> QED BY <1>2, <2>2, FrameFacts DEF Aliased
<1>6. CASE FreeAvailable
  <2>1. /\ phase = "free" /\ Booted /\ InRegion /\ FreePage(page, "free")
        /\ UNCHANGED stackTable /\ "free" \in Phase
    BY <1>6 DEF FreeAvailable, InRegion, Booted, Phase
  <2>2. page \in Frame
    <3>1. region \in DOMAIN Regions /\ page < End(Regions[region]) /\ page \in Nat
      BY <1>1, <2>1, ConstantsAssumption DEF InRegion, Core, TypeOK
    <3>2. End(Regions[region]) \in 0 .. AddrSpace - 1
      BY <3>1, RegionBounds DEF Frame
    <3> QED BY <3>1, <3>2, ConstantsAssumption DEF Frame
  <2>3. page # stackTable
    BY <1>1, <2>1, <2>2, WalkOutside
  <2> QED BY <1>3, <2>1, <2>2, <2>3
<1>7. CASE NextRegion
  BY <1>7 DEF NextRegion, stackVars, RInv, Aliased, Booted
<1>8. CASE Alloc
  BY <1>8 DEF Alloc, RInv, Aliased, Booted
<1>9. ASSUME NEW f \in Frame, Free(f) PROVE ~Aliased'
  <2>1. /\ phase = "run" /\ Booted /\ f \in owned /\ FreePage(f, "run")
        /\ UNCHANGED stackTable /\ "run" \in Phase
    BY <1>9 DEF Free, Booted, Phase
  <2>2. f > pmm_loc /\ stackTable = pmm_loc /\ pmm_loc \in Nat /\ f \in Nat
    BY <1>1, <2>1, FrameFacts DEF IInv, Safe, Held, BootState, Core, TypeOK
  <2> QED BY <1>3, <2>1, <2>2
<1>10. ASSUME NEW k \in Entry, Evict(k) PROVE ~Aliased'
  BY <1>10 DEF Evict, RInv, Aliased, Booted
<1>11. CASE UNCHANGED vars
  BY <1>11 DEF vars, RInv, Aliased, Booted
<1> QED
  BY <1>4, <1>5, <1>6, <1>7, <1>8, <1>9, <1>10, <1>11 DEF Next

LEMMA RInvariant == SortedMap /\ Outside => (Spec => []RInv)
<1> SUFFICES ASSUME SortedMap, Outside PROVE Spec => []RInv
  OBVIOUS
<1>1. Spec => []AInv
  BY Accounted
<1>2. Init => ~Booted
  BY DEF Init, Booted
<1>3. AInv /\ (Booted => ~Aliased) /\ [Next]_vars /\ AInv' => (Booted => ~Aliased)'
  BY NeverAliased DEF RInv
<1>4. AInv /\ (Booted => ~Aliased) => RInv
  BY DEF RInv
<1> QED
  BY <1>1, <1>2, <1>3, <1>4, PTL DEF Spec

\* Each step of the allocator is one of FrameAllocator, or none.
LEMMA StepRefined ==
  ASSUME SortedMap, RInv, RInv', [Next]_vars
  PROVE  [Allocator!Next]_Allocator!vars
<1> DEFINE Same == /\ FreeFrames' = FreeFrames /\ owned' = owned /\ StackPages' = StackPages
                   /\ (phase = "run")' = (phase = "run")
<1>1. Same => UNCHANGED Allocator!vars
  BY DEF Allocator!vars
<1>2. /\ IInv /\ Core /\ BootState /\ ~drained
      /\ Booted => StackInv /\ Safe /\ ~Aliased
      /\ phase \in {"free", "run"} => Covered
  BY Sound
<1>3. ~drained' /\ phase' # "fault" /\ Core'
  BY DEF RInv, AInv, IInv, BootState, StackMapped, Booted
<1>4. CASE InitPmm \/ InitVmm
  <2>1. pmm_stack_max = 0 /\ pmm_stack_max' = 0 /\ owned' = owned /\ phase # "run" /\ phase' # "run"
    BY <1>2, <1>4 DEF InitPmm, InitVmm, stackVars, BootState, Booted
  <2>2. 0 .. pmm_stack_max - 1 = {} /\ 0 .. pmm_stack_max' - 1 = {}
    BY <2>1
  <2>3. FreeFrames = {} /\ FreeFrames' = {} /\ StackPages = {} /\ StackPages' = {}
    BY <2>2 DEF FreeFrames, StackPages, Trustworthy, Occupied
  <2> QED BY <1>1, <2>1, <2>3
<1>5. ASSUME NEW f \in Frame, NEW next \in {"free", "run"}, Booted, f >= pmm_loc, Fresh(f),
             FreePage(f, next), UNCHANGED FreeVars, phase \in {"free", "run"}
      PROVE  /\ phase' = next /\ f \notin FreeFrames \union StackPages
             /\ \/ FreeFrames' = FreeFrames \union {f} /\ StackPages' = StackPages
                \/ StackPages' = StackPages \union {f} /\ FreeFrames' = FreeFrames
  <2>1. next \in Phase \ {"fault"}
    BY DEF Phase
  <2>2. (Pushed(f) \/ Extended(f)) /\ phase' = next
    BY <1>2, <1>3, <1>5, <2>1, FreePageAdds
  <2>3. f \notin FreeFrames \union StackPages
    BY <1>2, <1>5, NotOnStack DEF Fresh, Core
  <2> QED BY <1>2, <1>5, <2>2, <2>3 DEF Pushed, Extended
<1>6. CASE FreeAvailable
  <2>1. /\ InRegion /\ phase = "free" /\ Booted /\ FreePage(page, "free")
        /\ UNCHANGED <<pmm_loc, stackTable, region, owned, drained>>
    BY <1>6 DEF FreeAvailable, InRegion, Booted
  <2>2. page \in Frame
    <3>1. region \in DOMAIN Regions /\ page < End(Regions[region]) /\ page \in Nat
      BY <1>2, <2>1, ConstantsAssumption DEF InRegion, Core, TypeOK
    <3>2. End(Regions[region]) \in 0 .. AddrSpace - 1
      BY <3>1, RegionBounds DEF Frame
    <3> QED BY <3>1, <3>2, ConstantsAssumption DEF Frame
  <2>3. CASE page >= pmm_loc
    <3>1. Fresh(page)
      BY <1>2, <2>1, <2>2, <2>3, WalkFresh
    <3>2. UNCHANGED FreeVars
      BY <2>1 DEF FreeVars
    <3>3. /\ phase' = "free" /\ page \notin FreeFrames \union StackPages
          /\ \/ FreeFrames' = FreeFrames \union {page} /\ StackPages' = StackPages
             \/ StackPages' = StackPages \union {page} /\ FreeFrames' = FreeFrames
      BY <1>5, <2>1, <2>2, <2>3, <3>1, <3>2
    <3>4. Allocator!Collect(page)
      BY <2>1, <3>3 DEF Allocator!Collect, Allocator!Accept
    <3> QED BY <2>2, <3>4 DEF Allocator!Next
  <2>4. CASE page < pmm_loc
    <3>1. UNCHANGED stackVars /\ phase' = "free"
      BY <2>1, <2>4, <1>2, FrameFacts DEF FreePage, Core, TypeOK
    <3>2. Same
      BY <2>1, <3>1
      DEF stackVars, FreeFrames, StackPages, Trustworthy, Occupied, Clobbered, Below, Slot, Aliased
    <3> QED BY <1>1, <3>2
  <2> QED BY <1>2, <2>2, <2>3, <2>4, FrameFacts DEF Core, TypeOK
<1>7. CASE NextRegion
  <2>1. /\ phase = "free" /\ phase' \in {"free", "run"}
        /\ UNCHANGED <<stackTable, stackVars, owned>>
    BY <1>7 DEF NextRegion
  <2>2. FreeFrames' = FreeFrames /\ StackPages' = StackPages /\ owned' = owned
    BY <2>1
    DEF stackVars, FreeFrames, StackPages, Trustworthy, Occupied, Clobbered, Below, Slot, Aliased
  <2>3. CASE phase' = "free"
    BY <1>1, <2>1, <2>2, <2>3
  <2>4. CASE phase' = "run"
    BY <2>1, <2>2, <2>4 DEF Allocator!Next, Allocator!Start
  <2> QED BY <2>1, <2>3, <2>4
<1>8. CASE Alloc
  <2>1. phase = "run" /\ Booted
    BY <1>8 DEF Alloc, Booted
  <2>2. CASE Empty
    <3>1. /\ phase' = "oom"
          /\ UNCHANGED <<stackTable, pmm_stack_loc, pmm_stack_max, mem, backing, owned>>
      BY <1>8, <2>2 DEF Alloc
    <3>2. FreeFrames' = FreeFrames /\ StackPages' = StackPages
      BY <3>1 DEF FreeFrames, StackPages, Trustworthy, Occupied, Clobbered, Below, Slot, Aliased
    <3>3. FreeFrames = {}
      BY <2>2, FrameFacts DEF Empty, FreeFrames, Trustworthy, Occupied, Below
    <3> QED BY <2>1, <3>1, <3>2, <3>3 DEF Allocator!Next, Allocator!Panic
  <2>3. CASE ~Empty
    <3>1. phase' = "run"
      BY <1>3, <1>8, <2>1, <2>3 DEF Alloc
    <3>2. PICK v \in FreeFrames : FreeFrames' = FreeFrames \ {v} /\ owned' = owned \union {v}
      BY <1>2, <1>3, <1>8, <2>1, <3>1, AllocTakes
    <3>3. StackPages' = StackPages
      BY <1>2, <1>3, <1>8, <2>1, <3>1, AllocTakes
    <3>4. Allocator!Alloc(v) /\ v \in Frame
      BY <2>1, <3>1, <3>2, <3>3 DEF Allocator!Alloc, FreeFrames
    <3> QED BY <3>4 DEF Allocator!Next
  <2> QED BY <2>2, <2>3
<1>9. ASSUME NEW f \in Frame, Free(f)
      PROVE  Allocator!Next
  <2>1. /\ phase = "run" /\ Booted /\ f \in owned /\ FreePage(f, "run") /\ owned' = owned \ {f}
        /\ UNCHANGED FreeVars
    BY <1>9 DEF Free, Booted, FreeVars
  <2>2. f > pmm_loc /\ ~OnStack(f)
    BY <1>2, <2>1 DEF Safe, Held
  <2>3. Fresh(f) /\ f >= pmm_loc
    BY <2>2, <1>2, FrameFacts DEF Fresh, Core, TypeOK
  <2>4. /\ phase' = "run" /\ f \notin FreeFrames \union StackPages
        /\ \/ FreeFrames' = FreeFrames \union {f} /\ StackPages' = StackPages
           \/ StackPages' = StackPages \union {f} /\ FreeFrames' = FreeFrames
    BY <1>5, <2>1, <2>3
  <2>5. Allocator!Free(f)
    BY <2>1, <2>4 DEF Allocator!Free, Allocator!Accept
  <2> QED BY <2>5 DEF Allocator!Next
<1>10. ASSUME NEW k \in Entry, Evict(k) PROVE Same
  <2>1. phase' = phase /\ owned' = owned
        /\ UNCHANGED <<stackTable, pmm_stack_loc, pmm_stack_max, mem, backing>>
    BY <1>10 DEF Evict
  <2> QED BY <2>1
      DEF FreeFrames, StackPages, Trustworthy, Occupied, Clobbered, Below, Slot, Aliased
<1>11. CASE UNCHANGED vars
  <2>1. phase' = phase /\ owned' = owned
        /\ UNCHANGED <<stackTable, pmm_stack_loc, pmm_stack_max, mem, backing>>
    BY <1>11 DEF vars
  <2>2. Same
    BY <2>1 DEF FreeFrames, StackPages, Trustworthy, Occupied, Clobbered, Below, Slot, Aliased
  <2> QED BY <1>1, <2>2
<1> QED
  BY <1>1, <1>4, <1>6, <1>7, <1>8, <1>9, <1>10, <1>11 DEF Next

\* Where the stack's table is not in available memory (and so never the first page of the
\* stack) the page allocator keeps the promise of FrameAllocator: pmm_alloc_page hands
\* out a frame that is free, and panics only when none is; pmm_free_page takes it back
\* or keeps it for the stack.
THEOREM Refines == SortedMap /\ Outside => (Spec => Implements)
<1> SUFFICES ASSUME SortedMap, Outside PROVE Spec => Implements
  OBVIOUS
<1>1. Spec => []RInv
  BY RInvariant
<1>2. Init => Allocator!Init
  <2> SUFFICES ASSUME Init PROVE Allocator!Init
    OBVIOUS
  <2>1. 0 .. pmm_stack_max - 1 = {}
    BY DEF Init
  <2>2. FreeFrames = {} /\ StackPages = {}
    BY <2>1 DEF FreeFrames, StackPages, Trustworthy, Occupied
  <2> QED BY <2>2 DEF Init, Allocator!Init
<1>3. RInv /\ RInv' /\ [Next]_vars => [Allocator!Next]_Allocator!vars
  BY StepRefined
<1> QED
  BY <1>1, <1>2, <1>3, PTL DEF Spec, Implements, Allocator!Spec
-----------------------------------------------------------------------------
(***************************************************************************)
(* What was loaded before the allocator.                                   *)
(***************************************************************************)
\* Frames above the image lie on the stack above all others ...
AboveOnTop ==
  \A k, d, l, e \in Entry :
    Trustworthy(k, d) /\ Trustworthy(l, e) /\ Under(k, d, l, e) /\ Slot(k, d) \in Above =>
      Slot(l, e) \in Above

\* ... and where one is missing, a slot that must not be popped is below the rest of them.
Guarded ==
  Missing \intersect Above # {} =>
    /\ Aliased
    /\ \E c \in Entry :
         /\ 1 <= c /\ c < pmm_stack_max
         /\ \A l, e \in Entry : Trustworthy(l, e) /\ Under(0, c, l, e) => Slot(l, e) \in Above

Layers == AboveOnTop /\ Guarded

\* Until more frames were held at once than there are above the image.
AboveFirst ==
  Booted /\ ~drained /\ peak <= Cardinality(Above) =>
    /\ owned \subseteq Above
    /\ phase \in {"free", "run"} => Layers

ImageInv == AInv /\ peak \in Nat /\ AboveFirst

LEMMA AboveFacts ==
  ASSUME Core, UNCHANGED pmm_loc, StackPages \subseteq StackPages'
  PROVE  /\ Above' = Above \ StackPages'
         /\ Cardinality(Above) \in Nat /\ Cardinality(Above') \in Nat
         /\ Cardinality(Above') <= Cardinality(Above)
<1>1. Managed' = Managed
  BY DEF Managed
<1>2. Above' = Above \ StackPages' /\ Above \subseteq Frame
  BY <1>1 DEF Above, Managed
<1> QED
  BY <1>2, FewerMissing

LEMMA PeakGrows ==
  ASSUME peak \in Nat, owned' \subseteq Frame, peak' = Most
  PROVE  /\ peak' \in Nat /\ peak <= peak'
         /\ Cardinality(owned') \in Nat /\ Cardinality(owned') <= peak'
<1>1. Cardinality(owned') \in Nat
  BY FewerMissing
<1> QED
  BY <1>1 DEF Most

\* A slot that can be trusted names no page of the stack.
LEMMA SlotNotPage ==
  ASSUME Core, Slots, NEW l \in Entry, NEW d \in Entry, Trustworthy(l, d)
  PROVE  Slot(l, d) \notin StackPages
BY StackPagesFacts DEF Core, Slots, StackPages

\* Nothing is pushed or mapped, and nothing new is missing.
LEMMA LayersKept ==
  ASSUME Layers, SlotsKept, Above' = Above, Missing' \subseteq Missing,
         Aliased => Aliased', pmm_stack_max' = pmm_stack_max
  PROVE  Layers'
<1>1. AboveOnTop'
  BY DEF Layers, AboveOnTop, SlotsKept
<1>2. Guarded'
  BY DEF Layers, Guarded, SlotsKept
<1> QED
  BY <1>1, <1>2 DEF Layers

\* A frame from above the image is pushed.
LEMMA LayersPushed ==
  ASSUME Layers, NEW f \in Above, PutOnTop(f), Above' = Above, Missing' \subseteq Missing,
         Aliased => Aliased', pmm_stack_max' = pmm_stack_max
  PROVE  Layers'
<1>1. PICK k \in Entry, e \in Entry : \A l, d \in Entry :
        Trustworthy(l, d)' =>
          IF l = k /\ d = e
            THEN Slot(l, d)' = f
            ELSE Trustworthy(l, d) /\ Slot(l, d)' = Slot(l, d) /\ Under(l, d, k, e)
  BY DEF PutOnTop
<1>2. AboveOnTop'
  <2> SUFFICES ASSUME NEW i \in Entry, NEW d \in Entry, NEW l \in Entry, NEW c \in Entry,
                      Trustworthy(i, d)', Trustworthy(l, c)', Under(i, d, l, c),
                      Slot(i, d)' \in Above
               PROVE  Slot(l, c)' \in Above
    BY DEF AboveOnTop, Under
  <2>1. CASE l = k /\ c = e
    BY <1>1, <2>1
  <2>2. CASE ~(l = k /\ c = e)
    <3>1. Trustworthy(l, c) /\ Slot(l, c)' = Slot(l, c) /\ Under(l, c, k, e)
      BY <1>1, <2>2
    <3>2. ~(i = k /\ d = e)
      BY <3>1, FrameFacts DEF Under
    <3>3. Trustworthy(i, d) /\ Slot(i, d)' = Slot(i, d)
      BY <1>1, <3>2
    <3> QED BY <3>1, <3>3 DEF Layers, AboveOnTop
  <2> QED BY <2>1, <2>2
<1>3. Guarded'
  <2> SUFFICES ASSUME Missing' \intersect Above' # {}
               PROVE  Guarded'
    BY DEF Guarded
  <2>1. Missing \intersect Above # {}
    OBVIOUS
  <2>2. Aliased'
    BY <2>1 DEF Layers, Guarded
  <2>3. PICK c \in Entry :
          /\ 1 <= c /\ c < pmm_stack_max
          /\ \A l, d \in Entry : Trustworthy(l, d) /\ Under(0, c, l, d) => Slot(l, d) \in Above
    BY <2>1 DEF Layers, Guarded
  <2>4. \A l, d \in Entry : Trustworthy(l, d)' /\ Under(0, c, l, d)' => Slot(l, d)' \in Above'
    BY <1>1, <2>3 DEF Under
  <2> QED BY <2>2, <2>3, <2>4 DEF Guarded
<1> QED
  BY <1>2, <1>3 DEF Layers

\* While no frame above the image was freed yet, there is nothing to keep apart.
LEMMA LayersEmpty ==
  ASSUME Missing' \intersect Above' = {},
         \A l, d \in Entry : Trustworthy(l, d)' => Slot(l, d)' \notin Above'
  PROVE  Layers'
BY DEF Layers, AboveOnTop, Guarded

\* Page f is mapped behind the stack, and on an aliased one a slot is lost.
LEMMA LayersMapped ==
  ASSUME StackInv, Slots', Core', Layers, NEW f \in Frame, Extended(f), UNCHANGED pmm_loc,
         \A g \in Frame : Passed(g)' => Passed(g) \/ g = f,
         owned \ {f} \subseteq owned'
  PROVE  Layers'
<1>1. /\ Above' = Above \ StackPages' /\ f \in StackPages' /\ Above \subseteq Frame
      /\ pmm_stack_max \in Nat /\ pmm_stack_max' = pmm_stack_max + 1
  BY AboveFacts, ConstantsAssumption DEF Extended, StackInv, Core, TypeOK, Above, Managed
<1>2. \A l, d \in Entry : Trustworthy(l, d)' /\ Slot(l, d) \in Above => Slot(l, d)' \in Above'
  <2> SUFFICES ASSUME NEW l \in Entry, NEW d \in Entry, Trustworthy(l, d)', Slot(l, d) \in Above
               PROVE  Slot(l, d)' \in Above'
    OBVIOUS
  <2>1. Slot(l, d)' = Slot(l, d)
    BY DEF Extended, SlotsKept
  <2>2. Slot(l, d)' \notin StackPages'
    <3>1. \A k \in Entry : k < pmm_stack_max' => Slot(l, d)' # backing'[k]
      BY DEF Slots
    <3>2. /\ pmm_stack_max' \in Nat /\ pmm_stack_max' <= Entries /\ Entries \in Nat
      BY ConstantsAssumption DEF Core, TypeOK
    <3>3. \A k \in 0 .. pmm_stack_max' - 1 : k \in Entry /\ k < pmm_stack_max'
      <4>1. \A m, n \in Nat : m <= n => \A k \in 0 .. m - 1 : k \in 0 .. n - 1 /\ k < m
        OBVIOUS
      <4> QED BY <3>2, <4>1 DEF Entry
    <3> QED BY <3>1, <3>3 DEF StackPages
  <2> QED BY <1>1, <2>1, <2>2
<1>3. AboveOnTop'
  <2> SUFFICES ASSUME NEW k \in Entry, NEW d \in Entry, NEW l \in Entry, NEW e \in Entry,
                      Trustworthy(k, d)', Trustworthy(l, e)', Under(k, d, l, e),
                      Slot(k, d)' \in Above'
               PROVE  Slot(l, e)' \in Above'
    BY DEF AboveOnTop, Under
  <2>1. /\ Trustworthy(k, d) /\ Trustworthy(l, e)
        /\ Slot(k, d)' = Slot(k, d) /\ Slot(l, e)' = Slot(l, e)
    BY DEF Extended, SlotsKept
  <2>2. Slot(l, e) \in Above
    BY <1>1, <2>1 DEF Layers, AboveOnTop
  <2> QED BY <1>2, <2>2
<1>4. ASSUME Aliased, NEW c \in Entry, 1 <= c, c < pmm_stack_max',
             \A l, e \in Entry : Trustworthy(l, e) /\ Under(0, c, l, e) => Slot(l, e) \in Above
      PROVE  Guarded'
  <2>1. Aliased'
    BY <1>4, AliasedMapped DEF Extended, StackInv, Core, TypeOK
  <2>2. \A l, e \in Entry : Trustworthy(l, e)' /\ Under(0, c, l, e)' => Slot(l, e)' \in Above'
    BY <1>2, <1>4 DEF Extended, SlotsKept, Under
  <2> QED BY <1>4, <2>1, <2>2 DEF Guarded
<1>5. ASSUME NEW g \in Missing', g \in Above' PROVE Guarded'
  <2>1. /\ g \in Frame /\ g \in Above /\ g # f /\ Passed(g) /\ g >= pmm_loc
        /\ g \notin FreeFrames' /\ g \notin StackPages' /\ g \notin owned
    BY <1>1, <1>5 DEF Missing, Somewhere
  <2>2. CASE g \in Missing
    <3>1. PICK c \in Entry :
            /\ 1 <= c /\ c < pmm_stack_max
            /\ \A l, e \in Entry : Trustworthy(l, e) /\ Under(0, c, l, e) => Slot(l, e) \in Above
      BY <2>1, <2>2 DEF Layers, Guarded
    <3>2. Aliased /\ c < pmm_stack_max'
      BY <1>1, <2>1, <2>2, <3>1, FrameFacts DEF Layers, Guarded
    <3> QED BY <1>4, <3>1, <3>2
  <2>3. CASE g \notin Missing
    <3>1. g \in FreeFrames
      BY <2>1, <2>3 DEF Missing, Somewhere, Extended
    <3> DEFINE c == pmm_stack_max
    <3>2. Aliased /\ Trustworthy(0, c) /\ g = Slot(0, c)
      BY <2>1, <3>1 DEF Extended
    <3>3. c \in Entry /\ 1 <= c /\ c < pmm_stack_max'
      <4>1. 0 < pmm_stack_max
        BY <3>2, AliasedMapped DEF StackInv, Core, TypeOK
      <4>2. pmm_stack_max' <= Entries
        BY ConstantsAssumption DEF Core, TypeOK
      <4> QED BY <1>1, <4>1, <4>2, ConstantsAssumption DEF Entry
    <3>4. \A l, e \in Entry : Trustworthy(l, e) /\ Under(0, c, l, e) => Slot(l, e) \in Above
      BY <2>1, <3>2, <3>3, FrameFacts DEF Layers, AboveOnTop
    <3> QED BY <1>4, <3>2, <3>3, <3>4
  <2> QED BY <2>2, <2>3
<1>6. Guarded'
  BY <1>5 DEF Guarded
<1> QED
  BY <1>3, <1>6 DEF Layers

\* The boot loop frees the next frame of the map.
LEMMA FreeAvailableLayers ==
  ASSUME SortedMap, AInv, AInv', FreeAvailable, ~drained, phase' \in {"free", "run"}, Layers
  PROVE  Layers'
<1>1. /\ InRegion /\ phase = "free" /\ Booted /\ phase' # "fault"
      /\ FreePage(page, "free") /\ page' = page + 1
      /\ UNCHANGED <<pmm_loc, stackTable, region, owned, drained>>
      /\ region \in DOMAIN Regions /\ Regions[region].available
      /\ page < End(Regions[region]) /\ page \in Nat
  BY ConstantsAssumption DEF FreeAvailable, InRegion, Booted, AInv, IInv, Core, TypeOK
<1>2. IInv /\ Safe /\ Core /\ StackInv /\ Covered
  BY <1>1 DEF AInv, Accounting, StackInv, IInv, Safe, BootState
<1>3. Core' /\ Slots'
  BY <1>1 DEF AInv, IInv, Safe
<1>4. page \in Frame
  <2>1. End(Regions[region]) \in 0 .. AddrSpace - 1
    BY <1>1, RegionBounds DEF Frame
  <2> QED BY <1>1, <2>1, ConstantsAssumption DEF Frame
<1>5. \A g \in Frame : Passed(g)' => Passed(g) \/ g = page
  BY <1>1, FrameFacts DEF Passed
<1>6. CASE page < pmm_loc
  <2>1. UNCHANGED stackVars
    BY <1>1, <1>2, <1>6, FrameFacts DEF FreePage, Core, TypeOK
  <2>2. /\ Above' = Above /\ SlotsKept /\ (Aliased => Aliased') /\ Somewhere' = Somewhere
        /\ pmm_stack_max' = pmm_stack_max
    BY <1>1, <2>1
    DEF stackVars, Above, Managed, StackPages, SlotsKept, Trustworthy, Occupied, Clobbered,
        Below, Aliased, Slot, Somewhere, FreeFrames
  <2>3. Missing' \subseteq Missing
    <3>1. \A g \in Frame : g >= pmm_loc' => g >= pmm_loc /\ g # page
      BY <1>1, <1>2, <1>6, FrameFacts DEF Core, TypeOK
    <3> QED BY <1>5, <2>2, <3>1 DEF Missing
  <2> QED BY <2>2, <2>3, LayersKept
<1>7. CASE page >= pmm_loc
  <2>1. Fresh(page)
    BY <1>1, <1>2, <1>4, <1>7, WalkFresh
  <2>2. Pushed(page) \/ Extended(page)
    <3>1. "free" \in Phase \ {"fault"} /\ UNCHANGED FreeVars
      BY <1>1 DEF Phase, FreeVars
    <3> QED BY <1>1, <1>2, <1>4, <1>7, <2>1, <3>1, FreePageAdds
  <2>3. CASE Extended(page)
    BY <1>1, <1>2, <1>3, <1>4, <1>5, <2>3, LayersMapped
  <2>4. CASE Pushed(page) /\ page \in Above
    <3>1. Above' = Above
      BY <1>1, <2>4 DEF Pushed, Above, Managed
    <3>2. Missing' \subseteq Missing
      BY <1>1, <1>5, <2>4 DEF Missing, Somewhere, Pushed
    <3> QED BY <2>4, <3>1, <3>2, LayersPushed DEF Pushed
  <2>5. CASE Pushed(page) /\ page \notin Above
    <3>1. Above' = Above
      BY <1>1, <2>5 DEF Pushed, Above, Managed
    <3>2. page \in Managed \ StackPages
      <4>1. page \in Managed
        <5>1. First(Regions[region]) \in Nat /\ End(Regions[region]) \in Nat
          BY <1>1, RegionBounds, FrameFacts
        <5>2. First(Regions[region]) <= page
          BY <1>1, <1>2, ConstantsAssumption DEF Safe, Walk, InRegion
        <5>3. page \in First(Regions[region]) .. End(Regions[region]) - 1
          BY <1>1, <5>1, <5>2
        <5> QED BY <1>1, <1>4, <1>7, <5>3 DEF Managed
      <4>2. page \notin StackPages
        BY <1>2, <2>1, StackPagesFacts DEF Fresh, OnStack, Core
      <4> QED BY <4>1, <4>2
    <3>3. PICK i \in Image : ~(page > i)
      BY <2>5, <3>2 DEF Above
    <3>4. i \in Nat
      BY ImageAssumption, FrameFacts
    <3>5. \A g \in Frame : Seen(g) \/ g = page => g \notin Above
      <4> SUFFICES ASSUME NEW g \in Frame, Seen(g) \/ g = page, g \in Above PROVE FALSE
        OBVIOUS
      <4>1. g <= page
        BY <1>1, <1>2, <1>4, SeenBelow, FrameFacts
      <4>2. g > i
        BY <3>3 DEF Above
      <4> QED BY <3>3, <3>4, <4>1, <4>2, <1>1, FrameFacts
    <3>6. ASSUME NEW l \in Entry, NEW d \in Entry, Trustworthy(l, d)'
          PROVE  Slot(l, d)' \notin Above
      <4>1. Slot(l, d)' = page \/ (Trustworthy(l, d) /\ Slot(l, d)' = Slot(l, d))
        BY <2>5, <3>6 DEF Pushed, PutOnTop
      <4>2. ASSUME Trustworthy(l, d), Slot(l, d) \in Above PROVE FALSE
        <5>1. Slot(l, d) \in Frame
          BY <4>2 DEF Above, Managed
        <5>2. Seen(Slot(l, d))
          BY <1>1, <1>2, <4>2, <5>1 DEF Safe, Walk, OnStack
        <5> QED BY <3>5, <4>2, <5>1, <5>2
      <4> QED BY <1>4, <3>5, <4>1, <4>2
    <3>7. \A g \in Frame : Passed(g) => Seen(g)
      <4>1. \A a \in DOMAIN Regions : First(Regions[a]) \in Nat /\ End(Regions[a]) \in Nat
        BY RegionBounds, FrameFacts
      <4> QED BY <4>1, FrameFacts DEF Passed, Seen
    <3>8. Missing' \intersect Above' = {}
      BY <1>5, <3>1, <3>5, <3>7 DEF Missing
    <3> QED BY <3>1, <3>6, <3>8, LayersEmpty
  <2> QED BY <2>2, <2>3, <2>4, <2>5
<1> QED
  BY <1>1, <1>2, <1>6, <1>7, FrameFacts DEF Core, TypeOK

\* A holder gives back a frame from above the image.
LEMMA FreeLayers ==
  ASSUME AInv, AInv', NEW f \in Frame, Free(f), ~drained, phase' \in {"free", "run"},
         Layers, owned \subseteq Above
  PROVE  Layers' /\ owned' \subseteq Above'
<1>1. /\ phase = "run" /\ Booted /\ phase' # "fault" /\ f \in owned
      /\ FreePage(f, "run") /\ owned' = owned \ {f}
      /\ UNCHANGED <<pmm_loc, stackTable, region, page, drained>>
  BY DEF Free, Booted
<1>2. IInv /\ Safe /\ Core /\ StackInv /\ Covered
  BY <1>1 DEF AInv, Accounting, StackInv, IInv, Safe, BootState
<1>3. Core' /\ Slots'
  BY <1>1 DEF AInv, IInv, Safe
<1>4. f > pmm_loc /\ ~OnStack(f)
  BY <1>1, <1>2 DEF Safe, Held
<1>5. Fresh(f) /\ f >= pmm_loc
  BY <1>2, <1>4, FrameFacts DEF Fresh, Core, TypeOK
<1>6. Pushed(f) \/ Extended(f)
  <2>1. "run" \in Phase \ {"fault"} /\ UNCHANGED FreeVars
    BY <1>1 DEF Phase, FreeVars
  <2> QED BY <1>1, <1>2, <1>5, <2>1, FreePageAdds
<1>7. \A g \in Frame : Passed(g)' => Passed(g) \/ g = f
  BY <1>1 DEF Passed
<1>8. CASE Extended(f)
  <2>1. Layers'
    BY <1>1, <1>2, <1>3, <1>7, <1>8, LayersMapped
  <2>2. Above' = Above \ {f}
    <3>1. Above' = Above \ StackPages'
      BY <1>1, <1>2, <1>8, AboveFacts DEF Extended
    <3> QED BY <1>8, <3>1 DEF Extended, Above
  <2> QED BY <1>1, <2>1, <2>2
<1>9. CASE Pushed(f)
  <2>1. Above' = Above
    BY <1>1, <1>9 DEF Pushed, Above, Managed
  <2>2. Missing' \subseteq Missing
    BY <1>1, <1>7, <1>9 DEF Missing, Somewhere, Pushed
  <2> QED BY <1>1, <1>9, <2>1, <2>2, LayersPushed DEF Pushed
<1> QED
  BY <1>6, <1>8, <1>9

\* pmm_alloc_page takes a frame that is not from above the image only when it has handed
\* out all that are, and one more makes a new peak.
LEMMA AllocLayers ==
  ASSUME AInv, AInv', Alloc, phase' = "run", ~drained, ~drained',
         Layers, owned \subseteq Above, peak \in Nat, peak' = Most,
         peak' <= Cardinality(Above')
  PROVE  Layers' /\ owned' \subseteq Above'
<1>1. phase = "run" /\ Booted /\ UNCHANGED <<pmm_loc, pmm_stack_max, region, page>>
  BY DEF Alloc, Booted
<1>2. /\ IInv /\ Core /\ StackInv /\ Covered /\ region > Len(Regions)
  BY <1>1 DEF AInv, Accounting, StackInv, IInv, Safe, BootState
<1>3. PICK v \in FreeFrames : /\ FreeFrames' = FreeFrames \ {v}
                              /\ owned' = owned \union {v}
                              /\ OnTop(v)
  BY <1>2, AllocTakes
<1>4. SlotsKept /\ StackPages' = StackPages /\ (Aliased' <=> Aliased)
  BY <1>2, AllocTakes
<1>5. Above' = Above
  BY <1>1, <1>4 DEF Above, Managed
<1>6. Missing' \subseteq Missing
  BY <1>1, <1>3, <1>4 DEF Missing, Passed, Somewhere
<1>7. Layers'
  BY <1>1, <1>4, <1>5, <1>6, LayersKept
<1>8. PICK k \in Entry, e \in Entry :
        /\ Trustworthy(k, e) /\ Slot(k, e) = v
        /\ \A l, d \in Entry : Below(l, d) => Under(l, d, k, e) \/ (l = k /\ d = e)
  BY <1>3 DEF OnTop
<1>9. ASSUME v \notin Above PROVE FALSE
  <2>1. FreeFrames \intersect Above = {}
    <3> SUFFICES ASSUME NEW g \in FreeFrames, g \in Above PROVE FALSE
      OBVIOUS
    <3>1. PICK l \in Entry, d \in Entry : Trustworthy(l, d) /\ Slot(l, d) = g
      BY DEF FreeFrames
    <3>2. Under(l, d, k, e)
      BY <1>8, <1>9, <3>1 DEF Trustworthy, Occupied
    <3> QED BY <1>8, <1>9, <3>1, <3>2 DEF Layers, AboveOnTop
  <2>2. Missing \intersect Above = {}
    <3> SUFFICES ASSUME Missing \intersect Above # {} PROVE FALSE
      OBVIOUS
    <3>1. PICK c \in Entry :
            /\ 1 <= c /\ c < pmm_stack_max /\ Aliased
            /\ \A l, d \in Entry : Trustworthy(l, d) /\ Under(0, c, l, d) => Slot(l, d) \in Above
      BY DEF Layers, Guarded
    <3>2. Below(0, c) /\ 0 \in Entry
      BY <1>2, <3>1, FrameFacts DEF Covered
    <3>3. ~Trustworthy(0, c)
      <4>1. c \in 1 .. pmm_stack_max - 1
        BY <1>2, <3>1, FrameFacts, ConstantsAssumption DEF Core, TypeOK
      <4> QED BY <1>2, <3>1, <4>1 DEF Trustworthy, Clobbered
    <3>4. Under(0, c, k, e)
      BY <1>8, <3>2, <3>3
    <3> QED BY <1>8, <1>9, <3>1, <3>4
  <2>3. Above \subseteq owned
    <3>1. \A a \in DOMAIN Regions : a < region
      BY <1>2, ConstantsAssumption DEF Core, TypeOK
    <3>2. Above \subseteq {g \in Frame : g >= pmm_loc /\ Passed(g)} \ StackPages
      BY <3>1 DEF Above, Managed, Passed
    <3> QED BY <2>1, <2>2, <3>2 DEF Missing, Somewhere
  <2>4. owned' = Above \union {v} /\ Above \subseteq Frame /\ v \in Frame
    BY <1>3, <2>3 DEF FreeFrames, Above, Managed
  <2>5. Cardinality(Above) \in Nat /\ Cardinality(owned') = Cardinality(Above) + 1
    <3>1. IsFiniteSet(Frame)
      BY FS_Interval, ConstantsAssumption DEF Frame
    <3>2. IsFiniteSet(Above)
      BY <2>4, <3>1, FS_Subset
    <3> QED BY <1>9, <2>4, <3>2, FS_AddElement, FS_CardinalityType
  <2>6. peak' \in Nat /\ Cardinality(owned') <= peak'
    BY <2>4, PeakGrows
  <2> QED BY <1>5, <2>5, <2>6
<1> QED
  BY <1>3, <1>5, <1>7, <1>9

LEMMA StackGrows ==
  ASSUME Core, NEW f \in Frame, NEW next, FreePage(f, next)
  PROVE  StackPages \subseteq StackPages'
<1>1. pmm_stack_max \in Nat /\ 0 .. pmm_stack_max - 1 \subseteq Entry
  BY StackPagesFacts, ConstantsAssumption DEF Core, TypeOK
<1>2. CASE UNCHANGED <<pmm_stack_max, backing>>
  BY <1>2 DEF StackPages
<1>3. CASE /\ pmm_stack_max' = pmm_stack_max + 1
           /\ backing' = [backing EXCEPT ![pmm_stack_max] = f]
  <2>1. \A k \in 0 .. pmm_stack_max - 1 : k \in 0 .. pmm_stack_max' - 1 /\ k # pmm_stack_max
    BY <1>1, <1>3
  <2>2. \A k \in 0 .. pmm_stack_max - 1 : backing'[k] = backing[k]
    BY <1>1, <1>3, <2>1 DEF Core, TypeOK
  <2> QED BY <2>1, <2>2 DEF StackPages
<1> QED
  BY <1>2, <1>3 DEF FreePage, stackVars

LEMMA AboveFirstNext ==
  ASSUME SortedMap, ImageInv, AInv', [ImageNext]_<<vars, peak>>
  PROVE  peak' \in Nat /\ AboveFirst'
<1>1. Core /\ Core' /\ IInv' /\ owned' \subseteq Frame
  BY DEF ImageInv, AInv, IInv, Core, TypeOK
<1>2. peak' \in Nat /\ peak <= peak'
  BY <1>1, PeakGrows DEF ImageInv, ImageNext
<1>3. [Next]_vars
  BY DEF ImageNext
<1> SUFFICES ASSUME Booted', ~drained', peak' <= Cardinality(Above')
             PROVE  owned' \subseteq Above' /\ (phase' \in {"free", "run"} => Layers')
  BY <1>2 DEF AboveFirst
<1>4. ~drained
  BY <1>3 DEF Next, vars, InitPmm, InitVmm, FreeAvailable, NextRegion, Alloc, Free, Evict
<1>5. ASSUME UNCHANGED pmm_loc, StackPages \subseteq StackPages', Booted
      PROVE  owned \subseteq Above /\ (phase \in {"free", "run"} => Layers)
  <2>1. /\ Cardinality(Above) \in Nat /\ Cardinality(Above') \in Nat
        /\ Cardinality(Above') <= Cardinality(Above)
    BY <1>1, <1>5, AboveFacts
  <2>2. peak <= Cardinality(Above)
    BY <1>2, <2>1 DEF ImageInv
  <2> QED BY <1>4, <1>5, <2>2 DEF ImageInv, AboveFirst
\* A step that leaves the stack and the holders alone.
<1>6. ASSUME UNCHANGED <<pmm_loc, stackTable, pmm_stack_loc, pmm_stack_max, mem, backing, owned>>,
             Booted, phase' \in {"free", "run"} => phase \in {"free", "run"},
             \A g \in Frame : Passed(g)' => Passed(g)
      PROVE  owned' \subseteq Above' /\ (phase' \in {"free", "run"} => Layers')
  <2>1. /\ StackPages' = StackPages /\ Above' = Above /\ SlotsKept /\ (Aliased => Aliased')
        /\ Somewhere' = Somewhere
    BY <1>6
    DEF Above, Managed, StackPages, SlotsKept, Trustworthy, Occupied, Clobbered, Below,
        Aliased, Slot, Somewhere, FreeFrames
  <2>2. Missing' \subseteq Missing
    BY <1>6, <2>1 DEF Missing
  <2> QED BY <1>5, <1>6, <2>1, <2>2, LayersKept
<1>7. CASE InitPmm
  BY <1>7 DEF InitPmm, Booted
<1>8. CASE InitVmm
  <2>1. /\ pmm_stack_max' = 0 /\ owned' = {} /\ region' = 1
        /\ page' = IF Regions = <<>> THEN 0 ELSE First(Regions[1])
    BY <1>8 DEF InitVmm, ImageInv, AInv, IInv, BootState, Booted, stackVars
  <2>2. Missing' = {}
    BY <2>1, NothingPassed DEF Missing
  <2>3. \A l, d \in Entry : ~Trustworthy(l, d)'
    BY <2>1 DEF Trustworthy, Occupied
  <2> QED BY <2>1, <2>2, <2>3, LayersEmpty
<1>9. CASE FreeAvailable
  <2>1. /\ Booted /\ phase = "free" /\ owned' = owned /\ UNCHANGED pmm_loc
        /\ phase' \in {"free", "fault"}
    BY <1>9 DEF FreeAvailable, InRegion, Booted, FreePage
  <2>2. owned = {}
    BY <1>4, <2>1 DEF ImageInv, AInv, IInv, Safe, Walk
  <2>3. ASSUME phase' = "free" PROVE Layers'
    <3>1. FreePage(page, "free") /\ page \in Frame
      <4>1. /\ page < End(Regions[region]) /\ page \in Nat /\ region \in DOMAIN Regions
            /\ FreePage(page, "free")
        BY <1>1, <1>9, ConstantsAssumption DEF FreeAvailable, InRegion, Core, TypeOK
      <4>2. End(Regions[region]) \in 0 .. AddrSpace - 1
        BY <4>1, RegionBounds DEF Frame
      <4> QED BY <4>1, <4>2, ConstantsAssumption DEF Frame
    <3>2. StackPages \subseteq StackPages'
      BY <1>1, <3>1, StackGrows
    <3>3. Layers
      BY <1>5, <2>1, <3>2
    <3> QED BY <1>4, <1>9, <2>3, <3>3, FreeAvailableLayers DEF ImageInv
  <2> QED BY <2>1, <2>2, <2>3
<1>10. CASE NextRegion
  <2>1. /\ phase = "free" /\ Booted
        /\ UNCHANGED <<pmm_loc, stackTable, stackVars, owned>>
    BY <1>10 DEF NextRegion, Booted
  <2>2. \A g \in Frame : Passed(g)' => Passed(g)
    BY <1>1, <1>4, <1>10, NextRegionPassed DEF ImageInv, AInv, IInv
  <2> QED BY <1>6, <2>1, <2>2 DEF stackVars
<1>11. CASE Alloc
  <2>1. phase = "run" /\ Booted /\ UNCHANGED <<pmm_loc, stackTable, pmm_stack_max, backing>>
    BY <1>11 DEF Alloc, Booted
  <2>2. StackPages' = StackPages /\ Above' = Above
    BY <2>1 DEF StackPages, Above, Managed
  <2>3. owned \subseteq Above /\ Layers
    BY <1>5, <2>1, <2>2
  <2>4. CASE phase' = "run"
    <3>1. peak \in Nat /\ (peak' = Most \/ UNCHANGED vars)
      BY DEF ImageInv, ImageNext
    <3>2. CASE UNCHANGED vars
      BY <1>6, <2>1, <3>2 DEF vars, Passed
    <3> QED BY <1>4, <1>11, <2>3, <2>4, <3>1, <3>2, AllocLayers DEF ImageInv
  <2>5. CASE phase' # "run"
    <3>1. phase' \in {"oom", "fault"} /\ owned' = owned
      BY <1>11, <2>1, <2>5 DEF Alloc
    <3> QED BY <2>2, <2>3, <3>1
  <2> QED BY <2>4, <2>5
<1>12. ASSUME NEW f \in Frame, Free(f)
       PROVE  owned' \subseteq Above' /\ (phase' \in {"free", "run"} => Layers')
  <2>1. /\ phase = "run" /\ Booted /\ FreePage(f, "run") /\ owned' = owned \ {f}
        /\ UNCHANGED pmm_loc /\ phase' \in {"run", "fault"}
    BY <1>12 DEF Free, Booted, FreePage
  <2>2. owned \subseteq Above /\ Layers
    BY <1>1, <1>5, <2>1, StackGrows
  <2>3. CASE phase' = "run"
    BY <1>4, <1>12, <2>2, <2>3, FreeLayers DEF ImageInv
  <2>4. CASE phase' = "fault"
    <3>1. UNCHANGED stackVars
      BY <2>1, <2>4 DEF FreePage
    <3>2. Above' = Above
      BY <2>1, <3>1 DEF stackVars, Above, Managed, StackPages
    <3> QED BY <2>1, <2>2, <2>4, <3>2
  <2> QED BY <2>1, <2>3, <2>4
<1>13. ASSUME NEW k \in Entry, Evict(k)
       PROVE  owned' \subseteq Above' /\ (phase' \in {"free", "run"} => Layers')
  <2>1. /\ phase \in {"free", "run"} /\ Booted
        /\ UNCHANGED <<pmm_loc, stackTable, pmm_stack_loc, pmm_stack_max, mem, backing, owned>>
        /\ UNCHANGED <<region, page>>
    BY <1>13 DEF Evict, Booted
  <2> QED BY <1>6, <2>1 DEF Passed
<1>14. CASE UNCHANGED vars
  BY <1>6, <1>14 DEF vars, Passed, Booted
<1> QED
  BY <1>3, <1>7, <1>8, <1>9, <1>10, <1>11, <1>12, <1>13, <1>14 DEF Next

\* However calls to allocate and to free follow each other, no frame of the image is
\* handed out before more frames were held at once than there are above it (pmm.c:13,
\* pmm.c:51).
THEOREM ImageSafe == SortedMap => (ImageSpec => []ImageKept)
<1> SUFFICES ASSUME SortedMap PROVE ImageSpec => []ImageKept
  OBVIOUS
<1>1. ImageInit => ImageInv
  <2> SUFFICES ASSUME ImageInit PROVE ImageInv
    OBVIOUS
  <2>1. IInv /\ ~Booted /\ phase = "init_pmm"
    BY CoreInit, SafeInit DEF ImageInit, IInv, Init, StackMapped, Booted
  <2> QED BY <2>1 DEF ImageInit, ImageInv, AboveFirst, AInv, Accounting
<1>2. ImageInv /\ [ImageNext]_<<vars, peak>> => ImageInv'
  <2> SUFFICES ASSUME ImageInv, [ImageNext]_<<vars, peak>> PROVE ImageInv'
    OBVIOUS
  <2>1. AInv'
    <3>1. [Next]_vars
      BY DEF ImageNext
    <3> QED BY <3>1, Inductive, AccountingNext DEF ImageInv, AInv
  <2> QED BY <2>1, AboveFirstNext DEF ImageInv
<1>3. ImageInv => ImageKept
  <2> SUFFICES ASSUME ImageInv, ~drained, peak <= Cardinality(Above)
               PROVE  owned \intersect Image = {}
    BY DEF ImageKept
  <2>1. CASE Booted
    <3>1. owned \subseteq Above
      BY <2>1 DEF ImageInv, AboveFirst
    <3>2. \A i \in Image : i \notin Above
      <4>1. \A i \in Image : i \in Nat
        BY ImageAssumption, FrameFacts
      <4> QED BY <4>1 DEF Above
    <3> QED BY <3>1, <3>2
  <2>2. CASE ~Booted
    BY <2>2 DEF ImageInv, AInv, IInv, BootState
  <2> QED BY <2>1, <2>2
<1> QED
  BY <1>1, <1>2, <1>3, PTL DEF ImageSpec
=============================================================================
