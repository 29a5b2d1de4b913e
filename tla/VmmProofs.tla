----------------------------- MODULE VmmProofs -----------------------------
(***************************************************************************)
(* Proofs about Vmm, for every size of page and memory, every place of the *)
(* heap and whatever words its users write: Windows, Mapped, Faults and    *)
(* Isolated, as long as each table was made of a clean frame and the       *)
(* memset of vmm_map has hit none.  After that nothing holds for every     *)
(* memory: entry 0 of a table that was hit keeps its present bit and may   *)
(* name the page directory.                                                *)
(***************************************************************************)
EXTENDS Vmm, SequenceTheorems, TLAPS

Clean == dirty = {} /\ scrubbed = {}

\* The frames that are handed out, the directory entries of the heap, and its pages.
Upper    == Early + 5 .. Frames - 1
HeapDirs == HeapStart \div Entries .. StackDir - 1
HeapArea == HeapStart .. StackDir * Entries - 1

Fixed == {0, StackDir, WindowDir, SelfDir}

\* The tables of init_vmm are as it left them, and the other entries of the directory
\* name frames of their own.
Kernel(m) ==
  /\ m \in [Frame -> [Index -> Word]]
  /\ m[Directory][0] = Entry(LowTable) /\ m[Directory][StackDir] = Entry(Early + 4)
  /\ m[Directory][WindowDir] = Entry(Window) /\ m[Directory][SelfDir] = Entry(Directory)
  /\ m[LowTable] = [i \in Index |-> Entry(i)]
  /\ m[Window] = [i \in Index |-> IF i = SelfDir THEN Entry(Directory) ELSE Zero]
  /\ \A i \in Index \ Fixed :
       m[Directory][i] # Zero => i \in HeapDirs /\ \E t \in Upper : m[Directory][i] = Entry(t)

Tables(m) == {i \in HeapDirs : m[Directory][i] # Zero}
-----------------------------------------------------------------------------
(***************************************************************************)
(* Numbers of pages.                                                       *)
(***************************************************************************)
LEMMA Sizes ==
  /\ Entries \in Nat /\ Entries > 3 /\ Frames \in Nat /\ Frames >= Entries
  /\ LowFrames \in Nat /\ LowFrames > 0 /\ HeapStart \in Nat /\ HeapPages \in Nat
  /\ StackDir \in 1 .. Entries - 3 /\ HeapStart + HeapPages <= StackDir * Entries
  /\ Early \in Nat /\ Early + 4 < HeapStart \div Entries /\ Available \subseteq Upper
  /\ Data \subseteq Word
BY VmmAssumption DEF Upper, Word, Frame

LEMMA Quotient ==
  ASSUME NEW q \in Nat, NEW b \in Nat, b > 0, NEW s \in 0 .. b - 1
  PROVE  (q * b + s) \div b = q /\ (q * b + s) % b = s
OBVIOUS

LEMMA Divide ==
  ASSUME NEW x \in Nat, NEW b \in Nat, b > 0
  PROVE  x \div b \in Nat /\ x % b \in 0 .. b - 1 /\ x = (x \div b) * b + (x % b)
OBVIOUS

LEMMA Less ==
  ASSUME NEW b \in Nat, b > 0, NEW p \in Nat, NEW q \in Nat, NEW s \in 0 .. b - 1,
         p * b + s < q * b
  PROVE  p < q
OBVIOUS

LEMMA NotMore ==
  ASSUME NEW b \in Nat, b > 0, NEW p \in Nat, NEW q \in Nat, p * b <= q * b
  PROVE  p <= q
OBVIOUS

LEMMA Positions ==
  /\ Fixed \subseteq Index /\ Index \subseteq Nat /\ HeapDirs \subseteq Index \ Fixed
  /\ StackDir # 0 /\ WindowDir # 0 /\ SelfDir # 0
  /\ StackDir # WindowDir /\ StackDir # SelfDir /\ WindowDir # SelfDir
  /\ \A i \in HeapDirs : i \in Nat /\ i > Early + 4 /\ i + 1 < Entries
  /\ {Directory, LowTable, Window, Early + 4} \subseteq Frame
  /\ Upper \subseteq Frame /\ Index \subseteq Frame
  /\ Directory # LowTable /\ Directory # Window /\ LowTable # Window
  /\ {Directory, LowTable, Window, Early + 4} \intersect Upper = {}
<1> DEFINE q == HeapStart \div Entries
<1>1. q \in Nat /\ HeapStart % Entries \in 0 .. Entries - 1
      /\ HeapStart = q * Entries + (HeapStart % Entries)
  BY Sizes, Divide
<1>2. q <= StackDir
  <2>1. q * Entries <= StackDir * Entries
    BY <1>1, Sizes
  <2> QED BY <2>1, <1>1, Sizes, NotMore
<1>3. StackDir \in Nat /\ StackDir > 0 /\ StackDir + 3 <= Entries
  BY Sizes
<1>4. q > Early + 4 /\ HeapDirs = q .. StackDir - 1
  BY Sizes DEF HeapDirs
<1> HIDE DEF q
<1>5. /\ Fixed \subseteq Index /\ Index \subseteq Nat /\ HeapDirs \subseteq Index \ Fixed
      /\ StackDir # 0 /\ WindowDir # 0 /\ SelfDir # 0
      /\ StackDir # WindowDir /\ StackDir # SelfDir /\ WindowDir # SelfDir
  BY <1>1, <1>3, <1>4, Sizes DEF Fixed, Index, WindowDir, SelfDir
<1>6. \A i \in HeapDirs : i \in Nat /\ i > Early + 4 /\ i + 1 < Entries
  BY <1>1, <1>3, <1>4, Sizes
<1>7. Early + 4 < Frames
  BY <1>1, <1>2, <1>3, <1>4, Sizes
<1> QED
  BY <1>5, <1>6, <1>7, Sizes DEF Directory, LowTable, Window, Frame, Upper, Index

LEMMA HeapPlaces ==
  ASSUME NEW v \in HeapArea
  PROVE  /\ v \in Nat /\ v \in Page
         /\ Dir(v) \in HeapDirs /\ Slot(v) \in Index
<1> DEFINE q == HeapStart \div Entries
           d == v \div Entries
<1>1. /\ v \in Nat /\ v >= HeapStart /\ v < StackDir * Entries /\ Entries \in Nat /\ Entries > 0
      /\ StackDir \in Nat /\ HeapStart \in Nat
  BY Sizes DEF HeapArea
<1>2. d \in Nat /\ (v % Entries) \in 0 .. Entries - 1 /\ v = d * Entries + (v % Entries)
  BY <1>1, Divide
<1>3. /\ q \in Nat /\ (HeapStart % Entries) \in 0 .. Entries - 1
      /\ HeapStart = q * Entries + (HeapStart % Entries)
  BY <1>1, Divide
<1> HIDE DEF d, q
<1>4. d < StackDir
  BY <1>1, <1>2, Less
<1>5. q <= d
  <2>1. q * Entries < (d + 1) * Entries
    BY <1>1, <1>2, <1>3
  <2>2. q * Entries + 0 < (d + 1) * Entries /\ d + 1 \in Nat /\ 0 \in 0 .. Entries - 1
    BY <2>1, <1>1, <1>2, <1>3
  <2>3. q < d + 1
    BY <2>2, <1>1, <1>3, Less
  <2> QED BY <2>3, <1>2, <1>3
<1>6. v < Entries * Entries
  <2>1. StackDir * Entries <= Entries * Entries
    BY Sizes
  <2> QED BY <2>1, <1>1
<1> QED
  BY <1>1, <1>2, <1>3, <1>4, <1>5, <1>6 DEF Dir, Slot, HeapDirs, Index, Page, d, q

\* A page is determined by its directory and its table entry.
LEMMA SamePage ==
  ASSUME NEW u \in Nat, NEW v \in Nat, Dir(u) = Dir(v), Slot(u) = Slot(v)
  PROVE  u = v
BY Divide, Sizes DEF Dir, Slot

LEMMA Pages ==
  ASSUME NEW v \in Page
  PROVE  v \in Nat /\ Dir(v) \in Index /\ Slot(v) \in Index
<1>1. v \in Nat /\ v < Entries * Entries /\ Entries \in Nat /\ Entries > 0
  BY Sizes DEF Page
<1>2. /\ v \div Entries \in Nat /\ (v % Entries) \in 0 .. Entries - 1
      /\ v = (v \div Entries) * Entries + (v % Entries)
  BY <1>1, Divide
<1>3. v \div Entries < Entries
  BY <1>1, <1>2, Less
<1> QED
  BY <1>1, <1>2, <1>3 DEF Dir, Slot, Index

\* The window: where vmm.c looks for the tables and for the directory.
LEMMA WindowPlaces ==
  /\ DirectoryPage \in Page /\ Dir(DirectoryPage) = WindowDir /\ Slot(DirectoryPage) = SelfDir
  /\ \A i \in Index : /\ TablePage(i) \in Page
                      /\ Dir(TablePage(i)) = SelfDir /\ Slot(TablePage(i)) = i
<1>1. /\ Entries \in Nat /\ Entries > 3 /\ SelfDir \in Nat /\ WindowDir \in Nat
      /\ SelfDir \in 0 .. Entries - 1 /\ WindowDir < Entries
  BY Sizes DEF SelfDir, WindowDir
<1>2. ASSUME NEW p \in 0 .. Entries - 1, NEW s \in 0 .. Entries - 1
      PROVE  p * Entries + s \in 0 .. Entries * Entries - 1
  <2>1. p * Entries <= (Entries - 1) * Entries
    BY <1>1
  <2>2. p * Entries \in Nat /\ (Entries - 1) * Entries = Entries * Entries - Entries
    BY <1>1
  <2> QED BY <2>1, <2>2, <1>1
<1>3. /\ (WindowDir * Entries + SelfDir) \div Entries = WindowDir
      /\ (WindowDir * Entries + SelfDir) % Entries = SelfDir
  BY <1>1, Quotient
<1>4. ASSUME NEW i \in Index
      PROVE  /\ (SelfDir * Entries + i) \div Entries = SelfDir
             /\ (SelfDir * Entries + i) % Entries = i
  BY <1>1, Quotient DEF Index
<1> QED
  BY <1>1, <1>2, <1>3, <1>4 DEF DirectoryPage, TablePage, Dir, Slot, Page, Index

\* The first pages have directory entry 0.
LEMMA LowPlaces ==
  ASSUME NEW i \in Index
  PROVE  Dir(i) = 0 /\ Slot(i) = i /\ i \in Page
<1>1. /\ (0 * Entries + i) \div Entries = 0 /\ (0 * Entries + i) % Entries = i
  BY Sizes, Quotient DEF Index
<1>2. 0 * Entries + i = i /\ i < Entries * Entries
  BY Sizes DEF Index
<1> QED
  BY <1>1, <1>2, Sizes DEF Dir, Slot, Page, Index
-----------------------------------------------------------------------------
(***************************************************************************)
(* Translations while the tables of init_vmm are as it left them.          *)
(***************************************************************************)
Table(m, i) == m[Directory][i].frame

LEMMA Words ==
  ASSUME NEW f \in Frame
  PROVE  Entry(f) \in Word /\ Entry(f).frame = f /\ Entry(f).present
         /\ Entry(f) # Zero /\ ~Zero.present /\ Zero \in Word /\ Zero.frame = 0
BY Sizes DEF Entry, Zero, Word, Frame

LEMMA Translations ==
  ASSUME NEW m, Kernel(m)
  PROVE  /\ Walk(m, DirectoryPage) = Directory
         /\ \A i \in Index : m[Directory][i].present => Walk(m, TablePage(i)) = Table(m, i)
         /\ \A i \in Index : ~m[Directory][i].present => Walk(m, TablePage(i)) = NoFrame
         /\ \A i \in Index : Walk(m, i) = i
<1>1. /\ 0 \in Index /\ SelfDir \in Index /\ WindowDir \in Index /\ StackDir \in Index
      /\ Directory \in Frame /\ Window \in Frame /\ LowTable \in Frame /\ Index \subseteq Frame
  BY Positions DEF Fixed
<1>2. Walk(m, DirectoryPage) = Directory
  <2>1. m[Directory][WindowDir] = Entry(Window) /\ m[Window][SelfDir] = Entry(Directory)
    BY <1>1 DEF Kernel
  <2> QED BY <2>1, <1>1, Words, WindowPlaces DEF Walk
<1>3. ASSUME NEW i \in Index
      PROVE  /\ m[Directory][i].present => Walk(m, TablePage(i)) = Table(m, i)
             /\ ~m[Directory][i].present => Walk(m, TablePage(i)) = NoFrame
  <2>1. m[Directory][SelfDir] = Entry(Directory)
    BY DEF Kernel
  <2> QED BY <2>1, <1>1, Words, WindowPlaces DEF Walk, Table
<1>4. ASSUME NEW i \in Index
      PROVE  Walk(m, i) = i
  <2>1. m[Directory][0] = Entry(LowTable) /\ m[LowTable][i] = Entry(i)
    BY <1>1 DEF Kernel
  <2> QED BY <2>1, <1>1, Words, LowPlaces DEF Walk
<1> QED
  BY <1>2, <1>3, <1>4

\* An entry that is not zero names a table.
LEMMA Present ==
  ASSUME NEW m, Kernel(m), NEW i \in Index
  PROVE  /\ m[Directory][i] # Zero <=> m[Directory][i].present
         /\ m[Directory][i] # Zero => m[Directory][i] = Entry(Table(m, i)) /\ Table(m, i) \in Frame
         /\ i \notin Fixed /\ m[Directory][i] # Zero => i \in HeapDirs /\ Table(m, i) \in Upper
<1>1. Upper \subseteq Frame /\ {Directory, LowTable, Window, Early + 4} \subseteq Frame
  BY Positions
<1>2. CASE i \notin Fixed
  BY <1>1, <1>2, Words DEF Kernel, Table
<1>3. CASE i \in Fixed
  BY <1>1, <1>3, Words DEF Kernel, Table, Fixed
<1> QED
  BY <1>2, <1>3
-----------------------------------------------------------------------------
(***************************************************************************)
(* What vmm_map and vmm_unmap change.                                      *)
(***************************************************************************)
\* A word of a heap page's table.
LEMMA Stores ==
  ASSUME NEW m, Kernel(m), NEW i \in HeapDirs, m[Directory][i] # Zero,
         NEW e \in Index, NEW w \in Word, NEW n, n = Store(m, TablePage(i), e, w)
  PROVE  /\ Kernel(n) /\ n[Directory] = m[Directory] /\ Table(m, i) \in Upper
         /\ \A f \in Frame : f # Table(m, i) => n[f] = m[f]
         /\ n[Table(m, i)][e] = w
         /\ \A x \in Index : x # e => n[Table(m, i)][x] = m[Table(m, i)][x]
<1> DEFINE t == Table(m, i)
<1>1. i \in Index \ Fixed /\ Upper \subseteq Frame
  BY Positions
<1>2. t \in Upper /\ m[Directory][i].present
  BY <1>1, Present
<1>3. n = [m EXCEPT ![t][e] = w]
  BY <1>1, <1>2, Translations DEF Store
<1>4. m \in [Frame -> [Index -> Word]]
  BY DEF Kernel
<1>5. n \in [Frame -> [Index -> Word]]
  BY <1>1, <1>2, <1>3, <1>4
<1>6. \A f \in Frame : f # t => n[f] = m[f]
  BY <1>3, <1>4
<1>7. n[t][e] = w /\ \A x \in Index : x # e => n[t][x] = m[t][x]
  BY <1>1, <1>2, <1>3, <1>4
<1>8. n[Directory] = m[Directory] /\ n[LowTable] = m[LowTable] /\ n[Window] = m[Window]
  <2>1. {Directory, LowTable, Window} \subseteq Frame
        /\ t # Directory /\ t # LowTable /\ t # Window
    BY <1>2, Positions
  <2> HIDE DEF t
  <2> QED BY <2>1, <1>6
<1>9. Kernel(n)
  BY <1>5, <1>8 DEF Kernel
<1> QED
  BY <1>2, <1>6, <1>7, <1>8, <1>9

\* The memset hits the frames whose numbers are the table's index and the next.
LEMMA Clears ==
  ASSUME NEW m, Kernel(m), NEW i \in HeapDirs, m[Directory][i] # Zero,
         NEW n, n = Cleared(m, i)
  PROVE  /\ n \in [Frame -> [Index -> Word]]
         /\ \A f \in Frame : f # i /\ f # i + 1 => n[f] = m[f]
<1>1. /\ i \in Index /\ i + 1 \in Index /\ 0 \in Index
      /\ Index \subseteq Frame /\ LowTable \in Frame
  <2>1. i \in Nat /\ i + 1 < Entries /\ Index \subseteq Frame /\ LowTable \in Frame
    BY Positions
  <2> QED BY <2>1, Sizes DEF Index
<1>2. m[Walk(m, TablePage(0))][i].frame = i
  <2>1. m[Directory][0] = Entry(LowTable) /\ m[LowTable][i] = Entry(i)
    BY <1>1 DEF Kernel
  <2> QED BY <2>1, <1>1, Translations, Words DEF Table
<1>3. Walk(m, i) = i /\ Walk(m, i + 1) = i + 1
  BY <1>1, Translations
<1>4. n = Scrub(m, i)
  BY <1>2 DEF Cleared
<1>5. m \in [Frame -> [Index -> Word]]
  BY DEF Kernel
<1>6. \A w \in Word : /\ [w EXCEPT !.frame = @ % LowFrames] \in Word
                      /\ [frame |-> w.frame - (w.frame % LowFrames), present |-> FALSE] \in Word
  <2> SUFFICES ASSUME NEW w \in Word
               PROVE  /\ [w EXCEPT !.frame = @ % LowFrames] \in Word
                      /\ [frame |-> w.frame - (w.frame % LowFrames), present |-> FALSE] \in Word
    OBVIOUS
  <2>1. w.frame \in Nat /\ w.frame < Frames /\ Frames \in Nat
    BY Sizes DEF Word, Frame
  <2>2. /\ w.frame \div LowFrames \in Nat /\ (w.frame % LowFrames) \in Nat
        /\ w.frame = (w.frame \div LowFrames) * LowFrames + (w.frame % LowFrames)
    BY <2>1, Sizes, Divide
  <2>3. (w.frame \div LowFrames) * LowFrames \in Nat
    BY <2>2, Sizes
  <2>4. (w.frame % LowFrames) \in Frame /\ w.frame - (w.frame % LowFrames) \in Frame
    BY <2>1, <2>2, <2>3 DEF Frame
  <2> QED BY <2>4 DEF Word
<1>7. n \in [Frame -> [Index -> Word]]
  BY <1>3, <1>4, <1>5, <1>6, Words, Sizes DEF Scrub, Frame
<1>8. ASSUME NEW f \in Frame, f # i, f # i + 1
      PROVE  n[f] = m[f]
  <2>1. n[f] = [e \in Index |-> m[f][e]]
    BY <1>3, <1>4, <1>8 DEF Scrub
  <2> QED BY <2>1, <1>5
<1> QED
  BY <1>7, <1>8

\* A new table changes its entry of the directory, and what the memset hits.
LEMMA TableMade ==
  ASSUME NEW m, Kernel(m), NEW i \in HeapDirs, NEW t \in Upper,
         NEW n, n = Cleared(Store(m, DirectoryPage, i, Entry(t)), i)
  PROVE  /\ Kernel(n) /\ n[Directory] = [m[Directory] EXCEPT ![i] = Entry(t)]
         /\ \A f \in Frame : f # Directory /\ f # i /\ f # i + 1 => n[f] = m[f]
<1> DEFINE o == Store(m, DirectoryPage, i, Entry(t))
<1>1. /\ i \in Index \ Fixed /\ i \in Nat /\ i > Early + 4 /\ Upper \subseteq Frame
      /\ {Directory, LowTable, Window} \subseteq Frame /\ t \in Frame
      /\ Directory # LowTable /\ Directory # Window
  BY Positions
<1>2. m \in [Frame -> [Index -> Word]]
  BY DEF Kernel
<1>3. o = [m EXCEPT ![Directory][i] = Entry(t)]
  BY Translations DEF Store
<1>4. o \in [Frame -> [Index -> Word]]
  BY <1>1, <1>2, <1>3, Words
<1>5. /\ o[Directory] = [m[Directory] EXCEPT ![i] = Entry(t)]
      /\ \A f \in Frame : f # Directory => o[f] = m[f]
  BY <1>1, <1>2, <1>3
<1>6. o[Directory][i] = Entry(t) /\ \A j \in Index : j # i => o[Directory][j] = m[Directory][j]
  BY <1>1, <1>2, <1>5
<1> HIDE DEF o
<1>7. Kernel(o)
  <2>1. \A j \in Index \ Fixed :
          o[Directory][j] # Zero => j \in HeapDirs /\ \E x \in Upper : o[Directory][j] = Entry(x)
    BY <1>6 DEF Kernel
  <2>2. /\ o[Directory][0] = Entry(LowTable) /\ o[Directory][StackDir] = Entry(Early + 4)
        /\ o[Directory][WindowDir] = Entry(Window) /\ o[Directory][SelfDir] = Entry(Directory)
    BY <1>1, <1>6, Positions DEF Kernel, Fixed
  <2>3. o[LowTable] = m[LowTable] /\ o[Window] = m[Window]
    BY <1>1, <1>5
  <2> QED BY <2>1, <2>2, <2>3, <1>4 DEF Kernel
<1>8. /\ n \in [Frame -> [Index -> Word]]
      /\ \A f \in Frame : f # i /\ f # i + 1 => n[f] = o[f]
  <2>1. o[Directory][i] # Zero
    BY <1>1, <1>6, Words
  <2>2. n = Cleared(o, i)
    BY DEF o
  <2> QED BY <2>1, <2>2, <1>7, Clears
<1>9. n[Directory] = o[Directory] /\ n[LowTable] = o[LowTable] /\ n[Window] = o[Window]
  <2>1. /\ Directory # i /\ Directory # i + 1 /\ LowTable # i /\ LowTable # i + 1
        /\ Window # i /\ Window # i + 1
    BY <1>1, Sizes DEF Directory, LowTable, Window
  <2> QED BY <2>1, <1>1, <1>8
<1>10. Kernel(n)
  BY <1>7, <1>8, <1>9 DEF Kernel
<1> QED
  BY <1>5, <1>8, <1>9, <1>10
-----------------------------------------------------------------------------
(***************************************************************************)
(* The heap's pages while every table was clean.                           *)
(***************************************************************************)
Content(s, v) == IF v < HeapStart + Len(s) THEN Entry(s[v - HeapStart + 1]) ELSE Zero

Sets(m, s, fr) ==
  /\ fr \subseteq Upper
  /\ s \in Seq(Upper) /\ Len(s) <= HeapPages
  /\ \A k \in 1 .. Len(s) : s[k] \notin fr
  /\ \A j, k \in 1 .. Len(s) : s[j] = s[k] => j = k

Apart(m, s, fr) ==
  /\ \A i \in Tables(m) : Table(m, i) \notin fr /\ \A k \in 1 .. Len(s) : s[k] # Table(m, i)
  /\ \A i, j \in Tables(m) : Table(m, i) = Table(m, j) => i = j

Filled(m, s) ==
  \A v \in HeapArea : Dir(v) \in Tables(m) => m[Table(m, Dir(v))][Slot(v)] = Content(s, v)

Backed(m, s) == \A k \in 1 .. Len(s) : Dir(HeapPage(k)) \in Tables(m)

\* The frames of the free stack, of the heap's pages and of the tables are distinct, and
\* the tables hold the heap's pages and nothing else.
Heap(m, s, fr) == Kernel(m) /\ Sets(m, s, fr) /\ Apart(m, s, fr) /\ Filled(m, s) /\ Backed(m, s)

\* The pages of the heap, and the next.
LEMMA HeapPageNumbers ==
  ASSUME NEW n \in Nat, n <= HeapPages
  PROVE  /\ \A k \in 1 .. n : /\ HeapPage(k) \in HeapArea /\ HeapPage(k) \in Nat
                              /\ HeapPage(k) < HeapStart + n /\ HeapPage(k) - HeapStart + 1 = k
         /\ HeapPage(n + 1) = HeapStart + n
         /\ n < HeapPages => HeapPage(n + 1) \in HeapArea
         /\ \A v \in HeapArea : v < HeapStart + n =>
              v - HeapStart + 1 \in 1 .. n /\ HeapPage(v - HeapStart + 1) = v
<1>1. StackDir * Entries \in Nat
  BY Sizes
<1> DEFINE b == StackDir * Entries
<1>2. b \in Nat /\ HeapStart + HeapPages <= b /\ HeapArea = HeapStart .. b - 1
  BY <1>1, Sizes DEF HeapArea
<1> HIDE DEF b
<1> QED
  BY <1>2, Sizes DEF HeapPage

\* Where an access to a page between the heap's begin and the stack goes.
LEMMA HeapWalk ==
  ASSUME NEW m, NEW s, NEW fr, Heap(m, s, fr), NEW v \in HeapArea
  PROVE  Walk(m, v) = IF v < HeapStart + Len(s) THEN s[v - HeapStart + 1] ELSE NoFrame
<1>1. v \in Nat /\ Dir(v) \in HeapDirs /\ Slot(v) \in Index /\ Dir(v) \in Index
  BY HeapPlaces, Positions
<1>2. Len(s) \in Nat /\ Len(s) <= HeapPages /\ Upper \subseteq Frame /\ Kernel(m)
      /\ \A k \in 1 .. Len(s) : s[k] \in Upper
  BY Positions DEF Heap, Sets
<1>3. m[Directory][Dir(v)] # Zero <=> m[Directory][Dir(v)].present
  BY <1>1, <1>2, Present
<1>4. CASE v < HeapStart + Len(s)
  <2>1. v - HeapStart + 1 \in 1 .. Len(s) /\ HeapPage(v - HeapStart + 1) = v
    BY <1>2, <1>4, HeapPageNumbers
  <2>2. Dir(v) \in Tables(m)
    BY <2>1 DEF Heap, Backed
  <2>3. m[Table(m, Dir(v))][Slot(v)] = Entry(s[v - HeapStart + 1])
    BY <1>4, <2>2 DEF Heap, Filled, Content
  <2>4. m[Directory][Dir(v)].present
    BY <1>3, <2>2 DEF Tables
  <2>5. s[v - HeapStart + 1] \in Frame
    BY <1>2, <2>1
  <2> QED BY <1>4, <2>3, <2>4, <2>5, Words DEF Walk, Table
<1>5. CASE ~(v < HeapStart + Len(s)) /\ m[Directory][Dir(v)].present
  <2>1. Dir(v) \in Tables(m)
    BY <1>1, <1>3, <1>5 DEF Tables
  <2>2. m[Table(m, Dir(v))][Slot(v)] = Zero
    BY <1>5, <2>1 DEF Heap, Filled, Content
  <2> QED BY <1>5, <2>2 DEF Walk, Table, Zero
<1>6. CASE ~(v < HeapStart + Len(s)) /\ ~m[Directory][Dir(v)].present
  BY <1>6 DEF Walk
<1> QED
  BY <1>4, <1>5, <1>6

\* vmm_map in a table that exists.
LEMMA Entered ==
  ASSUME NEW m, NEW s, NEW fr, Heap(m, s, fr), NEW f \in fr, Len(s) < HeapPages,
         Dir(HeapPage(Len(s) + 1)) \in Tables(m),
         NEW n, n = Enter(m, HeapPage(Len(s) + 1), Entry(f))
  PROVE  Heap(n, Append(s, f), fr \ {f})
<1> DEFINE v == HeapPage(Len(s) + 1)
           i == Dir(v)
           t == Table(m, i)
           z == Append(s, f)
<1>1. /\ Len(s) \in Nat /\ Upper \subseteq Frame /\ f \in Upper /\ f \in Frame /\ s \in Seq(Upper)
      /\ Kernel(m) /\ \A k \in 1 .. Len(s) : s[k] \notin fr /\ s[k] \in Upper
  BY Positions DEF Heap, Sets
<1>2. v \in HeapArea /\ v = HeapStart + Len(s) /\ v \in Nat
  <2>1. Len(s) <= HeapPages
    BY <1>1, Sizes
  <2>2. v \in HeapArea /\ v = HeapStart + Len(s)
    BY <1>1, <2>1, HeapPageNumbers
  <2> QED BY <2>2, HeapPlaces
<1>3. i \in HeapDirs /\ Slot(v) \in Index /\ m[Directory][i] # Zero /\ i \in Tables(m)
  BY <1>2, HeapPlaces DEF Tables
<1> HIDE DEF v
<1>4. /\ Kernel(n) /\ n[Directory] = m[Directory] /\ t \in Upper
      /\ \A x \in Frame : x # t => n[x] = m[x]
      /\ n[t][Slot(v)] = Entry(f)
      /\ \A x \in Index : x # Slot(v) => n[t][x] = m[t][x]
  <2>1. Entry(f) \in Word
    BY <1>1, Words
  <2>2. n = Store(m, TablePage(i), Slot(v), Entry(f))
    BY DEF Enter, v
  <2> HIDE DEF i
  <2> QED BY <1>1, <1>3, <2>1, <2>2, Stores
<1>5. Tables(n) = Tables(m) /\ \A j : Table(n, j) = Table(m, j)
  BY <1>4 DEF Tables, Table
<1>6. /\ z \in Seq(Upper) /\ Len(z) = Len(s) + 1 /\ z[Len(s) + 1] = f
      /\ \A k \in 1 .. Len(s) : z[k] = s[k]
  BY <1>1
<1> HIDE DEF z, i, t
<1>7. Sets(n, z, fr \ {f})
  <2>1. \A k \in 1 .. Len(z) : k = Len(s) + 1 \/ k \in 1 .. Len(s)
    BY <1>1, <1>6
  <2>2. \A k \in 1 .. Len(z) : z[k] \notin fr \ {f}
    BY <1>1, <1>6, <2>1
  <2>3. \A j, k \in 1 .. Len(z) : z[j] = z[k] => j = k
    BY <1>1, <1>6, <2>1 DEF Heap, Sets
  <2>4. Len(z) <= HeapPages
    BY <1>1, <1>6, Sizes
  <2> QED BY <1>1, <1>6, <2>2, <2>3, <2>4 DEF Heap, Sets
<1>8. Apart(n, z, fr \ {f})
  <2>1. \A k \in 1 .. Len(z) : k = Len(s) + 1 \/ k \in 1 .. Len(s)
    BY <1>1, <1>6
  <2>2. ASSUME NEW j \in Tables(n)
        PROVE  Table(n, j) \notin fr \ {f} /\ \A k \in 1 .. Len(z) : z[k] # Table(n, j)
    BY <2>1, <2>2, <1>5, <1>6 DEF Heap, Apart
  <2> QED BY <2>2, <1>5 DEF Heap, Apart
<1>9. Filled(n, z)
  <2> SUFFICES ASSUME NEW u \in HeapArea, Dir(u) \in Tables(n)
               PROVE  n[Table(n, Dir(u))][Slot(u)] = Content(z, u)
    BY DEF Filled
  <2>1. u \in Nat /\ Dir(u) \in HeapDirs /\ Slot(u) \in Index /\ Dir(u) \in Tables(m)
    BY <1>5, HeapPlaces
  <2>2. m[Table(m, Dir(u))][Slot(u)] = Content(s, u)
    BY <2>1 DEF Heap, Filled
  <2>3. CASE u = v
    <3>1. Content(z, u) = Entry(f)
      <4>1. u < HeapStart + Len(z) /\ u - HeapStart + 1 = Len(s) + 1
        BY <2>3, <1>2, <1>6, <1>1, Sizes
      <4> QED BY <4>1, <1>6 DEF Content
    <3> QED BY <2>3, <3>1, <1>4, <1>5 DEF t, i
  <2>4. CASE u # v
    <3>1. Content(z, u) = Content(s, u)
      <4>1. u >= HeapStart /\ u \in Nat /\ u # HeapStart + Len(s)
        BY <2>1, <2>4, <1>2, Sizes DEF HeapArea
      <4>2. u < HeapStart + Len(z) <=> u < HeapStart + Len(s)
        BY <4>1, <1>6, <1>1, Sizes
      <4>3. u < HeapStart + Len(s) => u - HeapStart + 1 \in 1 .. Len(s)
        BY <4>1, <1>1, Sizes
      <4> QED BY <4>2, <4>3, <1>6 DEF Content
    <3>2. CASE Dir(u) = i
      <4>1. Slot(u) # Slot(v)
        BY <3>2, <2>4, <2>1, <1>2, SamePage DEF i
      <4> QED BY <3>1, <3>2, <4>1, <2>1, <2>2, <1>4, <1>5 DEF t
    <3>3. CASE Dir(u) # i
      <4>1. Table(m, Dir(u)) # t
        BY <3>3, <2>1, <1>3 DEF Heap, Apart, t
      <4>2. Table(m, Dir(u)) \in Frame
        BY <2>1, <1>1, Positions, Present DEF Tables
      <4> QED BY <3>1, <4>1, <4>2, <2>2, <1>4, <1>5
    <3> QED BY <3>2, <3>3
  <2> QED BY <2>3, <2>4
<1>10. Backed(n, z)
  <2>1. \A k \in 1 .. Len(z) : k = Len(s) + 1 \/ k \in 1 .. Len(s)
    BY <1>1, <1>6
  <2> QED BY <2>1, <1>3, <1>5 DEF Heap, Backed, i, v
<1> QED
  BY <1>4, <1>7, <1>8, <1>9, <1>10 DEF Heap, z

\* A table in use is one of the heap, or of init_vmm.
LEMMA InUse ==
  ASSUME NEW m, Kernel(m), NEW i \in Index, m[Directory][i].present
  PROVE  Table(m, i) \in Frame /\ (i \in Tables(m) \/ Table(m, i) \notin Upper)
<1>1. m[Directory][i] # Zero /\ Table(m, i) \in Frame
  BY Present
<1>2. CASE i \in Fixed
  <2>1. Table(m, i) \in {Directory, LowTable, Window, Early + 4}
    <3>1. {Directory, LowTable, Window, Early + 4} \subseteq Frame
      BY Positions
    <3> QED BY <1>2, <3>1, Words DEF Kernel, Fixed, Table
  <2> QED BY <2>1, <1>1, Positions
<1>3. CASE i \notin Fixed
  BY <1>1, <1>3, Present DEF Tables
<1> QED
  BY <1>2, <1>3

\* Memories that differ in word e of table i, or not at all.
OneWord(m, n, i, e) ==
  /\ n[Directory] = m[Directory]
  /\ \A f \in Frame : f # Table(m, i) => n[f] = m[f]
  /\ \A x \in Index : x # e => n[Table(m, i)][x] = m[Table(m, i)][x]

\* A step that changes one word of one table changes one translation at most.
LEMMA OthersKept ==
  ASSUME NEW m, NEW s, NEW fr, Heap(m, s, fr), NEW i \in Tables(m), NEW n, NEW e,
         OneWord(m, n, i, e), NEW u \in Page
  PROVE  Walk(n, u) = Walk(m, u) \/ (Dir(u) = i /\ Slot(u) = e)
<1>1. Dir(u) \in Index /\ Slot(u) \in Index /\ i \in Index
  BY Pages, Positions DEF Tables
<1>2. CASE ~m[Directory][Dir(u)].present
  BY <1>2 DEF Walk, OneWord
<1>3. CASE m[Directory][Dir(u)].present /\ Table(m, Dir(u)) # Table(m, i)
  <2>1. Table(m, Dir(u)) \in Frame
    BY <1>1, <1>3, InUse DEF Heap
  <2> QED BY <2>1, <1>3 DEF Walk, Table, OneWord
<1>4. CASE m[Directory][Dir(u)].present /\ Table(m, Dir(u)) = Table(m, i)
  <2>1. Table(m, i) \in Upper
    <3>1. i \notin Fixed
      BY Positions DEF Tables
    <3> QED BY <3>1, <1>1, Present DEF Heap, Tables
  <2>2. Dir(u) \in Tables(m)
    BY <1>1, <1>4, <2>1, InUse DEF Heap
  <2>3. Dir(u) = i
    BY <1>4, <2>2 DEF Heap, Apart
  <2> QED BY <1>1, <1>4, <2>3 DEF Walk, Table, OneWord
<1> QED
  BY <1>2, <1>3, <1>4

\* Frame g is written with c.
Overwritten(m, n, g, c) == n = [m EXCEPT ![g] = c]

\* A user's page is no table.
LEMMA FilledKept ==
  ASSUME NEW m, NEW s, NEW fr, Heap(m, s, fr), NEW k \in 1 .. Len(s), NEW c \in [Index -> Word],
         NEW n, Overwritten(m, n, s[k], c)
  PROVE  Heap(n, s, fr) /\ \A u \in Page : Walk(n, u) = Walk(m, u)
<1> DEFINE g == s[k]
<1>1. /\ g \in Upper /\ Upper \subseteq Frame /\ m \in [Frame -> [Index -> Word]] /\ Kernel(m)
      /\ {Directory, LowTable, Window} \subseteq Frame
  BY Positions DEF Heap, Sets, Kernel
<1>2. g # Directory /\ g # LowTable /\ g # Window
  BY <1>1, Positions
<1>3. n \in [Frame -> [Index -> Word]] /\ \A f \in Frame : f # g => n[f] = m[f]
  BY <1>1 DEF Overwritten
<1>4. \A i \in Tables(m) : g # Table(m, i)
  BY DEF Heap, Apart
<1> HIDE DEF g
<1>5. n[Directory] = m[Directory] /\ n[LowTable] = m[LowTable] /\ n[Window] = m[Window]
  BY <1>1, <1>2, <1>3
<1>6. Kernel(n)
  BY <1>1, <1>3, <1>5 DEF Kernel
<1>7. Tables(n) = Tables(m) /\ \A j : Table(n, j) = Table(m, j)
  BY <1>5 DEF Tables, Table
<1>8. \A i \in Tables(m) : n[Table(m, i)] = m[Table(m, i)]
  <2> SUFFICES ASSUME NEW i \in Tables(m) PROVE n[Table(m, i)] = m[Table(m, i)]
    OBVIOUS
  <2>1. i \in Index /\ m[Directory][i] # Zero
    BY Positions DEF Tables
  <2>2. Table(m, i) \in Frame
    BY <2>1, <1>1, Present
  <2> QED BY <2>2, <1>3, <1>4
<1>9. Heap(n, s, fr)
  <2>1. Sets(n, s, fr)
    BY DEF Heap, Sets
  <2>2. Apart(n, s, fr)
    BY <1>7 DEF Heap, Apart
  <2>3. Filled(n, s)
    BY <1>7, <1>8 DEF Heap, Filled
  <2>4. Backed(n, s)
    BY <1>7 DEF Heap, Backed
  <2> QED BY <1>6, <2>1, <2>2, <2>3, <2>4 DEF Heap
<1>10. ASSUME NEW u \in Page PROVE Walk(n, u) = Walk(m, u)
  <2>1. Dir(u) \in Index
    BY Pages
  <2>2. CASE ~m[Directory][Dir(u)].present
    BY <2>2, <1>5 DEF Walk
  <2>3. CASE m[Directory][Dir(u)].present
    <3>1. Table(m, Dir(u)) \in Frame /\ (Dir(u) \in Tables(m) \/ Table(m, Dir(u)) \notin Upper)
      BY <2>1, <2>3, <1>1, InUse
    <3>2. n[Table(m, Dir(u))] = m[Table(m, Dir(u))]
      BY <3>1, <1>1, <1>3, <1>8
    <3> QED BY <2>3, <3>2, <1>5 DEF Walk, Table
  <2> QED BY <2>2, <2>3
<1> QED
  BY <1>9, <1>10

\* The memset for table i hits no table, or the new one in frame t alone.
Spared(n, t, i) ==
  \A j \in Index : n[Directory][j].present /\ Table(n, j) # t =>
                   Table(n, j) # i /\ Table(n, j) # i + 1

\* vmm_map makes a table of a clean frame, and the memset hits no other.
LEMMA TableAdded ==
  ASSUME NEW m, NEW s, NEW fr, Heap(m, s, fr), Len(s) < HeapPages, NEW i,
         i = Dir(HeapPage(Len(s) + 1)), m[Directory][i] = Zero, NEW t \in fr,
         NEW n, n = Cleared(Store(m, DirectoryPage, i, Entry(t)), i),
         n[t] = [e \in Index |-> Zero], Spared(n, t, i)
  PROVE  /\ Heap(n, s, fr \ {t}) /\ i \in Tables(n)
         /\ \A u \in Page : Walk(m, u) = NoFrame \/ Walk(n, u) = Walk(m, u)
<1>1. /\ Len(s) \in Nat /\ Upper \subseteq Frame /\ t \in Upper /\ t \in Frame /\ s \in Seq(Upper)
      /\ Kernel(m) /\ m \in [Frame -> [Index -> Word]] /\ Directory \in Frame
      /\ \A k \in 1 .. Len(s) : s[k] \notin fr /\ s[k] \in Upper
  BY Positions DEF Heap, Sets, Kernel
<1>2. i \in HeapDirs /\ i \in Index
  <2>1. HeapPage(Len(s) + 1) \in HeapArea
    <3>1. Len(s) <= HeapPages
      BY <1>1, Sizes
    <3> QED BY <1>1, <3>1, HeapPageNumbers
  <2> QED BY <2>1, HeapPlaces, Positions
<1>3. /\ Kernel(n) /\ n[Directory] = [m[Directory] EXCEPT ![i] = Entry(t)]
      /\ \A f \in Frame : f # Directory /\ f # i /\ f # i + 1 => n[f] = m[f]
  BY <1>1, <1>2, TableMade
<1>4. /\ n[Directory][i] = Entry(t)
      /\ \A j \in Index : j # i => n[Directory][j] = m[Directory][j]
  BY <1>1, <1>2, <1>3
<1>5. /\ Table(n, i) = t /\ Tables(n) = Tables(m) \union {i} /\ i \notin Tables(m)
      /\ \A j \in Index : j # i => Table(n, j) = Table(m, j)
  <2>1. HeapDirs \subseteq Index
    BY Positions
  <2> QED BY <2>1, <1>1, <1>2, <1>4, Words DEF Table, Tables
<1>6. Tables(m) \subseteq Index /\ \A j \in Tables(m) : Table(m, j) # t /\ j # i
  <2>1. HeapDirs \subseteq Index
    BY Positions
  <2> QED BY <2>1, <1>5 DEF Heap, Apart, Tables
<1>7. ASSUME NEW j \in Index, m[Directory][j].present, Table(m, j) # Directory
      PROVE  n[Table(m, j)] = m[Table(m, j)]
  <2>1. Table(m, j) \in Frame /\ (j \in Tables(m) \/ Table(m, j) \notin Upper)
    BY <1>1, <1>7, InUse
  <2>2. Table(m, j) # t
    BY <2>1, <1>1, <1>6
  <2>3. j # i
    BY <1>7 DEF Zero
  <2>4. n[Directory][j].present /\ Table(n, j) = Table(m, j)
    BY <2>3, <1>4, <1>5, <1>7
  <2>5. Table(m, j) # i /\ Table(m, j) # i + 1
    BY <2>2, <2>4 DEF Spared
  <2> QED BY <2>1, <2>5, <1>3, <1>7
<1>8. Sets(n, s, fr \ {t})
  BY DEF Heap, Sets
<1>9. Apart(n, s, fr \ {t})
  <2>1. \A k \in 1 .. Len(s) : s[k] # t
    BY <1>1
  <2>2. ASSUME NEW j \in Tables(n)
        PROVE  Table(n, j) \notin fr \ {t} /\ \A k \in 1 .. Len(s) : s[k] # Table(n, j)
    BY <2>1, <2>2, <1>5, <1>6 DEF Heap, Apart
  <2>3. ASSUME NEW j \in Tables(n), NEW k \in Tables(n), Table(n, j) = Table(n, k)
        PROVE  j = k
    BY <2>3, <1>5, <1>6 DEF Heap, Apart
  <2> QED BY <2>2, <2>3 DEF Apart
<1>10. Backed(n, s)
  BY <1>5 DEF Heap, Backed
<1>11. Filled(n, s)
  <2> SUFFICES ASSUME NEW u \in HeapArea, Dir(u) \in Tables(n)
               PROVE  n[Table(n, Dir(u))][Slot(u)] = Content(s, u)
    BY DEF Filled
  <2>1. CASE Dir(u) = i
    <3>1. ~(u < HeapStart + Len(s))
      <4> SUFFICES ASSUME u < HeapStart + Len(s) PROVE FALSE
        OBVIOUS
      <4>1. Len(s) <= HeapPages
        BY <1>1, Sizes
      <4>2. u - HeapStart + 1 \in 1 .. Len(s) /\ HeapPage(u - HeapStart + 1) = u
        BY <1>1, <4>1, HeapPageNumbers
      <4>3. Dir(u) \in Tables(m)
        BY <4>2 DEF Heap, Backed
      <4> QED BY <4>3, <2>1, <1>5
    <3>2. Slot(u) \in Index
      BY HeapPlaces
    <3> QED BY <2>1, <3>1, <3>2, <1>5 DEF Content
  <2>2. CASE Dir(u) # i
    <3>1. Dir(u) \in Tables(m) /\ Dir(u) \in Index
      BY <2>2, <1>5, <1>6
    <3>2. m[Directory][Dir(u)].present
      BY <3>1, <1>1, Present DEF Tables
    <3>3. Table(m, Dir(u)) # Directory
      <4>1. Table(m, Dir(u)) \in Upper
        <5>1. Dir(u) \notin Fixed
          BY <3>1, Positions DEF Tables
        <5> QED BY <5>1, <3>1, <1>1, Present DEF Tables
      <4> QED BY <4>1, Positions
    <3>4. n[Table(m, Dir(u))] = m[Table(m, Dir(u))] /\ Table(n, Dir(u)) = Table(m, Dir(u))
      BY <3>1, <3>2, <3>3, <2>2, <1>5, <1>7
    <3> QED BY <3>1, <3>4 DEF Heap, Filled
  <2> QED BY <2>1, <2>2
<1>12. ASSUME NEW u \in Page, Walk(m, u) # NoFrame
       PROVE  Walk(n, u) = Walk(m, u)
  <2>1. Dir(u) \in Index /\ Slot(u) \in Index /\ m[Directory][Dir(u)].present
    BY <1>12, Pages DEF Walk
  <2>2. Dir(u) # i
    BY <2>1 DEF Zero
  <2>3. n[Directory][Dir(u)] = m[Directory][Dir(u)]
    BY <2>1, <2>2, <1>4
  <2>4. CASE Table(m, Dir(u)) # Directory
    BY <2>1, <2>3, <2>4, <1>7 DEF Walk, Table
  <2>5. CASE Table(m, Dir(u)) = Directory
    <3>1. m[Directory][Slot(u)].present
      BY <2>5, <1>12 DEF Walk, Table
    <3>2. Slot(u) # i
      BY <3>1 DEF Zero
    <3>3. n[Directory][Slot(u)] = m[Directory][Slot(u)]
      BY <3>2, <2>1, <1>4
    <3> QED BY <2>3, <2>5, <3>3 DEF Walk, Table
  <2> QED BY <2>4, <2>5
<1> QED
  BY <1>3, <1>5, <1>8, <1>9, <1>10, <1>11, <1>12 DEF Heap

\* vmm_unmap of the last page.
LEMMA Unmapped ==
  ASSUME NEW m, NEW s, NEW fr, Heap(m, s, fr), Len(s) > 0, NEW v, v = HeapPage(Len(s)),
         NEW n, n = Store(m, TablePage(Dir(v)), Slot(v), Zero)
  PROVE  /\ Heap(n, SubSeq(s, 1, Len(s) - 1), fr \union {s[Len(s)]})
         /\ m[Table(m, Dir(v))][Slot(v)] = Entry(s[Len(s)])
         /\ \A u \in Page : u = v \/ Walk(n, u) = Walk(m, u)
<1> DEFINE i == Dir(v)
           t == Table(m, i)
           f == s[Len(s)]
           z == SubSeq(s, 1, Len(s) - 1)
<1>1. /\ Len(s) \in Nat /\ Upper \subseteq Frame /\ s \in Seq(Upper) /\ f \in Upper /\ f \in Frame
      /\ Kernel(m) /\ \A k \in 1 .. Len(s) : s[k] \notin fr /\ s[k] \in Upper
      /\ Len(s) \in 1 .. Len(s) /\ Len(s) <= HeapPages /\ HeapPages \in Nat
  <2>1. /\ s \in Seq(Upper) /\ Kernel(m) /\ Len(s) <= HeapPages
        /\ \A k \in 1 .. Len(s) : s[k] \notin fr
    BY DEF Heap, Sets
  <2>2. Len(s) \in Nat /\ \A k \in 1 .. Len(s) : s[k] \in Upper
    BY <2>1
  <2>3. Len(s) \in 1 .. Len(s)
    BY <2>2
  <2> QED BY <2>1, <2>2, <2>3, Positions, Sizes
<1>2. v \in HeapArea /\ v = HeapStart + Len(s) - 1 /\ v \in Nat
  <2>1. HeapPage(Len(s)) \in HeapArea
    BY <1>1, HeapPageNumbers
  <2>2. HeapPage(Len(s)) = HeapStart + Len(s) - 1
    BY DEF HeapPage
  <2> QED BY <2>1, <2>2, HeapPlaces
<1>3. i \in HeapDirs /\ Slot(v) \in Index /\ m[Directory][i] # Zero /\ i \in Tables(m)
  BY <1>1, <1>2, HeapPlaces DEF Heap, Backed, Tables
<1>4. m[t][Slot(v)] = Entry(f)
  <2>1. v < HeapStart + Len(s) /\ v - HeapStart + 1 = Len(s)
    BY <1>1, <1>2, Sizes
  <2>2. Content(s, v) = Entry(f)
    BY <2>1 DEF Content
  <2> QED BY <2>2, <1>2, <1>3 DEF Heap, Filled
<1>5. /\ Kernel(n) /\ n[Directory] = m[Directory] /\ t \in Upper
      /\ \A x \in Frame : x # t => n[x] = m[x]
      /\ n[t][Slot(v)] = Zero
      /\ \A x \in Index : x # Slot(v) => n[t][x] = m[t][x]
  <2>1. Zero \in Word
    BY <1>1, Words
  <2> HIDE DEF i
  <2>2. n = Store(m, TablePage(i), Slot(v), Zero)
    BY DEF i
  <2> QED BY <1>1, <1>3, <2>1, <2>2, Stores
<1>6. Tables(n) = Tables(m) /\ \A j : Table(n, j) = Table(m, j)
  BY <1>5 DEF Tables, Table
<1>7. /\ z \in Seq(Upper) /\ Len(z) = Len(s) - 1 /\ \A k \in 1 .. Len(z) : z[k] = s[k]
      /\ \A k \in 1 .. Len(z) : k \in 1 .. Len(s) /\ k # Len(s)
  <2>1. 1 \in Int /\ Len(s) - 1 \in 0 .. Len(s) /\ \A k \in 1 .. Len(s) - 1 : k \in 1 .. Len(s)
    BY <1>1
  <2>2. /\ z \in Seq(Upper) /\ Len(z) = Len(s) - 1
        /\ \A k \in 1 .. Len(s) - 1 : z[k] = s[k]
    <3>1. \A k \in 1 .. Len(s) - 1 : s[k] \in Upper
      BY <1>1, <2>1
    <3>2. Len(s) - 1 \in Int /\ Len(s) - 1 - 1 + 1 = Len(s) - 1
          /\ (1 <= Len(s) - 1 \/ Len(s) - 1 = 0)
      <4>1. Len(s) \in Nat /\ Len(s) > 0
        BY <1>1
      <4>2. \A a \in Nat : a > 0 => a - 1 \in Int /\ a - 1 - 1 + 1 = a - 1
                                  /\ (1 <= a - 1 \/ a - 1 = 0)
        OBVIOUS
      <4> QED BY <4>1, <4>2
    <3>3. /\ z \in Seq(Upper)
          /\ Len(z) = IF 1 <= Len(s) - 1 THEN Len(s) - 1 - 1 + 1 ELSE 0
          /\ \A k \in 1 .. Len(s) - 1 - 1 + 1 : z[k] = s[1 + k - 1]
      BY <2>1, <3>1, <3>2, SubSeqProperties
    <3> HIDE DEF z
    <3>4. \A k \in 1 .. Len(s) - 1 : 1 + k - 1 = k
      BY <1>1
    <3> QED BY <3>2, <3>3, <3>4
  <2> HIDE DEF z
  <2>3. \A k \in 1 .. Len(s) - 1 : k \in 1 .. Len(s) /\ k # Len(s)
    BY <1>1
  <2> QED BY <2>2, <2>3
<1> HIDE DEF z, i, t, f
<1>8. \A k \in 1 .. Len(z) : z[k] # f
  BY <1>1, <1>7 DEF Heap, Sets, f
<1>9. Sets(n, z, fr \union {f})
  <2>1. \A k \in 1 .. Len(z) : z[k] \notin fr \union {f}
    BY <1>1, <1>7, <1>8
  <2>2. \A j, k \in 1 .. Len(z) : z[j] = z[k] => j = k
    BY <1>7 DEF Heap, Sets
  <2>3. Len(z) <= HeapPages
    BY <1>1, <1>7
  <2> QED BY <1>1, <1>7, <2>1, <2>2, <2>3 DEF Heap, Sets
<1>10. Apart(n, z, fr \union {f})
  <2>1. ASSUME NEW j \in Tables(n)
        PROVE  /\ Table(n, j) \notin fr \union {f}
               /\ \A k \in 1 .. Len(z) : z[k] # Table(n, j)
    BY <2>1, <1>1, <1>6, <1>7 DEF Heap, Apart, f
  <2> QED BY <2>1, <1>6 DEF Heap, Apart
<1>11. Filled(n, z)
  <2> SUFFICES ASSUME NEW u \in HeapArea, Dir(u) \in Tables(n)
               PROVE  n[Table(n, Dir(u))][Slot(u)] = Content(z, u)
    BY DEF Filled
  <2>1. u \in Nat /\ Dir(u) \in HeapDirs /\ Slot(u) \in Index /\ Dir(u) \in Tables(m)
    BY <1>6, HeapPlaces
  <2>2. m[Table(m, Dir(u))][Slot(u)] = Content(s, u)
    BY <2>1 DEF Heap, Filled
  <2>3. CASE u = v
    <3>1. Content(z, u) = Zero
      <4>1. ~(u < HeapStart + Len(z))
        BY <2>3, <1>2, <1>7, <1>1, Sizes
      <4> QED BY <4>1 DEF Content
    <3> QED BY <2>3, <3>1, <1>5, <1>6 DEF t, i
  <2>4. CASE u # v
    <3>1. Content(z, u) = Content(s, u)
      <4>1. u >= HeapStart /\ u \in Nat /\ u # HeapStart + Len(s) - 1
        BY <2>1, <2>4, <1>2, Sizes DEF HeapArea
      <4>2. u < HeapStart + Len(z) <=> u < HeapStart + Len(s)
        <5>1. /\ HeapStart \in Nat /\ Len(s) \in Nat /\ Len(z) = Len(s) - 1
              /\ u \in Nat /\ u # HeapStart + Len(s) - 1
          BY <4>1, <1>7, <1>1, Sizes
        <5> HIDE DEF z
        <5> QED BY <5>1
      <4>3. u < HeapStart + Len(z) => u - HeapStart + 1 \in 1 .. Len(z)
        BY <4>1, <1>7, <1>1, Sizes
      <4> QED BY <4>2, <4>3, <1>7 DEF Content
    <3>2. CASE Dir(u) = i
      <4>1. Slot(u) # Slot(v)
        BY <3>2, <2>4, <2>1, <1>2, SamePage DEF i
      <4> QED BY <3>1, <3>2, <4>1, <2>1, <2>2, <1>5, <1>6 DEF t
    <3>3. CASE Dir(u) # i
      <4>1. Table(m, Dir(u)) # t
        BY <3>3, <2>1, <1>3 DEF Heap, Apart, t
      <4>2. Table(m, Dir(u)) \in Frame
        BY <2>1, <1>1, Positions, Present DEF Tables
      <4> QED BY <3>1, <4>1, <4>2, <2>2, <1>5, <1>6
    <3> QED BY <3>2, <3>3
  <2> QED BY <2>3, <2>4
<1>12. Backed(n, z)
  BY <1>6, <1>7 DEF Heap, Backed
<1>13. ASSUME NEW u \in Page PROVE u = v \/ Walk(n, u) = Walk(m, u)
  <2>1. Walk(n, u) = Walk(m, u) \/ (Dir(u) = i /\ Slot(u) = Slot(v))
    <3>1. i \in Tables(m) /\ OneWord(m, n, i, Slot(v))
      BY <1>3, <1>5 DEF t, OneWord
    <3> QED BY <3>1, OthersKept
  <2> QED BY <2>1, <1>2, Pages, SamePage DEF i
<1> QED
  BY <1>4, <1>5, <1>9, <1>10, <1>11, <1>12, <1>13 DEF Heap, z, t, i, f

\* No translation is left behind when each page that had one keeps it or is flushed.
LEMMA NothingStale ==
  ASSUME stale = {}, NEW m, NEW v,
         \A u \in Page : u = v \/ Walk(mem, u) = NoFrame \/ Walk(m, u) = Walk(mem, u)
  PROVE  StaleAfter(m, v) = {}
<1> SUFFICES ASSUME NEW p \in StaleAfter(m, v) PROVE FALSE
  OBVIOUS
<1>1. /\ p \in {<<u, Walk(mem, u)>> : u \in Page}
      /\ p[1] # v /\ p[2] # NoFrame /\ p[2] # Walk(m, p[1])
  BY DEF StaleAfter
<1>2. PICK u \in Page : p = <<u, Walk(mem, u)>>
  BY <1>1
<1>3. p[1] = u /\ p[2] = Walk(mem, u)
  BY <1>2
<1> QED
  BY <1>1, <1>3
-----------------------------------------------------------------------------
(***************************************************************************)
(* The invariant: until a table is made of a frame that is not clean, or   *)
(* hit by the memset of vmm_map, the heap's tables are in order and the    *)
(* processor has cached nothing that they do not say.                      *)
(***************************************************************************)
Phases == {"boot", "run", "panic", "wild", "crash"}

Booting ==
  phase = "boot" =>
    /\ mem \in [Frame -> [Index -> Word]] /\ free = {} /\ maps = <<>>
    /\ stale = {} /\ Clean

Running ==
  Clean /\ phase # "boot" => phase # "wild" /\ stale = {} /\ Heap(mem, maps, free)

IInv == phase \in Phases /\ Booting /\ Running

LEMMA Starts == Init => IInv
<1> SUFFICES ASSUME Init PROVE IInv
  OBVIOUS
<1>1. \A w \in Left : w \in Word
  <2>1. 0 \in Frame
    BY Sizes DEF Frame
  <2> QED BY <2>1, Words DEF Left
<1>2. mem \in [Frame -> [Index -> Word]]
  BY <1>1 DEF Init
<1> QED
  BY <1>2 DEF Init, IInv, Booting, Running, Clean, Phases

\* init_vmm leaves the tables in order.
LEMMA InitSound == IInv /\ InitVmm => IInv'
<1> SUFFICES ASSUME IInv, InitVmm PROVE IInv'
  OBVIOUS
<1>1. /\ mem \in [Frame -> [Index -> Word]] /\ maps' = <<>> /\ stale' = {} /\ free' = Available
  BY DEF IInv, Booting, InitVmm
<1>2. /\ {Directory, LowTable, Window, Early + 4} \subseteq Frame /\ Index \subseteq Frame
      /\ Directory # LowTable /\ Directory # Window /\ LowTable # Window
  BY Positions
<1>3. /\ mem'[Directory] = FirstDirectory
      /\ mem'[LowTable] = [i \in Index |-> Entry(i)]
      /\ mem'[Window] = [i \in Index |-> IF i = SelfDir THEN Entry(Directory) ELSE Zero]
  BY <1>1, <1>2 DEF InitVmm
<1>4. /\ FirstDirectory \in [Index -> Word]
      /\ [i \in Index |-> Entry(i)] \in [Index -> Word]
      /\ [i \in Index |-> IF i = SelfDir THEN Entry(Directory) ELSE Zero] \in [Index -> Word]
  <2>1. /\ Entry(LowTable) \in Word /\ Entry(Early + 4) \in Word /\ Entry(Window) \in Word
        /\ Entry(Directory) \in Word /\ Zero \in Word /\ \A i \in Index : Entry(i) \in Word
    BY <1>2, Words
  <2> QED BY <2>1 DEF FirstDirectory
<1>5. mem' \in [Frame -> [Index -> Word]]
  BY <1>1, <1>4 DEF InitVmm
<1>6. /\ FirstDirectory[0] = Entry(LowTable) /\ FirstDirectory[StackDir] = Entry(Early + 4)
      /\ FirstDirectory[WindowDir] = Entry(Window) /\ FirstDirectory[SelfDir] = Entry(Directory)
      /\ \A i \in Index \ Fixed : FirstDirectory[i] = Zero
  BY Positions DEF FirstDirectory, Fixed
<1>7. Kernel(mem')
  BY <1>3, <1>5, <1>6 DEF Kernel
<1>8. Tables(mem') = {}
  BY <1>3, <1>6, Positions DEF Tables
<1>9. Heap(mem', <<>>, Available)
  <2>1. Sets(mem', <<>>, Available)
    BY Sizes DEF Sets
  <2>2. Apart(mem', <<>>, Available) /\ Filled(mem', <<>>) /\ Backed(mem', <<>>)
    BY <1>8 DEF Apart, Filled, Backed
  <2> QED BY <1>7, <2>1, <2>2 DEF Heap
<1> QED
  BY <1>1, <1>9 DEF IInv, Booting, Running, Phases, InitVmm

\* A new mapping takes no translation away, and leaves the heap's pages alone.
LEMMA EnterKept ==
  ASSUME NEW m, NEW s, NEW fr, Heap(m, s, fr), NEW f \in fr, Len(s) < HeapPages,
         Dir(HeapPage(Len(s) + 1)) \in Tables(m),
         NEW n, n = Enter(m, HeapPage(Len(s) + 1), Entry(f)), NEW u \in Page
  PROVE  /\ Walk(m, u) = NoFrame \/ Walk(n, u) = Walk(m, u)
         /\ n[Directory] = m[Directory]
         /\ \A k \in 1 .. Len(s) : n[s[k]] = m[s[k]]
<1> DEFINE v == HeapPage(Len(s) + 1)
           i == Dir(v)
<1>1. Len(s) \in Nat /\ Kernel(m) /\ f \in Frame /\ Upper \subseteq Frame
  BY Positions DEF Heap, Sets
<1>2. v \in HeapArea /\ v = HeapStart + Len(s) /\ v \in Nat
  <2>1. Len(s) <= HeapPages
    BY <1>1, Sizes
  <2>2. v \in HeapArea /\ v = HeapStart + Len(s)
    BY <1>1, <2>1, HeapPageNumbers
  <2> QED BY <2>2, HeapPlaces
<1>3. i \in HeapDirs /\ Slot(v) \in Index /\ m[Directory][i] # Zero /\ i \in Tables(m)
  BY <1>2, HeapPlaces DEF Tables
<1> HIDE DEF v
<1>4. /\ n[Directory] = m[Directory]
      /\ \A x \in Frame : x # Table(m, i) => n[x] = m[x]
      /\ \A x \in Index : x # Slot(v) => n[Table(m, i)][x] = m[Table(m, i)][x]
  <2>1. Entry(f) \in Word
    BY <1>1, Words
  <2>2. n = Store(m, TablePage(i), Slot(v), Entry(f))
    BY DEF Enter, v
  <2> HIDE DEF i
  <2> QED BY <1>1, <1>3, <2>1, <2>2, Stores
<1> HIDE DEF i
<1>5. OneWord(m, n, i, Slot(v))
  BY <1>4 DEF OneWord
<1>6. Walk(n, u) = Walk(m, u) \/ (Dir(u) = i /\ Slot(u) = Slot(v))
  BY <1>3, <1>5, OthersKept
<1>7. Walk(m, v) = NoFrame
  <2>1. ~(v < HeapStart + Len(s))
    BY <1>1, <1>2, Sizes
  <2> QED BY <1>2, <2>1, HeapWalk
<1>8. Dir(u) = i /\ Slot(u) = Slot(v) => u = v
  BY <1>2, Pages, SamePage DEF i
<1>9. \A k \in 1 .. Len(s) : n[s[k]] = m[s[k]]
  BY <1>1, <1>3, <1>4 DEF Heap, Sets, Apart
<1> QED
  BY <1>4, <1>6, <1>7, <1>8, <1>9

\* The next page of the heap, and whether vmm_map makes a table for it.
LEMMA NextPage ==
  ASSUME IInv, Clean, phase = "run", Top < HeapPages
  PROVE  /\ Heap(mem, maps, free) /\ stale = {} /\ Top \in Nat
         /\ HeapPage(Top + 1) \in HeapArea /\ Dir(HeapPage(Top + 1)) \in HeapDirs
         /\ Dir(HeapPage(Top + 1)) \in Index
         /\ NeedsTable(HeapPage(Top + 1)) <=> mem[Directory][Dir(HeapPage(Top + 1))] = Zero
<1>1. Heap(mem, maps, free) /\ stale = {}
  BY DEF IInv, Running
<1>2. Top \in Nat /\ Top <= HeapPages
  BY <1>1 DEF Heap, Sets, Top
<1>3. HeapPage(Top + 1) \in HeapArea
  BY <1>2, HeapPageNumbers
<1>4. Dir(HeapPage(Top + 1)) \in HeapDirs /\ Dir(HeapPage(Top + 1)) \in Index
  BY <1>3, HeapPlaces, Positions
<1>5. Walk(mem, DirectoryPage) = Directory
  BY <1>1, Translations DEF Heap
<1> QED
  BY <1>1, <1>2, <1>3, <1>4, <1>5 DEF NeedsTable

LEMMA GrowSound == IInv /\ Grow => IInv'
<1> SUFFICES ASSUME IInv, Grow, Clean' PROVE Running'
  BY DEF IInv, Booting, Running, Grow, Phases
<1> DEFINE v == HeapPage(Top + 1)
           i == Dir(v)
<1>1. phase = "run" /\ phase' = "run" /\ Top < HeapPages
  BY DEF Grow
<1>2. Clean
  BY DEF Grow, NewTable, Clean
<1>3. /\ Heap(mem, maps, free) /\ stale = {} /\ Top \in Nat
      /\ v \in HeapArea /\ i \in HeapDirs /\ i \in Index
      /\ NeedsTable(v) <=> mem[Directory][i] = Zero
  BY <1>1, <1>2, NextPage
<1>4. PICK f \in free :
        /\ maps' = Append(maps, f)
        /\ IF NeedsTable(v)
             THEN \E t \in free \ {f} :
                    /\ mem' = Enter(WithTable(v, t), v, Entry(f))
                    /\ free' = free \ {f, t}
                    /\ NewTable(v, t)
             ELSE /\ mem' = Enter(mem, v, Entry(f))
                  /\ free' = free \ {f}
                  /\ UNCHANGED <<dirty, scrubbed>>
  BY DEF Grow
<1>5. stale' = StaleAfter(mem', NoPage)
  BY DEF Grow
<1>6. v = HeapPage(Len(maps) + 1) /\ Len(maps) < HeapPages
  BY <1>1 DEF Top
<1> HIDE DEF v
<1>7. CASE ~NeedsTable(v)
  <2>1. mem' = Enter(mem, v, Entry(f)) /\ free' = free \ {f}
    BY <1>4, <1>7
  <2>2. Dir(HeapPage(Len(maps) + 1)) \in Tables(mem)
    BY <1>3, <1>6, <1>7 DEF Tables
  <2>3. Heap(mem', maps', free')
    BY <1>3, <1>4, <1>6, <2>1, <2>2, Entered
  <2>4. \A u \in Page : Walk(mem, u) = NoFrame \/ Walk(mem', u) = Walk(mem, u)
    BY <1>3, <1>6, <2>1, <2>2, EnterKept
  <2>5. stale' = {}
    BY <1>3, <1>5, <2>4, NothingStale
  <2> QED BY <1>1, <2>3, <2>5 DEF Running
<1>8. CASE NeedsTable(v)
  <2>1. PICK t \in free \ {f} :
          /\ mem' = Enter(WithTable(v, t), v, Entry(f))
          /\ free' = free \ {f, t}
          /\ NewTable(v, t)
    BY <1>4, <1>8
  <2> DEFINE n == WithTable(v, t)
  <2>2. n = Cleared(Store(mem, DirectoryPage, i, Entry(t)), i)
    BY DEF WithTable
  <2>3. n[t] = [e \in Index |-> Zero]
    BY <2>1 DEF NewTable, Clean
  <2>4. Spared(n, t, i)
    <3>1. {i, i + 1} \intersect
            ({n[Directory][j].frame : j \in {j \in Index : n[Directory][j].present}} \ {t}) = {}
      BY <2>1 DEF NewTable, Clean
    <3> HIDE DEF n, i
    <3> QED BY <3>1 DEF Table, Spared
  <2> HIDE DEF n
  <2>5. /\ Heap(n, maps, free \ {t}) /\ i \in Tables(n)
        /\ \A u \in Page : Walk(mem, u) = NoFrame \/ Walk(n, u) = Walk(mem, u)
    <3>1. i = Dir(HeapPage(Len(maps) + 1)) /\ mem[Directory][i] = Zero /\ t \in free
      BY <1>3, <1>6, <1>8
    <3> HIDE DEF i
    <3> QED BY <1>3, <1>6, <3>1, <2>2, <2>3, <2>4, TableAdded
  <2>6. mem' = Enter(n, v, Entry(f)) /\ f \in free \ {t} /\ free' = (free \ {t}) \ {f}
    BY <2>1 DEF n
  <2>7. Dir(HeapPage(Len(maps) + 1)) \in Tables(n)
    BY <1>6, <2>5
  <2>8. Heap(mem', maps', free')
    BY <1>4, <1>6, <2>5, <2>6, <2>7, Entered
  <2>9. \A u \in Page : Walk(n, u) = NoFrame \/ Walk(mem', u) = Walk(n, u)
    BY <1>6, <2>5, <2>6, <2>7, EnterKept
  <2>10. \A u \in Page : Walk(mem, u) = NoFrame \/ Walk(mem', u) = Walk(mem, u)
    BY <2>5, <2>9
  <2>11. stale' = {}
    BY <1>3, <1>5, <2>10, NothingStale
  <2> QED BY <1>1, <2>8, <2>11 DEF Running
<1> QED
  BY <1>7, <1>8

\* free_chunk's last page: it is mapped, and its frame is the one that was taken for it.
LEMMA LastPage ==
  ASSUME IInv, Clean, phase = "run", Top > 0
  PROVE  LET v == HeapPage(Top)
         IN  /\ Heap(mem, maps, free) /\ stale = {} /\ v = HeapPage(Len(maps)) /\ Len(maps) > 0
             /\ Dir(v) \in Tables(mem) /\ Slot(v) \in Index
             /\ maps[Top] \in Upper
             /\ GetMapping(v) = Entry(maps[Top])
             /\ Unmap(v) = Store(mem, TablePage(Dir(v)), Slot(v), Zero)
<1> DEFINE v == HeapPage(Top)
<1>1. Heap(mem, maps, free) /\ stale = {}
  BY DEF IInv, Running
<1>2. /\ Top \in Nat /\ Top <= HeapPages /\ Top \in 1 .. Len(maps) /\ maps[Top] \in Upper
      /\ v = HeapPage(Len(maps)) /\ Len(maps) > 0
  BY <1>1 DEF Heap, Sets, Top
<1>3. v \in HeapArea
  BY <1>2, HeapPageNumbers
<1>4. Dir(v) \in Tables(mem) /\ Dir(v) \in Index /\ Slot(v) \in Index
  BY <1>1, <1>2, <1>3, HeapPlaces, Positions DEF Heap, Backed
<1>5. mem[Directory][Dir(v)].present /\ mem[Directory][Dir(v)] # Zero
  BY <1>1, <1>4, Present DEF Heap, Tables
<1>6. Walk(mem, DirectoryPage) = Directory /\ Walk(mem, TablePage(Dir(v))) = Table(mem, Dir(v))
  BY <1>1, <1>4, <1>5, Translations DEF Heap
<1> HIDE DEF v
<1>7. mem[Table(mem, Dir(v))][Slot(v)] = Entry(maps[Len(maps)])
  <2>1. v = HeapPage(Len(maps))
    BY <1>2
  <2>2. Store(mem, TablePage(Dir(v)), Slot(v), Zero) = Store(mem, TablePage(Dir(v)), Slot(v), Zero)
    OBVIOUS
  <2> QED BY <2>1, <2>2, <1>1, <1>2, Unmapped
<1>8. GetMapping(v) = Entry(maps[Top])
  BY <1>5, <1>6, <1>7 DEF GetMapping, NeedsTable, Top
<1>9. Unmap(v) = Store(mem, TablePage(Dir(v)), Slot(v), Zero)
  BY DEF Unmap
<1> QED
  BY <1>1, <1>2, <1>4, <1>8, <1>9 DEF v

LEMMA ShrinkSound == IInv /\ Shrink => IInv'
<1> SUFFICES ASSUME IInv, Shrink PROVE IInv'
  OBVIOUS
<1>1. /\ phase = "run" /\ phase' \in {"run", "wild"} /\ Top > 0
      /\ dirty' = dirty /\ scrubbed' = scrubbed
  BY DEF Shrink
<1>2. phase' \in Phases /\ Booting'
  BY <1>1 DEF Phases, Booting
<1>3. ASSUME Clean' PROVE Running'
  <2> DEFINE v == HeapPage(Top)
  <2>1. Clean
    BY <1>1, <1>3 DEF Clean
  <2>2. /\ Heap(mem, maps, free) /\ stale = {} /\ v = HeapPage(Len(maps)) /\ Len(maps) > 0
        /\ maps[Top] \in Upper /\ GetMapping(v) = Entry(maps[Top])
        /\ Unmap(v) = Store(mem, TablePage(Dir(v)), Slot(v), Zero)
    BY <1>1, <2>1, LastPage
  <2>3. /\ maps[Top] \in Frame /\ ~(maps[Top] < Early + 4)
    BY <2>2, Positions, Sizes DEF Upper
  <2>4. Entry(maps[Top]) # Zero /\ Entry(maps[Top]).frame = maps[Top]
    BY <2>3, Words
  <2>5. /\ phase' = "run" /\ free' = free \union {maps[Len(maps)]}
    BY <1>1, <2>2, <2>3, <2>4 DEF Shrink, Top
  <2>6. /\ mem' = Store(mem, TablePage(Dir(v)), Slot(v), Zero)
        /\ maps' = SubSeq(maps, 1, Len(maps) - 1)
        /\ stale' = StaleAfter(mem', v)
    BY <2>2 DEF Shrink, Top, Flushed
  <2> HIDE DEF v
  <2>7. Heap(mem', maps', free') /\ \A u \in Page : u = v \/ Walk(mem', u) = Walk(mem, u)
    BY <2>2, <2>5, <2>6, Unmapped
  <2>8. stale' = {}
    BY <2>2, <2>6, <2>7, NothingStale
  <2> QED BY <2>5, <2>7, <2>8 DEF Running
<1> QED
  BY <1>2, <1>3 DEF IInv, Running

\* A user's access goes to the frame that was mapped.
LEMMA UserPage ==
  ASSUME IInv, Clean, phase = "run", NEW k \in 1 .. Top
  PROVE  /\ Reach(HeapPage(k)) = {maps[k]} /\ maps[k] # NoFrame /\ maps[k] \in Upper
         /\ Heap(mem, maps, free) /\ stale = {} /\ k \in 1 .. Len(maps)
         /\ mem \in [Frame -> [Index -> Word]]
<1>1. Heap(mem, maps, free) /\ stale = {}
  BY DEF IInv, Running
<1>2. /\ Len(maps) \in Nat /\ Len(maps) <= HeapPages /\ k \in 1 .. Len(maps) /\ maps[k] \in Upper
      /\ mem \in [Frame -> [Index -> Word]]
  BY <1>1 DEF Heap, Sets, Kernel, Top
<1>3. /\ HeapPage(k) \in HeapArea /\ HeapPage(k) < HeapStart + Len(maps)
      /\ HeapPage(k) - HeapStart + 1 = k
  BY <1>2, HeapPageNumbers
<1>4. Walk(mem, HeapPage(k)) = maps[k]
  BY <1>1, <1>3, HeapWalk
<1>5. maps[k] # NoFrame
  BY <1>2, Sizes DEF Upper, NoFrame
<1> QED
  BY <1>1, <1>2, <1>4, <1>5 DEF Reach

LEMMA FillSound ==
  ASSUME IInv, NEW k \in 1 .. Top, NEW w \in Data, Fill(k, w)
  PROVE  IInv'
<1>1. /\ phase = "run" /\ phase' \in {"run", "panic"}
      /\ free' = free /\ maps' = maps /\ dirty' = dirty /\ scrubbed' = scrubbed
  BY DEF Fill
<1>2. phase' \in Phases /\ Booting'
  BY <1>1 DEF Phases, Booting
<1>3. ASSUME Clean' PROVE Running'
  <2>1. Clean
    BY <1>1, <1>3 DEF Clean
  <2>2. /\ Reach(HeapPage(k)) = {maps[k]} /\ maps[k] # NoFrame
        /\ Heap(mem, maps, free) /\ stale = {} /\ k \in 1 .. Len(maps)
    BY <1>1, <2>1, UserPage
  <2> DEFINE c == [e \in Index |-> w]
  <2>3. /\ Overwritten(mem, mem', maps[k], c)
        /\ stale' = StaleAfter(mem', NoPage) /\ phase' = "run"
    BY <1>1, <2>2 DEF Fill, Overwritten
  <2>4. c \in [Index -> Word]
    BY Sizes
  <2> HIDE DEF c
  <2>5. Heap(mem', maps, free) /\ \A u \in Page : Walk(mem', u) = Walk(mem, u)
    BY <2>2, <2>3, <2>4, FilledKept
  <2>6. stale' = {}
    BY <2>2, <2>3, <2>5, NothingStale
  <2> QED BY <1>1, <2>3, <2>5, <2>6 DEF Running
<1> QED
  BY <1>2, <1>3 DEF IInv, Running

LEMMA Preserved == IInv /\ [Next]_vars => IInv'
<1> SUFFICES ASSUME IInv, [Next]_vars PROVE IInv'
  OBVIOUS
<1>1. CASE InitVmm
  BY <1>1, InitSound
<1>2. CASE Grow
  BY <1>2, GrowSound
<1>3. CASE OutOfMemory
  BY <1>3 DEF OutOfMemory, IInv, Booting, Running, Clean, Phases
<1>4. CASE Shrink
  BY <1>4, ShrinkSound
<1>5. CASE \E k \in 1 .. Top, w \in Data : Fill(k, w)
  BY <1>5, FillSound
<1>6. CASE UNCHANGED vars
  BY <1>6 DEF vars, IInv, Booting, Running, Clean
<1> QED
  BY <1>1, <1>2, <1>3, <1>4, <1>5, <1>6 DEF Next

\* Until a table is made of a frame that is not clean, or hit by the memset of vmm_map,
\* the heap's tables hold its pages and nothing else, in frames of their own, and the
\* processor has cached nothing that they do not say.
THEOREM Invariant == Spec => []IInv
BY Starts, Preserved, PTL DEF Spec
-----------------------------------------------------------------------------
(***************************************************************************)
(* What the runs check.                                                    *)
(***************************************************************************)
\* Every variable has its type: vmm.c writes no word outside the tables it means.
THEOREM TypeCorrect == Spec => [](Clean => TypeOK)
<1>1. ASSUME IInv, Clean PROVE TypeOK
  <2>1. Upper \subseteq Frame
    BY Positions
  <2>2. CASE phase = "boot"
    BY <1>1, <2>2, Sizes DEF IInv, Booting, TypeOK, Clean
  <2>3. CASE phase # "boot"
    <3>1. Heap(mem, maps, free) /\ stale = {} /\ phase \in Phases
      BY <1>1, <2>3 DEF IInv, Running
    <3>2. mem \in [Frame -> [Index -> Word]] /\ free \subseteq Frame /\ Len(maps) <= HeapPages
      BY <3>1, <2>1 DEF Heap, Kernel, Sets
    <3>3. maps \in Seq(Frame)
      <4>1. maps \in Seq(Upper)
        BY <3>1 DEF Heap, Sets
      <4> QED BY <4>1, <2>1
    <3> QED BY <1>1, <3>1, <3>2, <3>3 DEF TypeOK, Clean, Phases
  <2> QED BY <2>2, <2>3
<1> QED
  BY <1>1, Invariant, PTL

\* vmm.c finds the directory and every table in the window (vmm.c:19-24).
THEOREM WindowsHold == Spec => [](Clean => Windows)
<1>1. ASSUME IInv, Clean PROVE Windows
  <2> SUFFICES ASSUME phase = "run"
               PROVE  /\ Reach(DirectoryPage) = {Directory}
                      /\ \A i \in Index : mem[Directory][i].present =>
                                            Reach(TablePage(i)) = {mem[Directory][i].frame}
    BY DEF Windows
  <2>1. Kernel(mem) /\ stale = {}
    BY <1>1 DEF IInv, Running, Heap
  <2> QED BY <2>1, Translations DEF Reach, Table
<1> QED
  BY <1>1, Invariant, PTL

\* An access to a page of the heap goes to the frame that was mapped there, and to no
\* other (vmm.c:24).
THEOREM MappingsHold == Spec => [](Clean => Mapped)
<1>1. ASSUME IInv, Clean PROVE Mapped
  <2> SUFFICES ASSUME phase = "run", NEW k \in 1 .. Top
               PROVE  Walk(mem, HeapPage(k)) = maps[k] /\ Reach(HeapPage(k)) = {maps[k]}
    BY DEF Mapped
  <2>1. Reach(HeapPage(k)) = {maps[k]} /\ stale = {}
    BY <1>1, UserPage
  <2> QED BY <2>1 DEF Reach
<1> QED
  BY <1>1, Invariant, PTL

\* An access behind the heap faults, also to a page that was mapped (vmm.c:29).
THEOREM FaultsHold == Spec => [](Clean => Faults)
<1>1. ASSUME IInv, Clean PROVE Faults
  <2> SUFFICES ASSUME phase = "run", NEW v \in HeapArea, v \notin {HeapPage(k) : k \in 1 .. Top}
               PROVE  Reach(v) = {NoFrame}
    BY DEF Faults, HeapArea
  <2>1. Heap(mem, maps, free) /\ stale = {} /\ Len(maps) \in Nat /\ Len(maps) <= HeapPages
    BY <1>1 DEF IInv, Running, Heap, Sets
  <2>2. ~(v < HeapStart + Len(maps))
    BY <2>1, HeapPageNumbers DEF Top
  <2>3. Walk(mem, v) = NoFrame
    BY <2>1, <2>2, HeapWalk
  <2> QED BY <2>1, <2>3 DEF Reach
<1> QED
  BY <1>1, Invariant, PTL

\* free_chunk finds the frame of the page it unmaps (kheap.c:60).
THEOREM FrameFound == Spec => [](Clean => phase # "wild")
<1>1. IInv /\ Clean => phase # "wild"
  BY DEF IInv, Running
<1> QED
  BY <1>1, Invariant, PTL
-----------------------------------------------------------------------------
(***************************************************************************)
(* Who writes to a page of the heap.                                       *)
(***************************************************************************)
\* The clause of Isolated.
Alone(k) ==
  mem'[maps[k]] # mem[maps[k]] =>
    \/ \E w \in Data : Fill(k, w)
    \/ \E i \in Index : NewDir(i) /\ maps[k] \in {i, i + 1}

LEMMA GrowAlone ==
  ASSUME IInv, Clean, Grow, NEW k \in 1 .. Top
  PROVE  Alone(k)
<1> SUFFICES ASSUME mem'[maps[k]] # mem[maps[k]]
             PROVE  \E j \in Index : NewDir(j) /\ maps[k] \in {j, j + 1}
  BY DEF Alone
<1> DEFINE v == HeapPage(Top + 1)
           i == Dir(v)
           g == maps[k]
<1>1. phase = "run" /\ Top < HeapPages
  BY DEF Grow
<1>2. /\ Heap(mem, maps, free) /\ i \in HeapDirs /\ i \in Index /\ v \in HeapArea
      /\ NeedsTable(v) <=> mem[Directory][i] = Zero
  BY <1>1, NextPage
<1>3. g \in Upper /\ k \in 1 .. Len(maps)
  BY <1>1, UserPage
<1>4. /\ Kernel(mem) /\ free \subseteq Upper /\ Upper \subseteq Frame /\ g \notin free
      /\ Directory \in Frame /\ Directory \notin Upper
  BY <1>2, <1>3, Positions DEF Heap, Sets
<1>5. Slot(v) \in Index /\ v = HeapPage(Len(maps) + 1) /\ Len(maps) < HeapPages
  BY <1>1, <1>2, HeapPlaces DEF Top
<1> HIDE DEF v
<1>6. CASE ~NeedsTable(v)
  <2>1. PICK f \in free : mem' = Enter(mem, v, Entry(f))
    BY <1>6 DEF Grow, v
  <2>2. Dir(HeapPage(Len(maps) + 1)) \in Tables(mem)
    BY <1>2, <1>5, <1>6 DEF Tables
  <2>3. \A u \in Page : \A j \in 1 .. Len(maps) : mem'[maps[j]] = mem[maps[j]]
    BY <1>2, <1>5, <2>1, <2>2, EnterKept
  <2>4. 0 \in Page
    BY Positions, LowPlaces DEF Fixed
  <2> QED BY <1>3, <2>3, <2>4
<1>7. CASE NeedsTable(v)
  <2>1. PICK f \in free, t \in free : mem' = Enter(WithTable(v, t), v, Entry(f))
    BY <1>7 DEF Grow, v
  <2> DEFINE n == WithTable(v, t)
  <2>2. n = Cleared(Store(mem, DirectoryPage, i, Entry(t)), i)
    BY DEF WithTable
  <2>3. mem' = Store(n, TablePage(i), Slot(v), Entry(f))
    BY <2>1 DEF Enter
  <2> HIDE DEF n, i
  <2>4. /\ Kernel(n) /\ n[Directory] = [mem[Directory] EXCEPT ![i] = Entry(t)]
        /\ \A x \in Frame : x # Directory /\ x # i /\ x # i + 1 => n[x] = mem[x]
    BY <1>2, <1>4, <2>2, TableMade
  <2>5. t \in Frame /\ f \in Frame /\ Entry(f) \in Word /\ Entry(t) # Zero
    BY <1>4, Words
  <2>6. n[Directory][i] = Entry(t)
    <3>1. mem[Directory] \in [Index -> Word]
      BY <1>4 DEF Kernel
    <3> QED BY <3>1, <1>2, <2>4
  <2>7. Table(n, i) = t
    BY <2>5, <2>6, Words DEF Table
  <2>8. /\ mem'[Directory] = n[Directory]
        /\ \A x \in Frame : x # Table(n, i) => mem'[x] = n[x]
    <3>1. n[Directory][i] # Zero
      BY <2>5, <2>6
    <3>2. Kernel(n) /\ i \in HeapDirs /\ Slot(v) \in Index /\ Entry(f) \in Word
      BY <1>2, <1>5, <2>4, <2>5
    <3> QED BY <3>1, <3>2, <2>3, Stores
  <2>9. mem'[g] = n[g]
    BY <1>3, <1>4, <2>7, <2>8
  <2>10. g \in {i, i + 1}
    BY <1>3, <1>4, <2>4, <2>9
  <2>11. NewDir(i)
    BY <1>2, <1>7, <2>5, <2>6, <2>8 DEF NewDir
  <2> QED BY <1>2, <2>10, <2>11
<1> QED
  BY <1>6, <1>7

LEMMA ShrinkAlone ==
  ASSUME IInv, Clean, Shrink, NEW k \in 1 .. Top
  PROVE  Alone(k)
<1> DEFINE v == HeapPage(Top)
<1>1. phase = "run" /\ Top > 0 /\ mem' = Unmap(v)
  BY DEF Shrink
<1>2. /\ Heap(mem, maps, free) /\ Dir(v) \in Tables(mem) /\ Slot(v) \in Index
      /\ Unmap(v) = Store(mem, TablePage(Dir(v)), Slot(v), Zero)
  BY <1>1, LastPage
<1>3. maps[k] \in Upper /\ k \in 1 .. Len(maps)
  BY <1>1, UserPage
<1> HIDE DEF v
<1>4. Zero \in Word /\ Kernel(mem) /\ Dir(v) \in HeapDirs /\ mem[Directory][Dir(v)] # Zero
  <2>1. Directory \in Frame
    BY Positions
  <2> QED BY <1>2, <2>1, Words DEF Heap, Tables
<1>5. \A x \in Frame : x # Table(mem, Dir(v)) => mem'[x] = mem[x]
  BY <1>1, <1>2, <1>4, Stores
<1>6. maps[k] # Table(mem, Dir(v)) /\ maps[k] \in Frame
  BY <1>2, <1>3, Positions DEF Heap, Apart
<1> QED
  BY <1>5, <1>6 DEF Alone

LEMMA FillAlone ==
  ASSUME IInv, Clean, NEW j \in 1 .. Top, NEW w \in Data, Fill(j, w), NEW k \in 1 .. Top
  PROVE  Alone(k)
<1>1. CASE j = k
  BY <1>1 DEF Alone
<1>2. CASE j # k
  <2>1. phase = "run"
    BY DEF Fill
  <2>2. /\ Reach(HeapPage(j)) = {maps[j]} /\ maps[j] # NoFrame /\ maps[j] \in Upper
        /\ Heap(mem, maps, free) /\ j \in 1 .. Len(maps)
        /\ mem \in [Frame -> [Index -> Word]]
    BY <2>1, UserPage
  <2>3. maps[k] \in Upper /\ k \in 1 .. Len(maps)
    BY <2>1, UserPage
  <2>4. mem' = [mem EXCEPT ![maps[j]] = [e \in Index |-> w]]
    BY <2>2 DEF Fill
  <2>5. maps[k] # maps[j]
    BY <1>2, <2>2, <2>3 DEF Heap, Sets
  <2> QED BY <2>2, <2>3, <2>4, <2>5, Positions DEF Alone
<1> QED
  BY <1>1, <1>2

\* What a heap page holds changes only when it is filled, or when vmm_map makes a table
\* whose memset hits its frame (vmm.c:21), while every table was made of a clean frame.
THEOREM IsolationHolds == Spec => ([](dirty = {}) => Isolated)
<1> DEFINE Step == phase = "run" /\ scrubbed = {} =>
                     \A k \in 1 .. Top :
                       mem'[maps[k]] # mem[maps[k]] =>
                         \/ \E w \in Data : Fill(k, w)
                         \/ \E i \in Index : NewDir(i) /\ maps[k] \in {i, i + 1}
<1>1. IInv /\ dirty = {} /\ [Next]_vars => [Step]_vars
  <2> SUFFICES ASSUME IInv, dirty = {}, [Next]_vars, phase = "run", scrubbed = {},
                      NEW k \in 1 .. Top
               PROVE  Alone(k)
    BY DEF Alone
  <2>1. Clean
    BY DEF Clean
  <2>2. CASE InitVmm
    BY <2>2 DEF InitVmm
  <2>3. CASE Grow
    BY <2>1, <2>3, GrowAlone
  <2>4. CASE OutOfMemory
    BY <2>4 DEF OutOfMemory, Alone
  <2>5. CASE Shrink
    BY <2>1, <2>5, ShrinkAlone
  <2>6. CASE \E j \in 1 .. Top, w \in Data : Fill(j, w)
    BY <2>1, <2>6, FillAlone
  <2>7. CASE UNCHANGED vars
    BY <2>7 DEF vars, Alone
  <2> QED BY <2>2, <2>3, <2>4, <2>5, <2>6, <2>7 DEF Next
<1>2. Isolated <=> [][Step]_vars
  BY DEF Isolated
<1> HIDE DEF Step
<1> QED
  BY <1>1, <1>2, Invariant, PTL DEF Spec
=============================================================================
