--------------------------- MODULE KeyboardProofs ---------------------------
(***************************************************************************)
(* Proofs about Keyboard, for every size of the ring, number of keys and   *)
(* set of control keys: its type invariant, and InOrder, Accounted and     *)
(* RightMap.                                                               *)
(***************************************************************************)
EXTENDS Keyboard, TLAPS

\* Where start_kernel is once init_keyboard is over.
Loop == {"test", "take", "fetch", "load", "store", "print"}

Types ==
  /\ TypeOK
  /\ irq => port # None
  /\ port.key = "char" => typed >= 1

\* What the boot code has done, and how far the handler can go meanwhile.
Booting ==
  /\ pc \notin Loop => kb_buf_start = 0 /\ printed = Junk /\ c = Junk
  /\ pc \in {"cli", "cmdline", "init"} => ~installed /\ kb_buf_end = 0
  /\ pc = "layout" \/ layout => installed
  /\ pc \in {"cli", "cmdline", "init", "layout"} => ~layout
  /\ pc \in {"start", "end"} => layout
  /\ pc \in Loop => layout \/ ~installed
-----------------------------------------------------------------------------
LEMMA Constants == Size \in Nat /\ Size > 1 /\ MaxKeys \in Nat /\ MaxStart \in Nat
                   /\ MaxStart >= Size /\ Control \subseteq Momentary \union Locking
BY KeyboardAssumption

\* Positions in the ring, one and two laps from where they are counted.
LEMMA Lap ==
  /\ \A i \in Nat : i < Size => i % Size = i
  /\ \A i \in Nat : Size <= i /\ i < 2 * Size => i % Size = i - Size
<1>1. Size \in Nat /\ Size > 1
  BY Constants
<1>2. \A i \in Nat : i < Size => i % Size = i
  BY <1>1
<1>3. ASSUME NEW i \in Nat, Size <= i, i < 2 * Size PROVE i % Size = i - Size
  <2>1. i % Size \in 0 .. Size - 1 /\ i \div Size \in Nat /\ i = Size * (i \div Size) + (i % Size)
    BY <1>1
  <2>2. i \div Size = 1
    <3>1. i \div Size # 0
      BY <1>1, <1>3, <2>1
    <3>2. ~(i \div Size >= 2)
      <4>1. \A q \in Nat : q >= 2 => Size * q >= 2 * Size
        BY <1>1
      <4> QED BY <1>1, <1>3, <2>1, <4>1
    <3> QED BY <2>1, <3>1, <3>2
  <2> QED BY <1>1, <2>1, <2>2
<1> QED BY <1>2, <1>3

LEMMA Turn ==
  ASSUME NEW i \in 0 .. Size - 1
  PROVE  /\ After(i) = IF i = Size - 1 THEN 0 ELSE i + 1
         /\ After(i) \in 0 .. Size - 1 /\ Masked(i) = i
<1>1. After(i) = IF i = Size - 1 THEN 0 ELSE i + 1
  BY Lap, Constants DEF After
<1>2. Masked(i) = i
  BY Lap, Constants DEF Masked
<1> QED BY <1>1, <1>2, Constants

LEMMA Codes ==
  /\ None.key = "none" /\ None \notin Code
  /\ "char" \notin Control /\ "none" \notin Control
  /\ \A p \in Code : p.key \in Control \union {"char"} /\ p.released \in BOOLEAN
  /\ Junk \in Char /\ Junk.key = 0 /\ \A x \in Char : x.key \in Nat
BY Constants DEF None, Code, Momentary, Locking, Junk, Char

-----------------------------------------------------------------------------
(***************************************************************************)
(* Types and boot.                                                         *)
(***************************************************************************)
LEMMA InitTypes == Init => Types /\ Booting
<1> SUFFICES ASSUME Init PROVE Types /\ Booting
  OBVIOUS
<1>1. Booting
  BY DEF Init, Booting, Loop
<1>2. kb_buf \in [0 .. Size - 1 -> Char] /\ c \in Char /\ printed \in Char
  BY Codes DEF Init
<1>3. /\ kb_buf_start \in 0 .. MaxStart /\ kb_buf_end \in 0 .. Size - 1
      /\ index \in 0 .. MaxStart - 1 /\ end \in 0 .. Size - 1 /\ typed \in 0 .. MaxKeys
  BY Constants DEF Init
<1>4. port = None /\ port.key # "char" /\ irq = FALSE
  BY Codes DEF Init
<1> QED BY <1>1, <1>2, <1>3, <1>4 DEF Init, Types, TypeOK

LEMMA KeyTypes ==
  ASSUME Types, Booting, Keys
  PROVE  Types' /\ Booting'
<1> USE DEF Types, TypeOK
<1>1. Booting'
  <2>1. UNCHANGED <<pc, dis_kb, installed, layout, kb_buf_start, kb_buf_end, c, printed>>
    BY DEF Keys, PressChar, PressControl, ReleaseControl, RepeatControl, boot, ring, regs
  <2> QED BY <2>1 DEF Booting
<1>2. CASE PressChar
  <2>1. /\ typed' = typed + 1 /\ want' = Shifts(held) /\ irq' = TRUE
        /\ port' = [key |-> "char", released |-> FALSE] /\ typed < MaxKeys
        /\ UNCHANGED <<pc, dis_kb, installed, layout, kb_buf, kb_buf_start, kb_buf_end, controls,
                       index, c, end, held, printed, upset>>
    BY <1>2 DEF PressChar, Send, boot, ring, regs
  <2>2. port' \in Code /\ port' # None /\ port'.key = "char"
    BY <2>1 DEF Code, None
  <2>3. typed' \in 0 .. MaxKeys /\ typed' >= 1
    BY <2>1, Constants
  <2>4. want' \in BOOLEAN
    BY <2>1 DEF Shifts
  <2> QED BY <1>1, <2>1, <2>2, <2>3, <2>4
<1>3. CASE \E k \in Control : PressControl(k) \/ ReleaseControl(k) \/ RepeatControl(k)
  <2>1. PICK k \in Control : PressControl(k) \/ ReleaseControl(k) \/ RepeatControl(k)
    BY <1>3
  <2>2. \E r \in BOOLEAN : port' = [key |-> k, released |-> r] /\ irq' = TRUE
    BY <2>1 DEF PressControl, ReleaseControl, RepeatControl, Send
  <2>3. port' \in Code /\ port' # None /\ port'.key # "char"
    BY <2>2, Codes DEF Code
  <2>4. held' \subseteq Control
    BY <2>1 DEF PressControl, ReleaseControl, RepeatControl
  <2> QED BY <1>1, <2>1, <2>2, <2>3, <2>4 DEF PressControl, ReleaseControl, RepeatControl, Send,
            boot, ring, regs
<1> QED BY <1>2, <1>3 DEF Keys

LEMMA IrqTypes ==
  ASSUME Types, Booting, Irq1
  PROVE  Types' /\ Booting'
<1> USE DEF Types, TypeOK
<1>1. /\ irq' = FALSE /\ irq /\ pc # "cli" /\ port \in Code
      /\ UNCHANGED <<pc, dis_kb, installed, layout, index, c, end, held, typed, want, printed>>
  BY DEF Irq1, boot, regs
<1>2. After(kb_buf_end) \in 0 .. Size - 1
  BY Turn
<1>3. CASE ~installed
  BY <1>1, <1>3 DEF Irq1, ring, Booting, Loop
<1>4. CASE installed
  <2>1. port' = None /\ KeyboardHandler
    BY <1>4 DEF Irq1, KeyboardHandler
  <2>2. CASE ~layout
    BY <1>1, <1>2, <1>4, <2>1, <2>2, Codes, ZenonT(30)
    DEF KeyboardHandler, HandleBlind, ring, Booting, Loop
  <2>3. CASE layout /\ port.key = "char"
    <3>1. Typed \in Char
      BY <2>3 DEF Typed, Char, Shifts
    <3> QED BY <1>1, <1>2, <1>4, <2>1, <2>3, <3>1, Codes, ZenonT(30)
        DEF KeyboardHandler, Push, ring, Booting, Loop
  <2>4. CASE layout /\ port.key # "char"
    <3>1. port.key \in Control
      BY <1>1, <2>4, Codes
    <3> QED BY <1>1, <1>4, <2>1, <2>4, <3>1, Codes DEF KeyboardHandler, HandleControl, Booting, Loop
  <2> QED BY <2>2, <2>3, <2>4
<1> QED BY <1>3, <1>4

LEMMA BootTypes ==
  ASSUME Types, Booting, Boot
  PROVE  Types' /\ Booting'
<1>1. Booting'
  <2> USE DEF Goto, boot, ring, regs, keys, Booting, Loop
  <2>1. CASE Sti
    BY <2>1 DEF Sti
  <2>2. CASE \E cmdline \in {"dis_kb", "dis_tarfs", ""} : cmdline_parse(cmdline)
    <3>1. /\ pc = "cmdline" /\ pc' = "init"
          /\ UNCHANGED <<installed, layout, kb_buf_start, kb_buf_end, c, printed>>
      BY <2>2 DEF cmdline_parse
    <3> QED BY <3>1
  <2>3. CASE Disabled
    BY <2>3 DEF Disabled
  <2>4. CASE InstallHandler
    BY <2>4 DEF InstallHandler
  <2>5. CASE SetLayout
    <3>1. /\ pc = "layout" /\ pc' = "start" /\ layout' = TRUE
          /\ UNCHANGED <<installed, kb_buf_start, kb_buf_end, c, printed>>
      BY <2>5 DEF SetLayout
    <3> QED BY <3>1
  <2>6. CASE ClearStart
    BY <2>6 DEF ClearStart
  <2>7. CASE ClearEnd
    BY <2>7 DEF ClearEnd
  <2> QED BY <2>1, <2>2, <2>3, <2>4, <2>5, <2>6, <2>7 DEF Boot
<1>2. /\ pc' \in {"cmdline", "init", "layout", "start", "end", "test"}
      /\ dis_kb' \in BOOLEAN /\ installed' \in BOOLEAN /\ layout' \in BOOLEAN
      /\ kb_buf_start' \in {0, kb_buf_start} /\ kb_buf_end' \in {0, kb_buf_end}
      /\ upset' \subseteq upset \union {"init"}
      /\ UNCHANGED <<kb_buf, controls, index, c, end, port, irq, held, typed, want, printed>>
  BY DEF Boot, Sti, cmdline_parse, Disabled, InstallHandler, SetLayout, ClearStart, ClearEnd,
     Cleared, Goto, boot, ring, regs, keys, Types, TypeOK
<1>3. kb_buf_start' \in 0 .. MaxStart /\ kb_buf_end' \in 0 .. Size - 1
  BY <1>2, Constants DEF Types, TypeOK
<1> QED BY <1>1, <1>2, <1>3 DEF Types, TypeOK

LEMMA IdleTypes ==
  ASSUME Types, Booting, Idle
  PROVE  Types' /\ Booting'
<1> USE DEF Types, TypeOK
<1>1. Booting'
  BY DEF Idle, Test, Take, Fetch, Load, StoreEnd, Putc, Goto, boot, ring, regs, keys, Booting, Loop
<1>2. CASE Fetch
  <2>1. Fetched(index) \in Char
    <3>1. index < Size => kb_buf[index] \in Char
      BY Constants
    <3> QED BY <3>1, Codes DEF Fetched
  <2> QED BY <1>1, <1>2, <2>1 DEF Fetch, Goto, boot, ring, keys
<1>3. CASE StoreEnd
  BY <1>1, <1>3, Turn DEF StoreEnd, Goto, boot, regs, keys
<1>4. CASE Take
  BY <1>1, <1>4, Constants DEF Take, Goto, Advance, boot, keys
<1>5. CASE Test \/ Load \/ Putc
  <2>1. CASE Test
    BY <1>1, <2>1 DEF Test, Goto, boot, ring, regs, keys
  <2>2. CASE Load
    BY <1>1, <2>2 DEF Load, Goto, boot, ring, keys
  <2>3. CASE Putc
    BY <1>1, <2>3 DEF Putc, Goto, boot, ring, regs, keys
  <2> QED BY <1>5, <2>1, <2>2, <2>3
<1> QED BY <1>2, <1>3, <1>4, <1>5 DEF Idle

LEMMA StepTypes ==
  ASSUME Types, Booting, [Next]_vars
  PROVE  Types' /\ Booting'
<1>1. CASE UNCHANGED vars
  BY <1>1 DEF vars, boot, ring, regs, keys, Types, TypeOK, Booting
<1> QED BY <1>1, KeyTypes, IrqTypes, BootTypes, IdleTypes DEF Next
-----------------------------------------------------------------------------
(***************************************************************************)
(* The control keys the driver takes to be down.                           *)
(***************************************************************************)
\* What they are once the code in the port is handled.
Pending ==
  IF port.key \notin Control THEN controls
    ELSE IF port.released
           THEN IF port.key \in Momentary THEN controls \ {port.key} ELSE controls
           ELSE IF port.key \in controls THEN controls \ {port.key}
                ELSE controls \union {port.key}

\* They are the keys that are held, unless a code is stuck in the port, repeated or
\* handled before the layout is set.
Agree ==
  upset \intersect {"repeat", "init"} = {} /\ (irq \/ port = None) =>
    /\ Pending = held
    /\ port.key = "char" => want = Shifts(held)

LEMMA AgreeKept ==
  ASSUME Agree, UNCHANGED <<controls, port, irq, held, want>>, upset \subseteq upset'
  PROVE  Agree'
BY DEF Agree, Pending

LEMMA KeysAgree ==
  ASSUME Types, Agree, Keys
  PROVE  Agree'
<1>1. ASSUME upset' \intersect {"repeat", "init"} = {}
      PROVE  upset' = upset /\ controls' = controls /\ port = None /\ controls = held
  <2>1. upset \subseteq upset' /\ controls' = controls /\ port = None
    BY DEF Keys, PressChar, PressControl, ReleaseControl, RepeatControl, ring
  <2>2. upset \intersect {"repeat", "init"} = {}
    BY <1>1, <2>1
  <2>3. upset' = upset
    BY <1>1 DEF Keys, PressChar, PressControl, ReleaseControl, RepeatControl
  <2>4. controls = held
    BY <2>1, <2>2, Codes DEF Agree, Pending
  <2> QED BY <2>1, <2>3, <2>4
<1>2. CASE PressChar
  <2>1. port'.key = "char" /\ want' = Shifts(held) /\ held' = held
    BY <1>2 DEF PressChar, Send
  <2> QED BY <1>1, <2>1, Codes DEF Agree, Pending
<1>3. ASSUME NEW k \in Control, PressControl(k)
      PROVE  Agree'
  <2>1. /\ port'.key = k /\ ~port'.released
        /\ held' = IF k \in held THEN held \ {k} ELSE held \union {k}
    BY <1>3 DEF PressControl, Send
  <2> QED BY <1>1, <2>1, Codes DEF Agree, Pending
<1>4. ASSUME NEW k \in Control, ReleaseControl(k)
      PROVE  Agree'
  <2>1. port'.key = k /\ port'.released /\ held' = held \ {k} /\ k \in Momentary
    BY <1>4 DEF ReleaseControl, Send
  <2> QED BY <1>1, <2>1, Codes DEF Agree, Pending
<1>5. ASSUME NEW k \in Control, RepeatControl(k)
      PROVE  Agree'
  BY <1>5 DEF RepeatControl, Agree
<1> QED BY <1>2, <1>3, <1>4, <1>5 DEF Keys

LEMMA IrqAgrees ==
  ASSUME Types, Agree, Irq1
  PROVE  Agree'
<1>1. irq /\ irq' = FALSE /\ port \in Code /\ port # None /\ held' = held /\ want' = want
  BY DEF Irq1, Types, TypeOK
<1>2. CASE ~installed
  BY <1>1, <1>2 DEF Irq1, Agree
<1>3. CASE installed
  <2>1. port' = None /\ KeyboardHandler
    BY <1>3 DEF Irq1, KeyboardHandler
  <2>2. port'.key \notin Control /\ port'.key # "char"
    BY <2>1, Codes
  <2>3. CASE ~layout
    BY <2>1, <2>3 DEF KeyboardHandler, HandleBlind, Agree
  <2>4. CASE layout /\ port.key = "char"
    <3>1. controls' = controls /\ upset \subseteq upset'
      BY <2>1, <2>4 DEF KeyboardHandler, Push, ring
    <3> QED BY <1>1, <2>2, <2>4, <3>1, Codes DEF Agree, Pending
  <2>5. CASE layout /\ port.key # "char"
    <3>1. port.key \in Control
      BY <1>1, <2>5, Codes
    <3>2. controls' = Pending /\ upset' = upset
      BY <2>1, <2>5, <3>1 DEF KeyboardHandler, HandleControl, Pending
    <3> QED BY <1>1, <2>2, <3>2 DEF Agree, Pending
  <2> QED BY <2>3, <2>4, <2>5
<1> QED BY <1>2, <1>3

LEMMA StepAgrees ==
  ASSUME Types, Agree, [Next]_vars
  PROVE  Agree'
<1>1. CASE Boot
  BY <1>1, AgreeKept DEF Boot, Sti, cmdline_parse, Disabled, InstallHandler, SetLayout, ClearStart,
     ClearEnd, Cleared, ring, keys
<1>2. CASE Idle
  BY <1>2, AgreeKept DEF Idle, Test, Take, Fetch, Load, StoreEnd, Putc, ring, keys
<1>3. CASE UNCHANGED vars
  BY <1>3, AgreeKept DEF vars, ring, keys
<1> QED BY <1>1, <1>2, <1>3, KeysAgree, IrqAgrees DEF Next
-----------------------------------------------------------------------------
(***************************************************************************)
(* The order of the characters on the first lap.                           *)
(***************************************************************************)
Bounds == /\ \A i \in 0 .. Size - 1 : kb_buf[i].key <= Handled
          /\ c.key <= Handled /\ printed.key <= Handled

\* Where the characters behind kb_buf_start end if kb_buf_end is e: an e that is not
\* behind it has wrapped.
Top(e) == IF kb_buf_start < e \/ (kb_buf_start = e /\ pc # "take") THEN e ELSE Size

\* They are younger than the one in hand and each than the one before it.
Rising(t) == \A i \in kb_buf_start .. t - 1 :
               kb_buf[i].key > IF i = kb_buf_start THEN InHand ELSE kb_buf[i - 1].key

\* The handler has moved kb_buf_end on from what `kb_buf_end &= 255' has loaded.
Ahead == IF end >= kb_buf_start THEN kb_buf_end >= end \/ kb_buf_end < kb_buf_start
         ELSE end <= kb_buf_end /\ kb_buf_end < kb_buf_start

Order == FirstLap /\ pc \in Loop =>
  /\ pc \notin {"test", "take"} => InHand > printed.key /\ kb_buf_start >= 1
  /\ pc = "fetch" => index = kb_buf_start - 1
  /\ Rising(Top(kb_buf_end))
  /\ pc = "store" => Rising(Top(end)) /\ Ahead

LEMMA Numbers ==
  ASSUME Types
  PROVE  /\ kb_buf_start \in Nat /\ kb_buf_end \in Nat /\ kb_buf_end < Size
         /\ end \in Nat /\ end < Size /\ index \in Nat /\ typed \in Nat /\ Handled \in Nat
         /\ c.key \in Nat /\ printed.key \in Nat
         /\ kb_buf \in [0 .. Size - 1 -> Char]
         /\ \A i \in 0 .. Size - 1 : kb_buf[i].key \in Nat
<1>1. \A i \in 0 .. Size - 1 : kb_buf[i].key \in Nat
  <2>1. \A i \in 0 .. Size - 1 : kb_buf[i] \in Char
    BY DEF Types, TypeOK
  <2> QED BY <2>1, Codes
<1>2. c.key \in Nat /\ printed.key \in Nat
  BY Codes DEF Types, TypeOK
<1>3. typed \in Nat /\ Handled \in Nat
  BY Constants DEF Types, TypeOK, Handled
<1> QED BY <1>1, <1>2, <1>3, Constants DEF Types, TypeOK

LEMMA OrderKept ==
  ASSUME Bounds, Order, Handled' = Handled,
         UNCHANGED <<pc, kb_buf, kb_buf_start, kb_buf_end, index, c, end, printed>>
  PROVE  Bounds' /\ Order'
<1>1. Bounds'
  BY DEF Bounds
<1>2. InHand' = InHand
  BY DEF InHand
<1> QED BY <1>1, <1>2 DEF Order, FirstLap, Top, Rising, Ahead

LEMMA KeysHandled ==
  ASSUME Types, Keys
  PROVE  Handled' = Handled
<1>1. port.key # "char"
  BY Codes DEF Keys, PressChar, PressControl, ReleaseControl, RepeatControl
<1>2. CASE PressChar
  BY <1>1, <1>2, Numbers DEF PressChar, Send, Handled
<1>3. CASE \E k \in Control : PressControl(k) \/ ReleaseControl(k) \/ RepeatControl(k)
  BY <1>1, <1>3, Codes DEF PressControl, ReleaseControl, RepeatControl, Send, Handled
<1> QED BY <1>2, <1>3 DEF Keys

LEMMA KeysOrder ==
  ASSUME Types, Bounds, Order, Keys
  PROVE  Bounds' /\ Order'
<1>1. UNCHANGED <<pc, kb_buf, kb_buf_start, kb_buf_end, index, c, end, printed>>
  BY DEF Keys, PressChar, PressControl, ReleaseControl, RepeatControl, ring, regs
<1> QED BY <1>1, KeysHandled, OrderKept

\* A character goes into the ring.
LEMMA PushOrder ==
  ASSUME Types, Bounds, Order, ~RingFull, NEW ch, ch.key \in Nat, ch.key > Handled,
         Handled' >= ch.key, Handled' \in Nat,
         kb_buf' = [kb_buf EXCEPT ![kb_buf_end] = ch], kb_buf_end' = After(kb_buf_end),
         UNCHANGED <<pc, kb_buf_start, index, c, end, printed>>
  PROVE  Bounds' /\ Order'
<1> DEFINE s == kb_buf_start
           e == kb_buf_end
<1>1. /\ e \in 0 .. Size - 1 /\ s \in Nat /\ Size \in Nat /\ Size > 1 /\ end \in 0 .. Size - 1
      /\ kb_buf_end' = IF e = Size - 1 THEN 0 ELSE e + 1
  <2>1. e \in 0 .. Size - 1 /\ end \in 0 .. Size - 1
    BY DEF Types, TypeOK
  <2> QED BY <2>1, Numbers, Constants, Turn
<1>2. /\ kb_buf'[e] = ch
      /\ \A i \in 0 .. Size - 1 : i # e => kb_buf'[i] = kb_buf[i]
  BY <1>1, Numbers
<1>3. Bounds'
  <2>1. \A i \in 0 .. Size - 1 : kb_buf'[i].key <= Handled'
    BY <1>2, Numbers DEF Bounds
  <2> QED BY <2>1, Numbers DEF Bounds
<1>4. ASSUME FirstLap, pc \in Loop
      PROVE  /\ pc \notin {"test", "take"} => InHand' > printed.key /\ s >= 1
             /\ pc = "fetch" => index = s - 1
             /\ Rising(Top(kb_buf_end))'
             /\ pc = "store" => Rising(Top(end))' /\ Ahead'
  <2>1. /\ pc \notin {"test", "take"} => InHand > printed.key /\ s >= 1
        /\ pc = "fetch" => index = s - 1
        /\ Rising(Top(e)) /\ s <= Size
        /\ pc = "store" => Rising(Top(end)) /\ Ahead
    BY <1>4 DEF Order, FirstLap
  <2>2. s # 0 => e # s - 1
    BY DEF RingFull
  <2>3. InHand' = InHand /\ InHand \in Nat /\ InHand <= Handled
    <3>1. CASE pc = "fetch"
      <4>1. index \in 0 .. Size - 1 /\ index # e
        BY <1>1, <2>1, <2>2, <3>1
      <4> QED BY <1>2, <3>1, <4>1, Numbers DEF InHand, Bounds
    <3>2. CASE pc # "fetch"
      BY <3>2, Numbers DEF InHand, Bounds
    <3> QED BY <3>1, <3>2
  \* What is in front of the new character stays.
  <2>4. ASSUME NEW o \in Nat, NEW t \in Nat, o <= Size, t <= Size, Rising(o),
               \A i \in s .. t - 1 : i = e \/ (i < o /\ (i = s \/ i - 1 # e))
        PROVE  \A i \in s .. t - 1 :
                 kb_buf'[i].key > IF i = s THEN InHand ELSE kb_buf'[i - 1].key
    <3> SUFFICES ASSUME NEW i \in s .. t - 1
                 PROVE  kb_buf'[i].key > IF i = s THEN InHand ELSE kb_buf'[i - 1].key
      OBVIOUS
    <3>1. i \in 0 .. Size - 1 /\ (i # s => i - 1 \in 0 .. Size - 1)
      BY <1>1, <2>4
    <3>2. CASE i = e
      <4>1. kb_buf'[i].key = ch.key /\ (i # s => kb_buf'[i - 1] = kb_buf[i - 1])
        BY <1>1, <1>2, <3>1, <3>2
      <4>2. i # s => kb_buf[i - 1].key <= Handled /\ kb_buf[i - 1].key \in Nat
        BY <3>1, Numbers DEF Bounds
      <4> QED BY <2>3, <4>1, <4>2, Numbers
    <3>3. CASE i # e
      <4>1. i \in s .. o - 1 /\ kb_buf'[i] = kb_buf[i] /\ (i # s => kb_buf'[i - 1] = kb_buf[i - 1])
        BY <1>1, <1>2, <2>4, <3>1, <3>3
      <4>2. kb_buf[i].key > IF i = s THEN InHand ELSE kb_buf[i - 1].key
        BY <2>4, <4>1 DEF Rising
      <4> QED BY <4>1, <4>2
    <3> QED BY <3>2, <3>3
  <2>5. Top(e) \in Nat /\ Top(e) <= Size /\ Top(kb_buf_end)' \in Nat /\ Top(kb_buf_end)' <= Size
    BY <1>1 DEF Top
  <2>6. \A i \in s .. Top(kb_buf_end)' - 1 : i = e \/ (i < Top(e) /\ (i = s \/ i - 1 # e))
    BY <1>1, <2>1, <2>2 DEF Top
  <2>7. Rising(Top(kb_buf_end))'
    <3>1. \A i \in s .. Top(kb_buf_end)' - 1 :
            kb_buf'[i].key > IF i = s THEN InHand ELSE kb_buf'[i - 1].key
      BY <2>1, <2>4, <2>5, <2>6
    <3> QED BY <2>3, <3>1 DEF Rising
  <2>8. ASSUME pc = "store" PROVE Rising(Top(end))' /\ Ahead'
    <3>1. /\ Rising(Top(end)) /\ Ahead /\ s >= 1 /\ s <= Size /\ e # s - 1
      BY <2>1, <2>2, <2>8
    <3>2. Top(end)' = Top(end) /\ Top(end) \in Nat /\ Top(end) <= Size
      BY <1>1 DEF Top
    <3>3. \A i \in s .. Top(end) - 1 : i = e \/ (i < Top(end) /\ (i = s \/ i - 1 # e))
      BY <1>1, <2>8, <3>1 DEF Top, Ahead
    <3>4. \A i \in s .. Top(end) - 1 :
            kb_buf'[i].key > IF i = s THEN InHand ELSE kb_buf'[i - 1].key
      BY <2>4, <3>1, <3>2, <3>3
    <3>5. Ahead'
      BY <1>1, <3>1 DEF Ahead
    <3> QED BY <2>3, <3>2, <3>4, <3>5 DEF Rising
  <2> QED BY <2>1, <2>3, <2>7, <2>8
<1> QED BY <1>3, <1>4 DEF Order, FirstLap

LEMMA IrqOrder ==
  ASSUME Types, Types', Booting, Bounds, Order, Irq1
  PROVE  Bounds' /\ Order'
<1>1. /\ port \in Code /\ UNCHANGED <<pc, index, c, end, typed, printed>>
  BY DEF Irq1, Types, TypeOK, regs
<1>2. CASE ~installed
  BY <1>1, <1>2, OrderKept DEF Irq1, ring, Handled
<1>3. CASE installed
  <2>1. port' = None /\ KeyboardHandler /\ Handled' = typed /\ typed \in Nat
    <3>1. port' = None /\ KeyboardHandler
      BY <1>3 DEF Irq1, KeyboardHandler
    <3>2. Handled' = typed
      BY <1>1, <3>1, Codes DEF Handled
    <3> QED BY <3>1, <3>2, Numbers
  <2>2. CASE ~layout
    <3>1. pc \notin Loop
      BY <1>3, <2>2 DEF Booting
    <3>2. Handled <= Handled'
      BY <2>1 DEF Handled
    <3>3. kb_buf' = kb_buf \/ kb_buf' = [kb_buf EXCEPT ![kb_buf_end] = Junk]
      BY <2>1, <2>2 DEF KeyboardHandler, HandleBlind, ring
    <3>4. \A i \in 0 .. Size - 1 : kb_buf'[i].key <= Handled'
      <4> SUFFICES ASSUME NEW i \in 0 .. Size - 1 PROVE kb_buf'[i].key <= Handled'
        OBVIOUS
      <4>1. kb_buf'[i] = kb_buf[i] \/ kb_buf'[i] = Junk
        BY <3>3, Numbers
      <4>2. kb_buf[i].key <= Handled
        BY DEF Bounds
      <4> QED BY <2>1, <3>2, <4>1, <4>2, Numbers, Codes
    <3>5. c.key <= Handled' /\ printed.key <= Handled'
      BY <2>1, <3>2, Numbers DEF Bounds
    <3> QED BY <1>1, <3>1, <3>4, <3>5 DEF Bounds, Order
  <2>3. CASE layout /\ port.key = "char"
    <3>1. typed = Handled + 1 /\ Typed.key = typed
      BY <2>1, <2>3 DEF Handled, Typed
    <3>2. CASE RingFull
      <4>1. UNCHANGED <<kb_buf, kb_buf_start, kb_buf_end>>
        BY <2>1, <2>3, <3>2 DEF KeyboardHandler, Push, ring
      <4>2. Handled <= Handled'
        BY <2>1, <3>1, Numbers
      <4>3. Bounds'
        BY <1>1, <2>1, <4>1, <4>2, Numbers DEF Bounds
      <4>4. InHand' = InHand
        BY <1>1, <4>1 DEF InHand
      <4> QED BY <1>1, <4>1, <4>3, <4>4 DEF Order, FirstLap, Top, Rising, Ahead
    <3>3. CASE ~RingFull
      <4>1. /\ kb_buf' = [kb_buf EXCEPT ![kb_buf_end] = Typed] /\ kb_buf_end' = After(kb_buf_end)
            /\ kb_buf_start' = kb_buf_start
        BY <2>1, <2>3, <3>3 DEF KeyboardHandler, Push
      <4>2. Typed.key \in Nat /\ Typed.key > Handled /\ Handled' >= Typed.key /\ Handled' \in Nat
        BY <2>1, <3>1, Numbers
      <4> QED BY <1>1, <3>3, <4>1, <4>2, PushOrder
    <3> QED BY <3>2, <3>3
  <2>4. CASE layout /\ port.key # "char"
    <3>1. UNCHANGED <<kb_buf, kb_buf_start, kb_buf_end>>
      BY <2>1, <2>4 DEF KeyboardHandler, HandleControl
    <3>2. Handled' = Handled
      BY <2>1, <2>4 DEF Handled
    <3> QED BY <1>1, <3>1, <3>2, OrderKept
  <2> QED BY <2>2, <2>3, <2>4
<1> QED BY <1>2, <1>3

LEMMA BootOrder ==
  ASSUME Types, Booting, Bounds, Order, Boot
  PROVE  Bounds' /\ Order'
<1>1. UNCHANGED <<kb_buf, c, printed, typed, port>>
  BY DEF Boot, Sti, cmdline_parse, Disabled, InstallHandler, SetLayout, ClearStart, ClearEnd,
     ring, regs, keys
<1>2. Bounds'
  BY <1>1 DEF Bounds, Handled
<1>3. ASSUME pc' \in Loop
      PROVE  pc' = "test" /\ kb_buf_start' = 0 /\ kb_buf_end' = 0
  BY <1>3 DEF Boot, Sti, cmdline_parse, Disabled, InstallHandler, SetLayout, ClearStart, ClearEnd,
     Goto, Loop, ring, Booting
<1>4. Order'
  BY <1>3, Constants DEF Order, Top, Rising, Loop
<1> QED BY <1>2, <1>4

LEMMA IdleOrder ==
  ASSUME Types, Booting, Bounds, Order, Idle
  PROVE  Bounds' /\ Order'
<1> DEFINE s == kb_buf_start
<1>1. /\ pc \in Loop /\ pc' \in Loop /\ UNCHANGED <<kb_buf, typed, port>>
      /\ s' = s \/ s' = s + 1
  BY DEF Idle, Test, Take, Fetch, Load, StoreEnd, Putc, Goto, ring, keys, Loop, Advance
<1>2. Handled' = Handled
  BY <1>1 DEF Handled
<1>3. Bounds'
  <2>1. c' = c \/ (\E i \in 0 .. Size - 1 : c' = kb_buf[i]) \/ c' = Junk
    <3>1. CASE Fetch
      <4>1. index < Size => index \in 0 .. Size - 1
        BY Numbers, Constants
      <4> QED BY <3>1, <4>1 DEF Fetch, Fetched
    <3>2. CASE ~Fetch
      BY <3>2 DEF Idle, Test, Take, Load, StoreEnd, Putc, regs
    <3> QED BY <3>1, <3>2
  <2>2. c'.key <= Handled
    BY <2>1, Numbers, Codes DEF Bounds
  <2>3. printed' = printed \/ printed' = c
    BY DEF Idle, Test, Take, Fetch, Load, StoreEnd, Putc
  <2> QED BY <1>1, <1>2, <2>2, <2>3 DEF Bounds
<1>4. FirstLap' => FirstLap
  BY <1>1, Numbers, Constants DEF FirstLap
<1>5. ASSUME FirstLap'
      PROVE  /\ pc' \notin {"test", "take"} => InHand' > printed'.key /\ s' >= 1
             /\ pc' = "fetch" => index' = s' - 1
             /\ Rising(Top(kb_buf_end))'
             /\ pc' = "store" => Rising(Top(end))' /\ Ahead'
  <2>1. /\ pc \notin {"test", "take"} => InHand > printed.key /\ s >= 1
        /\ pc = "fetch" => index = s - 1
        /\ Rising(Top(kb_buf_end)) /\ s <= Size
        /\ pc = "store" => Rising(Top(end)) /\ Ahead
    BY <1>1, <1>4, <1>5 DEF Order, FirstLap
  <2>2. CASE Test
    <3>1. /\ pc = "test" /\ pc' = "take" /\ s # kb_buf_end
          /\ UNCHANGED <<kb_buf_start, kb_buf_end, index, c, end, printed>>
      BY <2>2 DEF Test, Goto, ring, regs
    <3>2. InHand' = InHand /\ Top(kb_buf_end)' = Top(kb_buf_end)
      BY <3>1 DEF InHand, Top
    <3> QED BY <1>1, <2>1, <3>1, <3>2 DEF Rising
  <2>3. CASE Take
    <3>1. /\ pc = "take" /\ pc' = "fetch" /\ index' = s /\ s' = s + 1
          /\ UNCHANGED <<kb_buf_end, c, end, printed>>
      BY <2>3 DEF Take, Goto, Advance
    <3>2. s \in 0 .. Size - 1 /\ kb_buf_end \in 0 .. Size - 1
      BY <1>5, <3>1, Numbers, Constants DEF FirstLap
    <3>3. /\ s < Top(kb_buf_end) /\ Top(kb_buf_end)' = Top(kb_buf_end)
          /\ Top(kb_buf_end) \in Nat
      BY <3>1, <3>2, Constants DEF Top
    <3>4. InHand' = kb_buf[s].key /\ InHand = printed.key
      BY <1>1, <3>1 DEF InHand
    <3>5. InHand' > printed'.key
      BY <2>1, <3>1, <3>2, <3>3, <3>4 DEF Rising
    <3>6. Rising(Top(kb_buf_end))'
      <4>1. \A i \in s + 1 .. Top(kb_buf_end) - 1 :
              kb_buf[i].key > IF i = s + 1 THEN kb_buf[s].key ELSE kb_buf[i - 1].key
        <5> SUFFICES ASSUME NEW i \in s + 1 .. Top(kb_buf_end) - 1
                     PROVE  kb_buf[i].key > IF i = s + 1 THEN kb_buf[s].key ELSE kb_buf[i - 1].key
          OBVIOUS
        <5>1. i \in s .. Top(kb_buf_end) - 1 /\ i # s /\ (i = s + 1 => i - 1 = s)
          BY <3>2, <3>3
        <5>2. kb_buf[i].key > kb_buf[i - 1].key
          BY <2>1, <5>1 DEF Rising
        <5> QED BY <5>1, <5>2
      <4> QED BY <1>1, <3>1, <3>3, <3>4, <4>1 DEF Rising
    <3> QED BY <3>1, <3>2, <3>5, <3>6
  <2>4. CASE Fetch
    <3>1. /\ pc = "fetch" /\ pc' = "load" /\ c' = Fetched(index)
          /\ UNCHANGED <<kb_buf_start, kb_buf_end, index, end, printed>>
      BY <2>4 DEF Fetch, Goto, ring
    <3>2. c' = kb_buf[index]
      BY <2>1, <3>1, Numbers, Constants DEF Fetched
    <3>3. InHand' = InHand /\ Top(kb_buf_end)' = Top(kb_buf_end)
      BY <3>1, <3>2 DEF InHand, Top
    <3> QED BY <1>1, <2>1, <3>1, <3>3 DEF Rising
  <2>5. CASE Load
    <3>1. /\ pc = "load" /\ pc' = "store" /\ end' = kb_buf_end
          /\ UNCHANGED <<kb_buf_start, kb_buf_end, index, c, printed>>
      BY <2>5 DEF Load, Goto, ring
    <3>2. /\ InHand' = InHand /\ Top(kb_buf_end)' = Top(kb_buf_end)
          /\ Top(end)' = Top(kb_buf_end)
      BY <3>1 DEF InHand, Top
    <3>3. Ahead'
      BY <3>1, Numbers DEF Ahead
    <3> QED BY <1>1, <2>1, <3>1, <3>2, <3>3 DEF Rising
  <2>6. CASE StoreEnd
    <3>1. /\ pc = "store" /\ pc' = "print" /\ kb_buf_end' = Masked(end)
          /\ UNCHANGED <<kb_buf_start, index, c, end, printed>>
      BY <2>6 DEF StoreEnd, Goto, regs
    <3>2. Masked(end) = end
      BY Turn DEF Types, TypeOK
    <3>3. InHand' = InHand /\ Top(kb_buf_end)' = Top(end)
      BY <3>1, <3>2 DEF InHand, Top
    <3> QED BY <1>1, <2>1, <3>1, <3>3 DEF Rising
  <2>7. CASE Putc
    <3>1. /\ pc = "print" /\ pc' = "test" /\ printed' = c
          /\ UNCHANGED <<kb_buf_start, kb_buf_end, index, c, end>>
      BY <2>7 DEF Putc, Goto, ring, regs
    <3>2. InHand' = InHand /\ Top(kb_buf_end)' = Top(kb_buf_end)
      BY <3>1 DEF InHand, Top
    <3> QED BY <1>1, <2>1, <3>1, <3>2 DEF Rising
  <2> QED BY <2>2, <2>3, <2>4, <2>5, <2>6, <2>7 DEF Idle
<1> QED BY <1>3, <1>5 DEF Order

LEMMA StepOrder ==
  ASSUME Types, Booting, Bounds, Order, [Next]_vars
  PROVE  Bounds' /\ Order'
<1>1. Types'
  BY StepTypes
<1>2. CASE UNCHANGED vars
  BY <1>2, OrderKept DEF vars, ring, regs, keys, Handled
<1> QED BY <1>1, <1>2, KeysOrder, IrqOrder, BootOrder, IdleOrder DEF Next
-----------------------------------------------------------------------------
(***************************************************************************)
(* Where every character is while nothing has come between.                *)
(***************************************************************************)
\* Where the i-th character that waits is.
Place(i) == (kb_buf_start + i) % Size

Waiting == /\ InHand = Handled - Queued
           /\ \A i \in 0 .. Queued - 1 : kb_buf[Place(i)].key = Handled - Queued + 1 + i

\* The ring is not empty when keyboard_getchar takes from it.
Account == FirstLap /\ upset \subseteq {"repeat"} =>
             Waiting /\ (pc = "take" => kb_buf_start # kb_buf_end)

LEMMA Count ==
  ASSUME NEW s \in 0 .. Size, NEW e \in 0 .. Size - 1
  PROVE  /\ (e + Size - (s % Size)) % Size =
              IF s = Size THEN e ELSE IF s <= e THEN e - s ELSE e + Size - s
         /\ (e + Size - (s % Size)) % Size \in 0 .. Size - 1
         /\ \A i \in 0 .. Size - 1 :
              (s + i) % Size = IF s + i < Size THEN s + i ELSE s + i - Size
<1> DEFINE n == e + Size - (s % Size)
<1>1. Size \in Nat /\ Size > 1
  BY Constants
<1>2. s % Size = IF s = Size THEN 0 ELSE s
  BY <1>1, Lap
<1>3. n % Size = IF s = Size THEN e ELSE IF s <= e THEN e - s ELSE e + Size - s
  <2>1. CASE s = Size \/ s <= e
    <3>1. n \in Nat /\ Size <= n /\ n < 2 * Size
      BY <1>1, <1>2, <2>1
    <3>2. n % Size = n - Size
      BY <3>1, Lap
    <3> QED BY <1>1, <1>2, <2>1, <3>2
  <2>2. CASE s # Size /\ s > e
    <3>1. n \in Nat /\ n < Size
      BY <1>1, <1>2, <2>2
    <3>2. n % Size = n
      BY <3>1, Lap
    <3> QED BY <1>1, <1>2, <2>2, <3>2
  <2> QED BY <1>1, <2>1, <2>2
<1>4. ASSUME NEW i \in 0 .. Size - 1
      PROVE  (s + i) % Size = IF s + i < Size THEN s + i ELSE s + i - Size
  <2>1. s + i \in Nat /\ s + i < 2 * Size
    BY <1>1
  <2> QED BY <1>1, <2>1, Lap
<1>5. n % Size \in 0 .. Size - 1
  BY <1>1, <1>3
<1> QED BY <1>3, <1>4, <1>5

LEMMA AccountKept ==
  ASSUME Account, Handled' = Handled, InHand' = InHand, upset \subseteq upset',
         UNCHANGED <<kb_buf, kb_buf_start, kb_buf_end>>, pc' = pc \/ pc' # "take"
  PROVE  Account'
BY DEF Account, Waiting, FirstLap, Queued, Place

\* A character that neither fills nor wraps the ring is the last that waits.
LEMMA PushAccount ==
  ASSUME Types, Types', Order, Waiting, FirstLap, ~RingFull, NEW ch, ch.key = Handled + 1,
         Handled' = Handled + 1, kb_buf_end' # kb_buf_start,
         kb_buf' = [kb_buf EXCEPT ![kb_buf_end] = ch], kb_buf_end' = After(kb_buf_end),
         UNCHANGED <<pc, kb_buf_start, index, c, printed>>
  PROVE  Waiting'
<1> DEFINE s == kb_buf_start
           e == kb_buf_end
           q == Queued
<1>1. /\ e \in 0 .. Size - 1 /\ s \in 0 .. Size /\ Size \in Nat /\ Size > 1 /\ Handled \in Nat
      /\ e' = IF e = Size - 1 THEN 0 ELSE e + 1
      /\ s # 0 => e # s - 1
  <2>1. e \in 0 .. Size - 1
    BY DEF Types, TypeOK
  <2> QED BY <2>1, Numbers, Constants, Turn, SMTT(30) DEF FirstLap, RingFull
<1>2. /\ q = IF s = Size THEN e ELSE IF s <= e THEN e - s ELSE e + Size - s
      /\ q \in 0 .. Size - 1
      /\ \A i \in 0 .. Size - 1 : Place(i) = IF s + i < Size THEN s + i ELSE s + i - Size
  BY <1>1, Count DEF Queued, Place
<1>3. Queued' = IF s = Size THEN e' ELSE IF s <= e' THEN e' - s ELSE e' + Size - s
  <2>1. e' \in 0 .. Size - 1
    BY <1>1
  <2>2. Queued' = (e' + Size - (s % Size)) % Size
    BY DEF Queued
  <2> QED BY <1>1, <2>1, <2>2, Count
<1>4. Queued' = q + 1
  BY <1>1, <1>2, <1>3
<1>5. InHand' = InHand
  <2>1. CASE pc = "fetch"
    <3>1. index = s - 1 /\ s >= 1
      BY <2>1 DEF Order, Loop
    <3>2. index \in 0 .. Size - 1 /\ index # e
      BY <1>1, <3>1
    <3> QED BY <2>1, <3>2, Numbers DEF InHand
  <2>2. CASE pc # "fetch"
    BY <2>2 DEF InHand
  <2> QED BY <2>1, <2>2
<1>6. ASSUME NEW i \in 0 .. q
      PROVE  kb_buf'[Place(i)].key = Handled - q + 1 + i
  <2> HIDE DEF q
  <2>1. i \in 0 .. Size - 1 /\ Place(i) \in 0 .. Size - 1
    BY <1>1, <1>2
  <2>2. CASE i = q
    <3>1. Place(i) = e
      BY <1>1, <1>2, <2>2
    <3> QED BY <1>1, <1>2, <2>2, <3>1, Numbers
  <2>3. CASE i < q
    <3>1. Place(i) # e
      BY <1>1, <1>2, <2>1, <2>3
    <3>2. kb_buf'[Place(i)] = kb_buf[Place(i)]
      BY <1>1, <2>1, <3>1, Numbers
    <3>3. kb_buf[Place(i)].key = Handled - q + 1 + i
      BY <1>2, <2>1, <2>3 DEF Waiting, q
    <3> QED BY <3>2, <3>3
  <2> QED BY <1>2, <2>2, <2>3
<1>7. Handled' - Queued' = Handled - q
  BY <1>1, <1>2, <1>4
<1>8. \A i \in 0 .. Queued' - 1 : kb_buf'[Place(i)].key = Handled' - Queued' + 1 + i
  <2>1. \A i \in 0 .. Queued' - 1 : i \in 0 .. q
    BY <1>2, <1>4
  <2> QED BY <1>6, <1>7, <2>1
<1>9. \A i : Place(i)' = Place(i)
  BY DEF Place
<1>10. InHand' = Handled' - Queued'
  BY <1>5, <1>7 DEF Waiting
<1> QED BY <1>8, <1>9, <1>10 DEF Waiting

LEMMA KeysAccount ==
  ASSUME Types, Account, Keys
  PROVE  Account'
<1>1. /\ UNCHANGED <<pc, kb_buf, kb_buf_start, kb_buf_end, index, c, end, printed>>
      /\ upset \subseteq upset'
  BY DEF Keys, PressChar, PressControl, ReleaseControl, RepeatControl, ring, regs
<1>2. InHand' = InHand
  BY <1>1 DEF InHand
<1> QED BY <1>1, <1>2, KeysHandled, AccountKept

LEMMA IrqAccount ==
  ASSUME Types, Types', Order, Account, Irq1
  PROVE  Account'
<1>1. /\ port \in Code /\ UNCHANGED <<pc, index, c, end, typed, printed>>
  BY DEF Irq1, Types, TypeOK, regs
<1>2. ASSUME UNCHANGED <<kb_buf, kb_buf_start, kb_buf_end>>, Handled' = Handled,
             upset \subseteq upset'
      PROVE  Account'
  <2>1. InHand' = InHand
    BY <1>1, <1>2 DEF InHand
  <2> QED BY <1>1, <1>2, <2>1, AccountKept
<1>3. CASE ~installed
  <2>1. UNCHANGED <<kb_buf, kb_buf_start, kb_buf_end, port, upset>>
    BY <1>3 DEF Irq1, ring
  <2> QED BY <1>1, <1>2, <2>1 DEF Handled
<1>4. CASE installed
  <2>1. port' = None /\ KeyboardHandler /\ Handled' = typed
    <3>1. port' = None /\ KeyboardHandler
      BY <1>4 DEF Irq1, KeyboardHandler
    <3> QED BY <1>1, <3>1, Codes DEF Handled
  <2>2. CASE ~layout
    BY <2>1, <2>2 DEF KeyboardHandler, HandleBlind, Account
  <2>3. CASE layout /\ port.key = "char"
    <3>1. CASE RingFull
      BY <2>1, <2>3, <3>1 DEF KeyboardHandler, Push, Account
    <3>2. CASE ~RingFull
      <4>1. /\ kb_buf' = [kb_buf EXCEPT ![kb_buf_end] = Typed] /\ kb_buf_end' = After(kb_buf_end)
            /\ upset' = IF kb_buf_end' = kb_buf_start THEN upset \union {"wrap"} ELSE upset
            /\ kb_buf_start' = kb_buf_start
        BY <2>1, <2>3, <3>2 DEF KeyboardHandler, Push
      <4>2. Typed.key = Handled + 1 /\ Handled' = Handled + 1
        BY <2>1, <2>3, Numbers DEF Handled, Typed
      <4> SUFFICES ASSUME FirstLap', upset' \subseteq {"repeat"}
                   PROVE  Waiting' /\ (pc' = "take" => kb_buf_start' # kb_buf_end')
        BY DEF Account
      <4>3. kb_buf_end' # kb_buf_start /\ upset' = upset /\ FirstLap
        BY <4>1 DEF FirstLap
      <4>4. Waiting
        BY <4>3 DEF Account
      <4>5. Waiting'
        BY <1>1, <3>2, <4>1, <4>2, <4>3, <4>4, PushAccount
      <4> QED BY <4>1, <4>3, <4>5
    <3> QED BY <3>1, <3>2
  <2>4. CASE layout /\ port.key # "char"
    <3>1. UNCHANGED <<kb_buf, kb_buf_start, kb_buf_end, upset>>
      BY <2>1, <2>4 DEF KeyboardHandler, HandleControl
    <3>2. Handled' = Handled
      BY <2>1, <2>4 DEF Handled
    <3> QED BY <1>2, <3>1, <3>2
  <2> QED BY <2>2, <2>3, <2>4
<1> QED BY <1>3, <1>4

LEMMA BootAccount ==
  ASSUME Types, Booting, Account, Boot
  PROVE  Account'
<1>1. /\ UNCHANGED <<kb_buf, c, printed, typed, port>> /\ pc' # "take" /\ upset \subseteq upset'
      /\ pc \notin Loop /\ (pc' \in Loop => pc' = "test")
  BY DEF Boot, Sti, cmdline_parse, Disabled, InstallHandler, SetLayout, ClearStart, ClearEnd,
     Cleared, Goto, Loop, ring, regs, keys
<1>2. Handled' = Handled /\ InHand' = InHand
  BY <1>1 DEF Handled, InHand, Loop
<1>3. CASE "init" \in upset'
  BY <1>3 DEF Account
<1>4. CASE "init" \notin upset'
  <2>1. UNCHANGED <<kb_buf_start, kb_buf_end>>
    BY <1>1, <1>4 DEF Boot, Sti, cmdline_parse, Disabled, InstallHandler, SetLayout, ClearStart,
       ClearEnd, Cleared, ring, Booting
  <2> QED BY <1>1, <1>2, <2>1, AccountKept
<1> QED BY <1>3, <1>4

LEMMA IdleAccount ==
  ASSUME Types, Order, Account, Idle
  PROVE  Account'
<1> DEFINE s == kb_buf_start
           e == kb_buf_end
<1>1. /\ pc \in Loop /\ pc' \in Loop /\ UNCHANGED <<kb_buf, typed, port>>
      /\ upset \subseteq upset' /\ Handled' = Handled
  BY DEF Idle, Test, Take, Fetch, Load, StoreEnd, Putc, Goto, ring, keys, Loop, Advance, Handled
<1>2. CASE Test
  <2>1. /\ pc = "test" /\ pc' = "take" /\ s # e
        /\ UNCHANGED <<kb_buf_start, kb_buf_end, index, c, end, printed>>
    BY <1>2 DEF Test, Goto, ring, regs
  <2>2. InHand' = InHand
    BY <2>1 DEF InHand
  <2> QED BY <1>1, <2>1, <2>2 DEF Account, Waiting, FirstLap, Queued, Place
<1>3. CASE Take
  <2>1. /\ pc = "take" /\ pc' = "fetch" /\ index' = s /\ s' = s + 1 /\ e' = e
    BY <1>3 DEF Take, Goto, Advance
  <2> SUFFICES ASSUME FirstLap', upset' \subseteq {"repeat"} PROVE Waiting'
    BY <2>1 DEF Account
  <2>2. s \in 0 .. Size - 1 /\ e \in 0 .. Size - 1 /\ s \in 0 .. Size /\ s + 1 \in 0 .. Size
        /\ Size \in Nat /\ Size > 1 /\ Handled \in Nat
    BY <2>1, Numbers, Constants DEF FirstLap
  <2>3. Waiting /\ s # e
    BY <1>1, <2>1, <2>2 DEF Account, FirstLap
  <2>4. Queued = (IF s <= e THEN e - s ELSE e + Size - s) /\ Queued \in 1 .. Size - 1
    <3>1. Queued = (e + Size - (s % Size)) % Size
      BY DEF Queued
    <3>2. Queued = IF s = Size THEN e ELSE IF s <= e THEN e - s ELSE e + Size - s
      BY <2>2, <3>1, Count
    <3> QED BY <2>2, <2>3, <3>2
  <2>5. Queued' = Queued - 1
    <3>1. Queued' = (e + Size - ((s + 1) % Size)) % Size
      BY <2>1 DEF Queued
    <3>2. Queued' = IF s + 1 = Size THEN e ELSE IF s + 1 <= e THEN e - (s + 1)
                    ELSE e + Size - (s + 1)
      BY <2>2, <3>1, Count
    <3> QED BY <2>2, <2>3, <2>4, <3>2
  <2>6. \A i \in Nat : Place(i)' = Place(i + 1)
    <3>1. \A i \in Nat : (s + 1) + i = s + (i + 1)
      BY <2>2
    <3> QED BY <2>1, <3>1 DEF Place
  <2>7. InHand' = Handled' - Queued'
    <3>1. Place(0) = s
      BY <2>2, Lap DEF Place
    <3>2. kb_buf[s].key = Handled - Queued + 1 + 0
      BY <2>3, <2>4, <3>1 DEF Waiting
    <3>3. InHand' = kb_buf[s].key
      BY <1>1, <2>1 DEF InHand
    <3> QED BY <1>1, <2>2, <2>4, <2>5, <3>2, <3>3
  <2>8. ASSUME NEW i \in 0 .. Queued' - 1
        PROVE  kb_buf'[Place(i)'].key = Handled' - Queued' + 1 + i
    <3>1. i \in Nat /\ i + 1 \in 0 .. Queued - 1
      BY <2>4, <2>5
    <3>2. kb_buf[Place(i + 1)].key = Handled - Queued + 1 + (i + 1)
      BY <2>3, <3>1 DEF Waiting
    <3> QED BY <1>1, <2>2, <2>4, <2>5, <2>6, <3>1, <3>2
  <2> QED BY <2>7, <2>8 DEF Waiting
<1>4. CASE Fetch
  <2>1. /\ pc = "fetch" /\ pc' = "load" /\ c' = Fetched(index)
        /\ UNCHANGED <<kb_buf_start, kb_buf_end>>
    BY <1>4 DEF Fetch, Goto, ring
  <2>2. CASE FirstLap
    <3>1. index < Size
      BY <1>1, <2>1, <2>2, Numbers, Constants DEF Order, FirstLap
    <3>2. InHand' = InHand
      BY <2>1, <3>1 DEF InHand, Fetched
    <3> QED BY <1>1, <2>1, <3>2, AccountKept
  <2>3. CASE ~FirstLap
    BY <2>1, <2>3 DEF Account, FirstLap
  <2> QED BY <2>2, <2>3
<1>5. CASE Load
  <2>1. /\ pc = "load" /\ pc' = "store" /\ UNCHANGED <<kb_buf_start, kb_buf_end, index, c, printed>>
    BY <1>5 DEF Load, Goto, ring
  <2>2. InHand' = InHand
    BY <2>1 DEF InHand
  <2> QED BY <1>1, <2>1, <2>2, AccountKept
<1>6. CASE StoreEnd
  <2>1. /\ pc = "store" /\ pc' = "print" /\ UNCHANGED <<kb_buf_start, index, c, printed>>
        /\ upset' = IF kb_buf_end' # kb_buf_end THEN upset \union {"race"} ELSE upset
    BY <1>6 DEF StoreEnd, Goto, regs
  <2>2. InHand' = InHand
    BY <2>1 DEF InHand
  <2>3. CASE kb_buf_end' # kb_buf_end
    BY <2>1, <2>3 DEF Account
  <2>4. CASE kb_buf_end' = kb_buf_end
    BY <1>1, <2>1, <2>2, <2>4, AccountKept
  <2> QED BY <2>3, <2>4
<1>7. CASE Putc
  <2>1. /\ pc = "print" /\ pc' = "test" /\ printed' = c /\ UNCHANGED <<kb_buf_start, kb_buf_end>>
    BY <1>7 DEF Putc, Goto, ring
  <2>2. InHand' = InHand
    BY <2>1 DEF InHand
  <2> QED BY <1>1, <2>1, <2>2, AccountKept
<1> QED BY <1>2, <1>3, <1>4, <1>5, <1>6, <1>7 DEF Idle

LEMMA StepAccount ==
  ASSUME Types, Booting, Order, Account, [Next]_vars
  PROVE  Account'
<1>1. Types'
  BY StepTypes
<1>2. CASE UNCHANGED vars
  <2>1. /\ UNCHANGED <<pc, kb_buf, kb_buf_start, kb_buf_end, index, c, printed, upset>>
        /\ Handled' = Handled
    BY <1>2 DEF vars, ring, regs, keys, Handled
  <2>2. InHand' = InHand
    BY <2>1 DEF InHand
  <2> QED BY <2>1, <2>2, AccountKept
<1> QED BY <1>1, <1>2, KeysAccount, IrqAccount, BootAccount, IdleAccount DEF Next
-----------------------------------------------------------------------------
IInv == Types /\ Booting /\ Agree /\ Bounds /\ Order /\ Account

LEMMA Initially == Init => IInv
<1> SUFFICES ASSUME Init PROVE IInv
  OBVIOUS
<1>1. port.key = "none" /\ Handled = 0 /\ InHand = 0 /\ Junk.key = 0 /\ pc = "cli"
  BY Codes DEF Init, Handled, InHand
<1>2. Agree
  BY <1>1, Codes DEF Init, Agree, Pending
<1>3. Bounds
  BY <1>1 DEF Init, Bounds
<1>4. Order
  BY <1>1 DEF Order, Loop
<1>5. Account
  <2>1. Queued = 0
    BY Count, Constants DEF Init, Queued
  <2> QED BY <1>1, <2>1 DEF Account, Waiting
<1> QED BY <1>2, <1>3, <1>4, <1>5, InitTypes DEF IInv

\* The types, what the boot code has done, which control keys are down, and where every
\* character is hold whenever the handler of IRQ 1 comes between two accesses.
THEOREM Invariant == Spec => []IInv
<1>1. Init => IInv
  BY Initially
<1>2. IInv /\ [Next]_vars => IInv'
  BY StepTypes, StepAgrees, StepOrder, StepAccount DEF IInv
<1> QED BY <1>1, <1>2, PTL DEF Spec

\* Every variable keeps its type: kb_buf_end stays inside kb_buf at every instruction of
\* keyboard_getchar and of the handler.
THEOREM TypeCorrect == Spec => []TypeOK
<1>1. IInv => TypeOK
  BY DEF IInv, Types
<1> QED BY <1>1, Invariant, PTL

\* On the first lap keyboard_getchar gives out characters in the order they were typed and
\* at most once, also when a race has moved kb_buf_end back or the ring has wrapped.
THEOREM OrderHolds == Spec => InOrder
<1>1. IInv => (FirstLap /\ pc = "print" => c.key > printed.key)
  BY DEF IInv, Order, InHand, Loop
<1>2. IInv /\ [Next]_vars => [FirstLap /\ pc = "print" => c.key > printed.key]_printed
  BY <1>1
<1> QED BY <1>2, Invariant, PTL DEF Spec, InOrder

\* On the first lap every character the handler took is printed, in hand or in the ring,
\* unless the ring was full or wrapped, the masking raced, or init_keyboard cleared it.
THEOREM NoneLost == Spec => []Accounted
<1>1. IInv => Accounted
  BY DEF IInv, Account, Waiting, Accounted, Place
<1> QED BY <1>1, Invariant, PTL

\* A character is looked up in the map the control keys chose when its key went down.
THEOREM MapHolds == Spec => RightMap
<1> DEFINE Right == upset \intersect {"repeat", "init"} = {} /\ layout /\ kb_buf' # kb_buf =>
                      kb_buf'[kb_buf_end].shifted = want
<1>1. ASSUME IInv, [Next]_vars, upset \intersect {"repeat", "init"} = {}, layout, kb_buf' # kb_buf
      PROVE  kb_buf'[kb_buf_end].shifted = want
  <2>1. Irq1
    BY <1>1 DEF Next, vars, Keys, PressChar, PressControl, ReleaseControl, RepeatControl, Boot, Sti,
       cmdline_parse, Disabled, InstallHandler, SetLayout, ClearStart, ClearEnd, Idle, Test, Take,
       Fetch, Load, StoreEnd, Putc, ring
  <2>2. irq /\ installed /\ KeyboardHandler /\ port.key = "char"
    BY <1>1, <2>1 DEF Irq1, KeyboardHandler, HandleControl, ring
  <2>3. kb_buf' = [kb_buf EXCEPT ![kb_buf_end] = Typed]
    BY <1>1, <2>2 DEF KeyboardHandler, Push, ring
  <2>4. kb_buf'[kb_buf_end] = Typed
    BY <1>1, <2>3, Numbers DEF IInv
  <2>5. controls = held /\ want = Shifts(held)
    BY <1>1, <2>2, Codes DEF IInv, Agree, Pending
  <2> QED BY <2>4, <2>5 DEF Typed
<1>2. IInv /\ [Next]_vars => [Right]_kb_buf
  BY <1>1
<1> QED BY <1>2, Invariant, PTL DEF Spec, RightMap
=============================================================================
