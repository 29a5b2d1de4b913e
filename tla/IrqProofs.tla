----------------------------- MODULE IrqProofs -----------------------------
(***************************************************************************)
(* Proofs about Irq, for every set of lines, exceptions and error codes,   *)
(* every width of the tick counter and every depth of nesting: its type    *)
(* invariant, Quiet, Dispatched, PanicFinal and WakesLate.                 *)
(***************************************************************************)
EXTENDS Irq, TLAPS

BootPc        == {"init_isr", "init_irq", "sti"}
Interruptible == {"kernel", "sleep", "panic"}
IrqStage      == {"irq_handler", "slave", "master", "iret"}
IsrStage      == {"isr_handler", "page_fault"}
Pcs           == BootPc \union Interruptible \union IrqStage \union IsrStage
                   \union {"printm", "hlt", "reset"}

\* What Enter pushes.
WordsOf(v, code) == (IF v \in Coded THEN <<code>> ELSE <<>>)
                    \o (IF v < 32 THEN IsrStub(v) ELSE IrqStub(v))

FrameSet == [pc : Pcs \union {"past"}, intFlag : BOOLEAN, vector : 0 .. 47, code : Nat,
             words : Seq(Int)]

WellFormed(f) == /\ Len(f.words) = 2
                 /\ f.words[2] = f.vector
                 /\ f.vector \in Coded => f.words[1] = f.code

Ticks == 0 - Half .. Half - 1

Types ==
  /\ pc \in Pcs
  /\ intFlag \in BOOLEAN /\ nmiBlocked \in BOOLEAN
  /\ frames \in Seq(FrameSet)
  /\ irr \subseteq Line /\ isr \subseteq Line \union {Cascade}
  /\ irq_routines \subseteq Drivers
  /\ timer_ticks \in Ticks /\ eticks \in 0 .. Deadlines - 1
  /\ began \in Ticks /\ asked \in Sleeps \union {0} /\ elapsed \in 0 .. asked

\* Interrupts are enabled only outside all handlers; a handler of an interrupt runs on
\* the only frame there is; exceptions never return.
Control ==
  /\ intFlag => pc \in Interruptible /\ frames = <<>>
  /\ pc \in BootPc \union {"kernel", "sleep"} => frames = <<>>
  /\ pc \in IrqStage => /\ Len(frames) = 1
                        /\ frames[1].intFlag /\ frames[1].pc \in Interruptible
                        /\ frames[1].vector >= 32
  /\ pc \in IsrStage => /\ Len(frames) > 0
                        /\ frames[Len(frames)].vector < 32

Stack == \A i \in DOMAIN frames : WellFormed(frames[i])

Gates ==
  /\ gates = {} <=> pc \in {"init_isr", "reset"}
  /\ gates \in {{}, 0 .. 31, 0 .. 47}
  /\ intFlag \/ pc \in {"sti"} \union IrqStage => gates = 0 .. 47

\* What is in service while the handler of vector v has not acknowledged it.
Held(v) == \/ \E n \in Line : v = Vector(n) /\ isr = {n, Pin(n)}
           \/ v = 39 /\ isr = {}
           \/ v = 47 /\ isr = {Cascade}

InService ==
  /\ intFlag \/ pc \in BootPc => isr = {}
  /\ pc \in {"irq_handler", "slave"} => Held(frames[1].vector)
  /\ pc = "master" => isr = {} \/ \E m \in 0 .. 7 : isr = {m}
  /\ pc = "iret" => isr = {}

\* A sleep that has neither elapsed nor reached the width of its deadline is counted
\* by the ticks since it began.
Sleeping ==
  /\ pc \in BootPc \union {"kernel"} => asked = 0
  /\ pc \in IrqStage /\ frames[1].pc = "kernel" => asked = 0
  /\ elapsed < asked /\ began + asked < Deadlines =>
       timer_ticks = began + elapsed /\ eticks = (began + asked) % Deadlines

IInv == Types /\ Control /\ Stack /\ Gates /\ InService /\ Sleeping
-----------------------------------------------------------------------------
LEMMA Numbers ==
  /\ Half \in Int /\ Deadlines \in Nat /\ 0 < Deadlines /\ Deadlines <= Half
  /\ Sleeps \subseteq Nat /\ Codes \subseteq Nat
  /\ Drivers \subseteq Line /\ Line \subseteq 0 .. 15 /\ Cascade \notin Line
  /\ \A v \in Faults : v \in 0 .. 31
BY IrqAssumption DEF NMI, Cascade

\* The stubs make two words of every vector: its number, under the error code.
LEMMA StubWords ==
  ASSUME NEW v \in 0 .. 47, NEW code \in Nat
  PROVE  /\ WordsOf(v, code) \in Seq(Int)
         /\ Len(WordsOf(v, code)) = 2
         /\ WordsOf(v, code)[2] = v
         /\ v \in Coded => WordsOf(v, code)[1] = code
<1>1. CASE v \in Coded
  <2>1. v < 32
    BY <1>1 DEF Coded
  <2>2. WordsOf(v, code) = <<code>> \o <<v>>
    BY <1>1, <2>1 DEF WordsOf, IsrStub
  <2>3. <<code>> \in Seq(Int) /\ <<v>> \in Seq(Int)
    OBVIOUS
  <2>4. /\ Len(<<code>> \o <<v>>) = 2
        /\ (<<code>> \o <<v>>)[1] = code /\ (<<code>> \o <<v>>)[2] = v
        /\ <<code>> \o <<v>> \in Seq(Int)
    BY <2>3
  <2> QED BY <2>2, <2>4
<1>2. CASE v \notin Coded /\ v < 32
  <2>1. WordsOf(v, code) = <<>> \o <<0, v>>
    BY <1>2 DEF WordsOf, IsrStub
  <2>2. <<>> \o <<0, v>> = <<0, v>>
    OBVIOUS
  <2> QED BY <1>2, <2>1, <2>2
<1>3. CASE v >= 32
  <2>1. v \notin Coded
    BY <1>3 DEF Coded
  <2>2. WordsOf(v, code) = <<>> \o <<v - 32, v>>
    BY <1>3, <2>1 DEF WordsOf, IrqStub
  <2>3. <<>> \o <<v - 32, v>> = <<v - 32, v>>
    OBVIOUS
  <2> QED BY <2>1, <2>2, <2>3
<1> QED BY <1>1, <1>2, <1>3

\* What the processor finds in irq_handler and isr_handler.
LEMMA Registers ==
  ASSUME IInv, Len(frames) > 0
  PROVE  /\ r.int_no = frames[Len(frames)].vector
         /\ r.int_no \in 0 .. 47
         /\ frames[Len(frames)] \in FrameSet
         /\ WellFormed(frames[Len(frames)])
         /\ frames[Len(frames)].vector \in Coded => r.err_code = frames[Len(frames)].code
<1>1. Len(frames) \in DOMAIN frames
  BY DEF IInv, Types
<1>2. frames[Len(frames)] \in FrameSet /\ WellFormed(frames[Len(frames)])
  BY <1>1 DEF IInv, Types, Stack
<1> QED BY <1>2 DEF r, WellFormed, FrameSet
-----------------------------------------------------------------------------
LEMMA Initially == Init => IInv
<1> SUFFICES ASSUME Init PROVE IInv
  OBVIOUS
<1>1. Types
  <2>1. 0 \in Ticks /\ 0 \in 0 .. Deadlines - 1
    BY Numbers DEF Ticks
  <2>2. <<>> \in Seq(FrameSet)
    OBVIOUS
  <2>3. pc \in Pcs
    BY DEF Init, Pcs, BootPc
  <2>4. asked \in Sleeps \union {0} /\ elapsed \in 0 .. asked
    BY DEF Init
  <2> QED BY <2>1, <2>2, <2>3, <2>4 DEF Init, Types
<1>2. Control /\ Stack /\ Gates /\ InService /\ Sleeping
  BY DEF Init, Control, Stack, Gates, InService, Sleeping, BootPc, IrqStage, IsrStage,
         Interruptible
<1> QED BY <1>1, <1>2 DEF IInv

\* A gate pushes a frame that the stubs' words belong to.
LEMMA Entered ==
  ASSUME IInv, NEW v \in 0 .. 47, NEW code \in Nat, v \in gates, pc # "reset", Enter(v, code)
  PROVE  /\ frames' \in Seq(FrameSet)
         /\ Stack'
         /\ Len(frames') = Len(frames) + 1
         /\ frames'[Len(frames')].vector = v
         /\ frames'[Len(frames')].pc = Interrupted
         /\ frames'[Len(frames')].intFlag = intFlag
         /\ \A i \in DOMAIN frames : frames'[i] = frames[i]
         /\ ~intFlag'
         /\ pc' = IF v < 32 THEN "isr_handler" ELSE "irq_handler"
<1> DEFINE f == [pc |-> Interrupted, intFlag |-> intFlag, vector |-> v, code |-> code,
                 words |-> WordsOf(v, code)]
<1>1. frames' = Append(frames, f) /\ ~intFlag'
      /\ pc' = IF v < 32 THEN "isr_handler" ELSE "irq_handler"
  BY DEF Enter, WordsOf
<1>2. f \in FrameSet /\ WellFormed(f)
  BY StubWords DEF FrameSet, WellFormed, Interrupted, IInv, Types
<1>3. frames \in Seq(FrameSet)
  BY DEF IInv, Types
<1> HIDE DEF f
<1>4. /\ frames' \in Seq(FrameSet) /\ Len(frames') = Len(frames) + 1
      /\ frames'[Len(frames')] = f
      /\ \A i \in DOMAIN frames : frames'[i] = frames[i]
      /\ DOMAIN frames' = DOMAIN frames \union {Len(frames')}
  BY <1>1, <1>2, <1>3
<1>5. Stack'
  BY <1>2, <1>4 DEF IInv, Stack
<1> QED BY <1>1, <1>4, <1>5 DEF f

LEMMA Entries ==
  ASSUME NEW n \in Line
  PROVE  Vector(n) \in 32 .. 47 /\ Vector(7) = 39 /\ Vector(15) = 47
         /\ Pin(n) \in (Line \union {Cascade})
BY Numbers DEF Vector, Pin

LEMMA InterruptStep ==
  ASSUME IInv, NEW n \in Line, Acknowledge(n) \/ Spurious(n)
  PROVE  IInv'
<1> USE DEF IInv
<1>1. /\ intFlag /\ pc \in Interruptible /\ frames = <<>> /\ isr = {} /\ gates = 0 .. 47
      /\ UNCHANGED <<nmiBlocked, gates, irq_routines, clock>>
      /\ irr' \subseteq irr
  BY DEF Acknowledge, Spurious, Control, Gates, InService
<1>2. PICK v \in 32 .. 47 : /\ Enter(v, 0)
                            /\ Held(v)'
                            /\ isr' \subseteq Line \union {Cascade}
  <2>1. CASE Acknowledge(n)
    <3>1. isr' = {n, Pin(n)}
      BY <1>1, <2>1 DEF Acknowledge
    <3>2. Held(Vector(n))'
      BY <3>1 DEF Held
    <3> QED BY <2>1, <3>1, <3>2, Entries DEF Acknowledge
  <2>2. CASE Spurious(n) /\ isr' = isr /\ Enter(Vector(7), 0)
    <3>1. Enter(39, 0) /\ Held(39)' /\ isr' \subseteq Line \union {Cascade}
      BY <1>1, <2>2, Entries DEF Held
    <3> QED BY <3>1
  <2>3. CASE Spurious(n) /\ isr' = isr \union {Cascade} /\ Enter(Vector(15), 0)
    <3>1. Enter(47, 0) /\ Held(47)' /\ isr' \subseteq Line \union {Cascade}
      BY <1>1, <2>3, Entries DEF Held
    <3> QED BY <3>1
  <2> QED BY <2>1, <2>2, <2>3 DEF Spurious
<1>3. /\ pc' = "irq_handler" /\ ~intFlag'
      /\ Len(frames') = 1 /\ frames'[1].vector = v /\ frames'[1].pc = Interrupted
      /\ frames'[1].intFlag /\ Stack' /\ frames' \in Seq(FrameSet)
  <2>1. v \in 0 .. 47 /\ v \in gates /\ pc # "reset" /\ 0 \in Nat /\ ~(v < 32)
    BY <1>1 DEF Interruptible
  <2>2. Len(frames) = 0
    BY <1>1
  <2> HIDE DEF IInv
  <2>3. /\ pc' = "irq_handler" /\ ~intFlag' /\ Len(frames') = Len(frames) + 1
        /\ frames'[Len(frames')].vector = v /\ frames'[Len(frames')].pc = Interrupted
        /\ frames'[Len(frames')].intFlag = intFlag /\ Stack' /\ frames' \in Seq(FrameSet)
    BY <1>2, <2>1, Entered
  <2>4. Len(frames') = 1
    BY <2>2, <2>3
  <2> QED BY <1>1, <2>3, <2>4, Zenon
<1>4. Interrupted = pc
  BY <1>1 DEF Interrupted, Interruptible
<1>5. Types'
  BY <1>1, <1>2, <1>3 DEF Types, clock, Pcs, IrqStage, Enter, Ticks
<1>6. Control' /\ Gates' /\ InService'
  BY <1>1, <1>2, <1>3, <1>4 DEF Control, Gates, InService, IrqStage, IsrStage, BootPc,
     Interruptible
<1>7. Sleeping'
  BY <1>1, <1>3, <1>4 DEF Sleeping, clock, BootPc
<1> QED BY <1>3, <1>5, <1>6, <1>7

LEMMA ExceptionStep ==
  ASSUME IInv, NEW v \in 0 .. 31, NEW code \in Nat, Running, Enter(v, code),
         nmiBlocked' \in BOOLEAN, UNCHANGED <<gates, pics, irq_routines, clock>>
  PROVE  IInv'
<1> USE DEF IInv
<1>1. CASE v \notin gates
  <2>1. pc = "init_isr" /\ gates = {} /\ pc' = "reset" /\ UNCHANGED <<intFlag, frames>>
    BY <1>1 DEF Gates, Enter, Running
  <2>2. Types'
    BY <2>1 DEF Types, pics, clock, Pcs, Ticks
  <2>3. Control' /\ Stack' /\ Gates'
    BY <2>1 DEF Control, Gates, IrqStage, IsrStage, BootPc, Interruptible, Stack
  <2>4. InService' /\ Sleeping'
    BY <2>1 DEF Control, InService, Sleeping, IrqStage, BootPc, Interruptible, clock, pics
  <2> QED BY <2>2, <2>3, <2>4
<1>2. CASE v \in gates
  <2>1. /\ pc' = "isr_handler" /\ ~intFlag' /\ Len(frames') = Len(frames) + 1
        /\ frames'[Len(frames')].vector = v /\ Stack' /\ frames' \in Seq(FrameSet)
        /\ pc \notin {"init_isr", "reset"}
    <3>1. v \in 0 .. 47 /\ pc # "reset" /\ pc # "init_isr" /\ v < 32
      BY <1>2 DEF Running, Gates
    <3> QED BY <1>2, <3>1, Entered
  <2>2. Types'
    BY <2>1 DEF Types, pics, clock, Pcs, IsrStage, Enter, Ticks
  <2>3. Control' /\ Gates' /\ InService'
    BY <2>1 DEF Control, Gates, InService, IrqStage, IsrStage, BootPc, Interruptible, Types
  <2>4. Sleeping'
    BY <2>1 DEF Sleeping, clock, BootPc, IrqStage
  <2> QED BY <2>1, <2>2, <2>3, <2>4
<1> QED BY <1>1, <1>2

\* The controllers' lines change by themselves; nothing of the invariant but their type
\* depends on the requests.
LEMMA LineStep ==
  ASSUME IInv, NEW n \in Line, Raise(n) \/ Withdraw(n)
  PROVE  IInv'
<1>1. irr' \subseteq Line /\ UNCHANGED <<pc, cpu, gates, isr, irq_routines, clock>>
  BY DEF Raise, Withdraw, IInv, Types
<1>2. Types'
  BY <1>1 DEF IInv, Types, cpu, clock
<1>3. Control' /\ Stack' /\ Gates'
  BY <1>1 DEF IInv, Control, Stack, Gates, cpu
<1>4. InService' /\ Sleeping'
  BY <1>1 DEF IInv, InService, Held, Sleeping, cpu, clock
<1> QED BY <1>2, <1>3, <1>4 DEF IInv

LEMMA RoutineStep == ASSUME IInv, CallRoutine PROVE IInv'
<1> USE DEF IInv
<1>1. /\ pc = "irq_handler" /\ pc' = "slave"
      /\ UNCHANGED <<cpu, gates, pics, irq_routines, eticks, began, asked>>
  BY DEF CallRoutine, At
<1>2. Control' /\ Stack' /\ Gates' /\ InService'
  BY <1>1 DEF Control, Stack, Gates, InService, Held, cpu, pics, IrqStage, IsrStage, BootPc,
     Interruptible
<1>3. /\ asked \in Nat /\ elapsed \in Nat /\ elapsed <= asked /\ timer_ticks \in Ticks
      /\ began \in Ticks
  BY Numbers DEF Types
<1>4. timer_ticks' \in Ticks /\ elapsed' \in 0 .. asked
  BY <1>1, <1>3, Numbers DEF CallRoutine, Wrap, Ticks
<1>5. Types'
  BY <1>1, <1>4 DEF Types, cpu, pics, Pcs, IrqStage
<1>6. elapsed' < asked /\ began + asked < Deadlines =>
        timer_ticks' = began + elapsed' /\ eticks = (began + asked) % Deadlines
  <2> SUFFICES ASSUME elapsed' < asked, began + asked < Deadlines
               PROVE  timer_ticks' = began + elapsed'
                      /\ eticks = (began + asked) % Deadlines
    OBVIOUS
  <2>1. elapsed < asked
    BY <1>3 DEF CallRoutine
  <2>2. timer_ticks = began + elapsed /\ eticks = (began + asked) % Deadlines
    BY <2>1 DEF Sleeping
  <2>3. timer_ticks + 1 # Half
    BY <1>3, <2>1, <2>2, Numbers DEF Ticks
  <2> QED BY <2>1, <2>2, <2>3, <1>3 DEF CallRoutine, Wrap, Ticks
<1>7. Sleeping'
  BY <1>1, <1>6 DEF Sleeping, cpu, IrqStage, BootPc
<1> QED BY <1>2, <1>5, <1>7

\* Acknowledging an interrupt ends what it has in service: the second controller's line
\* first, the cascade or the first controller's line then.
LEMMA EoiSlaveStep == ASSUME IInv, EoiSlave PROVE IInv'
<1> USE DEF IInv
<1>1. /\ pc = "slave" /\ pc' = "master"
      /\ UNCHANGED <<cpu, gates, irr, irq_routines, clock>>
      /\ Len(frames) = 1
  BY DEF EoiSlave, At, Control, IrqStage
<1> DEFINE v == frames[1].vector
<1>2. r.int_no = v /\ Held(v)
  BY <1>1, Registers DEF InService
<1>3. isr' = {} \/ \E m \in 0 .. 7 : isr' = {m}
  <2>1. CASE \E n \in Line : v = Vector(n) /\ isr = {n, Pin(n)}
    <3>1. PICK n \in Line : v = Vector(n) /\ isr = {n, Pin(n)}
      BY <2>1
    <3>2. CASE n < 8
      <4>1. isr = {n} /\ v \in 32 .. 39 /\ n \in 0 .. 7
        BY <3>1, <3>2, Numbers DEF Pin, Vector
      <4>2. isr' = {n} /\ n \in 0 .. 7
        BY <1>2, <4>1 DEF EoiSlave, FromSlave
      <4> QED BY <4>2
    <3>3. CASE n >= 8
      <4>1. isr = {n, 2} /\ v >= 40
        BY <3>1, <3>3, Numbers DEF Pin, Vector, Cascade
      <4>2. Done("slave") = {n}
        BY <3>3, <4>1, Numbers DEF Done
      <4>3. isr' = {2}
        BY <1>2, <3>3, <4>1, <4>2 DEF EoiSlave, FromSlave
      <4> QED BY <4>3
    <3> QED BY <3>2, <3>3, Numbers
  <2>2. CASE v = 39 /\ isr = {}
    BY <1>2, <2>2 DEF EoiSlave, FromSlave
  <2>3. CASE v = 47 /\ isr = {Cascade}
    <3>1. Done("slave") = {}
      BY <2>3 DEF Done, Cascade
    <3>2. isr' = {2}
      BY <1>2, <2>3, <3>1 DEF EoiSlave, FromSlave, Cascade
    <3> QED BY <3>2
  <2> QED BY <1>2, <2>1, <2>2, <2>3 DEF Held
<1>4. isr' \subseteq isr
  BY DEF EoiSlave
<1>5. Types' /\ Control' /\ Stack' /\ Gates' /\ InService'
  BY <1>1, <1>3, <1>4 DEF Types, Control, Stack, Gates, InService, cpu, clock, IrqStage,
     IsrStage, BootPc, Pcs, Interruptible
<1>6. Sleeping'
  BY <1>1 DEF Sleeping, cpu, clock, IrqStage, BootPc
<1> QED BY <1>5, <1>6

LEMMA EoiMasterStep == ASSUME IInv, EoiMaster PROVE IInv'
<1> USE DEF IInv
<1>1. /\ pc = "master" /\ pc' = "iret"
      /\ UNCHANGED <<cpu, gates, irr, irq_routines, clock>>
      /\ ~intFlag
  BY DEF EoiMaster, At, Control, Interruptible
<1>2. isr' = {}
  <2>1. CASE isr = {}
    BY <2>1 DEF EoiMaster
  <2>2. CASE \E m \in 0 .. 7 : isr = {m}
    <3>1. PICK m \in 0 .. 7 : isr = {m}
      BY <2>2
    <3>2. Done("master") = {m}
      BY <3>1 DEF Done
    <3> QED BY <3>1, <3>2 DEF EoiMaster
  <2> QED BY <1>1, <2>1, <2>2 DEF InService
<1>3. Types' /\ Control' /\ Stack' /\ Gates' /\ InService'
  BY <1>1, <1>2 DEF Types, Control, Stack, Gates, InService, cpu, clock, IrqStage,
     IsrStage, BootPc, Pcs, Interruptible
<1>4. Sleeping'
  BY <1>1 DEF Sleeping, cpu, clock, IrqStage, BootPc
<1> QED BY <1>3, <1>4

\* iret goes back to code that can be interrupted, with nothing in service.
LEMMA IretStep == ASSUME IInv, Iret PROVE IInv'
<1> USE DEF IInv
<1>1. /\ pc = "iret" /\ Len(frames) = 1 /\ frames[1].intFlag
      /\ frames[1].pc \in Interruptible /\ isr = {} /\ gates = 0 .. 47
      /\ UNCHANGED <<gates, pics, irq_routines, clock>>
  BY DEF Iret, Control, IrqStage, InService, Gates
<1>2. frames' = <<>>
  BY <1>1 DEF Iret, Types
<1>3. pc' = frames[1].pc /\ intFlag' = frames[1].intFlag /\ nmiBlocked' = FALSE
  <2>1. Len(frames[1].words) = 2
    BY <1>1, Registers DEF WellFormed
  <2> QED BY <1>1, <2>1 DEF Iret
<1>4. Types'
  <2>1. intFlag' \in BOOLEAN /\ nmiBlocked' \in BOOLEAN /\ pc' \in Pcs
    BY <1>1, <1>3 DEF Pcs
  <2>2. frames' \in Seq(FrameSet)
    BY <1>2
  <2> QED BY <1>1, <2>1, <2>2 DEF Types, pics, clock, Ticks
<1>5. Control' /\ Stack' /\ Gates' /\ InService'
  BY <1>1, <1>2, <1>3 DEF Control, Stack, Gates, InService, pics, IrqStage, IsrStage,
     BootPc, Interruptible
<1>6. Sleeping'
  BY <1>1, <1>3 DEF Sleeping, clock, IrqStage, BootPc, Interruptible
<1> QED BY <1>4, <1>5, <1>6

\* An exception has a vector below 32, so its handler ends in panic.
LEMMA FaultStep == ASSUME IInv, IsrHandler \/ PageFault \/ Cli \/ Halt PROVE IInv'
<1> USE DEF IInv
<1>1. /\ pc' \in {"page_fault", "panic", "printm", "hlt"}
      /\ pc \in IsrStage \union {"panic", "printm"}
      /\ pc' = "page_fault" => pc = "isr_handler"
  <2>1. CASE IsrHandler
    <3>1. pc = "isr_handler" /\ Len(frames) > 0 /\ frames[Len(frames)].vector < 32
      BY <2>1 DEF IsrHandler, Control, IsrStage
    <3>2. r.int_no \in 0 .. 47 /\ r.int_no < 32
      BY <3>1, Registers
    <3>3. r.int_no <= 31
      BY <3>2
    <3> QED BY <2>1, <3>1, <3>3 DEF IsrHandler, Fatal, IsrStage
  <2>2. CASE PageFault \/ Cli \/ Halt
    BY <2>2 DEF PageFault, Cli, Halt, At, IsrStage
  <2> QED BY <2>1, <2>2
<1>2. /\ UNCHANGED <<nmiBlocked, frames, gates, pics, irq_routines, clock>>
      /\ intFlag' => intFlag
      /\ intFlag' \in BOOLEAN
      /\ intFlag' => pc' = "panic"
  <2>1. CASE IsrHandler \/ PageFault \/ Halt
    <3>1. UNCHANGED <<cpu, gates, pics, irq_routines, clock>>
      BY <2>1 DEF IsrHandler, PageFault, Halt
    <3>2. ~intFlag
      BY <2>1 DEF IsrHandler, PageFault, Halt, At, Control, Interruptible
    <3> QED BY <3>1, <3>2 DEF cpu, Types
  <2>2. CASE Cli
    BY <2>2 DEF Cli, Masked
  <2> QED BY <2>1, <2>2
<1>3. Types'
  BY <1>1, <1>2 DEF Types, pics, clock, Pcs, IsrStage, Interruptible
<1>4. Control' /\ Stack' /\ Gates' /\ InService'
  BY <1>1, <1>2 DEF Control, Stack, Gates, InService, pics, IrqStage, IsrStage,
     BootPc, Interruptible
<1>5. Sleeping'
  BY <1>1, <1>2 DEF Sleeping, clock, IrqStage, BootPc
<1> QED BY <1>3, <1>4, <1>5

LEMMA BootStep == ASSUME IInv, Boot PROVE IInv'
<1> USE DEF IInv
<1>1. /\ pc \in BootPc /\ pc' \in {"init_irq", "sti", "kernel"}
      /\ isr = {} /\ isr' = {} /\ ~intFlag /\ frames = <<>> /\ frames' = <<>>
      /\ nmiBlocked' = nmiBlocked /\ irr' \subseteq irr
      /\ UNCHANGED <<irq_routines, clock>>
  BY DEF Boot, InitIsr, InitIrq, Sti, At, BootPc, Control, InService, cpu, pics, Interruptible
<1>2. /\ pc' = "init_irq" => gates' = 0 .. 31
      /\ pc' \in {"sti", "kernel"} => gates' = 0 .. 47
      /\ intFlag' = (pc' = "kernel")
  <2>1. CASE InitIsr
    BY <1>1, <2>1 DEF InitIsr, At, cpu, Types
  <2>2. CASE InitIrq
    <3>1. gates # {} /\ gates \in {{}, 0 .. 31, 0 .. 47}
      BY <2>2 DEF InitIrq, At, Gates
    <3>2. gates \union 32 .. 47 = 0 .. 47
      BY <3>1
    <3> QED BY <1>1, <2>2, <3>2 DEF InitIrq, At, cpu, Types
  <2>3. CASE Sti
    BY <1>1, <2>3 DEF Sti, At, Gates
  <2> QED BY <2>1, <2>2, <2>3 DEF Boot
<1>3. Types'
  BY <1>1, <1>2 DEF Types, clock, Pcs, BootPc, Interruptible, Ticks
<1>4. 0 .. 31 # {} /\ 0 .. 47 # {}
  BY 0 \in 0 .. 31 /\ 0 \in 0 .. 47
<1>5. Control' /\ Stack' /\ Gates' /\ InService'
  BY <1>1, <1>2, <1>4 DEF Control, Stack, Gates, InService, IrqStage, IsrStage,
     BootPc, Interruptible
<1>6. Sleeping'
  BY <1>1 DEF Sleeping, clock, IrqStage, BootPc
<1> QED BY <1>3, <1>5, <1>6

\* What kernel code does between its calls: only the clock and the routines change.
LEMMA CallStep == ASSUME IInv, Calls \/ Wake PROVE IInv'
<1> USE DEF IInv
<1>1. /\ pc \in {"kernel", "sleep"} /\ pc' \in {"kernel", "sleep", "panic"}
      /\ UNCHANGED <<cpu, gates, pics>>
      /\ frames = <<>>
      /\ irq_routines' \subseteq Drivers
  <2>1. irq_routines \subseteq Drivers
    BY DEF Types
  <2> QED
    BY <2>1 DEF Calls, InstallHandler, RemoveHandler, Sleep, Wake, CallPanic, At, Control,
       clock
<1>2. /\ timer_ticks' \in Ticks /\ eticks' \in 0 .. Deadlines - 1
      /\ began' \in Ticks /\ asked' \in Sleeps \union {0} /\ elapsed' \in 0 .. asked'
      /\ pc' = "kernel" => asked' = 0
      /\ elapsed' < asked' /\ began' + asked' < Deadlines =>
           timer_ticks' = began' + elapsed' /\ eticks' = (began' + asked') % Deadlines
  <2>1. /\ timer_ticks \in Ticks /\ eticks \in 0 .. Deadlines - 1
        /\ began \in Ticks /\ asked \in Sleeps \union {0} /\ elapsed \in 0 .. asked
        /\ 0 \in Ticks /\ 0 \in 0 .. Deadlines - 1
    BY Numbers DEF Types, Ticks
  <2>2. CASE \E n \in Drivers : InstallHandler(n) \/ RemoveHandler(n)
    <3>1. /\ UNCHANGED <<eticks, began, asked, elapsed>> /\ timer_ticks' \in {0, timer_ticks}
          /\ asked = 0
      BY <2>2 DEF InstallHandler, RemoveHandler, clock, At, Sleeping
    <3>2. ~(elapsed < asked)
      BY <2>1, <3>1
    <3> QED BY <2>1, <3>1, <3>2
  <2>3. CASE \E ticks \in Sleeps : Sleep(ticks)
    <3>1. PICK ticks \in Sleeps : Sleep(ticks)
      BY <2>3
    <3>2. /\ eticks' = (timer_ticks + ticks) % Deadlines /\ began' = timer_ticks
          /\ asked' = ticks /\ elapsed' = 0 /\ timer_ticks' = timer_ticks /\ pc' = "sleep"
      BY <3>1 DEF Sleep, Deadline, At
    <3>3. timer_ticks \in Int /\ ticks \in Nat
      BY <2>1, Numbers DEF Ticks
    <3>4. eticks' \in 0 .. Deadlines - 1
      BY <3>2, <3>3, Numbers
    <3> QED BY <2>1, <3>2, <3>3, <3>4
  <2>4. CASE Wake
    <3>1. /\ eticks' = 0 /\ began' = 0 /\ asked' = 0 /\ elapsed' = 0
          /\ timer_ticks' = timer_ticks
      BY <2>4 DEF Wake
    <3> QED BY <2>1, <3>1
  <2>5. CASE CallPanic
    <3>1. UNCHANGED clock /\ pc' = "panic"
      BY <2>5 DEF CallPanic, At
    <3> QED BY <2>1, <3>1 DEF clock, Sleeping
  <2> QED BY <2>2, <2>3, <2>4, <2>5 DEF Calls
<1>3. Types'
  BY <1>1, <1>2 DEF Types, cpu, pics, Pcs, Interruptible
<1>4. Control' /\ Stack' /\ Gates' /\ InService'
  BY <1>1 DEF Control, Stack, Gates, InService, cpu, pics, IrqStage, IsrStage,
     BootPc, Interruptible
<1>5. Sleeping'
  BY <1>1, <1>2 DEF Sleeping, IrqStage, BootPc
<1> QED BY <1>3, <1>4, <1>5

LEMMA Inductive == IInv /\ [Next]_vars => IInv'
<1> SUFFICES ASSUME IInv, [Next]_vars PROVE IInv'
  OBVIOUS
<1>1. CASE Boot
  BY <1>1, BootStep
<1>2. CASE Calls \/ Wake
  BY <1>2, CallStep
<1>3. CASE Interrupt
  BY <1>3, InterruptStep DEF Interrupt
<1>4. CASE Handlers
  BY <1>4, RoutineStep, EoiSlaveStep, EoiMasterStep, IretStep, FaultStep DEF Handlers
<1>5. CASE Events
  <2>1. CASE \E n \in Line : Raise(n) \/ Withdraw(n)
    BY <2>1, LineStep
  <2>2. CASE NonMaskable
    <3>1. 2 \in 0 .. 31 /\ 0 \in Nat
      OBVIOUS
    <3>2. /\ Running /\ Enter(2, 0) /\ nmiBlocked' \in BOOLEAN
          /\ UNCHANGED <<gates, pics, irq_routines, clock>>
      BY <2>2 DEF NonMaskable, NMI
    <3> QED BY <3>1, <3>2, ExceptionStep
  <2>3. CASE \E v \in Faults : \E code \in Codes : Exception(v, code)
    <3>1. PICK v \in Faults, code \in Codes : Exception(v, code)
      BY <2>3
    <3>2. v \in 0 .. 31 /\ code \in Nat
      BY Numbers
    <3>3. /\ Running /\ Enter(v, code) /\ nmiBlocked' \in BOOLEAN
          /\ UNCHANGED <<gates, pics, irq_routines, clock>>
      BY <3>1 DEF Exception, IInv, Types
    <3> QED BY <3>2, <3>3, ExceptionStep
  <2> QED BY <1>5, <2>1, <2>2, <2>3 DEF Events
<1>6. CASE UNCHANGED vars
  <2> USE <1>6 DEF vars, cpu, pics, clock
  <2>1. Types' /\ Control'
    BY DEF IInv, Types, Control
  <2>2. Stack' /\ Gates' /\ InService' /\ Sleeping'
    BY DEF IInv, Stack, Gates, InService, Held, Sleeping
  <2> QED BY <2>1, <2>2 DEF IInv
<1> QED BY <1>1, <1>2, <1>3, <1>4, <1>5, <1>6 DEF Next

THEOREM Invariant == Spec => []IInv
BY Initially, Inductive, PTL DEF Spec
-----------------------------------------------------------------------------
\* Every variable has its type, and the processor never returns to a word that is not an
\* address (pc is never "past").
THEOREM TypeCorrect == Spec => []TypeOK
<1>1. IInv => TypeOK
  <2> SUFFICES ASSUME IInv PROVE TypeOK
    OBVIOUS
  <2>1. gates \subseteq 0 .. 47
    BY DEF IInv, Gates
  <2>2. pc \in Pcs
    BY DEF IInv, Types
  <2> QED
    BY <2>1, <2>2 DEF IInv, Types, TypeOK, Pcs, BootPc, Interruptible, IrqStage, IsrStage,
       InHandler, Ticks
<1> QED BY <1>1, Invariant, PTL

\* Whenever the processor can be interrupted no line is in service (irq.c:37).
THEOREM AllAcknowledged == Spec => []Quiet
<1>1. IInv => Quiet
  BY DEF IInv, InService, Quiet
<1> QED BY <1>1, Invariant, PTL

\* Handlers are told the vector that was taken, the stubs leave the stack as iret needs it,
\* and irq_handler calls the routine of the line in service (irq.c:33).
THEOREM RightRoutine == Spec => []Dispatched
<1>1. IInv => Dispatched
  <2> SUFFICES ASSUME IInv PROVE Dispatched
    OBVIOUS
  <2>1. ASSUME pc \in InHandler
        PROVE  LET f == frames[Len(frames)]
               IN  /\ r.int_no = f.vector
                   /\ f.vector \in Coded => r.err_code = f.code
                   /\ Len(f.words) = 2
    <3>1. Len(frames) > 0
      BY <2>1 DEF IInv, Control, InHandler, IrqStage, IsrStage
    <3> QED BY <3>1, Registers DEF WellFormed
  <2>2. ASSUME pc = "irq_handler"
        PROVE  \/ isr = {Called, Pin(Called)}
               \/ Called = 7 /\ isr = {}
               \/ Called = 15 /\ isr = {Cascade}
    <3>1. Len(frames) = 1 /\ Held(frames[1].vector)
      BY <2>2 DEF IInv, Control, InService, IrqStage
    <3>2. Called = frames[1].vector - 32
      BY <3>1, Registers DEF Called
    <3>3. ASSUME NEW n \in Line, frames[1].vector = Vector(n)
          PROVE  Called = n
      BY <3>2, <3>3, Numbers DEF Vector
    <3> QED BY <3>1, <3>2, <3>3 DEF Held
  <2>3. pc = "reset" => gates = {}
    BY DEF IInv, Gates
  <2> QED BY <2>1, <2>2, <2>3 DEF Dispatched
<1> QED BY <1>1, Invariant, PTL

\* After its cli a panic is final, whatever NMI or exception comes in the middle of it.
THEOREM PanicHolds == Spec => PanicFinal
<1>1. IInv /\ IInv' /\ [Next]_vars =>
        [Panicked => Panicked' /\ pc' \notin {"past", "irq_handler"}]_vars
  <2> SUFFICES ASSUME IInv, IInv', Next, Panicked
               PROVE  Panicked' /\ pc' \notin {"past", "irq_handler"}
    OBVIOUS
  <2>1. pc' # "past" /\ pc # "past"
    BY DEF IInv, Types, Pcs, BootPc, Interruptible, IrqStage, IsrStage
  <2>2. /\ pc \notin BootPc \union IrqStage \union {"kernel", "sleep"} /\ ~intFlag
    <3>1. CASE pc \in {"printm", "hlt"}
      BY <3>1 DEF IInv, Control, BootPc, IrqStage, Interruptible
    <3>2. CASE \E i \in DOMAIN frames : frames[i].pc \in {"printm", "past"}
      <4>1. PICK i \in DOMAIN frames : frames[i].pc \in {"printm", "past"}
        BY <3>2
      <4>2. frames # <<>>
        BY <4>1
      <4>3. ASSUME pc \in IrqStage PROVE FALSE
        <5>1. i = 1
          BY <4>1, <4>3 DEF IInv, Control, Types
        <5> QED BY <4>1, <4>3, <5>1 DEF IInv, Control, Interruptible
      <4> QED BY <4>2, <4>3 DEF IInv, Control
    <3> QED BY <2>1, <3>1, <3>2 DEF Panicked
  <2>3. CASE Boot \/ Calls \/ Wake \/ Interrupt
    BY <2>2, <2>3 DEF Boot, InitIsr, InitIrq, Sti, Calls, InstallHandler, RemoveHandler, Sleep,
       CallPanic, Wake, Interrupt, Acknowledge, Spurious, At, BootPc
  <2>4. CASE Handlers
    <3>1. IsrHandler \/ PageFault \/ Cli \/ Halt
      BY <2>2, <2>4 DEF Handlers, CallRoutine, EoiSlave, EoiMaster, Iret, At, IrqStage
    <3>2. frames' = frames
      BY <3>1 DEF IsrHandler, PageFault, Cli, Halt, cpu
    <3>3. pc' # "irq_handler" /\ (pc = "printm" => pc' = "hlt") /\ pc # "hlt"
      BY <3>1 DEF IsrHandler, PageFault, Cli, Halt, At
    <3> QED BY <2>1, <3>2, <3>3 DEF Panicked
  <2>5. CASE \E n \in Line : Raise(n) \/ Withdraw(n)
    BY <2>1, <2>2, <2>5 DEF Raise, Withdraw, cpu, Panicked, IrqStage
  <2>6. ASSUME NEW v \in 0 .. 31, NEW code \in Nat, Enter(v, code), Running
        PROVE  Panicked' /\ pc' \notin {"past", "irq_handler"}
    <3>1. gates # {} /\ v \in gates /\ v \in 0 .. 47 /\ v < 32 /\ pc # "reset"
      <4>1. pc \notin {"init_isr", "reset"}
        BY <2>2, <2>6 DEF Running, BootPc
      <4>2. gates \in {0 .. 31, 0 .. 47}
        BY <4>1 DEF IInv, Gates
      <4> QED BY <4>1, <4>2
    <3>2. /\ pc' = "isr_handler" /\ Len(frames') = Len(frames) + 1
          /\ frames'[Len(frames')].pc = Interrupted
          /\ \A i \in DOMAIN frames : frames'[i] = frames[i]
          /\ frames' \in Seq(FrameSet)
      BY <2>6, <3>1, Entered
    <3>3. DOMAIN frames' = DOMAIN frames \union {Len(frames')}
      BY <3>2 DEF IInv, Types
    <3>4. \E i \in DOMAIN frames' : frames'[i].pc \in {"printm", "past"}
      <4>1. CASE pc \in {"printm", "hlt"}
        BY <3>2, <3>3, <4>1 DEF Interrupted
      <4>2. CASE \E i \in DOMAIN frames : frames[i].pc \in {"printm", "past"}
        BY <3>2, <3>3, <4>2
      <4> QED BY <2>1, <4>1, <4>2 DEF Panicked
    <3> QED BY <3>2, <3>4 DEF Panicked
  <2>7. CASE NonMaskable
    BY <2>6, <2>7, 2 \in 0 .. 31, 0 \in Nat DEF NonMaskable, NMI
  <2>8. CASE \E v \in Faults : \E code \in Codes : Exception(v, code)
    <3>1. PICK v \in Faults, code \in Codes : Exception(v, code)
      BY <2>8
    <3>2. v \in 0 .. 31 /\ code \in Nat
      BY Numbers
    <3> QED BY <2>6, <3>1, <3>2 DEF Exception
  <2> QED BY <2>3, <2>4, <2>5, <2>7, <2>8 DEF Next, Events
<1> QED BY <1>1, Invariant, PTL DEF Spec, PanicFinal

\* timer_sleep does not return early, unless counter and argument reach the 16 bits of
\* the deadline (timer.c:22).
THEOREM SleepsLongEnough == Spec => WakesLate
<1>1. IInv /\ [Next]_vars =>
        [pc = "sleep" /\ pc' = "kernel" /\ elapsed < asked => began + asked >= Deadlines]_vars
  <2> SUFFICES ASSUME IInv, Next, pc = "sleep", pc' = "kernel", elapsed < asked,
                      ~(began + asked >= Deadlines)
               PROVE  FALSE
    OBVIOUS
  <2>1. frames = <<>>
    BY DEF IInv, Control
  <2>2. Wake
    <3>1. ~Boot /\ ~Calls /\ ~Interrupt
      BY DEF Boot, InitIsr, InitIrq, Sti, Calls, InstallHandler, RemoveHandler, Sleep,
         CallPanic, Interrupt, Acknowledge, Spurious, Enter, At, Vector
    <3>2. ~Handlers
      BY DEF Handlers, CallRoutine, EoiSlave, EoiMaster, Iret, IsrHandler, PageFault, Cli,
         Halt, At
    <3>3. ~Events
      BY DEF Events, Raise, Withdraw, NonMaskable, Exception, Enter
    <3> QED BY <3>1, <3>2, <3>3 DEF Next
  <2>3. /\ began \in Int /\ asked \in Nat /\ elapsed \in Nat /\ timer_ticks \in Int
        /\ elapsed <= asked
    BY Numbers DEF IInv, Types, Ticks
  <2>4. timer_ticks = began + elapsed /\ eticks = (began + asked) % Deadlines
    BY <2>3, Numbers DEF IInv, Sleeping
  <2>5. eticks \in Nat /\ (began + asked >= 0 => eticks = began + asked)
    BY <2>3, <2>4, Numbers
  <2> QED BY <2>2, <2>3, <2>4, <2>5, Numbers DEF Wake, Due
<1> QED BY <1>1, Invariant, PTL DEF Spec, WakesLate
=============================================================================
