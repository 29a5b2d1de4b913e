-------------------------------- MODULE Irq --------------------------------
(***************************************************************************)
(* Interrupts, exceptions, panic and the timer: the two interrupt          *)
(* controllers as irq_remap sets them up, the processor, the stubs of      *)
(* irq_asm.asm and isr_asm.asm with the handlers they call, and kernel     *)
(* code that installs routines, sleeps or panics.                          *)
(*                                                                         *)
(* A step is what lies between two points where a device, a non-maskable   *)
(* interrupt or an exception makes a difference.  The registers the stubs  *)
(* save and restore alike are left out; a frame of the stack is what the   *)
(* processor pushes, and the words the stub adds.                          *)
(***************************************************************************)
EXTENDS Integers, Sequences, FiniteSets

CONSTANTS
  Line,       \* the lines with a device; 2 is the cascade of the controllers
  Drivers,    \* the lines whose driver installs a routine
  Faults,     \* exceptions kernel code may cause, by vector
  Codes,      \* error codes the processor may push
  Deadlines,  \* values of a uint16_t (2^16)
  Half,       \* values of an int that are not negative (2^31)
  Sleeps,     \* arguments of timer_sleep
  MaxFrames   \* bound: nested interrupts and exceptions

NMI     == 2
Coded   == {8} \union 10 .. 14      \* exceptions with an error code, but 17 and 21
Cascade == 2

\* An alignment check (17) needs ring 3, a control protection fault (21) a feature
\* the kernel does not enable.
ASSUME IrqAssumption ==
  /\ Line \subseteq 0 .. 15 \ {Cascade} /\ Drivers \subseteq Line
  /\ Faults \subseteq (0 .. 16 \ {NMI, 15}) \union {18, 19}
  /\ Codes \subseteq Nat
  /\ Deadlines \in Nat \ {0} /\ Half \in Nat /\ Deadlines <= Half
  /\ Sleeps \subseteq 0 .. Half - 1
  /\ MaxFrames \in Nat

VARIABLES
  pc,            \* what the processor executes
  intFlag,       \* EFLAGS.IF
  nmiBlocked,    \* an NMI was taken and no iret executed since
  frames,        \* the stack: interrupted code, its IF, and the words in between
  gates,         \* vectors that have a gate in idt
  irr, isr,      \* lines the controllers have requests of, and have in service
  irq_routines,  \* lines that have a routine
  timer_ticks, eticks,
  began, asked, elapsed  \* history: counter and argument of a sleep, ticks since

pics  == <<irr, isr>>
clock == <<timer_ticks, eticks, began, asked, elapsed>>
cpu   == <<intFlag, nmiBlocked, frames>>
vars  == <<pc, cpu, gates, pics, irq_routines, clock>>

Init ==
  /\ pc = "init_isr"
  /\ intFlag = FALSE /\ nmiBlocked = FALSE
  /\ frames = <<>>
  /\ gates = {}
  /\ irr = {} /\ isr = {}
  /\ irq_routines = {}
  /\ timer_ticks = 0 /\ eticks = 0
  /\ began = 0 /\ asked = 0 /\ elapsed = 0
-----------------------------------------------------------------------------
(***************************************************************************)
(* The controllers.  Lines 8 to 15 are the second one's, which sits on     *)
(* line 2 of the first; a lower number goes first, and nothing passes what *)
(* is in service in the same controller.                                   *)
(***************************************************************************)
Pin(n)       == IF n < 8 THEN n ELSE Cascade
Before(m, n) == Pin(m) < Pin(n) \/ (Pin(m) = Pin(n) /\ m < n)
Blocks(m, n) == IF m < 8 THEN m <= Pin(n) ELSE n >= 8 /\ m <= n
Ready(n)     == \A m \in isr : ~Blocks(m, n)

Raise(n) ==
  /\ n \notin irr
  /\ irr' = irr \union {n}
  /\ UNCHANGED <<pc, cpu, gates, isr, irq_routines, clock>>

\* The timer's line stays up for half a period, longer than a handler takes.
Withdraw(n) ==
  /\ n \in irr
  /\ n = 0 => intFlag
  /\ irr' = irr \ {n}
  /\ UNCHANGED <<pc, cpu, gates, isr, irq_routines, clock>>

\* irq_remap: vectors from 0x20 and 0x28 on.
Vector(n) == IF n < 8 THEN 32 + n ELSE 40 + (n - 8)

\* The non-specific EOI: the first line in service is done.
Done(chip) ==
  LET mine == {m \in isr : (m >= 8) = (chip = "slave")}
  IN  {m \in mine : \A other \in mine : m <= other}
-----------------------------------------------------------------------------
(***************************************************************************)
(* The processor takes an interrupt or an exception: the gate, the stub.   *)
(***************************************************************************)
IrqStub(v) == <<v - 32, v>>
IsrStub(v) == IF v \in Coded THEN <<v>> ELSE <<0, v>>

\* After hlt the processor goes on behind it, in code that has panicked.
Interrupted == IF pc = "hlt" THEN "past" ELSE pc

Running == pc \notin {"past", "reset"}

\* Without a gate there is none for the fault it causes either: the machine resets.
Enter(v, code) ==
  IF v \notin gates THEN pc' = "reset" /\ UNCHANGED <<intFlag, frames>>
  ELSE /\ frames' = Append(frames,
            [pc |-> Interrupted, intFlag |-> intFlag, vector |-> v, code |-> code,
             words |-> (IF v \in Coded THEN <<code>> ELSE <<>>)
                       \o (IF v < 32 THEN IsrStub(v) ELSE IrqStub(v))])
       /\ intFlag' = FALSE
       /\ pc' = IF v < 32 THEN "isr_handler" ELSE "irq_handler"

Acknowledge(n) ==
  /\ Running /\ intFlag
  /\ n \in irr /\ Ready(n)
  /\ \A m \in irr : Ready(m) => ~Before(m, n)
  /\ irr' = irr \ {n}
  /\ isr' = isr \union {n, Pin(n)}
  /\ Enter(Vector(n), 0)
  /\ UNCHANGED <<nmiBlocked, gates, irq_routines, clock>>

\* The only request goes away while the processor acknowledges it: the first
\* controller answers with its line 7, or the second, asked by the first, with 15.
Spurious(n) ==
  /\ Running /\ intFlag
  /\ {m \in irr : Ready(m)} = {n}
  /\ irr' = irr \ {n}
  /\ \/ isr' = isr /\ Enter(Vector(7), 0)
     \/ n >= 8 /\ isr' = isr \union {Cascade} /\ Enter(Vector(15), 0)
  /\ UNCHANGED <<nmiBlocked, gates, irq_routines, clock>>

Interrupt == \E n \in Line : Acknowledge(n) \/ Spurious(n)

NonMaskable ==
  /\ Running /\ ~nmiBlocked /\ Len(frames) < MaxFrames
  /\ nmiBlocked' = TRUE
  /\ Enter(NMI, 0)
  /\ UNCHANGED <<gates, pics, irq_routines, clock>>

Exception(v, code) ==
  /\ Running /\ pc # "hlt" /\ Len(frames) < MaxFrames
  /\ Enter(v, code)
  /\ UNCHANGED <<nmiBlocked, gates, pics, irq_routines, clock>>
-----------------------------------------------------------------------------
(***************************************************************************)
(* The handlers.  r is the struct registers the stub passes.               *)
(***************************************************************************)
r == LET words == frames[Len(frames)].words
     IN  [int_no |-> words[Len(words)], err_code |-> words[Len(words) - 1]]

At(here, next) == pc = here /\ pc' = next

\* Mutant: the counter has fewer bits than a deadline.
WrapEarly(i) == i % (Deadlines \div 2)
Wrap(i)      == IF i = Half THEN 0 - Half ELSE i

\* Mutant: the line after the one of the vector.
CalledNext == r.int_no - 31
Called     == r.int_no - 32

\* irq_handler: the routine of the line, which for line 0 is timer_handler, ...
CallRoutine ==
  /\ At("irq_handler", "slave")
  /\ IF Called = 0 /\ 0 \in irq_routines
       THEN /\ timer_ticks' = Wrap(timer_ticks + 1)
            /\ elapsed' = IF elapsed < asked THEN elapsed + 1 ELSE elapsed
       ELSE UNCHANGED <<timer_ticks, elapsed>>
  /\ UNCHANGED <<cpu, gates, pics, irq_routines, eticks, began, asked>>

\* Mutant: the second controller is forgotten for its first line.
FromSlaveLate == r.int_no > 40
FromSlave     == r.int_no >= 40

\* ... and the acknowledgements.
EoiSlave ==
  /\ At("slave", "master")
  /\ isr' = IF FromSlave THEN isr \ Done("slave") ELSE isr
  /\ UNCHANGED <<cpu, gates, irr, irq_routines, clock>>

\* Mutant: the first controller is forgotten for a line of the second.
EoiMasterElse ==
  /\ At("master", "iret")
  /\ isr' = IF FromSlave THEN isr ELSE isr \ Done("master")
  /\ UNCHANGED <<cpu, gates, irr, irq_routines, clock>>

EoiMaster ==
  /\ At("master", "iret")
  /\ isr' = isr \ Done("master")
  /\ UNCHANGED <<cpu, gates, irr, irq_routines, clock>>

\* irq_common_stub drops two words and returns.
Iret ==
  /\ pc = "iret"
  /\ LET f == frames[Len(frames)]
     IN  /\ pc' = IF Len(f.words) = 2 THEN f.pc ELSE "past"
         /\ intFlag' = f.intFlag
  /\ frames' = SubSeq(frames, 1, Len(frames) - 1)
  /\ nmiBlocked' = FALSE
  /\ UNCHANGED <<gates, pics, irq_routines, clock>>

Fatal == r.int_no <= 31

\* isr_handler; page_fault prints what r->err_code says before it panics.
IsrHandler ==
  /\ pc = "isr_handler"
  /\ pc' = CASE r.int_no = 14 -> "page_fault"
             [] r.int_no # 14 /\ Fatal -> "panic"
             [] OTHER -> "iret"
  /\ UNCHANGED <<cpu, gates, pics, irq_routines, clock>>

PageFault == At("page_fault", "panic")
             /\ UNCHANGED <<cpu, gates, pics, irq_routines, clock>>

\* Mutant: panic leaves interrupts on.
MaskedNot == intFlag
Masked    == FALSE

Cli == /\ At("panic", "printm")
       /\ intFlag' = Masked
       /\ UNCHANGED <<nmiBlocked, frames, gates, pics, irq_routines, clock>>

Halt == At("printm", "hlt")
        /\ UNCHANGED <<cpu, gates, pics, irq_routines, clock>>

Handlers == CallRoutine \/ EoiSlave \/ EoiMaster \/ Iret
            \/ IsrHandler \/ PageFault \/ Cli \/ Halt
-----------------------------------------------------------------------------
(***************************************************************************)
(* Kernel code.                                                            *)
(***************************************************************************)
InitIsr == /\ At("init_isr", "init_irq")
           /\ gates' = 0 .. 31
           /\ UNCHANGED <<cpu, pics, irq_routines, clock>>

\* irq_remap, which makes the controllers forget requests, and 16 gates.
InitIrq == /\ At("init_irq", "sti")
           /\ gates' = gates \union 32 .. 47
           /\ irr' = {} /\ isr' = {}
           /\ UNCHANGED <<cpu, irq_routines, clock>>

Sti == /\ At("sti", "kernel")
       /\ intFlag' = TRUE
       /\ UNCHANGED <<nmiBlocked, frames, gates, pics, irq_routines, clock>>

\* For line 0 the caller is init_timer, which clears the counter.
InstallHandler(n) ==
  /\ At("kernel", "kernel")
  /\ timer_ticks' = IF n = 0 THEN 0 ELSE timer_ticks
  /\ irq_routines' = irq_routines \union {n}
  /\ UNCHANGED <<cpu, gates, pics, eticks, began, asked, elapsed>>

RemoveHandler(n) == /\ At("kernel", "kernel")
                    /\ irq_routines' = irq_routines \ {n}
                    /\ UNCHANGED <<cpu, gates, pics, clock>>

Deadline(ticks) == (timer_ticks + ticks) % Deadlines

\* timer_sleep: the deadline, cut to 16 bits, ...
Sleep(ticks) ==
  /\ At("kernel", "sleep")
  /\ eticks' = Deadline(ticks)
  /\ began' = timer_ticks /\ asked' = ticks /\ elapsed' = 0
  /\ UNCHANGED <<cpu, gates, pics, irq_routines, timer_ticks>>

\* Mutant: the loop ends a tick early.
DueEarly == timer_ticks + 1 >= eticks
Due      == timer_ticks >= eticks

\* ... and the end of the loop that polls the counter.
Wake == /\ At("sleep", "kernel")
        /\ Due
        /\ eticks' = 0 /\ began' = 0 /\ asked' = 0 /\ elapsed' = 0
        /\ UNCHANGED <<cpu, gates, pics, irq_routines, timer_ticks>>

\* pmm_alloc_page panics when it is out of memory.
CallPanic == At("kernel", "panic")
             /\ UNCHANGED <<cpu, gates, pics, irq_routines, clock>>

Boot   == InitIsr \/ InitIrq \/ Sti
Calls  == \/ \E n \in Drivers : InstallHandler(n) \/ RemoveHandler(n)
          \/ \E ticks \in Sleeps : Sleep(ticks)
          \/ CallPanic
Events == \/ \E n \in Line : Raise(n) \/ Withdraw(n)
          \/ NonMaskable
          \/ \E v \in Faults : \E code \in Codes : Exception(v, code)

Next == Boot \/ Calls \/ Wake \/ Interrupt \/ Handlers \/ Events

Spec == Init /\ [][Next]_vars

\* The processor executes what it is in and takes interrupts that are enabled; the
\* sleeping code gets on although handlers interrupt it; the timer does not stop; and
\* a request the processor could take again and again is neither passed over each time
\* nor gone each time it is acknowledged: a handler is short for the timer's period.
FairSpec ==
  /\ Spec
  /\ WF_vars(Boot \/ Handlers) /\ WF_vars(Interrupt) /\ SF_vars(Wake)
  /\ WF_vars(Raise(0))
  /\ \A n \in Line : SF_vars(Acknowledge(n))
-----------------------------------------------------------------------------
InHandler == {"irq_handler", "slave", "master", "iret", "isr_handler", "page_fault"}

\* Every variable has its type.
TypeOK ==
  /\ pc \in InHandler \union {"init_isr", "init_irq", "sti", "kernel", "sleep",
                              "panic", "printm", "hlt", "past", "reset"}
  /\ intFlag \in BOOLEAN /\ nmiBlocked \in BOOLEAN
  /\ gates \subseteq 0 .. 47
  /\ irr \subseteq Line /\ isr \subseteq Line \union {Cascade}
  /\ irq_routines \subseteq Drivers
  /\ timer_ticks \in 0 - Half .. Half - 1 /\ eticks \in 0 .. Deadlines - 1
  /\ began \in 0 - Half .. Half - 1 /\ asked \in Sleeps \union {0} /\ elapsed \in 0 .. asked

\* A handler is told the vector the processor took, and the error code that belongs to
\* it; the stub leaves nothing on the stack above what iret takes (isr_asm.asm,
\* irq_asm.asm); and the routine that irq_handler calls is the one of the line in
\* service, whatever else was requested or withdrawn meanwhile (irq.c:33).  A spurious
\* interrupt calls the routine of line 7 or 15 with nothing of that line in service.
Dispatched ==
  /\ pc \in InHandler =>
       LET f == frames[Len(frames)]
       IN  /\ r.int_no = f.vector
           /\ f.vector \in Coded => r.err_code = f.code
           /\ Len(f.words) = 2
  /\ pc = "irq_handler" => \/ isr = {Called, Pin(Called)}
                           \/ Called = 7 /\ isr = {}
                           \/ Called = 15 /\ isr = {Cascade}
  /\ pc = "reset" => gates = {}

\* Whenever the processor can be interrupted nothing is in service: each interrupt, the
\* spurious ones too, was acknowledged to the controllers that wait for it (irq.c:37),
\* so none is blocked by one that is over.
Quiet == intFlag => isr = {}

\* After its cli a panic is final: whatever a non-maskable interrupt or an exception in
\* the middle of it starts, no routine runs and no interrupted code goes on.
Panicked   == \/ pc \in {"printm", "hlt", "past"}
              \/ \E i \in DOMAIN frames : frames[i].pc \in {"printm", "past"}
PanicFinal == [][Panicked => Panicked' /\ pc' \notin {"past", "irq_handler"}]_vars

\* timer_sleep does not return before the ticks have passed, unless counter and
\* argument reach the 16 bits of the deadline (timer.c:22) ...
WakesLate == [][pc = "sleep" /\ pc' = "kernel" /\ elapsed < asked =>
                  began + asked >= Deadlines]_vars

\* ... and does return while line 0 has its routine, from every value of the counter,
\* or the kernel dies.
Dead    == pc \in {"hlt", "reset"}
SleepEnds == pc = "sleep" /\ 0 \in irq_routines ~> pc = "kernel" \/ Dead

\* A request is taken or withdrawn in the end, or the kernel dies, if the processor can be
\* interrupted time and again with no request before it: no sequence of interrupts leaves
\* a controller blocked by one that is over (irq.c:37).
First(n) == n \in irr /\ \A m \in irr : ~Before(m, n)
Served   == \A n \in Line :
              []<>(intFlag /\ First(n)) => []<>(n \notin irr) \/ <>Dead
=============================================================================
