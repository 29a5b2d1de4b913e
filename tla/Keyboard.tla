------------------------------ MODULE Keyboard ------------------------------
(***************************************************************************)
(* The keyboard driver (drivers/keyboard/keyboard.c): the IRQ 1 handler    *)
(* puts characters into the ring kb_buf, and the idle loop start_kernel    *)
(* ends in takes them out and prints them.                                 *)
(*                                                                         *)
(* The handler runs behind an interrupt gate, so for the rest of the       *)
(* kernel it is one step; the boot code and the idle loop can be           *)
(* interrupted between any two accesses to what they share with it.  The   *)
(* kernel is compiled without optimisation (Makefile, CFLAGS): an access   *)
(* of the source is an access of the machine, in the source's order.       *)
(*                                                                         *)
(* A character is the number of its key press, with the map that was used; *)
(* Junk stands for a byte that no key press put there.                     *)
(***************************************************************************)
EXTENDS Naturals, FiniteSets

\* The keys of control_map that shift, the first five ones (until released) and
\* the others; LSHIFT stands for RSHIFT too, and the maps do not use the rest.
Momentary == {"CONTROL", "LSHIFT"}
Locking   == {"CAPSLOCK"}

CONSTANTS
  Size,      \* entries of kb_buf (256)
  Control,   \* the control keys that are pressed
  MaxKeys,   \* bound: characters typed
  MaxStart   \* bound: where the model stops following kb_buf_start

ASSUME KeyboardAssumption ==
  /\ Size \in Nat /\ Size > 1
  /\ Control \subseteq Momentary \union Locking
  /\ MaxKeys \in Nat
  /\ MaxStart \in Nat /\ MaxStart >= Size

Junk == [key |-> 0, shifted |-> FALSE]
Char == [key : 1 .. MaxKeys, shifted : BOOLEAN] \union {Junk}

\* Scancodes: a key goes down (again, while it is held) or up.
None == [key |-> "none", released |-> FALSE]
Code == [key : Control \union {"char"}, released : BOOLEAN]

VARIABLES
  pc,                        \* where start_kernel is
  dis_kb,                    \* cmdline_opts[0]; nothing reads the other option
  installed, layout,         \* irq_routines[1] and current_layout are set
  kb_buf, kb_buf_start, kb_buf_end,
  controls,                  \* current_layout->controls
  index, c, end,             \* what keyboard_getchar has in registers
  port, irq,                 \* the controller's output buffer and its request
  held, typed,               \* keys held down, characters typed
  printed,                   \* history: the last character given to console_putc
  want,                      \* history: whether the last character typed was shifted
  upset                      \* history: what has come between a key and the console

ring == <<kb_buf, kb_buf_start, kb_buf_end, controls>>
regs == <<index, c, end>>
keys == <<port, irq, held, typed, want>>
boot == <<dis_kb, installed, layout>>
vars == <<pc, boot, ring, regs, keys, printed, upset>>

Init ==
  /\ pc = "cli"
  /\ dis_kb = FALSE
  /\ installed = FALSE /\ layout = FALSE
  /\ kb_buf = [i \in 0 .. Size - 1 |-> Junk]
  /\ kb_buf_start = 0 /\ kb_buf_end = 0
  /\ controls = {}
  /\ index = 0 /\ c = Junk /\ end = 0
  /\ port = None /\ irq = FALSE
  /\ held = {} /\ typed = 0
  /\ printed = Junk
  /\ want = FALSE
  /\ upset = {}
-----------------------------------------------------------------------------
(***************************************************************************)
(* The keyboard.  The controller takes a code once its output buffer is    *)
(* empty, and requests an interrupt when it does.                          *)
(***************************************************************************)
Send(code) == port' = code /\ irq' = TRUE

Shifts(mods) == mods \intersect {"LSHIFT", "CAPSLOCK"} # {} /\ "CONTROL" \notin mods

PressChar ==
  /\ port = None /\ typed < MaxKeys
  /\ typed' = typed + 1
  /\ want' = Shifts(held)
  /\ Send([key |-> "char", released |-> FALSE])
  /\ UNCHANGED <<pc, boot, ring, regs, held, printed, upset>>

\* CapsLock counts as held while its lock is on.
PressControl(k) ==
  /\ port = None
  /\ k \notin held \/ k \in Locking
  /\ held' = IF k \in held THEN held \ {k} ELSE held \union {k}
  /\ Send([key |-> k, released |-> FALSE])
  /\ UNCHANGED <<pc, boot, ring, regs, typed, want, printed, upset>>

ReleaseControl(k) ==
  /\ port = None
  /\ k \in held /\ k \in Momentary
  /\ held' = held \ {k}
  /\ Send([key |-> k, released |-> TRUE])
  /\ UNCHANGED <<pc, boot, ring, regs, typed, want, printed, upset>>

\* Typematic repeat: the make code of a key that is held.
RepeatControl(k) ==
  /\ port = None
  /\ k \in held /\ k \in Momentary
  /\ upset' = upset \union {"repeat"}
  /\ Send([key |-> k, released |-> FALSE])
  /\ UNCHANGED <<pc, boot, ring, regs, held, typed, want, printed>>

Keys == \/ PressChar
        \/ \E k \in Control : PressControl(k) \/ ReleaseControl(k) \/ RepeatControl(k)
-----------------------------------------------------------------------------
(***************************************************************************)
(* irq_handler for IRQ 1: keyboard_handler if it is installed, then EOI.   *)
(***************************************************************************)
\* `kb_buf_end != kb_buf_start - 1' fails, in 32 bits.
RingFull == kb_buf_start # 0 /\ kb_buf_end = kb_buf_start - 1

Typed == [key |-> typed, shifted |-> Shifts(controls)]

After(i) == (i + 1) % Size

Push(ch) ==
  IF RingFull
    THEN upset' = upset \union {"full"} /\ UNCHANGED ring
    ELSE /\ kb_buf' = [kb_buf EXCEPT ![kb_buf_end] = ch]
         /\ kb_buf_end' = After(kb_buf_end)
         /\ upset' = IF kb_buf_end' = kb_buf_start THEN upset \union {"wrap"} ELSE upset
         /\ UNCHANGED <<kb_buf_start, controls>>

\* Mutant: releasing a key does nothing.
HandleControlSticky(k, released) ==
  /\ controls' = IF released \/ k \in controls THEN controls ELSE controls \union {k}
  /\ UNCHANGED <<kb_buf, kb_buf_start, kb_buf_end, upset>>

HandleControl(k, released) ==
  /\ controls' = IF released
                   THEN IF k \in Momentary THEN controls \ {k} ELSE controls
                   ELSE IF k \in controls THEN controls \ {k} ELSE controls \union {k}
  /\ UNCHANGED <<kb_buf, kb_buf_start, kb_buf_end, upset>>

\* Before current_layout is set the handler looks the code up through NULL: what
\* it finds there counts as a control key, or its byte is pushed.
HandleBlind ==
  /\ upset' = upset \union {"init"}
  /\ \/ UNCHANGED ring
     \/ /\ ~RingFull /\ ~port.released
        /\ kb_buf' = [kb_buf EXCEPT ![kb_buf_end] = Junk]
        /\ kb_buf_end' = After(kb_buf_end)
        /\ UNCHANGED <<kb_buf_start, controls>>

\* Mutant: the handler returns before it reads the port.
KeyboardHandlerEarlyOut ==
  IF ~layout THEN UNCHANGED <<ring, port, upset>>
    ELSE /\ port' = None
         /\ IF port.key = "char" THEN Push(Typed)
              ELSE HandleControl(port.key, port.released)

KeyboardHandler ==
  /\ port' = None
  /\ IF ~layout THEN HandleBlind
       ELSE IF port.key = "char" THEN Push(Typed)
            ELSE HandleControl(port.key, port.released)

Irq1 ==
  /\ irq /\ pc # "cli"
  /\ irq' = FALSE
  /\ IF installed THEN KeyboardHandler ELSE UNCHANGED <<ring, port, upset>>
  /\ UNCHANGED <<pc, boot, regs, held, typed, want, printed>>
-----------------------------------------------------------------------------
(***************************************************************************)
(* start_kernel, from sti on.                                              *)
(***************************************************************************)
Goto(from, to) == pc = from /\ pc' = to

Sti == /\ Goto("cli", "cmdline")
       /\ UNCHANGED <<boot, ring, regs, keys, printed, upset>>

\* An option counts only if it is the whole command line.
cmdline_parse(cmdline) ==
  /\ Goto("cmdline", "init")
  /\ dis_kb' = (cmdline = "dis_kb")
  /\ UNCHANGED <<installed, layout, ring, regs, keys, printed, upset>>

\* init_keyboard, one store after the other.
Disabled == /\ dis_kb /\ Goto("init", "test")
            /\ UNCHANGED <<boot, ring, regs, keys, printed, upset>>

InstallHandler ==
  /\ ~dis_kb /\ Goto("init", "layout")
  /\ installed' = TRUE
  /\ UNCHANGED <<dis_kb, layout, ring, regs, keys, printed, upset>>

SetLayout ==
  /\ Goto("layout", "start")
  /\ layout' = TRUE
  /\ UNCHANGED <<dis_kb, installed, ring, regs, keys, printed, upset>>

Cleared == IF kb_buf_end # 0 THEN upset \union {"init"} ELSE upset

ClearStart ==
  /\ Goto("start", "end")
  /\ kb_buf_start' = 0
  /\ UNCHANGED <<boot, kb_buf, kb_buf_end, controls, regs, keys, printed, upset>>

ClearEnd ==
  /\ Goto("end", "test")
  /\ kb_buf_end' = 0
  /\ upset' = Cleared
  /\ UNCHANGED <<boot, kb_buf, kb_buf_start, controls, regs, keys, printed>>

(***************************************************************************)
(* keyboard_idle and the keyboard_getchar it calls.                        *)
(***************************************************************************)
Test ==
  /\ kb_buf_start # kb_buf_end
  /\ Goto("test", "take")
  /\ UNCHANGED <<boot, ring, regs, keys, printed, upset>>

\* Mutants: start moves too far, the wrong entry is fetched, the end moves.
AdvanceTwice(i) == i + 2
FetchedNext(i)  == IF i + 1 < Size THEN kb_buf[i + 1] ELSE Junk
MaskedMoved(e)  == (e + 1) % Size

Advance(i) == i + 1
Fetched(i) == IF i < Size THEN kb_buf[i] ELSE Junk
Masked(e)  == e % Size

\* kb_buf_start++ is stored before the character is fetched.
Take ==
  /\ kb_buf_start < MaxStart
  /\ Goto("take", "fetch")
  /\ index' = kb_buf_start
  /\ kb_buf_start' = Advance(kb_buf_start)
  /\ UNCHANGED <<boot, kb_buf, kb_buf_end, controls, c, end, keys, printed, upset>>

Fetch ==
  /\ Goto("fetch", "load")
  /\ c' = Fetched(index)
  /\ UNCHANGED <<boot, ring, index, end, keys, printed, upset>>

\* kb_buf_end &= 255, a load and a store.
Load ==
  /\ Goto("load", "store")
  /\ end' = kb_buf_end
  /\ UNCHANGED <<boot, ring, index, c, keys, printed, upset>>

StoreEnd ==
  /\ Goto("store", "print")
  /\ kb_buf_end' = Masked(end)
  /\ upset' = IF kb_buf_end' # kb_buf_end THEN upset \union {"race"} ELSE upset
  /\ UNCHANGED <<boot, kb_buf, kb_buf_start, controls, regs, keys, printed>>

\* A key without a character, whose 0 is not printed (keyboard.c:160), is not typed.
Putc ==
  /\ Goto("print", "test")
  /\ printed' = c
  /\ UNCHANGED <<boot, ring, regs, keys, upset>>

Boot == Sti \/ (\E cmdline \in {"dis_kb", "dis_tarfs", ""} : cmdline_parse(cmdline))
        \/ Disabled \/ InstallHandler \/ SetLayout \/ ClearStart \/ ClearEnd
Idle == Test \/ Take \/ Fetch \/ Load \/ StoreEnd \/ Putc

Next == Keys \/ Irq1 \/ Boot \/ Idle

Spec == Init /\ [][Next]_vars

\* The processor runs start_kernel, and takes an interrupt that is requested
\* and not masked.
FairSpec == Spec /\ WF_vars(Boot \/ Idle) /\ WF_vars(Irq1)
-----------------------------------------------------------------------------
\* Every variable has its type; kb_buf_end stays inside kb_buf at every instruction.
TypeOK ==
  /\ pc \in {"cli", "cmdline", "init", "layout", "start", "end",
             "test", "take", "fetch", "load", "store", "print"}
  /\ dis_kb \in BOOLEAN /\ installed \in BOOLEAN /\ layout \in BOOLEAN
  /\ kb_buf \in [0 .. Size - 1 -> Char]
  /\ kb_buf_start \in 0 .. MaxStart
  /\ kb_buf_end \in 0 .. Size - 1
  /\ controls \subseteq Control
  /\ index \in 0 .. MaxStart - 1 /\ c \in Char /\ end \in 0 .. Size - 1
  /\ port \in Code \union {None} /\ irq \in BOOLEAN
  /\ held \subseteq Control /\ typed \in 0 .. MaxKeys
  /\ printed \in Char
  /\ want \in BOOLEAN
  /\ upset \subseteq {"full", "wrap", "race", "init", "repeat"}

\* The first lap: until kb_buf_start, which nothing wraps, leaves the ring.
FirstLap == kb_buf_start <= Size

\* On the first lap characters come out in the order of the keys and at most once,
\* whatever the handler does between the accesses of keyboard_getchar
\* (keyboard.c:112) and however often the ring overflows.
InOrder == [][FirstLap /\ pc = "print" => c.key > printed.key]_printed

\* On the first lap a character can be lost only to a full or wrapped ring, to the
\* handler running between the load and the store of `kb_buf_end &= 255', or in
\* init_keyboard: else each one handled is printed, in hand, or still in the ring.
Handled == IF port.key = "char" THEN typed - 1 ELSE typed
Queued  == (kb_buf_end + Size - (kb_buf_start % Size)) % Size
InHand  == CASE pc = "fetch" -> kb_buf[index].key
             [] pc \in {"load", "store", "print"} -> c.key
             [] OTHER -> printed.key
Accounted ==
  FirstLap /\ upset \subseteq {"repeat"} =>
    /\ InHand = Handled - Queued
    /\ \A i \in 0 .. Queued - 1 :
         kb_buf[(kb_buf_start + i) % Size].key = Handled - Queued + 1 + i

\* A character is taken from the map that the control keys chose when it was typed,
\* if no control key was held down long enough to repeat: keyboard_handler
\* (keyboard.c:135) takes a repeated make code for a release.
RightMap ==
  [][upset \intersect {"repeat", "init"} = {} /\ layout /\ kb_buf' # kb_buf =>
       kb_buf'[kb_buf_end].shifted = want]_kb_buf

\* Once init_keyboard has installed it, the handler answers every request, so the
\* controller can deliver the next code.
Answered == irq /\ installed ~> port = None

\* The idle loop empties the ring, however fast keys come, or ends its first lap.
Emptied == kb_buf_start # kb_buf_end ~> kb_buf_start \in {kb_buf_end, Size}

\* What the finished item "Keyboard driver" of the README promises: what is printed
\* was typed.
OnlyTyped == pc = "print" /\ upset = {} => c # Junk
=============================================================================
