------------------------------- MODULE Printm -------------------------------
(***************************************************************************)
(* kernel/printm.c on top of vsprintf and the console: the lines the       *)
(* kernel prints, and the characters keyboard_idle echoes.                 *)
(*                                                                         *)
(* printm formats into the static buffer buf and then passes buf, without  *)
(* arguments, as a format to console_write.  No interrupt handler prints,  *)
(* so the calls follow each other.                                         *)
(***************************************************************************)
EXTENDS Vsprintf, Console

CONSTANTS
  BufSize,     \* of buf (1024)
  Header,      \* "[ kernel ] "
  Formats,     \* what callers print: none gives a string a width
  Numerals,    \* formats of one number, to be read back
  Echoed,      \* what is typed
  Garbage,     \* arguments that console_write finds where none were passed
  MaxCalls     \* bound: calls

ASSUME PrintmAssumption ==
  /\ BufSize \in Nat \ {0} /\ MaxCalls \in Nat
  /\ Header \in Seq(STRING) /\ \A i \in DOMAIN Header : Header[i] \notin {"%", NUL}
  /\ \A fmt \in Formats \union Numerals :
       /\ fmt \in Seq({fmt[i] : i \in DOMAIN fmt})
       /\ \A i \in DOMAIN fmt : /\ Proper(fmt[i])
                                /\ IsString(fmt[i]) => fmt[i].width = Unset
  /\ \A g \in Garbage : g.str \in Seq(STRING) /\ g.int \in 0 .. Modulus - 1

VARIABLES
  buf,        \* printm's buffer
  screen,     \* the console
  dis_hdr,    \* printm_dis_hdr
  phase,      \* "run", or how the kernel ended
  printed,    \* history: all that was passed to console_putc
  call,       \* history: the last call of printm
  calls       \* bound

vars == <<buf, screen, dis_hdr, phase, printed, call, calls>>

NoCall == [fmt |-> <<>>, header |-> <<>>, out |-> <<>>]

Init ==
  /\ buf = [i \in 1 .. BufSize |-> NUL]
  /\ screen = Cleared
  /\ dis_hdr = FALSE
  /\ phase = "run"
  /\ printed = <<>>
  /\ call = NoCall
  /\ calls = 0
-----------------------------------------------------------------------------
(***************************************************************************)
(* console_write(buf).                                                     *)
(***************************************************************************)
\* console_write_int: a negative int leaves the loop at once.
WriteInt(n) == IF n >= Modulus \div 2 THEN <<>> ELSE Digits(n, 10)

\* console_write_hex, without leading zeros.
WriteHex(n) == <<"0", "x">> \o Digits(n, 16)

Argument(c, g) == CASE c = "s" -> g.str
                    [] c = "d" -> WriteInt(g.int)
                    [] c = "x" -> WriteHex(g.int)
                    [] OTHER   -> <<c>>

\* The walk over the buffer: what was printed, whether a % was just read, and whether
\* the end was.  A NUL behind a % does not end it.
Step(w, c, g) ==
  CASE w.done                -> w
    [] ~w.done /\ w.percent  -> [w EXCEPT !.out = @ \o Argument(c, g), !.percent = FALSE]
    [] ~w.done /\ ~w.percent /\ c = NUL -> [w EXCEPT !.done = TRUE]
    [] ~w.done /\ ~w.percent /\ c = "%" -> [w EXCEPT !.percent = TRUE]
    [] OTHER                 -> [w EXCEPT !.out = Append(@, c)]

Walk(b, g) ==
  LET begin == [out |-> <<>>, percent |-> FALSE, done |-> FALSE]
      walk[k \in 0 .. Len(b)] == IF k = 0 THEN begin ELSE Step(walk[k - 1], b[k], g)
  IN  walk

Written(b, g) == Walk(b, g)[Len(b)]
-----------------------------------------------------------------------------
(***************************************************************************)
(* printm.                                                                 *)
(***************************************************************************)
\* Mutant: the end of the text is not marked.
StoredOpen(t) == [i \in 1 .. BufSize |-> IF i <= Len(t) THEN t[i] ELSE buf[i]]

\* vsprintf stores the text and a NUL; what is behind stays.
Stored(t) == [i \in 1 .. BufSize |-> IF i <= Len(t) THEN t[i]
                                     ELSE IF i = Len(t) + 1 THEN NUL ELSE buf[i]]

\* The text does not fit, or console_write walks out of buf: what follows is memory
\* that is not the kernel's text.
Overrun == phase' = "overrun" /\ UNCHANGED <<screen, printed, call>>

LineHead == IF dis_hdr THEN <<>> ELSE Header

Write(fmt, w) ==
  LET out == LineHead \o w.out
  IN  IF ~w.done THEN Overrun
      ELSE /\ screen' = Put(screen, out)
           /\ printed' = printed \o out
           /\ call' = [fmt |-> fmt, header |-> LineHead, out |-> out]
           /\ UNCHANGED phase

\* The pointer that %s finds cannot be read: the kernel ends behind what is in front.
PointerFault(b, g) ==
  \E k \in 0 .. Len(b) - 1 :
    LET w   == Walk(b, g)[k]
        out == LineHead \o w.out
    IN  /\ w.percent /\ b[k + 1] = "s"
        /\ screen' = Put(screen, out)
        /\ printed' = printed \o out
        /\ phase' = "panic"
        /\ UNCHANGED call

Say(fmt) ==
  \E lens \in Lengths(fmt), g \in Garbage :
    LET t == Formatted(fmt, lens)
    IN  /\ phase = "run"
        /\ IF Len(t) >= BufSize THEN Overrun /\ UNCHANGED buf
           ELSE /\ buf' = Stored(t)
                /\ \/ Write(fmt, Written(Stored(t), g))
                   \/ PointerFault(Stored(t), g)
        /\ UNCHANGED dis_hdr

Line ==
  /\ calls < MaxCalls
  /\ \E fmt \in Formats : Say(fmt)
  /\ calls' = calls + 1

\* A number is printed on the clear screen, and is the last thing: the bound that keeps
\* the numbers apart from each other.
Numeric ==
  /\ calls = 0
  /\ \E fmt \in Numerals : Say(fmt)
  /\ calls' = MaxCalls

\* strlen reads memory that is not mapped.
StrlenFault ==
  /\ phase = "run" /\ calls < MaxCalls
  /\ \E fmt \in Formats : \E i \in DOMAIN fmt : IsString(fmt[i])
  /\ phase' = "panic"
  /\ UNCHANGED <<buf, screen, dis_hdr, printed, call, calls>>

\* console_putc of a typed character, or of the newline behind a list.
Echo ==
  /\ phase = "run" /\ calls < MaxCalls
  /\ \E c \in Echoed : screen' = Putc(screen, c) /\ printed' = Append(printed, c)
  /\ calls' = calls + 1
  /\ UNCHANGED <<buf, dis_hdr, phase, call>>

\* init_ide and page_fault print parts of a line without a header.
SwitchHeader ==
  /\ phase = "run" /\ calls < MaxCalls
  /\ dis_hdr' = ~dis_hdr
  /\ calls' = calls + 1
  /\ UNCHANGED <<buf, screen, phase, printed, call>>

Next == Line \/ Numeric \/ StrlenFault \/ Echo \/ SwitchHeader

Spec == Init /\ [][Next]_vars
-----------------------------------------------------------------------------
\* The screen shows the last rows of all that was printed, as on paper without an end:
\* scrolling, wrapping and tabs lose nothing and leave nothing old (console.c:11-68).
Shown == Shows(screen, printed)

\* A line that printm prints is its header and the text its format asks for, in which
\* strings may be lost, no more than blanks in their place: strlen began to count in
\* front of them (string.c:5, vsprintf.c:182).  It may be cut behind a string that is
\* not lost, which strlen took for longer, and nothing is said of what follows a % in
\* the text (printm.c:16).  But a string is never printed in part, unless its precision
\* asks for that, and up to such a % neither old text in buf nor what is behind a string
\* shows.
Faithful ==
  \E lens \in Readings(call.fmt) :
    LET Upto(i) == Formatted(SubSeq(call.fmt, 1, i), lens)
        whole   == call.header \o Formatted(call.fmt, lens)
        ends    == {Len(call.header) + Len(Upto(i)) :
                      i \in {j \in Strings(call.fmt) : lens[j] \notin Lost}}
        clean   == {k \in 0 .. Len(whole) : \A j \in 1 .. k : whole[j] # "%"}
    IN  \/ call.out = whole
        \/ \E k \in ends \intersect clean : call.out = SubSeq(whole, 1, k)
        \/ \E k \in clean : /\ k < Len(whole) /\ whole[k + 1] = "%"
                            /\ IsPrefix(SubSeq(whole, 1, k), call.out)

\* A number is printed as a numeral of its value, with its sign and prefix, as wide as
\* asked and not wider than it must be (vsprintf.c:36-92), with the header before.
NumbersRead ==
  \A i \in DOMAIN call.fmt :
    Len(call.fmt) = 1 /\ IsNumber(call.fmt[i]) =>
      Reads(call.fmt[i], SubSeq(call.out, Len(call.header) + 1, Len(call.out)))
=============================================================================
