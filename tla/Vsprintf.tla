------------------------------ MODULE Vsprintf ------------------------------
(***************************************************************************)
(* kernel/vsprintf.c: the text a format asks for.                          *)
(*                                                                         *)
(* A character is a string, with a name for the control characters.  A     *)
(* format is a sequence of items: a plain character, or a directive with   *)
(* its flags, width, precision and argument.  The qualifiers h, l and L,   *)
(* which the code skips, and %n, which prints nothing, are left out; %d    *)
(* stands for %i also.                                                     *)
(***************************************************************************)
EXTENDS Integers, Sequences, SequencesExt

CONSTANTS
  Bits,      \* of an int, of a size_t and of a pointer (32)
  Before     \* how far in front of a string strlen may find a NUL

ASSUME VsprintfAssumption == Bits \in Nat /\ Bits > 3

Unset == -1      \* no width, or no precision
NUL   == "NUL"

\* Powers(b)[k] is b to the power of k.
Powers(b) == LET power[k \in Nat] == IF k = 0 THEN 1 ELSE power[k - 1] * b IN power

Modulus == Powers(2)[Bits]

ASSUME BeforeAssumption == Before \subseteq 1 .. Modulus \div 2

\* The int that a word is.
Signed(n) == IF n < Modulus \div 2 THEN n ELSE n - Modulus

Digit   == <<"0", "1", "2", "3", "4", "5", "6", "7",
             "8", "9", "a", "b", "c", "d", "e", "f">>

Least(a, b)    == IF a < b THEN a ELSE b
Greatest(a, b) == IF a < b THEN b ELSE a
Times(n, c)    == [i \in 1 .. Greatest(n, 0) |-> c]
Sign(c, b)     == IF b THEN <<c>> ELSE <<>>

(***************************************************************************)
(* number().                                                               *)
(***************************************************************************)
\* The digits do_div leaves until the quotient is zero; one for zero itself.
Places(n, base) ==
  LET power == Powers(base)
  IN  CHOOSE k \in 1 .. Bits : n < power[k] /\ (k > 1 => power[k - 1] <= n)
Digits(n, base) ==
  LET k     == Places(n, base)
      power == Powers(base)
  IN  [i \in 1 .. k |-> Digit[((n \div power[k - i]) % base) + 1]]

Base(conv) == CASE conv = "o" -> 8
                [] conv \in {"x", "X", "p"} -> 16
                [] conv \in {"d", "u"} -> 10

Negative(d)  == d.conv = "d" /\ d.arg >= Modulus \div 2
Magnitude(d) == IF Negative(d) THEN Modulus - d.arg ELSE d.arg

\* Letters in lower case stand for both cases.
Prefix(d) == IF "#" \notin d.flags THEN <<>>
             ELSE CASE Base(d.conv) = 8  -> <<"0">>
                    [] Base(d.conv) = 16 -> <<"0", "x">>
                    [] OTHER             -> <<>>

SignOf(d) == IF Negative(d) THEN <<"-">>
             ELSE IF "+" \in d.flags THEN <<"+">> ELSE Sign(" ", " " \in d.flags)

\* Mutant: the prefix takes no room.
RoomPlain(d, n) == d.width - Len(SignOf(d)) - n

\* What is left of the width: `size'.
Room(d, n) == d.width - Len(SignOf(d)) - Len(Prefix(d)) - n

\* The zeros and digits, and what stands before and behind them.
Ciphers(d) ==
  LET ds    == Digits(Magnitude(d), Base(d.conv))
      n     == Greatest(Len(ds), d.precision)
      zeros == "0" \in d.flags /\ "-" \notin d.flags
  IN  Times(IF zeros THEN Room(d, n) ELSE 0, "0") \o Times(n - Len(ds), "0") \o ds

Number(d) ==
  LET ds    == Digits(Magnitude(d), Base(d.conv))
      n     == Greatest(Len(ds), d.precision)
      left  == "-" \in d.flags
      zeros == "0" \in d.flags /\ ~left
  IN  Times(IF left \/ zeros THEN 0 ELSE Room(d, n), " ")
        \o ((SignOf(d) \o Prefix(d)) \o Ciphers(d))
        \o Times(IF left THEN Room(d, n) ELSE 0, " ")

(***************************************************************************)
(* vsprintf().                                                             *)
(***************************************************************************)
\* The blanks that a text of length len leaves of the width, in front of it or behind.
Pad(d, len, t) == LET blanks == Times(d.width - len, " ")
                  IN  IF "-" \in d.flags THEN t \o blanks ELSE blanks \o t

\* A string is the memory it points to, and strlen starts to count at whatever its
\* variable l holds: it may return the distance to any NUL in that memory, and, when it
\* starts in front of it, that of a NUL there, a size_t which is a negative int.
Nuls(s)       == {n \in 0 .. Len(s) - 1 : s[n + 1] = NUL}
Lost          == {Modulus - b : b \in Before}
Strlens(s)    == Nuls(s) \union Lost
TrueStrlen(s) == CHOOSE n \in Nuls(s) : \A k \in Nuls(s) : n <= k

\* With a negative length no character is copied, but the blanks are counted from it.
String(d, n) ==
  LET len == IF d.precision < 0 THEN Signed(n) ELSE Least(Signed(n), d.precision)
  IN  Pad(d, len, SubSeq(d.arg, 1, len))

\* A pointer without a width gets eight digits, as many as it has.
Pointer(d) == IF d.width = Unset
                THEN [d EXCEPT !.width = (Bits + 3) \div 4, !.flags = @ \union {"0"}] ELSE d

\* A conversion vsprintf does not know is printed with its %; one % is printed also
\* when the format ends there.  `*' for a width is not stepped over: it is taken for a
\* conversion, and what is behind it for text.
Item(d, len) ==
  CASE d.conv = "text" -> <<d.arg>>
    [] d.conv = "%"    -> <<"%">>
    [] d.conv = "other" -> <<"%", d.arg>>
    [] d.conv = "c"    -> Pad(d, 1, <<d.arg>>)
    [] d.conv = "s"    -> String(d, len)
    [] d.conv = "p"    -> Number(Pointer(d))
    [] OTHER           -> Number(d)

IsString(d) == d.conv = "s"
IsNumber(d) == d.conv \in {"d", "u", "o", "x", "X"}

\* A directive and an argument of its kind: a word, a character, a string with an end.
Proper(d) ==
  /\ DOMAIN d = {"conv", "flags", "width", "precision", "arg"}
  /\ d.width \in Int /\ d.precision \in Int
  /\ \/ d.conv = "%"
     \/ d.conv \in {"text", "c", "other"} /\ d.arg # NUL
     \/ /\ IsString(d) /\ d.arg \in Seq(STRING)
        /\ Nuls(d.arg) # {} /\ Len(d.arg) <= Modulus \div 2
     \/ (IsNumber(d) \/ d.conv = "p") /\ d.arg \in 0 .. Modulus - 1

Strings(fmt) == {i \in DOMAIN fmt : IsString(fmt[i])}

\* What strlen may return, for each string.
Lengths(fmt) ==
  {f \in [Strings(fmt) -> UNION {Strlens(fmt[i].arg) : i \in Strings(fmt)}] :
     \A i \in Strings(fmt) : f[i] \in Strlens(fmt[i].arg)}

\* What it returns if no string is taken for longer than it is.
Readings(fmt) ==
  {f \in Lengths(fmt) :
     \A i \in Strings(fmt) : f[i] \in {TrueStrlen(fmt[i].arg)} \union Lost}

Formatted(fmt, lens) == FlattenSeq([i \in DOMAIN fmt |-> Item(fmt[i], lens[i])])

(***************************************************************************)
(* The reference for a number: what a reader makes of the text.            *)
(***************************************************************************)
Worth(c, base) == (CHOOSE k \in 1 .. base : Digit[k] = c) - 1

\* The values of the numerals that the first digits are.
Values(ds, base) ==
  LET value[i \in 0 .. Len(ds)] == IF i = 0 THEN 0 ELSE value[i - 1] * base + Worth(ds[i], base)
  IN  value

ValueOf(ds, base) == Values(ds, base)[Len(ds)]

Numeral(ds, base) == ds # <<>> /\ \A i \in DOMAIN ds : \E k \in 1 .. base : ds[i] = Digit[k]

\* Text t is a numeral of the value of d, in its base, with the sign and the prefix the
\* flags ask for, as wide as asked, and wider only if nothing could be left out.
Reads(d, t) ==
  \E p, q \in 0 .. Len(t) :
    LET front == SignOf(d) \o Prefix(d)
        core  == SubSeq(t, p + 1, Len(t) - q)
        ds    == SubSeq(core, Len(front) + 1, Len(core))
    IN  /\ t = Times(p, " ") \o core \o Times(q, " ")
        /\ IsPrefix(front, core)
        /\ Numeral(ds, Base(d.conv))
        /\ ValueOf(ds, Base(d.conv)) = (IF Negative(d) THEN Modulus - d.arg ELSE d.arg)
        /\ Len(ds) >= d.precision
        /\ "-" \in d.flags => p = 0
        /\ "-" \notin d.flags => q = 0
        /\ {"-", "0"} \intersect d.flags = {"0"} => p = 0
        /\ \/ Len(t) = d.width
           \/ /\ Len(t) > d.width /\ p = 0 /\ q = 0
              /\ Len(ds) = d.precision \/ Len(ds) = 1 \/ ds[1] # "0"
=============================================================================
