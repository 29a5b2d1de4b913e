------------------------------ MODULE MCPrintm ------------------------------
(***************************************************************************)
(* Two rows of four on the screen, a header of one character, lines of     *)
(* text with strings, a percent sign, tabs and backspaces; and numbers of  *)
(* six bits with all flags.                                                *)
(***************************************************************************)
EXTENDS Printm

Directive(conv, flags, width, precision, arg) ==
  [conv |-> conv, flags |-> flags, width |-> width, precision |-> precision, arg |-> arg]
Plain(c)  == Directive("text", {}, Unset, Unset, c)
Str(s)    == Directive("s", {}, Unset, Unset, s)

\* A string, and what may be behind it.
Ab      == <<"a", "b", NUL>>
AbMore  == <<"a", "b", NUL, "z", NUL>>
Percent == <<"%", NUL>>

Lines == {
  <<Str(AbMore), Plain("NL")>>,
  <<Plain("c"), Plain("TAB"), Str(Ab), Plain("d"), Str(AbMore), Plain("NL")>>,
  <<Str(Percent), Plain("s"), Plain("e")>>,
  <<Plain("f"), Str(Percent)>>,
  <<Directive("c", {}, 7, Unset, "f"), Str(Percent)>>,
  <<Directive("c", {"-"}, 3, Unset, "g"), Directive("%", {}, Unset, Unset, 0)>>,
  <<Directive("other", {}, Unset, Unset, "*"), Plain("d")>>,
  <<Directive("s", {}, Unset, 1, AbMore), Directive("p", {}, Unset, Unset, 11)>> }

Numbers == {<<Directive(conv, flags, width, precision, arg)>> :
              conv \in {"d", "u", "o", "x"},
              flags \in SUBSET {"-", "+", " ", "#", "0"},
              width \in {Unset, 5}, precision \in {Unset, 3},
              arg \in 0 .. Modulus - 1}

Typed  == {"h", "BS", "CR", "NL", "TAB"}
Found  == {[str |-> <<"y", "y">>, int |-> 10], [str |-> <<>>, int |-> 15]}
OneDash == <<"#">>
=============================================================================
