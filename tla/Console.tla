------------------------------ MODULE Console -------------------------------
(***************************************************************************)
(* kernel/console.c: the text screen.  A cell is its character: the        *)
(* attribute is the same everywhere.                                       *)
(***************************************************************************)
EXTENDS Naturals, Sequences

CONSTANTS Width, Height,   \* 80 and 25
          Tab              \* 8

ASSUME ConsoleAssumption ==
  /\ Width \in Nat \ {0} /\ Height \in Nat \ {0} /\ Tab \in Nat \ {0}
  /\ Width % Tab = 0

Cells == Width * Height
Cell  == 0 .. Cells - 1
Blank == " "

Controls == {"NUL", "BS", "TAB", "CR", "NL"}    \* the other control characters do as NUL

\* A screen has text_ptr[], cur_x, cur_y, and where the hardware shows the cursor;
\* this is the one of console_clear.
Cleared == [text |-> [i \in Cell |-> Blank], cur_x |-> 0, cur_y |-> 0, cursor |-> 0]

\* Mutant: the rows move up one too far.
ScrollRows(s) == s.cur_y - Height + 2

\* console_scroll: `tmp'.
Surplus(s) == s.cur_y - Height + 1

Scrolled(s) ==
  LET kept == (Height - Surplus(s)) * Width
  IN  IF s.cur_y < Height THEN s
      ELSE [s EXCEPT !.text  = [i \in Cell |->
                                  IF i < kept THEN s.text[i + Surplus(s) * Width]
                                  ELSE IF i < kept + Width THEN Blank ELSE s.text[i]],
                     !.cur_y = Height - 1]

\* console_move_cur.
Moved(s) == [s EXCEPT !.cursor = s.cur_y * Width + s.cur_x]

Wrapped(s) == IF s.cur_x >= Width THEN [s EXCEPT !.cur_x = 0, !.cur_y = @ + 1] ELSE s

\* What a character does before the line is wrapped.
Struck(s, c) ==
  CASE c = "BS"  -> IF s.cur_x # 0 THEN [s EXCEPT !.cur_x = @ - 1] ELSE s
    [] c = "TAB" -> [s EXCEPT !.cur_x = ((@ + Tab) \div Tab) * Tab]
    [] c = "CR"  -> [s EXCEPT !.cur_x = 0]
    [] c = "NL"  -> [s EXCEPT !.cur_x = 0, !.cur_y = @ + 1]
    [] c = "NUL" -> s
    [] OTHER     -> [s EXCEPT !.text[s.cur_y * Width + s.cur_x] = c, !.cur_x = @ + 1]

\* console_putc.
Putc(s, c) == Moved(Scrolled(Wrapped(Struck(s, c))))

Put(s, cs) ==
  LET after[k \in 0 .. Len(cs)] == IF k = 0 THEN s ELSE Putc(after[k - 1], cs[k])
  IN  after[Len(cs)]

(***************************************************************************)
(* The reference: paper without an end, whose squares are numbered row by  *)
(* row.  A pen moves over it, and the screen is the last rows the pen has  *)
(* reached.                                                                *)
(***************************************************************************)
PenAfter(p, c) ==
  CASE c = "BS"  -> IF p % Width = 0 THEN p ELSE p - 1
    [] c = "TAB" -> (p \div Tab + 1) * Tab
    [] c = "CR"  -> (p \div Width) * Width
    [] c = "NL"  -> (p \div Width + 1) * Width
    [] c = "NUL" -> p
    [] OTHER     -> p + 1

\* Where the pen is after each of the characters.
Path(cs) ==
  LET pen[k \in 0 .. Len(cs)] == IF k = 0 THEN 0 ELSE PenAfter(pen[k - 1], cs[k])
  IN  pen

\* The characters written on square p, and the one that can be read there.
Inked(cs, p) == {k \in DOMAIN cs : Path(cs)[k - 1] = p /\ cs[k] \notin Controls}
Ink(cs, p) ==
  IF Inked(cs, p) = {} THEN Blank
  ELSE cs[CHOOSE k \in Inked(cs, p) : \A j \in Inked(cs, p) : j <= k]

\* Screen s shows what the characters cs have written.
Shows(s, cs) ==
  LET last == Path(cs)[Len(cs)]
      row  == last \div Width
      top  == IF row < Height THEN 0 ELSE row - Height + 1
  IN  /\ \A i \in Cell : s.text[i] = Ink(cs, top * Width + i)
      /\ s.cursor = last - top * Width
=============================================================================
