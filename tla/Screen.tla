------------------------------- MODULE Screen -------------------------------
(***************************************************************************)
(* TermScreen: which elements of the pixel buffer a drawing call writes,   *)
(* for a screen of size s = [w, h].  The buffer is one row after the       *)
(* other; its bounds are not checked when an element is written.           *)
(*                                                                         *)
(* A call writes nothing, one element or a line of them: it is enough to   *)
(* know the first and the last.  The code computes with 64 bit indices     *)
(* that wrap, so a negative coordinate counts back from the row, as here.  *)
(***************************************************************************)
EXTENDS Integers

\* An operator defined just before another with the same parameters is a
\* faulty variant of it, used to see that a property can fail.

AtLeastOne(n) == IF n = 0 THEN 1 ELSE n

\* clear() resizes the buffer to this many pixels.
BufferSizeOrZero(s) == s.w * s.h
BufferSize(s) == AtLeastOne(s.w) * AtLeastOne(s.h)

ValidCoords(s, x, y) == x \in 0 .. s.w /\ y \in 0 .. s.h
CtoIdx(s, x, y) == y * s.w + x

Lesser(a, b) == IF a < b THEN a ELSE b

\* The elements from the first to the last.
Elements(first, last) == [first |-> first, last |-> last]
None == Elements(0, -1)
Inside(e, size) == e.last < e.first \/ (0 <= e.first /\ e.last < size)

\* commit goes through width times height pixels.
CommitReads(s) == Elements(0, s.w * s.h - 1)

\* A loop `for (; i != end; i++)` that starts behind its end.
Runaway(s, first) == Elements(first, first + BufferSize(s))

-----------------------------------------------------------------------------
(* The calls: a pixel at (x, y); a line from x to n in row y; a line from  *)
(* row y to n in column x; a text of length n at (x, y).                   *)

Call(op, x, y, n) == [op |-> op, x |-> x, y |-> y, n |-> n]
Setc(x, y) == Call("setc", x, y, 1)
Hline(sx, ex, y) == Call("hline", sx, y, ex)
Vline(x, sy, ey) == Call("vline", x, sy, ey)
Text(x, y, n) == Call("print", x, y, n)

SetcWrites(s, c) ==
  IF ValidCoords(s, c.x, c.y)
  THEN Elements(CtoIdx(s, c.x, c.y), CtoIdx(s, c.x, c.y))
  ELSE None

HlineWrites(s, c) ==
  LET ex == Lesser(c.n, s.w)
      first == CtoIdx(s, c.x, c.y)
  IN  IF ~ValidCoords(s, c.x, c.y) THEN None
      ELSE IF c.x > ex THEN Runaway(s, first)
      ELSE Elements(first, CtoIdx(s, ex - 1, c.y))

\* The two rows are checked as if they were a point, and the end is cut off
\* at the width; the column is not looked at.
VlineWrites(s, c) ==
  LET ey == Lesser(c.n, s.w)
      first == CtoIdx(s, c.x, c.y)
  IN  IF ~ValidCoords(s, c.y, c.n) \/ c.y = ey THEN None
      ELSE IF c.y > ey THEN Runaway(s, first)
      ELSE Elements(first, CtoIdx(s, c.x, ey - 1))

\* vprint checks the size of the screen in place of the coordinates, which is
\* no check; `w - x` is unsigned, so right of the screen nothing is cut off.
WholeText(s, c) == c.n
Printed(s, c) == IF c.x <= s.w THEN Lesser(c.n, s.w - c.x) ELSE c.n

PrintWrites(s, c) ==
  LET first == CtoIdx(s, c.x, c.y)
  IN  Elements(first, first + Printed(s, c) - 1)

Writes(s, c) ==
  CASE c.op = "setc"  -> SetcWrites(s, c)
    [] c.op = "hline" -> HlineWrites(s, c)
    [] c.op = "vline" -> VlineWrites(s, c)
    [] c.op = "print" -> PrintWrites(s, c)

\* box: the corners and the four lines between them.
Box(x, y, width, height) ==
  {Setc(x, y), Setc(x + width, y), Setc(x, y + height),
   Setc(x + width, y + height),
   Hline(x + 1, x + width, y), Hline(x + 1, x + width, y + height),
   Vline(x, y + 1, y + height), Vline(x + width, y + 1, y + height)}

=============================================================================
