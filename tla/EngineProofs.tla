---------------------------- MODULE EngineProofs ----------------------------
(***************************************************************************)
(* Proofs about Engine, for windows of any size, any view and texts of any *)
(* length.                                                                 *)
(***************************************************************************)
EXTENDS Engine, TLAPS

(* The pixel buffer.                                                       *)

\* The buffer has at least a pixel, and at least width times height of them.
LEMMA BufferSizeType ==
  ASSUME NEW s \in Size
  PROVE  BufferSize(s) \in Nat \ {0} /\ s.w * s.h <= BufferSize(s)
<1>1. s.w \in Nat /\ s.h \in Nat
  BY DEF Size
<1>2. CASE s.w = 0
  <2>1. s.w * s.h = 0
    BY <1>1, <1>2
  <2> QED
    BY <1>1, <1>2, <2>1 DEF BufferSize, AtLeastOne
<1>3. CASE s.h = 0
  <2>1. s.w * s.h = 0
    BY <1>1, <1>3
  <2> QED
    BY <1>1, <1>3, <2>1 DEF BufferSize, AtLeastOne
<1>4. CASE s.w # 0 /\ s.h # 0
  <2>1. s.w * s.h >= 1
    BY <1>1, <1>4
  <2> QED
    BY <1>1, <1>4, <2>1 DEF BufferSize, AtLeastOne
<1> QED
  BY <1>2, <1>3, <1>4

\* Row y of the buffer, and with it everything before the end of row y.
LEMMA RowInside ==
  ASSUME NEW w \in Nat, NEW h \in Nat, NEW y \in Nat, y < h
  PROVE  /\ y * w \in Nat /\ w * h \in Nat
         /\ y * w + w <= w * h
<1>1. PICK d \in Nat : h = y + 1 + d
  BY h - y - 1 \in Nat
<1>2. w * h = y * w + w + d * w
  BY <1>1
<1>3. d * w \in Nat /\ y * w \in Nat /\ w * h \in Nat
  OBVIOUS
<1> QED
  BY <1>2, <1>3

LEMMA TextInside ==
  ASSUME NEW s \in Size, NEW x \in 0 .. s.w, NEW y \in 0 .. s.h - 1,
         NEW n \in Nat
  PROVE  Inside(Writes(s, Text(x, y, n)), BufferSize(s))
<1>1. s.w \in Nat /\ s.h \in Nat
  BY DEF Size
<1>2. /\ y * s.w \in Nat /\ s.w * s.h \in Nat
      /\ y * s.w + s.w <= s.w * s.h
  BY <1>1, RowInside
<1>3. s.w * s.h <= BufferSize(s) /\ BufferSize(s) \in Nat
  BY BufferSizeType
<1> DEFINE c == Text(x, y, n)
<1>4. /\ c.op = "print" /\ c.x = x /\ c.y = y /\ c.n = n
  BY DEF Text, Call
<1>5. Writes(s, c) = PrintWrites(s, c)
  BY <1>4 DEF Writes
<1>6. Printed(s, c) \in Int /\ Printed(s, c) <= s.w - x
  BY <1>1, <1>4 DEF Printed, Lesser
<1> QED
  BY <1>1, <1>2, <1>3, <1>4, <1>5, <1>6
  DEF PrintWrites, Elements, CtoIdx, Inside

\* A row above the last: right of it the buffer goes on, so that even the
\* pixel valid_coords lets through by mistake is one of the next row.
LEMMA SetcInside ==
  ASSUME NEW s \in Size, NEW x \in Int, NEW y \in Int, y < s.h - 1, 0 < s.w
  PROVE  Inside(Writes(s, Setc(x, y)), BufferSize(s))
<1> DEFINE c == Setc(x, y)
<1>1. s.w \in Nat /\ s.h \in Nat
  BY DEF Size
<1>2. c.op = "setc" /\ c.x = x /\ c.y = y
  BY DEF Setc, Call
<1>3. Writes(s, c) = SetcWrites(s, c)
  BY <1>2 DEF Writes
<1>4. CASE ~ValidCoords(s, x, y)
  BY <1>2, <1>3, <1>4 DEF SetcWrites, None, Elements, Inside
<1>5. CASE ValidCoords(s, x, y)
  <2>1. x \in Nat /\ y \in Nat /\ x <= s.w
    BY <1>1, <1>5 DEF ValidCoords
  <2>2. /\ (y + 1) * s.w \in Nat /\ s.w * s.h \in Nat
        /\ (y + 1) * s.w + s.w <= s.w * s.h
    BY <1>1, <2>1, RowInside
  <2>3. (y + 1) * s.w = y * s.w + s.w /\ y * s.w \in Nat
    BY <1>1, <2>1
  <2>4. s.w * s.h <= BufferSize(s) /\ BufferSize(s) \in Nat
    BY BufferSizeType
  <2> QED
    BY <1>1, <1>2, <1>3, <1>5, <2>1, <2>2, <2>3, <2>4
    DEF SetcWrites, Elements, CtoIdx, Inside
<1> QED
  BY <1>4, <1>5

LEMMA HlineInside ==
  ASSUME NEW s \in Size, NEW sx \in Nat, NEW ex \in Int, NEW y \in Int,
         sx <= ex, y < s.h
  PROVE  Inside(Writes(s, Hline(sx, ex, y)), BufferSize(s))
<1> DEFINE c == Hline(sx, ex, y)
<1>1. s.w \in Nat /\ s.h \in Nat
  BY DEF Size
<1>2. c.op = "hline" /\ c.x = sx /\ c.y = y /\ c.n = ex
  BY DEF Hline, Call
<1>3. Writes(s, c) = HlineWrites(s, c)
  BY <1>2 DEF Writes
<1>4. CASE ~ValidCoords(s, sx, y)
  BY <1>2, <1>3, <1>4 DEF HlineWrites, None, Elements, Inside
<1>5. CASE ValidCoords(s, sx, y)
  <2>1. y \in Nat /\ sx <= s.w
    BY <1>1, <1>5 DEF ValidCoords
  <2>2. /\ y * s.w \in Nat /\ s.w * s.h \in Nat
        /\ y * s.w + s.w <= s.w * s.h
    BY <1>1, <2>1, RowInside
  <2>3. s.w * s.h <= BufferSize(s) /\ BufferSize(s) \in Nat
    BY BufferSizeType
  <2>4. /\ Lesser(ex, s.w) \in Int /\ Lesser(ex, s.w) <= s.w
        /\ sx <= Lesser(ex, s.w)
    BY <1>1, <2>1 DEF Lesser
  <2>5. Writes(s, c) = Elements(CtoIdx(s, sx, y),
                                CtoIdx(s, Lesser(ex, s.w) - 1, y))
    BY <1>2, <1>3, <1>5, <2>4 DEF HlineWrites
  <2> QED
    BY <1>1, <2>1, <2>2, <2>3, <2>4, <2>5 DEF Elements, CtoIdx, Inside
<1> QED
  BY <1>4, <1>5

\* A line in a column of the screen; or in one right of it, which is really one
\* of the next row, if it ends above the last row.
LEMMA VlineInside ==
  ASSUME NEW s \in Size, NEW x \in Nat, NEW sy \in Nat, NEW ey \in Nat,
         sy <= ey,
         (x < s.w /\ ey <= s.h) \/ (x < s.w + s.w /\ ey < s.h)
  PROVE  Inside(Writes(s, Vline(x, sy, ey)), BufferSize(s))
<1> DEFINE c == Vline(x, sy, ey)
           e == Lesser(ey, s.w)
<1>1. s.w \in Nat /\ s.h \in Nat
  BY DEF Size
<1>2. c.op = "vline" /\ c.x = x /\ c.y = sy /\ c.n = ey
  BY DEF Vline, Call
<1>3. Writes(s, c) = VlineWrites(s, c)
  BY <1>2 DEF Writes
<1>4. CASE ~ValidCoords(s, sy, ey) \/ sy = e
  BY <1>2, <1>3, <1>4 DEF VlineWrites, None, Elements, Inside
<1>5. CASE ValidCoords(s, sy, ey) /\ sy # e
  <2>1. e \in Nat /\ e <= ey /\ sy < e
    BY <1>1, <1>5 DEF ValidCoords, Lesser
  <2>2. Writes(s, c) = Elements(CtoIdx(s, x, sy), CtoIdx(s, x, e - 1))
    BY <1>2, <1>3, <1>5, <2>1 DEF VlineWrites
  <2>3. s.w * s.h <= BufferSize(s) /\ BufferSize(s) \in Nat
    BY BufferSizeType
  <2>4. sy * s.w \in Nat /\ (e - 1) * s.w \in Nat /\ s.w * s.h \in Nat
    BY <1>1, <2>1
  <2>5. (e - 1) * s.w + x < s.w * s.h
    <3>1. CASE x < s.w /\ ey <= s.h
      <4>1. (e - 1) * s.w + s.w <= s.w * s.h
        BY <1>1, <2>1, <3>1, RowInside, e - 1 \in Nat, e - 1 < s.h
      <4> QED
        BY <1>1, <2>4, <3>1, <4>1
    <3>2. CASE x < s.w + s.w /\ ey < s.h
      <4>1. e * s.w + s.w <= s.w * s.h
        BY <1>1, <2>1, <3>2, RowInside
      <4>2. e * s.w = (e - 1) * s.w + s.w
        BY <1>1, <2>1
      <4> QED
        BY <1>1, <2>4, <3>2, <4>1, <4>2
    <3> QED
      BY <3>1, <3>2
  <2> QED
    BY <1>1, <2>2, <2>3, <2>4, <2>5 DEF Elements, CtoIdx, Inside
<1> QED
  BY <1>4, <1>5

-----------------------------------------------------------------------------
(* The scenes.  StaysInside: a call on a screen of size s stays inside.    *)

StaysInside(s, c) == Inside(Writes(s, c), BufferSize(s))

LEMMA BoxInside ==
  ASSUME NEW s \in Size, NEW x \in Nat, NEW y \in Nat,
         NEW width \in Nat \ {0}, NEW height \in Nat \ {0},
         x + width < s.w + s.w, y + height < s.h - 1
  PROVE  \A c \in Box(x, y, width, height) : StaysInside(s, c)
<1>1. s.w \in Nat /\ s.h \in Nat /\ 0 < s.w
  BY DEF Size
<1>2. /\ StaysInside(s, Setc(x, y)) /\ StaysInside(s, Setc(x + width, y))
      /\ StaysInside(s, Setc(x, y + height))
      /\ StaysInside(s, Setc(x + width, y + height))
  BY <1>1, SetcInside DEF StaysInside
<1>3. /\ StaysInside(s, Hline(x + 1, x + width, y))
      /\ StaysInside(s, Hline(x + 1, x + width, y + height))
  <2>1. /\ x + 1 \in Nat /\ x + width \in Int /\ x + 1 <= x + width
        /\ y + height \in Int /\ y + height < s.h /\ y \in Int /\ y < s.h
    BY <1>1
  <2>2. StaysInside(s, Hline(x + 1, x + width, y))
    BY <2>1, HlineInside DEF StaysInside
  <2>3. StaysInside(s, Hline(x + 1, x + width, y + height))
    BY <2>1, HlineInside DEF StaysInside
  <2> QED
    BY <2>2, <2>3
<1>4. StaysInside(s, Vline(x, y + 1, y + height))
  BY <1>1, VlineInside DEF StaysInside
<1>5. StaysInside(s, Vline(x + width, y + 1, y + height))
  BY <1>1, VlineInside DEF StaysInside
<1> QED
  BY <1>2, <1>3, <1>4, <1>5 DEF Box

LEMMA AnyTextInside ==
  ASSUME NEW s \in Size, NEW x \in 0 .. s.w, NEW y \in 0 .. s.h - 1
  PROVE  StaysInside(s, AnyText(x, y))
  BY TextInside, LayoutAssumption DEF StaysInside, AnyText

LEMMA InputBoxInside ==
  ASSUME NEW s \in Size, NEW x \in Nat, NEW y \in Nat,
         x < s.w, x + 30 < s.w + s.w, y + 2 < s.h - 1
  PROVE  \A c \in InputBox(x, y) : StaysInside(s, c)
<1>1. s.w \in Nat /\ s.h \in Nat
  BY DEF Size
<1>2. \A c \in Box(x, y, 30, 2) : StaysInside(s, c)
  BY <1>1, BoxInside
<1>3. StaysInside(s, AnyText(x + 1, y)) /\ StaysInside(s, AnyText(x + 1, y + 1))
  BY <1>1, AnyTextInside
<1> QED
  BY <1>2, <1>3 DEF InputBox

LEMMA FormInside ==
  ASSUME NEW s \in Size, NEW x \in Nat, NEW y \in Nat, NEW fields \in Nat,
         x < s.w, x + 30 < s.w + s.w, y + 3 * fields + 1 < s.h
  PROVE  \A c \in Form(x, y, fields) : StaysInside(s, c)
<1>1. s.w \in Nat /\ s.h \in Nat
  BY DEF Size
<1>2. ASSUME NEW i \in 0 .. fields - 1
      PROVE  \A c \in InputBox(x, y + 3 * i) : StaysInside(s, c)
  <2>1. y + 3 * i \in Nat /\ y + 3 * i + 2 < s.h - 1
    BY <1>1, 3 * i + 3 <= 3 * fields
  <2> QED
    BY <1>1, <2>1, InputBoxInside
<1>3. StaysInside(s, Text(x, y + 3 * fields + 1, 6))
  BY <1>1, TextInside DEF StaysInside
<1> QED
  BY <1>2, <1>3 DEF Form, BasicButton

LEMMA UserListInside ==
  ASSUME NEW s \in Size, NEW x \in Nat, NEW y \in Nat, NEW rows \in Nat,
         x + 20 <= s.w, y + rows + 2 < s.h
  PROVE  \A c \in UserList(x, y, rows) : StaysInside(s, c)
<1>1. s.w \in Nat /\ s.h \in Nat
  BY DEF Size
<1>2. ASSUME NEW i \in 0 .. rows - 1
      PROVE  StaysInside(s, AnyText(x, y + i))
  BY <1>1, AnyTextInside
<1>3. /\ StaysInside(s, Text(x, y + rows + 2, 15))
      /\ StaysInside(s, Text(x + 20, y + rows + 2, 10))
  BY <1>1, TextInside DEF StaysInside
<1> QED
  BY <1>2, <1>3 DEF UserList

\* What the following lemmas are about: a screen of size s that is at least as
\* large as frame size f, on which there is room for view v.
Room(v, f, s) ==
  /\ v \in View /\ f \in Size /\ s \in Size
  /\ Fits(v, f) /\ f.w <= s.w /\ f.h <= s.h

\* The sizes, thirds and quarters as linear facts.
LEMMA Sizes ==
  ASSUME NEW v, NEW f, NEW s, Room(v, f, s)
  PROVE  /\ f.w \in Nat /\ f.h \in Nat /\ s.w \in Nat /\ s.h \in Nat
         /\ f.w <= s.w /\ f.h <= s.h /\ 39 <= f.w /\ 6 <= f.h
         /\ v.selected => 62 <= f.w
         /\ f.w \div 3 \in Nat /\ 3 * (f.w \div 3) <= f.w
         /\ f.w < 3 * (f.w \div 3) + 3
         /\ f.h \div 4 \in Nat /\ 4 * (f.h \div 4) <= f.h
         /\ f.h < 4 * (f.h \div 4) + 4
  BY DEF Room, Fits, Size

LEMMA SidebarInside ==
  ASSUME NEW v, NEW f, NEW s, Room(v, f, s)
  PROVE  \A c \in Sidebar(v, f) : StaysInside(s, c)
<1>1. CASE ~v.sidebar
  BY <1>1 DEF Sidebar
<1>2. CASE v.sidebar
  <2> DEFINE width == f.w \div 3
  <2>1. v.chats \in Nat /\ 4 * v.chats + 4 <= f.h /\ s \in Size
    BY <1>2 DEF Room, Fits, View
  <2>2. ASSUME NEW k \in 0 .. v.chats - 1
        PROVE  \A c \in ChatEntry(k, width) : StaysInside(s, c)
    <3>1. 4 * k + 8 <= s.h /\ 4 * k \in Nat
      BY <2>1, Sizes
    <3>2. /\ StaysInside(s, AnyText(1, 4 * k + 4))
          /\ StaysInside(s, AnyText(1, 4 * k + 5))
      BY <2>1, <3>1, Sizes, AnyTextInside
    <3>3. StaysInside(s, Text(width - 4, 4 * k + 4, 3))
      BY <2>1, <3>1, Sizes, TextInside DEF StaysInside
    <3>4. StaysInside(s, Hline(0, width, 4 * k + 7))
      <4>1. 0 \in Nat /\ width \in Int /\ 0 <= width /\ 4 * k + 7 \in Int
            /\ 4 * k + 7 < s.h
        BY <2>1, <3>1, Sizes
      <4> QED
        BY <2>1, <4>1, HlineInside DEF StaysInside
    <3> QED
      BY <3>2, <3>3, <3>4 DEF ChatEntry
  <2>3. StaysInside(s, AnyText(0, 0)) /\ StaysInside(s, AnyText(0, 2))
    BY <2>1, Sizes, AnyTextInside
  <2>4. StaysInside(s, Vline(width, 0, f.h))
    BY <2>1, Sizes, VlineInside DEF StaysInside
  <2> QED
    BY <1>2, <2>2, <2>3, <2>4 DEF Sidebar, ChatView, SidebarWidth
<1> QED
  BY <1>1, <1>2

LEMMA ChatInside ==
  ASSUME NEW v, NEW f, NEW s, Room(v, f, s)
  PROVE  \A c \in Chat(v, f) : StaysInside(s, c)
<1> DEFINE x == ContentX(v, f)
<1>1. s \in Size /\ v.msgs \in Nat
  BY DEF Room, View
<1>2. x \in Nat /\ x + 25 <= f.w
  BY Sizes DEF ContentX, SidebarWidth
<1>3. \A c \in ChatInfo(v, f) : StaysInside(s, c)
  <2>1. (f.w - x) \div 2 \in Nat /\ 2 * ((f.w - x) \div 2) <= f.w - x
        /\ f.w - x < 2 * ((f.w - x) \div 2) + 2
    BY <1>2, Sizes
  <2>2. StaysInside(s, Text(x + ((f.w - x) \div 2) - 8, 2, 16))
    BY <1>1, <1>2, <2>1, Sizes, TextInside DEF StaysInside
  <2>3. StaysInside(s, AnyText(x, 1)) /\ StaysInside(s, AnyText(x, 3))
    BY <1>1, <1>2, Sizes, AnyTextInside
  <2> QED
    BY <2>2, <2>3 DEF ChatInfo, DrawChatInfo
<1>4. \A c \in WriteMsg(v, f) : StaysInside(s, c)
  BY <1>1, <1>2, Sizes, TextInside DEF WriteMsg, StaysInside
<1>5. /\ StaysInside(s, Hline(x + 1, f.w - 1, 5))
      /\ StaysInside(s, Hline(x + 1, f.w - 1, f.h - 4))
  <2>1. /\ x + 1 \in Nat /\ f.w - 1 \in Int /\ x + 1 <= f.w - 1
        /\ f.h - 4 \in Int /\ f.h - 4 < s.h /\ 5 \in Int /\ 5 < s.h
    BY <1>1, <1>2, Sizes
  <2> QED
    BY <1>1, <2>1, HlineInside DEF StaysInside
<1>6. ASSUME NEW y \in MessageRows(v, f)
      PROVE  StaysInside(s, AnyText(x, y))
  <2>1. y \in 0 .. s.h - 1
    BY <1>1, Sizes DEF MessageRows
  <2> QED
    BY <1>1, <1>2, <2>1, Sizes, AnyTextInside
<1> QED
  BY <1>3, <1>4, <1>5, <1>6 DEF Chat

LEMMA ModalInside ==
  ASSUME NEW v, NEW f, NEW s, Room(v, f, s), NEW m \in v.modals
  PROVE  \A c \in Modal(m, v, f) : StaysInside(s, c)
<1>1. s \in Size /\ v.rows \in Nat /\ m \in Modals
  BY DEF Room, View
<1>2. PICK x \in Nat, y \in Nat :
        /\ x = f.w \div 3 /\ y = f.h \div 4
        /\ 13 <= x /\ 1 <= y
        /\ 3 * x <= s.w /\ 4 * y <= f.h /\ f.h < 4 * y + 4 /\ 6 <= f.h
        /\ f.h <= s.h /\ f.h \in Nat /\ s.h \in Nat /\ s.w \in Nat
  BY Sizes
<1>3. \A c \in Box(x, y, x, 2 * y) : StaysInside(s, c)
  <2>1. /\ x \in Nat \ {0} /\ 2 * y \in Nat \ {0}
        /\ x + x < s.w + s.w /\ y + 2 * y < s.h - 1
    BY <1>2
  <2> HIDE <1>2
  <2> QED
    BY <1>1, <2>1, BoxInside
<1>4. StaysInside(s, AnyText(x + 2, y))
  BY <1>1, <1>2, AnyTextInside
<1>5. ASSUME m \in Modals \ ListModals
      PROVE  \A c \in Form(x + 2, y + 1, IF m = "create_user" THEN 3 ELSE 2) :
               StaysInside(s, c)
  <2> DEFINE fields == IF m = "create_user" THEN 3 ELSE 2
  <2>1. y + 1 + 3 * fields + 1 < s.h
    BY <1>2, <1>5 DEF Room, Fits, Modals, ListModals
  <2>2. /\ fields \in Nat /\ x + 2 \in Nat /\ y + 1 \in Nat
        /\ x + 2 < s.w /\ x + 2 + 30 < s.w + s.w
    BY <1>2
  <2>3. \A n \in Nat : n = fields => \A c \in Form(x + 2, y + 1, n) : StaysInside(s, c)
    <3> SUFFICES ASSUME NEW n \in Nat, n = fields
                 PROVE  \A c \in Form(x + 2, y + 1, n) : StaysInside(s, c)
      OBVIOUS
    <3>1. y + 1 + 3 * n + 1 < s.h
      BY <2>1
    <3> HIDE DEF fields
    <3> QED
      BY <1>1, <2>2, <3>1, FormInside
  <2> QED
    BY <2>2, <2>3
<1>6. ASSUME m \in ListModals
      PROVE  \A c \in UserList(x + 2, y + 1, v.rows) : StaysInside(s, c)
  <2>1. /\ x + 2 \in Nat /\ y + 1 \in Nat
        /\ x + 2 + 20 <= s.w /\ y + 1 + v.rows + 2 < s.h
    BY <1>1, <1>2, <1>6 DEF Room, Fits
  <2> QED
    BY <1>1, <2>1, UserListInside
<1>7. \A c \in (IF m \in ListModals THEN UserList(x + 2, y + 1, v.rows)
                ELSE Form(x + 2, y + 1, IF m = "create_user" THEN 3 ELSE 2)) :
        StaysInside(s, c)
  BY <1>1, <1>5, <1>6
<1> QED
  BY <1>1, <1>2, <1>3, <1>4, <1>7 DEF Modal

LEMMA BottomInside ==
  ASSUME NEW v, NEW f, NEW s, Room(v, f, s)
  PROVE  \A c \in BottomPanel(v, f) \cup Outbound(f) : StaysInside(s, c)
<1>1. s \in Size
  BY DEF Room
<1>2. StaysInside(s, Hline(0, f.w, f.h - 1))
  <2>1. 0 \in Nat /\ f.w \in Int /\ f.h - 1 \in Int /\ 0 <= f.w /\ f.h - 1 < s.h
    BY Sizes
  <2> QED
    BY <1>1, <2>1, HlineInside DEF StaysInside
<1>3. /\ StaysInside(s, Text(0, f.h - 1, 15))
      /\ StaysInside(s, Text(16, f.h - 1, 22))
      /\ StaysInside(s, Text(39, f.h - 1, 22))
      /\ StaysInside(s, Text(0, f.h - 2, 20))
      /\ v.selected => StaysInside(s, Text(62, f.h - 1, 11))
  BY <1>1, Sizes, TextInside DEF StaysInside
<1> QED
  BY <1>2, <1>3 DEF BottomPanel, Outbound

\* Every call of a frame stays inside the buffer.
LEMMA FrameInside ==
  ASSUME NEW v, NEW f, NEW s, Room(v, f, s)
  PROVE  \A c \in Calls(v, f) : StaysInside(s, c)
  BY SidebarInside, ChatInside, ModalInside, BottomInside DEF Calls

-----------------------------------------------------------------------------
(* The engine.  The buffer has the size of the screen in every state, which *)
(* the steps in between keep; the modes of the terminal depend on where the *)
(* main thread is alone; and while the handler runs the signal is ignored.  *)

ModeInv ==
  /\ pc \in {"signal", "open", "mount", "test", "poll", "clear", "update",
             "draw", "commit", "return"} => raw /\ vtime = 0
  /\ pc = "escape" => raw /\ vtime = 1
  /\ pc = "line" => ~raw /\ vtime = 0
  /\ pc \in {"poll", "escape", "clear", "update", "draw", "line", "commit",
             "signal", "open", "mount", "test"} => alternative
  /\ pc = "exited" => ~raw /\ ~alternative
  /\ pc = "killed" => ~raw

WinchInv ==
  /\ pc = "main" => disposition = "default" /\ ~pending /\ winch = "out"
  /\ winch # "out" => disposition = "ignore" /\ ~pending
  /\ winch = "updated" /\ ~missed => size = win
  /\ SizeFollowsWindow

IInv == TypeOK /\ len = BufferSize(size) /\ ModeInv /\ WinchInv

LEMMA InitInv == Init => IInv
<1> SUFFICES ASSUME Init PROVE IInv
  OBVIOUS
<1> USE DEF Init
<1>1. win \in Size
  BY EngineAssumption
<1>2. TypeOK
  <2>1. view \in View
    BY DEF NoView, View
  <2>2. len \in Nat \ {0}
    BY <1>1, BufferSizeType
  <2>3. typed \in Seq(Keys)
    OBVIOUS
  <2> QED
    BY <1>1, <2>1, <2>2, <2>3 DEF TypeOK
<1>3. ModeInv /\ WinchInv
  BY DEF ModeInv, WinchInv, SizeFollowsWindow
<1> QED
  BY <1>2, <1>3 DEF IInv

\* A step keeps the invariant if it keeps each of its parts.  What no step but
\* a few touch is dealt with here once: the size and the buffer.
LEMMA StartAndEndStep ==
  ASSUME IInv, StartAndEnd
  PROVE  IInv'
<1> USE DEF IInv, TypeOK, ModeInv, WinchInv, SizeFollowsWindow, MainAt, ttyVars,
            keyVars, screenVars, frameVars, sigVars
<1>1. CASE MakeScreen
  <2>1. len' \in Nat \ {0} /\ len' = BufferSize(size')
    BY <1>1, BufferSizeType DEF MakeScreen, UncookTermios, Uncook, SetTermiosControl
  <2>2. typed' \in Seq(Keys)
    BY <1>1 DEF MakeScreen, UncookTermios, Uncook, SetTermiosControl
  <2> QED
    BY <1>1, <2>1, <2>2 DEF MakeScreen, UncookTermios, Uncook, SetTermiosControl
<1>2. CASE HandleWinch
  BY <1>2 DEF HandleWinch
<1>3. CASE OpenDatabase
  <2>1. TypeOK'
    BY <1>3 DEF OpenDatabase
  <2>2. ModeInv' /\ WinchInv' /\ len' = BufferSize(size')
    BY <1>3 DEF OpenDatabase
  <2> QED
    BY <2>1, <2>2
<1>4. CASE MakeSceneTree
  <2>1. TypeOK'
    BY <1>4 DEF MakeSceneTree
  <2>2. ModeInv' /\ WinchInv' /\ len' = BufferSize(size')
    BY <1>4 DEF MakeSceneTree
  <2> QED
    BY <2>1, <2>2
<1>5. CASE CookTermios
  <2>1. typed' \in Seq(Keys)
    BY <1>5 DEF CookTermios, Cook, SetTermiosControl
  <2> QED
    BY <1>5, <2>1 DEF CookTermios, Cook, SetTermiosControl
<1>6. CASE Throws
  BY <1>6 DEF Throws
<1> QED
  BY <1>1, <1>2, <1>3, <1>4, <1>5, <1>6 DEF StartAndEnd

LEMMA PollStep ==
  ASSUME IInv, Poll
  PROVE  IInv'
<1> USE DEF IInv, TypeOK, ModeInv, WinchInv, SizeFollowsWindow, MainAt, ttyVars,
            keyVars, screenVars, frameVars, sigVars
<1>1. ASSUME NEW c \in Keys, ReadKey(c)
      PROVE  IInv'
  <2>1. typed' \in Seq(Keys)
    <3>1. CASE typed = <<>>
      BY <1>1, <3>1 DEF ReadKey, SetTermiosControl, Readc
    <3>2. CASE typed # <<>>
      BY <1>1, <3>2 DEF ReadKey, SetTermiosControl, Readc
    <3> QED
      BY <3>1, <3>2
  <2>2. running' \in BOOLEAN
    BY <1>1 DEF ReadKey, SetTermiosControl
  <2>3. CASE c = "nul"
    BY <1>1, <2>1, <2>2, <2>3 DEF ReadKey, SetTermiosControl
  <2>4. CASE c = "esc"
    BY <1>1, <2>1, <2>2, <2>4 DEF ReadKey, SetTermiosControl
  <2>5. CASE c # "nul" /\ c # "esc"
    BY <1>1, <2>1, <2>2, <2>5 DEF ReadKey, SetTermiosControl
  <2> QED
    BY <2>3, <2>4, <2>5
<1>2. CASE ReadSequence
  <2>1. typed' \in Seq(Keys)
    BY <1>2 DEF ReadSequence, SetTermiosControl, SequenceLength, Lesser
  <2> QED
    BY <1>2, <2>1 DEF ReadSequence, SetTermiosControl
<1> QED
  BY <1>1, <1>2 DEF Poll

LEMMA FrameStep ==
  ASSUME IInv, Frame
  PROVE  IInv'
<1> USE DEF IInv, TypeOK, ModeInv, WinchInv, SizeFollowsWindow, MainAt, ttyVars,
            keyVars, screenVars, frameVars, sigVars
<1>1. CASE ShouldRun
  BY <1>1 DEF ShouldRun
<1>2. CASE Poll
  BY <1>2, PollStep
<1>3. CASE Clear
  BY <1>3 DEF Clear
<1>4. CASE Update
  <2>1. view' \in View
    BY <1>4, EngineAssumption DEF Update
  <2> QED
    BY <1>4, <2>1 DEF Update
<1>5. CASE AskLine
  <2>1. typed' \in Seq(Keys)
    BY <1>5 DEF AskLine, Cook
  <2> QED
    BY <1>5, <2>1 DEF AskLine, Cook
<1>6. CASE ReadLine
  <2>1. typed' \in Seq(Keys)
    BY <1>6 DEF ReadLine, Uncook
  <2> QED
    BY <1>6, <2>1 DEF ReadLine, Uncook
<1>7. CASE Drawn
  BY <1>7 DEF Drawn
<1>8. CASE Commit
  <2>1. view' \in View
    BY <1>8 DEF Commit, NoView, View
  <2> QED
    BY <1>8, <2>1 DEF Commit
<1> QED
  BY <1>1, <1>2, <1>3, <1>4, <1>5, <1>6, <1>7, <1>8 DEF Frame

LEMMA WinchStep ==
  ASSUME IInv, Winch
  PROVE  IInv'
<1> USE DEF IInv, TypeOK, ModeInv, WinchInv, SizeFollowsWindow, Gone, ttyVars,
            keyVars, screenVars, frameVars, sigVars
<1>1. CASE EnterWinch
  BY <1>1 DEF EnterWinch
<1>2. CASE UpdateSize
  BY <1>2, BufferSizeType DEF UpdateSize
<1>3. CASE LeaveWinch
  BY <1>3 DEF LeaveWinch
<1> QED
  BY <1>1, <1>2, <1>3 DEF Winch

LEMMA OutsideStep ==
  ASSUME IInv, Outside
  PROVE  IInv'
<1> USE DEF IInv, TypeOK, ModeInv, WinchInv, SizeFollowsWindow, Gone, ttyVars,
            keyVars, screenVars, frameVars, sigVars
<1>1. ASSUME NEW c \in Keys, Type(c)
      PROVE  IInv'
  BY <1>1 DEF Type
<1>2. ASSUME NEW s \in Windows, Resize(s)
      PROVE  IInv'
  <2>1. win' \in Size
    BY <1>2, EngineAssumption DEF Resize
  <2>2. CASE disposition = "handle_winch"
    BY <1>2, <2>1, <2>2 DEF Resize
  <2>3. CASE disposition # "handle_winch"
    BY <1>2, <2>1, <2>3 DEF Resize
  <2> QED
    BY <2>2, <2>3
<1>3. CASE Interrupt
  BY <1>3 DEF Interrupt
<1> QED
  BY <1>1, <1>2, <1>3 DEF Outside

LEMMA Invariance == Spec => []IInv
<1>1. IInv /\ [Next]_vars => IInv'
  <2> SUFFICES ASSUME IInv, [Next]_vars PROVE IInv'
    OBVIOUS
  <2>1. CASE Next
    BY <2>1, StartAndEndStep, FrameStep, WinchStep, OutsideStep DEF Next
  <2>2. CASE UNCHANGED vars
    BY <2>2 DEF vars, IInv, TypeOK, ModeInv, WinchInv, SizeFollowsWindow, ttyVars,
                keyVars, screenVars, frameVars, sigVars
  <2> QED
    BY <2>1, <2>2
<1> QED
  BY InitInv, <1>1, PTL DEF Spec

-----------------------------------------------------------------------------
(* The theorems.                                                           *)

\* The variables of the engine keep their types; the buffer is never empty.
THEOREM TypeCorrect == Spec => []TypeOK
<1>1. IInv => TypeOK
  BY DEF IInv
<1> QED
  BY Invariance, <1>1, PTL

\* Whatever is shown on a screen with room for it, and however often the window
\* is resized without shrinking, no scene writes outside the pixel buffer.
THEOREM DrawsStayInside == Spec => []WritesInside
<1>1. IInv => WritesInside
  <2> SUFFICES ASSUME IInv, Fits(view, frame),
                      frame.w <= size.w, frame.h <= size.h,
                      NEW c \in Calls(view, frame)
               PROVE  Inside(Writes(size, c), len)
    BY DEF WritesInside
  <2>1. Room(view, frame, size)
    BY DEF IInv, TypeOK, Room
  <2>2. StaysInside(size, c)
    BY <2>1, FrameInside
  <2> QED
    BY <2>2 DEF IInv, StaysInside
<1> QED
  BY Invariance, <1>1, PTL

\* commit finds width times height pixels after any sequence of resizes.
THEOREM CommitStaysInside == Spec => []CommitInside
<1>1. IInv => CommitInside
  <2> SUFFICES ASSUME IInv PROVE Inside(CommitReads(size), len)
    BY DEF CommitInside
  <2>1. size.w * size.h <= len
    BY BufferSizeType DEF IInv, TypeOK
  <2>2. size.w * size.h \in Nat /\ len \in Nat
    BY DEF IInv, TypeOK, Size
  <2> QED
    BY <2>1, <2>2 DEF Inside, CommitReads, Elements
<1> QED
  BY Invariance, <1>1, PTL

\* The screen has the size of the window, but for changes that the handler of
\* SIGWINCH could not see.
THEOREM SizeIsFollowed == Spec => []SizeFollowsWindow
<1>1. IInv => SizeFollowsWindow
  BY DEF IInv, WinchInv
<1> QED
  BY Invariance, <1>1, PTL

\* Every read finds the terminal in the mode it is meant for.
THEOREM ModesFit == Spec => []ModeFitsRead
<1>1. IInv => ModeFitsRead
  BY DEF IInv, ModeInv, ModeFitsRead
<1> QED
  BY Invariance, <1>1, PTL

\* The shell gets its terminal back.
THEOREM TerminalIsRestored == Spec => []TerminalRestored
<1>1. IInv => TerminalRestored
  BY DEF IInv, ModeInv, TerminalRestored
<1> QED
  BY Invariance, <1>1, PTL

=============================================================================
