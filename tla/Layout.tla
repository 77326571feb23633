------------------------------- MODULE Layout -------------------------------
(***************************************************************************)
(* What the scenes draw: the drawing calls of one frame as a function of   *)
(* the size s = [w, h] the frame was started with and of what there is to  *)
(* show, the view.  Texts of any length are LongText long; the root is at  *)
(* the top left, so every scene is drawn with transform {0, 0}.            *)
(***************************************************************************)
EXTENDS Screen

CONSTANT LongText    \* bound: length of the longest text that is printed

ASSUME LayoutAssumption == LongText \in Nat

Modals == {"create_user", "create_chat", "add_user", "remove_user"}
ListModals == {"add_user", "remove_user"}

\* The sidebar is shown, a chat is selected, how many chats there are and how
\* many messages in the current one, which modals show, the rows of a list.
View == [sidebar : BOOLEAN, selected : BOOLEAN, chats : Nat, msgs : Nat,
         modals : SUBSET Modals, rows : Nat]

AnyText(x, y) == Text(x, y, LongText)

-----------------------------------------------------------------------------
\* ChatViewScene: four lines for each chat.
ChatEntry(k, width) ==
  {AnyText(1, 4 * k + 4), Text(width - 4, 4 * k + 4, 3),
   AnyText(1, 4 * k + 5), Hline(0, width, 4 * k + 7)}

ChatView(v, width) ==
  {AnyText(0, 0), AnyText(0, 2)}
    \cup UNION {ChatEntry(k, width) : k \in 0 .. v.chats - 1}

\* SidebarScene: a third of the screen, and the content right of it.
SidebarWidth(v, s) == IF v.sidebar THEN s.w \div 3 ELSE 0
ContentX(v, s) == SidebarWidth(v, s) + (IF v.sidebar THEN 1 ELSE 0)

Sidebar(v, s) ==
  IF v.sidebar
  THEN ChatView(v, SidebarWidth(v, s)) \cup {Vline(SidebarWidth(v, s), 0, s.h)}
  ELSE {}

\* ChatInfoScene: the chat and its members.
DrawChatInfo(x) == {AnyText(x, 1), AnyText(x, 3)}

ChatInfo(v, s) ==
  LET x == ContentX(v, s)
  IN  IF v.selected THEN DrawChatInfo(x)
      ELSE {Text(x + ((s.w - x) \div 2) - 8, 2, 16)}

\* ChatScene: the messages from the bottom to the top; the first is printed
\* before anything is compared with the limit.
MessageRows(v, s) ==
  {s.h - 6 - 2 * k : k \in {i \in 0 .. v.msgs - 1 : i = 0 \/ s.h - 6 - 2 * i > 5}}

WriteMsg(v, s) == {Text(ContentX(v, s) + 1, s.h - 3, 1)}

Chat(v, s) ==
  LET x == ContentX(v, s) IN
    ChatInfo(v, s) \cup WriteMsg(v, s)
      \cup {Hline(x + 1, s.w - 1, y) : y \in {5, s.h - 4}}
      \cup {AnyText(x, y) : y \in MessageRows(v, s)}

-----------------------------------------------------------------------------
\* draw_input_box and draw_basic_button; each box is three lines high.
InputBox(x, y) == Box(x, y, 30, 2) \cup {AnyText(x + 1, y), AnyText(x + 1, y + 1)}
BasicButton(x, y) == {Text(x, y, 6)}

Form(x, y, fields) ==
  BasicButton(x, y + 3 * fields + 1)
    \cup UNION {InputBox(x, y + 3 * i) : i \in 0 .. fields - 1}

UserList(x, y, rows) ==
  {AnyText(x, y + i) : i \in 0 .. rows - 1}
    \cup {Text(x, y + rows + 2, 15), Text(x + 20, y + rows + 2, 10)}

\* ModalScene: a third of the width and half of the height.
Modal(m, v, s) ==
  LET x == s.w \div 3
      y == s.h \div 4
  IN  Box(x, y, x, 2 * y) \cup {AnyText(x + 2, y)}
        \cup (IF m \in ListModals THEN UserList(x + 2, y + 1, v.rows)
              ELSE Form(x + 2, y + 1, IF m = "create_user" THEN 3 ELSE 2))

BottomPanel(v, s) ==
  {Hline(0, s.w, s.h - 1), Text(0, s.h - 1, 15), Text(16, s.h - 1, 22),
   Text(39, s.h - 1, 22)}
    \cup (IF v.selected THEN {Text(62, s.h - 1, 11)} ELSE {})

\* NetScene: how many messages are on their way.
Outbound(s) == {Text(0, s.h - 2, 20)}

\* StackScene: the children one after the other.
Calls(v, s) ==
  Sidebar(v, s) \cup Chat(v, s) \cup Outbound(s) \cup BottomPanel(v, s)
    \cup UNION {Modal(m, v, s) : m \in v.modals}

=============================================================================
