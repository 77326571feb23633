------------------------------ MODULE MCEngine ------------------------------
(* Engine on small instances: what there is to show on one or two screens. *)
EXTENDS Engine

Screen(w, h) == [w |-> w, h |-> h]

\* A screen that is no terminal, the smallest with room for a form, and the
\* usual one.
SomeWindows == {Screen(0, 0), Screen(62, 15), Screen(80, 24)}

Show(sidebar, selected, chats, msgs, modals, rows) ==
  [sidebar |-> sidebar, selected |-> selected, chats |-> chats, msgs |-> msgs,
   modals |-> modals, rows |-> rows]

\* As many chats, messages and rows as the usual screen has room for, and fewer.
SomeViews ==
  {Show(TRUE, TRUE, 5, 40, {"create_user", "add_user"}, 14),
   Show(FALSE, FALSE, 6, 1, {"create_chat", "remove_user"}, 8),
   Show(FALSE, TRUE, 0, 40, {"create_user"}, 0)}

\* One line less than the usual screen, and five chats.
OneWindow == {Screen(80, 23)}
OneView == {[NoView EXCEPT !.sidebar = TRUE, !.chats = 5]}

=============================================================================
