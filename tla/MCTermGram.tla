----------------------------- MODULE MCTermGram -----------------------------
(* Two processes, ann and bob, and the databases they may have. *)
EXTENDS TermGram, TLC

CONSTANTS n1, n2, ann, bob, c1, c2

Names == n1 :> ann @@ n2 :> bob

Known(name, at) == [name |-> name, at |-> at]
Old(chats, users, members) ==
  [Chat |-> chats, User |-> users, members |-> members]

\* The other one and oneself in two chats; and under other ids, in two chats of
\* one name, with ann's address given to bob as well.
SomeTables ==
  {Old(<<c1, c2>>, <<Known(ann, n1), Known(bob, n2)>>,
       {<<1, 1>>, <<1, 2>>, <<2, 1>>, <<2, 2>>}),
   Old(<<c2, c2>>, <<Known(bob, n1), Known(ann, n1)>>, {<<1, 1>>, <<1, 2>>, <<2, 2>>})}

=============================================================================
