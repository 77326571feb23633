------------------------------- MODULE TermGram -------------------------------
(***************************************************************************)
(* Several TermGram processes that write to each other over UDP.  Each has *)
(* a database and a name of its own, and knows the others as users with an *)
(* address.  AppState and NetScene say how a process works inside; here    *)
(* one of its operations is one step, and it is the network that loses,    *)
(* duplicates and reorders, the processes that stop, and the memberships   *)
(* that change while messages are on their way.                            *)
(*                                                                         *)
(* A node stands for a process and for the host and port it is reached at, *)
(* so the row of Address that a user refers to is the node itself.         *)
(*                                                                         *)
(* An operator defined just before another with the same parameters is a   *)
(* faulty variant of it, used to see that a property can fail.             *)
(***************************************************************************)
EXTENDS Dao, FiniteSets

CONSTANTS
  Node, Name,           \* the processes, and the name each runs under
  UserName, ChatName,
  Text, Long,           \* what can be written; what does not fit 64 bytes when packed
  Tables,               \* the chats, users and members an earlier process left
  MaxRows,              \* bound: rows a process has when it writes another
  MaxFaults,            \* bound: duplicates of the network and ends of a process
  MaxChanges            \* bound: new chats, users and changes of membership

UserRow == [name : UserName, at : Node]

ASSUME TermGramAssumption ==
  /\ Name \in [Node -> UserName] /\ Long \subseteq Text
  /\ {MaxRows, MaxFaults, MaxChanges} \subseteq Nat
  /\ \A t \in Tables :
       /\ t.Chat \in Seq(ChatName) /\ t.User \in Seq(UserRow)
       /\ t.members \subseteq (DOMAIN t.Chat) \X (DOMAIN t.User)

VARIABLES
  Chat, User, Chat_has_User, Message,  \* the tables of each process
  up,          \* it runs
  open,        \* its workers: <<row, user, to, message, result>>
  net,         \* the datagrams on their way
  faults, changes,
  posted,      \* history: what was to be sent, see Letter
  lost         \* history: of these, what is accounted for without being stored

tables == <<Chat, User, Chat_has_User, Message>>
history == <<posted, lost>>
vars == <<tables, up, open, net, faults, changes, history>>

-----------------------------------------------------------------------------
(* Data.                                                                   *)

UdpMessage == [content : Text, sent_by : UserName, sent_from : ChatName]

MessageRow(c, by, text) ==
  [in_chat |-> c, sent_by |-> by, content |-> text, sent |-> by # Ours,
   error |-> FALSE]

\* What push_message packs: the text, our name and the name of the chat.
OfFirstChat(n, c, text) ==
  [content |-> text, sent_by |-> Name[n], sent_from |-> Chat[n][1]]
Packed(n, c, text) ==
  [content |-> text, sent_by |-> Name[n], sent_from |-> Chat[n][c]]

\* address_dao.with_id(member.user_address).
AddressOfFirst(n, u) == User[n][1].at
AddressOf(n, u) == User[n][u].at

\* What goes to user u of process n for its row k.  The programs cannot tell
\* two letters of the same content apart; `id` and `copy` are not in the datagram.
Letter(n, k, u, m) == [id |-> <<n, k, u>>, to |-> AddressOf(n, u), message |-> m]
Datagram(letter, c) == [letter |-> letter, copy |-> c]

Recipients(n, c) ==
  {u \in AllForChat(Chat_has_User[n], c) : User[n][u].name # Name[n]}

\* recv_message: the <<user, chat>> pairs of process n a message belongs to.
Matches(n, m) ==
  AllThatContainUserAndChat(User[n], Chat[n], Chat_has_User[n], m.sent_by, m.sent_from)

\* The rows for a set of matches, in any order.
Orders(S) ==
  {f \in [1 .. Cardinality(S) -> S] : \A s \in S : \E i \in DOMAIN f : f[i] = s}
RowsFromZero(order, m) ==
  [i \in DOMAIN order |-> MessageRow(order[i][2], order[i][1] - 1, m.content)]
Rows(order, m) ==
  [i \in DOMAIN order |-> MessageRow(order[i][2], order[i][1], m.content)]

-----------------------------------------------------------------------------
Init ==
  /\ \E t \in [Node -> Tables] :
       /\ Chat = [n \in Node |-> t[n].Chat] /\ User = [n \in Node |-> t[n].User]
       /\ Chat_has_User = [n \in Node |-> t[n].members]
  /\ Message = [n \in Node |-> <<>>]
  /\ up = [n \in Node |-> TRUE] /\ open = [n \in Node |-> {}]
  /\ net = {} /\ faults = 0 /\ changes = 0
  /\ posted = {} /\ lost = {}

-----------------------------------------------------------------------------
(* Sending.                                                                *)

\* push_message with send_message, in whatever chat is selected.
PushMessage(n, c, text) ==
  LET k == Len(Message[n]) + 1 IN
  /\ up[n] /\ c \in DOMAIN Chat[n] /\ k <= MaxRows
  /\ Message' = [Message EXCEPT ![n] = Insert(@, MessageRow(c, Ours, text))]
  /\ open' = [open EXCEPT ![n] = @ \cup
       {[letter |-> Letter(n, k, u, Packed(n, c, text)), result |-> "none"] :
          u \in Recipients(n, c)}]
  /\ posted' = posted \cup
       {<<n, k, u>> : u \in {v \in DOMAIN User[n] :
            <<c, v>> \in Chat_has_User[n] /\ User[n][v].name # Name[n]}}
  /\ UNCHANGED <<Chat, User, Chat_has_User, up, net, faults, changes, lost>>

\* A worker ends: the kernel took the datagram, or refused it, or there was an
\* exception.
WorkerEnds(n, a) ==
  /\ a \in open[n] /\ a.result = "none"
  /\ \E r \in {"handed", "refused", "threw"} :
       /\ open' = [open EXCEPT ![n] = (@ \ {a}) \cup {[a EXCEPT !.result = r]}]
       /\ net' = IF r = "handed" THEN net \cup {Datagram(a.letter, 0)} ELSE net
       /\ lost' = IF r = "handed" THEN lost ELSE lost \cup {a.letter.id}
  /\ UNCHANGED <<tables, up, faults, changes, posted>>

\* NetScene::update finds its result; "" is what a refused send comes to, too.
CollectResult(n, a) ==
  LET k == a.letter.id[2] IN
  /\ a \in open[n] /\ a.result # "none"
  /\ open' = [open EXCEPT ![n] = @ \ {a}]
  /\ Message' = [Message EXCEPT ![n] =
       IF a.result = "threw" THEN UpdateWithError(@, k) ELSE UpdateWithSent(@, k)]
  /\ UNCHANGED <<Chat, User, Chat_has_User, up, net, faults, changes, history>>

-----------------------------------------------------------------------------
(* The network.                                                            *)

Lose(d) ==
  /\ net' = net \ {d} /\ lost' = lost \cup {d.letter.id}
  /\ UNCHANGED <<tables, up, open, faults, changes, posted>>

Duplicate(d) ==
  /\ faults < MaxFaults /\ faults' = faults + 1
  /\ net' = net \cup {Datagram(d.letter, faults + 1)}
  /\ UNCHANGED <<tables, up, open, changes, history>>

-----------------------------------------------------------------------------
(* Receiving: the listener, the queue and recv_message of a process that   *)
(* runs.  Until a datagram has come that far it may still be lost.         *)

\* A user of this process who has the author's name is a member of a chat of
\* that name.
Knows(n, m) ==
  \E u \in DOMAIN User[n], c \in DOMAIN Chat[n] :
    /\ User[n][u].name = m.sent_by /\ Chat[n][c] = m.sent_from
    /\ <<c, u>> \in Chat_has_User[n]

Receive(d) ==
  LET n == d.letter.to
      m == d.letter.message
  IN  /\ up[n] /\ m.content \notin Long /\ net' = net \ {d}
      /\ \E order \in Orders(Matches(n, m)) :
           Message' = [Message EXCEPT ![n] = @ \o Rows(order, m)]
      /\ lost' = IF Knows(n, m) THEN lost ELSE lost \cup {d.letter.id}
      /\ UNCHANGED <<Chat, User, Chat_has_User, up, open, faults, changes, posted>>

\* A DatabaseError of an insert is caught, and the other matches are dropped.
ReceiveSome(d) ==
  LET n == d.letter.to
      m == d.letter.message
  IN  /\ up[n] /\ m.content \notin Long /\ net' = net \ {d}
      /\ \E S \in SUBSET Matches(n, m) : \E order \in Orders(S) :
           Message' = [Message EXCEPT ![n] = @ \o Rows(order, m)]
      /\ lost' = lost \cup {d.letter.id}
      /\ UNCHANGED <<Chat, User, Chat_has_User, up, open, faults, changes, posted>>

\* The buffer has 64 bytes: the rest is cut off and nothing is unpacked.
ReceiveTruncated(d) ==
  /\ up[d.letter.to] /\ d.letter.message.content \in Long /\ net' = net \ {d}
  /\ lost' = lost \cup {d.letter.id}
  /\ UNCHANGED <<tables, up, open, faults, changes, posted>>

-----------------------------------------------------------------------------
(* Chats, users and members; the end of a process and its restart.         *)

Change == changes < MaxChanges /\ changes' = changes + 1

AddMember(n, c, u) ==
  /\ up[n] /\ Change /\ CanAddUser(Chat_has_User[n], c, u)
  /\ Chat_has_User' = [Chat_has_User EXCEPT ![n] = AddUser(@, c, u)]
  /\ UNCHANGED <<Chat, User, Message, up, open, net, faults, history>>

RemoveMember(n, c, u) ==
  /\ up[n] /\ Change /\ <<c, u>> \in Chat_has_User[n]
  /\ Chat_has_User' = [Chat_has_User EXCEPT ![n] = RemoveUser(@, c, u)]
  /\ UNCHANGED <<Chat, User, Message, up, open, net, faults, history>>

NewChat(n, name) ==
  /\ up[n] /\ Change
  /\ Chat' = [Chat EXCEPT ![n] = Insert(@, name)]
  /\ UNCHANGED <<User, Chat_has_User, Message, up, open, net, faults, history>>

NewUser(n, name, at) ==
  /\ up[n] /\ Change
  /\ User' = [User EXCEPT ![n] = Insert(@, [name |-> name, at |-> at])]
  /\ UNCHANGED <<Chat, Chat_has_User, Message, up, open, net, faults, history>>

\* It is killed, or ends and drops the results it has not collected.
Stop(n) ==
  /\ up[n] /\ faults < MaxFaults /\ faults' = faults + 1
  /\ up' = [up EXCEPT ![n] = FALSE] /\ open' = [open EXCEPT ![n] = {}]
  /\ lost' = lost \cup {a.letter.id : a \in {b \in open[n] : b.result = "none"}}
  /\ UNCHANGED <<tables, net, changes, posted>>

Restart(n) ==
  /\ ~up[n] /\ up' = [up EXCEPT ![n] = TRUE]
  /\ UNCHANGED <<tables, open, net, faults, changes, history>>

-----------------------------------------------------------------------------
Send(n) ==
  \/ \E c \in DOMAIN Chat[n], text \in Text : PushMessage(n, c, text)
  \/ \E a \in open[n] : WorkerEnds(n, a) \/ CollectResult(n, a)

Network(d) == Lose(d) \/ Duplicate(d)
Arrive(d) == Receive(d) \/ ReceiveSome(d) \/ ReceiveTruncated(d)

Edit(n) ==
  \/ \E c \in DOMAIN Chat[n], u \in DOMAIN User[n] :
       AddMember(n, c, u) \/ RemoveMember(n, c, u)
  \/ \E name \in ChatName : NewChat(n, name)
  \/ \E name \in UserName, at \in Node : NewUser(n, name, at)

Next == \/ \E n \in Node : Send(n) \/ Edit(n) \/ Stop(n) \/ Restart(n)
        \/ \E d \in net : Network(d) \/ Arrive(d)

Spec == Init /\ [][Next]_vars

-----------------------------------------------------------------------------
(* What the processes promise each other.                                  *)

Letters == [id : Node \X Nat \X Nat, to : Node, message : UdpMessage]
Results == {"none", "handed", "refused", "threw"}
MessageRows ==
  [in_chat : Nat, sent_by : Nat \cup {Ours}, content : Text, sent : BOOLEAN,
   error : BOOLEAN]

\* Every variable holds what the code can put there, and every row refers to
\* a chat and a user of its own process.
TypeOK ==
  /\ Chat \in [Node -> Seq(ChatName)] /\ User \in [Node -> Seq(UserRow)]
  /\ Chat_has_User \in [Node -> SUBSET (Nat \X Nat)]
  /\ Message \in [Node -> Seq(MessageRows)]
  /\ \A n \in Node :
       /\ Chat_has_User[n] \subseteq (DOMAIN Chat[n]) \X (DOMAIN User[n])
       /\ \A i \in DOMAIN Message[n] :
            /\ Message[n][i].in_chat \in DOMAIN Chat[n]
            /\ Message[n][i].sent_by \in (DOMAIN User[n]) \cup {Ours}
  /\ up \in [Node -> BOOLEAN]
  /\ open \in [Node -> SUBSET [letter : Letters, result : Results]]
  /\ net \subseteq [letter : Letters, copy : Nat]
  /\ faults \in Nat /\ changes \in Nat
  /\ posted \subseteq Node \X Nat \X Nat /\ lost \subseteq Node \X Nat \X Nat

\* Row k of process n is its own, and says what message m says.
Wrote(n, k, m) ==
  /\ Message[n][k].sent_by = Ours /\ Message[n][k].content = m.content
  /\ Chat[n][Message[n][k].in_chat] = m.sent_from /\ Name[n] = m.sent_by

\* Process n writes to user u at an address.
WritesTo(n, u, to) == User[n][u].at = to /\ User[n][u].name # Name[n]

\* The message that row i of process n says it has received.
Received(n, i) ==
  [content |-> Message[n][i].content,
   sent_by |-> User[n][Message[n][i].sent_by].name,
   sent_from |-> Chat[n][Message[n][i].in_chat]]

\* Whatever a process has stored as received was written by a process that
\* runs under the author's name, in a chat of that name, to a user at this
\* process's address who does not have the author's name; and it fits the
\* buffer.  So a process hears itself only if it has given its own address to
\* a user of another name.
ReceivedWasWritten ==
  \A n \in Node : \A i \in DOMAIN Message[n] :
    Message[n][i].sent_by # Ours =>
      /\ Message[n][i].content \notin Long
      /\ \E from \in Node :
           /\ \E k \in DOMAIN Message[from] : Wrote(from, k, Received(n, i))
           /\ \E u \in DOMAIN User[from] : WritesTo(from, u, n)

\* What became of a message to user p[3] for row p[2] of process p[1]: a worker
\* has it, the network has it, or it is stored at the user's address under
\* the author's name in a chat of that name.
Waiting(p) == \E a \in open[p[1]] : a.letter.id = p /\ a.result = "none"
OnItsWay(p) == \E d \in net : d.letter.id = p
Stored(p) ==
  LET to == User[p[1]][p[3]].at IN
  \E i \in DOMAIN Message[to] :
    Message[to][i].sent_by # Ours /\ Wrote(p[1], p[2], Received(to, i))

\* "The application sends the message to each of the addresses" of the chat's
\* users and "the content is inserted in the chat of that name": of a message
\* that was to be sent to a user, nothing is lost within the programs but what
\* is lost by name: a send that fails, an end of the process before it, the
\* network, a text that does not fit, an author who is no member at the
\* receiver, an insert that fails.
NothingVanishes ==
  \A p \in posted : Waiting(p) \/ OnItsWay(p) \/ Stored(p) \/ p \in lost

=============================================================================
