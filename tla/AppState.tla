------------------------------ MODULE AppState ------------------------------
(***************************************************************************)
(* AppState: the selected chat, the cached copies of the database and the  *)
(* operations the scenes and NetScene call on them, all from the main      *)
(* thread.  The tables survive a crash, the caches do not.  An operation   *)
(* of several statements takes several steps, because each statement       *)
(* commits by itself and the process may be killed between two of them.    *)
(*                                                                         *)
(* The collecting of the workers that push_message starts is in NetScene.  *)
(*                                                                         *)
(* An operator defined just before another with the same parameters is a   *)
(* faulty variant of it, used to see that a property can fail.             *)
(***************************************************************************)
EXTENDS Dao, FiniteSets

CONSTANTS
  ChatName, UserName,  \* names of chats and of users
  Own,                 \* the name this process runs under
  Addr,                \* the (host, port) pairs users are reached at
  MaxChats, MaxUsers, MaxMessages,  \* bounds: rows of the tables
  MaxCrashes           \* bound: ends of the process

ASSUME AppAssumption ==
  /\ Own \in UserName
  /\ {MaxChats, MaxUsers, MaxMessages, MaxCrashes} \subseteq Nat

VARIABLES
  Chat, Address, User, Chat_has_User, Message,  \* the tables
  selected_chat,       \* row of `chats` counted from 0, or -1
  chats, users, members_of_chat,                \* the caches
  pc,                  \* the operation in progress
  newName,             \* insert_new_user: the name of the user
  matches,             \* recv_message: the <<user, chat>> pairs left to store
  sends,               \* <<row, user, address>> a worker was started for
  crashes

tables == <<Chat, Address, User, Chat_has_User, Message>>
caches == <<chats, users, members_of_chat>>
vars == <<tables, selected_chat, caches, pc, newName, matches, sends,
          crashes>>

-----------------------------------------------------------------------------
(* The caches.                                                             *)

HasChatSelected == selected_chat >= 0

\* get_selected_chatmodel()->id: `chats` is in the order of the ids.
IndexAsId == selected_chat
SelectedChat == selected_chat + 1

\* fetch_users_of_chat, for the selection s.
NotRefetched(s) == members_of_chat
FetchUsersOfChat(s) ==
  IF s >= 0 THEN AllForChat(Chat_has_User', s + 1) ELSE {}

FetchAll ==
  /\ users' = User' /\ chats' = Chat'
  /\ members_of_chat' = FetchUsersOfChat(selected_chat)

Init ==
  /\ Chat = <<>> /\ Address = <<>> /\ User = <<>> /\ Message = <<>>
  /\ Chat_has_User = {}
  /\ selected_chat = -1 /\ chats = <<>> /\ users = <<>>
  /\ members_of_chat = {}
  /\ pc = "idle" /\ newName = Own /\ matches = {} /\ sends = {}
  /\ crashes = 0

-----------------------------------------------------------------------------
(* Selection.                                                              *)

\* ChatViewScene fetches the chats on the first frame.
FetchChats ==
  /\ pc = "idle" /\ chats' = Chat
  /\ UNCHANGED <<tables, selected_chat, users, members_of_chat, pc, newName,
                 matches, sends, crashes>>

\* AddUserToChatScene fetches the users when it is shown.
FetchUsers ==
  /\ pc = "idle" /\ users' = User
  /\ UNCHANGED <<tables, selected_chat, chats, members_of_chat, pc, newName,
                 matches, sends, crashes>>

Select(s) ==
  /\ selected_chat' = s
  /\ UNCHANGED <<tables, chats, pc, newName, matches, sends, crashes>>
  /\ users' = User /\ members_of_chat' = FetchUsersOfChat(s)

SelectNextChat ==
  /\ pc = "idle" /\ chats # <<>>
  /\ Select(IF selected_chat < 0 THEN 0 ELSE (selected_chat + 1) % Len(chats))

SelectPrevChat ==
  /\ pc = "idle" /\ chats # <<>>
  /\ Select(IF selected_chat - 1 < 0 THEN Len(chats) - 1 ELSE selected_chat - 1)

DeselectChat == pc = "idle" /\ Select(-1)

-----------------------------------------------------------------------------
(* Members, users and chats.                                               *)

AddUserToSelectedChat(u) ==
  /\ pc = "idle" /\ HasChatSelected
  /\ CanAddUser(Chat_has_User, SelectedChat, u)
  /\ Chat_has_User' = AddUser(Chat_has_User, SelectedChat, u)
  /\ UNCHANGED <<Chat, Address, User, Message>>
  /\ FetchAll
  /\ UNCHANGED <<selected_chat, pc, newName, matches, sends, crashes>>

RemoveUserFromSelectedChat(u) ==
  /\ pc = "idle" /\ HasChatSelected
  /\ Chat_has_User' = RemoveUser(Chat_has_User, SelectedChat, u)
  /\ UNCHANGED <<Chat, Address, User, Message>>
  /\ FetchAll
  /\ UNCHANGED <<selected_chat, pc, newName, matches, sends, crashes>>

\* insert_new_user: the address first, then the user that refers to it.
InsertAddress(name, address) ==
  /\ pc = "idle" /\ Len(User) < MaxUsers /\ Len(Address) < MaxUsers + MaxCrashes
  /\ Address' = Insert(Address, address)
  /\ pc' = "insert_user" /\ newName' = name
  /\ UNCHANGED <<Chat, User, Chat_has_User, Message, selected_chat, caches,
                 matches, sends, crashes>>

InsertUserUnlessKnown ==
  /\ pc = "insert_user"
  /\ User' = IF \E u \in DOMAIN User : User[u].name = newName
             THEN User
             ELSE Insert(User, [name |-> newName, user_address |-> LastId(Address)])
  /\ users' = User' /\ pc' = "idle"
  /\ UNCHANGED <<Chat, Address, Chat_has_User, Message, selected_chat, chats,
                 members_of_chat, newName, matches, sends, crashes>>

InsertUser ==
  /\ pc = "insert_user"
  /\ User' = Insert(User, [name |-> newName, user_address |-> LastId(Address)])
  /\ users' = User'
  /\ pc' = "idle"
  /\ UNCHANGED <<Chat, Address, Chat_has_User, Message, selected_chat, chats,
                 members_of_chat, newName, matches, sends, crashes>>

InsertNewChat(name) ==
  /\ pc = "idle" /\ Len(Chat) < MaxChats
  /\ Chat' = Insert(Chat, name) /\ chats' = Chat'
  /\ UNCHANGED <<Address, User, Chat_has_User, Message, selected_chat, users,
                 members_of_chat, pc, newName, matches, sends, crashes>>

-----------------------------------------------------------------------------
(* Messages.                                                               *)

MessageRow(c, by) ==
  [in_chat |-> c, sent_by |-> by, sent |-> by # Ours, error |-> FALSE]

\* push_message: the row first, then send_message.
PushMessage ==
  /\ pc = "idle" /\ HasChatSelected /\ Len(Message) < MaxMessages
  /\ Message' = Insert(Message, MessageRow(SelectedChat, Ours))
  /\ pc' = "send"
  /\ UNCHANGED <<Chat, Address, User, Chat_has_User, selected_chat, caches,
                 newName, matches, sends, crashes>>

\* A worker for each member that does not have our name.
Recipients == {u \in members_of_chat : User[u].name # Own}

SendMessage ==
  /\ pc = "send"
  /\ sends' = sends \cup
       {<<LastId(Message), u, Address[User[u].user_address]>> : u \in Recipients}
  /\ pc' = "idle"
  /\ UNCHANGED <<tables, selected_chat, caches, newName, matches, crashes>>

\* recv_message: the query, the inserts in any order, the fetches.
RecvMessage(username, chatname) ==
  /\ pc = "idle"
  /\ matches' =
       AllThatContainUserAndChat(User, Chat, Chat_has_User, username, chatname)
  /\ Len(Message) + Cardinality(matches') <= MaxMessages
  /\ pc' = "recv"
  /\ UNCHANGED <<tables, selected_chat, caches, newName, sends, crashes>>

RecvInsert(uc) ==
  /\ pc = "recv" /\ uc \in matches
  /\ Message' = Insert(Message, MessageRow(uc[2], uc[1]))
  /\ matches' = matches \ {uc}
  /\ UNCHANGED <<Chat, Address, User, Chat_has_User, selected_chat, caches, pc,
                 newName, sends, crashes>>

\* All are stored, or a DatabaseError was caught and the rest is dropped.
RecvDone ==
  /\ pc = "recv"
  /\ matches' = {} /\ pc' = "idle"
  /\ UNCHANGED tables /\ FetchAll
  /\ UNCHANGED <<selected_chat, newName, sends, crashes>>

\* NetScene reports what became of a message that was sent.
SetMessageStatus(id) ==
  /\ pc = "idle" /\ \E s \in sends : s[1] = id
  /\ \/ Message' = UpdateWithSent(Message, id)
     \/ Message' = UpdateWithError(Message, id)
  /\ UNCHANGED <<Chat, Address, User, Chat_has_User, selected_chat, caches, pc,
                 newName, matches, sends, crashes>>

-----------------------------------------------------------------------------
(* The end of the process: it is killed, or a statement throws (a pair that *)
(* is already in Chat_has_User, a database another process has locked) and  *)
(* main() gives up.  After a restart everything cached is empty.            *)

Crash ==
  /\ pc # "down" /\ crashes < MaxCrashes
  /\ pc' = "down" /\ crashes' = crashes + 1
  /\ selected_chat' = -1 /\ chats' = <<>> /\ users' = <<>>
  /\ members_of_chat' = {} /\ matches' = {}
  /\ UNCHANGED <<tables, newName, sends>>

Restart ==
  /\ pc = "down" /\ pc' = "idle"
  /\ UNCHANGED <<tables, selected_chat, caches, newName, matches, sends,
                 crashes>>

-----------------------------------------------------------------------------
Selection == SelectNextChat \/ SelectPrevChat \/ DeselectChat
Membership == \E u \in DOMAIN users :
                AddUserToSelectedChat(u) \/ RemoveUserFromSelectedChat(u)
Creation == \/ \E n \in UserName, a \in Addr : InsertAddress(n, a)
            \/ InsertUser
            \/ \E n \in ChatName : InsertNewChat(n)
Messaging == \/ PushMessage \/ SendMessage
             \/ \E u \in UserName, c \in ChatName : RecvMessage(u, c)
             \/ \E uc \in matches : RecvInsert(uc)
             \/ RecvDone
             \/ \E id \in DOMAIN Message : SetMessageStatus(id)

Next == \/ FetchChats \/ FetchUsers \/ Selection \/ Membership \/ Creation
        \/ Messaging \/ Crash \/ Restart

Spec == Init /\ [][Next]_vars

-----------------------------------------------------------------------------
(* What AppState promises.                                                 *)

Chats == DOMAIN Chat
Users == DOMAIN User
MessageRows ==
  [in_chat : Chats, sent_by : Users \cup {Ours}, sent : BOOLEAN, error : BOOLEAN]

\* Every variable holds what the code can put there.
TypeOK ==
  /\ Chat \in Seq(ChatName) /\ Address \in Seq(Addr)
  /\ User \in Seq([name : UserName, user_address : Nat])
  /\ Chat_has_User \subseteq Chats \X Users
  /\ Message \in Seq(MessageRows)
  /\ selected_chat \in Nat \cup {-1}
  /\ chats \in Seq(ChatName) /\ members_of_chat \subseteq Users
  /\ users \in Seq([name : UserName, user_address : Nat])
  /\ pc \in {"idle", "insert_user", "send", "recv", "down"}
  /\ newName \in UserName
  /\ matches \subseteq Users \X Chats
  /\ sends \subseteq (DOMAIN Message) \X Users \X Addr
  /\ crashes \in Nat

\* A cache holds the rows its table begins with: what a scene reads at an
\* index of the cache is the row of that id, however stale the cache is.
IsCacheOf(cache, table) ==
  /\ Len(cache) <= Len(table)
  /\ \A i \in DOMAIN cache : cache[i] = table[i]

\* The selected index is one of `chats` (chats.at() does not throw), each
\* cached row is the database's, and members_of_chat, which decides whom a
\* message goes to, is never behind Chat_has_User.
CachesCoherent ==
  /\ selected_chat < Len(chats)
  /\ IsCacheOf(chats, Chat) /\ IsCacheOf(users, User)
  /\ members_of_chat =
       IF HasChatSelected THEN AllForChat(Chat_has_User, SelectedChat) ELSE {}

\* The REFERENCES clauses the code relies on, which SQLite does not enforce
\* here: also after a crash between the two inserts of insert_new_user, a
\* user has an address, and no other user has the same row.
ReferentialIntegrity ==
  /\ \A u \in Users : User[u].user_address \in DOMAIN Address
  /\ \A u, v \in Users : User[u].user_address = User[v].user_address => u = v
  /\ \A id \in DOMAIN Message :
       \/ Message[id].sent_by = Ours
       \/ Message[id].sent /\ Message[id].sent_by \in Users

\* insert_new_user leaves an address without a user only when the process
\* ends between its inserts.
OrphansBounded ==
  Len(Address) <= Len(User) + crashes + (IF pc = "insert_user" THEN 1 ELSE 0)

\* A message goes to exactly the users that are members, in the database, of
\* the chat its row is stored in and do not have our name, each at the
\* address the database has for them.
FanOutExact ==
  [][ (pc = "send" /\ pc' = "idle") =>
        LET id == LastId(Message) IN
        {s \in sends' : s[1] = id} =
          {<<id, u, Address[User[u].user_address]>> : u \in
             {v \in AllForChat(Chat_has_User, Message[id].in_chat) :
                User[v].name # Own}} ]_vars

\* A received message is stored only in chats its sender is a member of, and
\* rows that are there stay as they are, except for the status of our own.
ReceivedFromMember ==
  [][ /\ Len(Message') >= Len(Message)
      /\ \A id \in DOMAIN Message' :
           IF id \in DOMAIN Message
           THEN /\ Message'[id].in_chat = Message[id].in_chat
                /\ Message'[id].sent_by = Message[id].sent_by
                /\ Message[id].sent_by # Ours => Message'[id] = Message[id]
           ELSE \/ Message'[id].sent_by = Ours
                \/ <<Message'[id].in_chat, Message'[id].sent_by>>
                     \in Chat_has_User ]_vars

\* What an operation of several statements relies on between two of them:
\* insert_new_user, that the last address is still nobody's; push_message,
\* that the last row is its own, lies in the selected chat and has not been
\* sent; recv_message, that the members it found are members; the reports of
\* the workers, that they are about rows of ours.
InFlight ==
  /\ pc = "insert_user" =>
       /\ Address # <<>>
       /\ \A u \in Users : User[u].user_address # LastId(Address)
  /\ pc = "send" =>
       /\ Message # <<>> /\ HasChatSelected
       /\ Message[LastId(Message)].in_chat = SelectedChat
       /\ Message[LastId(Message)].sent_by = Ours
       /\ \A s \in sends : s[1] # LastId(Message)
  /\ pc # "recv" => matches = {}
  /\ \A uc \in matches : <<uc[2], uc[1]>> \in Chat_has_User
  /\ \A s \in sends : Message[s[1]].sent_by = Ours

=============================================================================
