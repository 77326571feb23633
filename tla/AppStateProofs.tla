--------------------------- MODULE AppStateProofs ---------------------------
(***************************************************************************)
(* Proofs about AppState for every value of its constants.                 *)
(*                                                                         *)
(* The inductive invariant is the type invariant with the three safety     *)
(* invariants and InFlight, which carries what one statement of an         *)
(* operation establishes over to the next.                                 *)
(***************************************************************************)
EXTENDS AppState, TLAPS

IInv == TypeOK /\ CachesCoherent /\ ReferentialIntegrity /\ OrphansBounded
        /\ InFlight

UserRows == [name : UserName, user_address : Nat]

USE DEF tables, caches

-----------------------------------------------------------------------------
(* Sequences and tables.                                                   *)

\* Inserting a row keeps the rows there are and their ids, and the new row
\* is the last one.
LEMMA InsertRow ==
  ASSUME NEW S, NEW t \in Seq(S), NEW r \in S
  PROVE  /\ Insert(t, r) \in Seq(S)
         /\ Len(Insert(t, r)) = Len(t) + 1
         /\ DOMAIN t = 1 .. Len(t)
         /\ DOMAIN Insert(t, r) = 1 .. Len(t) + 1
         /\ \A i \in 1 .. Len(t) : Insert(t, r)[i] = t[i]
         /\ Insert(t, r)[Len(t) + 1] = r
  BY DEF Insert

\* A table of some kind of rows is a table of any wider kind.
LEMMA SeqMonotone ==
  ASSUME NEW S, NEW T, S \subseteq T, NEW s \in Seq(S)
  PROVE  s \in Seq(T)
  OBVIOUS

\* get_selected_chatmodel() names a row of Chat, not only of the cache.
LEMMA SelectedChatIsChat ==
  ASSUME TypeOK, CachesCoherent, HasChatSelected
  PROVE  SelectedChat \in Chats
BY DEF TypeOK, CachesCoherent, IsCacheOf, HasChatSelected, SelectedChat, Chats

\* fetch_users_of_chat yields users.
LEMMA FetchedAreUsers ==
  ASSUME Chat_has_User' \subseteq Chats' \X Users', NEW s
  PROVE  FetchUsersOfChat(s) \subseteq Users'
BY DEF FetchUsersOfChat, AllForChat

-----------------------------------------------------------------------------
(* Every step keeps the invariant.                                         *)

\* The empty database satisfies the invariant.
LEMMA InitInv == Init => IInv
<1> SUFFICES ASSUME Init PROVE IInv
  OBVIOUS
<1> USE DEF Init
<1>1. TypeOK BY AppAssumption DEF TypeOK, Chats, Users, MessageRows, Ours
<1>2. CachesCoherent BY DEF CachesCoherent, IsCacheOf, HasChatSelected
<1>3. ReferentialIntegrity BY DEF ReferentialIntegrity, Users
<1>4. OrphansBounded BY DEF OrphansBounded
<1>5. InFlight BY DEF InFlight
<1> QED BY <1>1, <1>2, <1>3, <1>4, <1>5 DEF IInv

\* The caches of chats and of users are read afresh.
LEMMA FetchChatsStep ==
  ASSUME IInv, FetchChats
  PROVE  IInv'
<1> USE DEF IInv, FetchChats
<1>1. TypeOK'
  BY DEF TypeOK, Chats, Users, MessageRows, FetchUsersOfChat, AllForChat
<1>2. CachesCoherent'
  BY DEF TypeOK, CachesCoherent, IsCacheOf, Chats, Users, FetchUsersOfChat,
         AllForChat, HasChatSelected, SelectedChat
<1>3. ReferentialIntegrity'
  BY DEF TypeOK, ReferentialIntegrity, Users
<1>4. OrphansBounded'
  BY DEF TypeOK, OrphansBounded
<1>5. InFlight'
  BY DEF TypeOK, InFlight, CachesCoherent, ReferentialIntegrity, Chats, Users,
         HasChatSelected, SelectedChat, LastId
<1> QED BY <1>1, <1>2, <1>3, <1>4, <1>5

\* As above.
LEMMA FetchUsersStep ==
  ASSUME IInv, FetchUsers
  PROVE  IInv'
<1> USE DEF IInv, FetchUsers
<1>1. TypeOK'
  BY DEF TypeOK, Chats, Users, MessageRows, FetchUsersOfChat, AllForChat
<1>2. CachesCoherent'
  BY DEF TypeOK, CachesCoherent, IsCacheOf, Chats, Users, FetchUsersOfChat,
         AllForChat, HasChatSelected, SelectedChat
<1>3. ReferentialIntegrity'
  BY DEF TypeOK, ReferentialIntegrity, Users
<1>4. OrphansBounded'
  BY DEF TypeOK, OrphansBounded
<1>5. InFlight'
  BY DEF TypeOK, InFlight, CachesCoherent, ReferentialIntegrity, Chats, Users,
         HasChatSelected, SelectedChat, LastId
<1> QED BY <1>1, <1>2, <1>3, <1>4, <1>5

\* select_next_chat: the remainder is an index of `chats`.
LEMMA SelectNextChatStep ==
  ASSUME IInv, SelectNextChat
  PROVE  IInv'
<1> USE DEF IInv, SelectNextChat, Select
<1>1. TypeOK'
  <2>1. selected_chat' \in Nat
    <3>1. Len(chats) \in Nat \ {0} BY DEF TypeOK
    <3>2. CASE selected_chat < 0 BY <3>2
    <3>3. CASE ~(selected_chat < 0)
      <4>1. selected_chat + 1 \in Nat BY <3>3 DEF TypeOK
      <4>2. (selected_chat + 1) % Len(chats) \in Nat BY <3>1, <4>1
      <4> QED BY <3>3, <4>2
    <3> QED BY <3>2, <3>3
  <2>2. members_of_chat' \subseteq Users'
    BY FetchedAreUsers DEF TypeOK, Chats, Users
  <2> QED BY <2>1, <2>2 DEF TypeOK, Chats, Users, MessageRows
<1>2. CachesCoherent'
  BY DEF TypeOK, CachesCoherent, IsCacheOf, Chats, Users, FetchUsersOfChat,
         AllForChat, HasChatSelected, SelectedChat
<1>3. ReferentialIntegrity'
  BY DEF TypeOK, ReferentialIntegrity, Users
<1>4. OrphansBounded'
  BY DEF TypeOK, OrphansBounded
<1>5. InFlight'
  BY DEF TypeOK, InFlight, CachesCoherent, ReferentialIntegrity, Chats, Users,
         HasChatSelected, SelectedChat, LastId
<1> QED BY <1>1, <1>2, <1>3, <1>4, <1>5

\* select_prev_chat.
LEMMA SelectPrevChatStep ==
  ASSUME IInv, SelectPrevChat
  PROVE  IInv'
<1> USE DEF IInv, SelectPrevChat, Select
<1>1. TypeOK'
  BY DEF TypeOK, Chats, Users, MessageRows, FetchUsersOfChat, AllForChat
<1>2. CachesCoherent'
  BY DEF TypeOK, CachesCoherent, IsCacheOf, Chats, Users, FetchUsersOfChat,
         AllForChat, HasChatSelected, SelectedChat
<1>3. ReferentialIntegrity'
  BY DEF TypeOK, ReferentialIntegrity, Users
<1>4. OrphansBounded'
  BY DEF TypeOK, OrphansBounded
<1>5. InFlight'
  BY DEF TypeOK, InFlight, CachesCoherent, ReferentialIntegrity, Chats, Users,
         HasChatSelected, SelectedChat, LastId
<1> QED BY <1>1, <1>2, <1>3, <1>4, <1>5

\* deselect_chat.
LEMMA DeselectChatStep ==
  ASSUME IInv, DeselectChat
  PROVE  IInv'
<1> USE DEF IInv, DeselectChat, Select
<1>1. TypeOK'
  BY DEF TypeOK, Chats, Users, MessageRows, FetchUsersOfChat, AllForChat
<1>2. CachesCoherent'
  BY DEF TypeOK, CachesCoherent, IsCacheOf, Chats, Users, FetchUsersOfChat,
         AllForChat, HasChatSelected, SelectedChat
<1>3. ReferentialIntegrity'
  BY DEF TypeOK, ReferentialIntegrity, Users
<1>4. OrphansBounded'
  BY DEF TypeOK, OrphansBounded
<1>5. InFlight'
  BY DEF TypeOK, InFlight, CachesCoherent, ReferentialIntegrity, Chats, Users,
         HasChatSelected, SelectedChat, LastId
<1> QED BY <1>1, <1>2, <1>3, <1>4, <1>5

\* add_user_to_selected_chat: the cached user is a row of User.
LEMMA AddUserToSelectedChatStep ==
  ASSUME IInv, NEW u \in DOMAIN users, AddUserToSelectedChat(u)
  PROVE  IInv'
<1> USE DEF IInv, AddUserToSelectedChat, AddUser, FetchAll
<1>1. TypeOK'
  <2>1. SelectedChat \in Chats BY SelectedChatIsChat
  <2>2. u \in Users BY DEF TypeOK, CachesCoherent, IsCacheOf, Users
  <2>3. Chat_has_User' \subseteq Chats' \X Users'
    BY <2>1, <2>2, SMTT(30) DEF TypeOK, Chats, Users
  <2>4. members_of_chat' \subseteq Users'
    BY <2>3, FetchedAreUsers
  <2> QED BY <2>3, <2>4 DEF TypeOK, Chats, Users, MessageRows
<1>2. CachesCoherent'
  BY DEF TypeOK, CachesCoherent, IsCacheOf, Chats, Users, FetchUsersOfChat,
         AllForChat, HasChatSelected, SelectedChat
<1>3. ReferentialIntegrity'
  BY DEF TypeOK, ReferentialIntegrity, Users
<1>4. OrphansBounded'
  BY DEF TypeOK, OrphansBounded
<1>5. InFlight'
  BY DEF TypeOK, InFlight, CachesCoherent, ReferentialIntegrity, Chats, Users,
         HasChatSelected, SelectedChat, LastId
<1> QED BY <1>1, <1>2, <1>3, <1>4, <1>5

\* remove_user_from_selected_chat: no recv_message is halfway.
LEMMA RemoveUserFromSelectedChatStep ==
  ASSUME IInv, NEW u, RemoveUserFromSelectedChat(u)
  PROVE  IInv'
<1> USE DEF IInv, RemoveUserFromSelectedChat, RemoveUser, FetchAll
<1>1. TypeOK'
  BY DEF TypeOK, Chats, Users, MessageRows, FetchUsersOfChat, AllForChat
<1>2. CachesCoherent'
  BY DEF TypeOK, CachesCoherent, IsCacheOf, Chats, Users, FetchUsersOfChat,
         AllForChat, HasChatSelected, SelectedChat
<1>3. ReferentialIntegrity'
  BY DEF TypeOK, ReferentialIntegrity, Users
<1>4. OrphansBounded'
  BY DEF TypeOK, OrphansBounded
<1>5. InFlight'
  BY DEF TypeOK, InFlight, CachesCoherent, ReferentialIntegrity, Chats, Users,
         HasChatSelected, SelectedChat, LastId
<1> QED BY <1>1, <1>2, <1>3, <1>4, <1>5

\* The first statement of insert_new_user.
LEMMA InsertAddressStep ==
  ASSUME IInv, NEW n \in UserName, NEW a \in Addr, InsertAddress(n, a)
  PROVE  IInv'
<1> USE DEF IInv, InsertAddress, Insert
<1>1. TypeOK'
  <2>1. Address' \in Seq(Addr) BY DEF TypeOK
  <2> QED BY <2>1 DEF TypeOK, Chats, Users, MessageRows
<1>2. CachesCoherent'
  BY DEF TypeOK, CachesCoherent, IsCacheOf, Chats, Users, FetchUsersOfChat,
         AllForChat, HasChatSelected, SelectedChat
<1>3. ReferentialIntegrity'
  BY DEF TypeOK, ReferentialIntegrity, Users
<1>4. OrphansBounded'
  BY DEF TypeOK, OrphansBounded
<1>5. InFlight'
  <2>1. \A u \in Users : User[u].user_address \in 1 .. Len(Address)
    BY DEF TypeOK, ReferentialIntegrity
  <2>2. Len(Address') = Len(Address) + 1 /\ Len(Address) \in Nat
    BY DEF TypeOK
  <2> QED BY <2>1, <2>2 DEF InFlight, Users, LastId
<1> QED BY <1>1, <1>2, <1>3, <1>4, <1>5

\* The second statement of insert_new_user, the table it leaves behind.
LEMMA InsertUserFacts ==
  ASSUME IInv, InsertUser
  PROVE  /\ User' \in Seq(UserRows)
         /\ Len(User') = Len(User) + 1
         /\ Users = 1 .. Len(User) /\ Users' = 1 .. Len(User) + 1
         /\ \A u \in Users : User'[u] = User[u]
         /\ User'[Len(User) + 1].name = newName
         /\ User'[Len(User) + 1].user_address = Len(Address)
<1> DEFINE row == [name |-> newName, user_address |-> Len(Address)]
<1>1. User \in Seq(UserRows) /\ row \in UserRows
  BY DEF IInv, TypeOK, UserRows
<1>2. User' = Insert(User, row) BY DEF InsertUser, LastId
<1>3. row.name = newName /\ row.user_address = Len(Address) OBVIOUS
<1> HIDE DEF row
<1>4. /\ User' \in Seq(UserRows)
      /\ Len(User') = Len(User) + 1
      /\ DOMAIN User = 1 .. Len(User) /\ DOMAIN User' = 1 .. Len(User) + 1
      /\ \A u \in 1 .. Len(User) : User'[u] = User[u]
      /\ User'[Len(User) + 1] = row
  BY <1>1, <1>2 DEF Insert
<1> QED BY <1>3, <1>4 DEF Users

\* The other tables are typed by the users there are.
LEMMA InsertUserType ==
  ASSUME IInv, InsertUser
  PROVE  TypeOK'
<1>1. Users \subseteq Users' /\ User' \in Seq(UserRows) /\ users' = User'
  BY InsertUserFacts DEF InsertUser
<1>2. Chats' = Chats BY DEF InsertUser, Chats
<1>3. Message' \in Seq(MessageRows')
  <2>1. MessageRows \subseteq MessageRows' BY <1>1, <1>2 DEF MessageRows
  <2> QED BY <2>1, SeqMonotone DEF InsertUser, IInv, TypeOK
<1> QED BY <1>1, <1>2, <1>3 DEF InsertUser, IInv, TypeOK, UserRows

\* The last address is nobody's until the user is there.
LEMMA InsertUserRef ==
  ASSUME IInv, InsertUser
  PROVE  ReferentialIntegrity'
<1> USE InsertUserFacts DEF IInv, ReferentialIntegrity
<1>1. Address' = Address /\ Message' = Message BY DEF InsertUser
<1>2. Len(Address) \in DOMAIN Address
  BY DEF InFlight, InsertUser, TypeOK
<1>3. \A u \in Users : User[u].user_address # Len(Address)
  BY DEF InFlight, InsertUser, LastId
<1>4. \A u \in Users' : User'[u].user_address \in DOMAIN Address'
  BY <1>1, <1>2
<1>5. \A u, v \in Users' : User'[u].user_address = User'[v].user_address => u = v
  BY <1>3
<1>6. \A id \in DOMAIN Message' :
       \/ Message'[id].sent_by = Ours
       \/ Message'[id].sent /\ Message'[id].sent_by \in Users'
  BY <1>1
<1> QED BY <1>4, <1>5, <1>6

\* The second statement of insert_new_user.
LEMMA InsertUserStep ==
  ASSUME IInv, InsertUser
  PROVE  IInv'
<1> USE DEF IInv, InsertUser, Insert
<1>1. TypeOK'
  BY InsertUserType
<1>2. CachesCoherent'
  BY DEF TypeOK, CachesCoherent, IsCacheOf, Chats, Users, FetchUsersOfChat,
         AllForChat, HasChatSelected, SelectedChat
<1>3. ReferentialIntegrity'
  BY InsertUserRef
<1>4. OrphansBounded'
  BY DEF TypeOK, OrphansBounded
<1>5. InFlight'
  BY DEF TypeOK, InFlight, CachesCoherent, ReferentialIntegrity, Chats, Users,
         HasChatSelected, SelectedChat, LastId
<1> QED BY <1>1, <1>2, <1>3, <1>4, <1>5

\* insert_new_chat.
LEMMA InsertNewChatStep ==
  ASSUME IInv, NEW n \in ChatName, InsertNewChat(n)
  PROVE  IInv'
<1> USE DEF IInv, InsertNewChat, Insert
<1>1. TypeOK'
  <2>1. Chat' \in Seq(ChatName) /\ Chats \subseteq Chats'
    BY DEF TypeOK, Chats
  <2>2. Users' = Users BY DEF Users
  <2>3. Message' \in Seq(MessageRows')
    <3>1. MessageRows \subseteq MessageRows' BY <2>1, <2>2 DEF MessageRows
    <3> QED BY <3>1, SeqMonotone DEF TypeOK
  <2> QED BY <2>1, <2>2, <2>3 DEF TypeOK
<1>2. CachesCoherent'
  BY DEF TypeOK, CachesCoherent, IsCacheOf, Chats, Users, FetchUsersOfChat,
         AllForChat, HasChatSelected, SelectedChat
<1>3. ReferentialIntegrity'
  BY DEF TypeOK, ReferentialIntegrity, Users
<1>4. OrphansBounded'
  BY DEF TypeOK, OrphansBounded
<1>5. InFlight'
  BY DEF TypeOK, InFlight, CachesCoherent, ReferentialIntegrity, Chats, Users,
         HasChatSelected, SelectedChat, LastId
<1> QED BY <1>1, <1>2, <1>3, <1>4, <1>5

\* The table after MessageDAO::insert.
LEMMA InsertMessageFacts ==
  ASSUME TypeOK, NEW c \in Chats, NEW by \in Users \cup {Ours},
         Message' = Insert(Message, MessageRow(c, by)),
         UNCHANGED <<Chat, User>>
  PROVE  /\ Message' \in Seq(MessageRows')
         /\ Len(Message') = Len(Message) + 1
         /\ DOMAIN Message = 1 .. Len(Message)
         /\ DOMAIN Message' = 1 .. Len(Message) + 1
         /\ \A id \in 1 .. Len(Message) : Message'[id] = Message[id]
         /\ Message'[Len(Message) + 1] = MessageRow(c, by)
         /\ MessageRow(c, by).in_chat = c /\ MessageRow(c, by).sent_by = by
         /\ by # Ours => MessageRow(c, by).sent = TRUE
<1>1. MessageRows' = MessageRows BY DEF MessageRows, Chats, Users
<1>2. MessageRow(c, by) \in MessageRows BY DEF MessageRow, MessageRows
<1>3. /\ MessageRow(c, by).in_chat = c /\ MessageRow(c, by).sent_by = by
      /\ by # Ours => MessageRow(c, by).sent = TRUE
  BY DEF MessageRow
<1>4. Message \in Seq(MessageRows) BY DEF TypeOK
<1> HIDE DEF MessageRows, MessageRow
<1>5. /\ Message' \in Seq(MessageRows)
      /\ Len(Message') = Len(Message) + 1
      /\ DOMAIN Message = 1 .. Len(Message)
      /\ DOMAIN Message' = 1 .. Len(Message) + 1
      /\ \A id \in 1 .. Len(Message) : Message'[id] = Message[id]
      /\ Message'[Len(Message) + 1] = MessageRow(c, by)
  BY <1>2, <1>4 DEF Insert
<1> QED BY <1>1, <1>3, <1>5

\* The table after the insert of push_message.
LEMMA PushMessageFacts ==
  ASSUME IInv, PushMessage
  PROVE  /\ Message' \in Seq(MessageRows')
         /\ Len(Message') = Len(Message) + 1
         /\ DOMAIN Message = 1 .. Len(Message)
         /\ DOMAIN Message' = 1 .. Len(Message) + 1
         /\ \A id \in 1 .. Len(Message) : Message'[id] = Message[id]
         /\ Message'[Len(Message) + 1] = MessageRow(SelectedChat, Ours)
         /\ MessageRow(SelectedChat, Ours).in_chat = SelectedChat
         /\ MessageRow(SelectedChat, Ours).sent_by = Ours
<1>1. PICK c \in Chats : c = SelectedChat
  BY SelectedChatIsChat DEF IInv, PushMessage
<1>2. PICK by \in Users \cup {Ours} : by = Ours
  OBVIOUS
<1>3. Message' = Insert(Message, MessageRow(c, by)) /\ UNCHANGED <<Chat, User>>
  BY <1>1, <1>2 DEF PushMessage
<1>4. TypeOK BY DEF IInv
<1>5. /\ Message' \in Seq(MessageRows')
      /\ Len(Message') = Len(Message) + 1
      /\ DOMAIN Message = 1 .. Len(Message)
      /\ DOMAIN Message' = 1 .. Len(Message) + 1
      /\ \A id \in 1 .. Len(Message) : Message'[id] = Message[id]
      /\ Message'[Len(Message) + 1] = MessageRow(c, by)
      /\ MessageRow(c, by).in_chat = c /\ MessageRow(c, by).sent_by = by
  BY <1>3, <1>4, InsertMessageFacts, ZenonT(40)
<1> QED BY <1>1, <1>2, <1>5

\* The first statement of push_message.
LEMMA PushMessageStep ==
  ASSUME IInv, PushMessage
  PROVE  IInv'
<1> DEFINE row == MessageRow(SelectedChat, Ours)
<1>2. /\ Message' \in Seq(MessageRows')
      /\ Len(Message') = Len(Message) + 1
      /\ DOMAIN Message = 1 .. Len(Message)
      /\ DOMAIN Message' = 1 .. Len(Message) + 1
      /\ \A id \in 1 .. Len(Message) : Message'[id] = Message[id]
      /\ Message'[Len(Message) + 1] = row
      /\ row.in_chat = SelectedChat /\ row.sent_by = Ours
  BY PushMessageFacts
<1> HIDE DEF row
<1>3. TypeOK' BY <1>2 DEF PushMessage, IInv, TypeOK, Chats, Users
<1>4. CachesCoherent'
  BY DEF PushMessage, IInv, CachesCoherent, IsCacheOf, HasChatSelected,
         SelectedChat
<1>5. ReferentialIntegrity'
  BY <1>2 DEF PushMessage, IInv, ReferentialIntegrity, Users
<1>6. OrphansBounded' BY DEF PushMessage, IInv, OrphansBounded
<1>7. InFlight'
  <2>1. \A s \in sends : s[1] \in DOMAIN Message BY DEF IInv, TypeOK
  <2>2. Len(Message) \in Nat BY DEF IInv, TypeOK
  <2> QED BY <1>2, <2>1, <2>2 DEF PushMessage, IInv, InFlight, LastId,
         SelectedChat, HasChatSelected
<1> QED BY <1>3, <1>4, <1>5, <1>6, <1>7 DEF IInv

\* send_message: the row it reports on is the one just inserted.
LEMMA SendMessageStep ==
  ASSUME IInv, SendMessage
  PROVE  IInv'
<1>1. LastId(Message) \in DOMAIN Message /\ Message[LastId(Message)].sent_by = Ours
  BY DEF IInv, TypeOK, InFlight, SendMessage, LastId
<1>2. \A u \in Recipients : u \in Users /\ Address[User[u].user_address] \in Addr
  BY DEF IInv, TypeOK, ReferentialIntegrity, Recipients
<1>3. \A s \in sends' :
       \/ s \in sends
       \/ s[1] = LastId(Message) /\ s \in (DOMAIN Message) \X Users \X Addr
  BY <1>1, <1>2 DEF SendMessage
<1>4. TypeOK'
  BY <1>3 DEF SendMessage, IInv, TypeOK, Chats, Users, MessageRows
<1>5. InFlight'
  BY <1>1, <1>3 DEF SendMessage, IInv, InFlight, Users
<1>6. CachesCoherent' /\ ReferentialIntegrity' /\ OrphansBounded'
  BY DEF SendMessage, IInv, CachesCoherent, IsCacheOf, HasChatSelected,
         SelectedChat, ReferentialIntegrity, OrphansBounded, Users
<1> QED BY <1>4, <1>5, <1>6 DEF IInv

\* The query of recv_message yields members of chats.
LEMMA RecvMessageStep ==
  ASSUME IInv, NEW n, NEW m, RecvMessage(n, m)
  PROVE  IInv'
<1> USE DEF IInv, RecvMessage, AllThatContainUserAndChat
<1>1. TypeOK'
  BY DEF TypeOK, Chats, Users, MessageRows, FetchUsersOfChat, AllForChat
<1>2. CachesCoherent'
  BY DEF TypeOK, CachesCoherent, IsCacheOf, Chats, Users, FetchUsersOfChat,
         AllForChat, HasChatSelected, SelectedChat
<1>3. ReferentialIntegrity'
  BY DEF TypeOK, ReferentialIntegrity, Users
<1>4. OrphansBounded'
  BY DEF TypeOK, OrphansBounded
<1>5. InFlight'
  BY DEF TypeOK, InFlight, CachesCoherent, ReferentialIntegrity, Chats, Users,
         HasChatSelected, SelectedChat, LastId
<1> QED BY <1>1, <1>2, <1>3, <1>4, <1>5

\* The table after one insert of recv_message.
LEMMA RecvInsertFacts ==
  ASSUME IInv, NEW c \in Chats, NEW u \in Users, RecvInsert(<<u, c>>)
  PROVE  /\ Message' \in Seq(MessageRows')
         /\ Len(Message') = Len(Message) + 1
         /\ DOMAIN Message = 1 .. Len(Message)
         /\ DOMAIN Message' = 1 .. Len(Message) + 1
         /\ \A id \in 1 .. Len(Message) : Message'[id] = Message[id]
         /\ Message'[Len(Message) + 1] = MessageRow(c, u)
         /\ MessageRow(c, u).in_chat = c
         /\ MessageRow(c, u).sent_by = u /\ MessageRow(c, u).sent = TRUE
<1>1. u # Ours BY DEF IInv, TypeOK, Users, Ours
<1>2. Message' = Insert(Message, MessageRow(c, u)) /\ UNCHANGED <<Chat, User>>
  BY DEF RecvInsert
<1> QED BY <1>1, <1>2, InsertMessageFacts DEF IInv

\* One insert of recv_message.
LEMMA RecvInsertStep ==
  ASSUME IInv, NEW uc \in matches, RecvInsert(uc)
  PROVE  IInv'
<1>1. PICK c \in Chats, u \in Users : uc = <<u, c>>
  BY DEF IInv, TypeOK
<1>2. u # Ours BY DEF IInv, TypeOK, Users, Ours
<1> DEFINE row == MessageRow(c, u)
<1>3. /\ Message' \in Seq(MessageRows')
      /\ Len(Message') = Len(Message) + 1
      /\ DOMAIN Message = 1 .. Len(Message)
      /\ DOMAIN Message' = 1 .. Len(Message) + 1
      /\ \A id \in 1 .. Len(Message) : Message'[id] = Message[id]
      /\ Message'[Len(Message) + 1] = row
      /\ row.in_chat = c /\ row.sent_by = u /\ row.sent = TRUE
  BY <1>1, RecvInsertFacts
<1> HIDE DEF row
<1>4. TypeOK'
  <2>1. matches' \subseteq matches /\ DOMAIN Message \subseteq DOMAIN Message'
    BY <1>3 DEF RecvInsert
  <2> QED BY <1>3, <2>1 DEF RecvInsert, IInv, TypeOK, Chats, Users
<1>5. CachesCoherent'
  BY DEF RecvInsert, IInv, CachesCoherent, IsCacheOf, HasChatSelected,
         SelectedChat
<1>6. ReferentialIntegrity'
  BY <1>2, <1>3 DEF RecvInsert, IInv, ReferentialIntegrity, Users
<1>7. OrphansBounded' BY DEF RecvInsert, IInv, OrphansBounded
<1>8. InFlight'
  <2>1. \A s \in sends : s[1] \in DOMAIN Message BY DEF IInv, TypeOK
  <2> QED BY <1>3, <2>1 DEF RecvInsert, IInv, InFlight, Users, LastId
<1> QED BY <1>4, <1>5, <1>6, <1>7, <1>8 DEF IInv

\* The fetches of recv_message.
LEMMA RecvDoneStep ==
  ASSUME IInv, RecvDone
  PROVE  IInv'
<1> USE DEF IInv, RecvDone, FetchAll
<1>1. TypeOK'
  BY DEF TypeOK, Chats, Users, MessageRows, FetchUsersOfChat, AllForChat
<1>2. CachesCoherent'
  BY DEF TypeOK, CachesCoherent, IsCacheOf, Chats, Users, FetchUsersOfChat,
         AllForChat, HasChatSelected, SelectedChat
<1>3. ReferentialIntegrity'
  BY DEF TypeOK, ReferentialIntegrity, Users
<1>4. OrphansBounded'
  BY DEF TypeOK, OrphansBounded
<1>5. InFlight'
  BY DEF TypeOK, InFlight, CachesCoherent, ReferentialIntegrity, Chats, Users,
         HasChatSelected, SelectedChat, LastId
<1> QED BY <1>1, <1>2, <1>3, <1>4, <1>5

\* set_message_with_sent and set_message_with_error.
LEMMA SetMessageStatusStep ==
  ASSUME IInv, NEW id \in DOMAIN Message, SetMessageStatus(id)
  PROVE  IInv'
<1>1. Message \in Seq(MessageRows) /\ Message[id] \in MessageRows
  BY DEF IInv, TypeOK
<1>2. /\ Message' \in Seq(MessageRows)
      /\ Len(Message') = Len(Message) /\ DOMAIN Message' = DOMAIN Message
      /\ \A k \in DOMAIN Message :
           /\ Message'[k].in_chat = Message[k].in_chat
           /\ Message'[k].sent_by = Message[k].sent_by
           /\ Message[k].sent => Message'[k].sent
  <2>1. CASE Message' = UpdateWithSent(Message, id)
    <3>1. Message' = [Message EXCEPT ![id] = [Message[id] EXCEPT !.sent = TRUE]]
      BY <2>1 DEF UpdateWithSent
    <3>2. [Message[id] EXCEPT !.sent = TRUE] \in MessageRows
      BY <1>1 DEF MessageRows
    <3>3. /\ [Message[id] EXCEPT !.sent = TRUE].in_chat = Message[id].in_chat
          /\ [Message[id] EXCEPT !.sent = TRUE].sent_by = Message[id].sent_by
          /\ [Message[id] EXCEPT !.sent = TRUE].sent
      BY <1>1 DEF MessageRows
    <3> QED BY <1>1, <3>1, <3>2, <3>3
  <2>2. CASE Message' = UpdateWithError(Message, id)
    <3>1. Message' = [Message EXCEPT ![id] = [Message[id] EXCEPT !.error = TRUE]]
      BY <2>2 DEF UpdateWithError
    <3>2. [Message[id] EXCEPT !.error = TRUE] \in MessageRows
      BY <1>1 DEF MessageRows
    <3>3. /\ [Message[id] EXCEPT !.error = TRUE].in_chat = Message[id].in_chat
          /\ [Message[id] EXCEPT !.error = TRUE].sent_by = Message[id].sent_by
          /\ [Message[id] EXCEPT !.error = TRUE].sent = Message[id].sent
      BY <1>1 DEF MessageRows
    <3> QED BY <1>1, <3>1, <3>2, <3>3
  <2> QED BY <2>1, <2>2 DEF SetMessageStatus
<1>3. MessageRows' = MessageRows /\ Users' = Users /\ Chats' = Chats
  BY DEF SetMessageStatus, MessageRows, Chats, Users
<1>4. TypeOK' BY <1>2, <1>3 DEF SetMessageStatus, IInv, TypeOK
<1>5. CachesCoherent' /\ OrphansBounded'
  BY DEF SetMessageStatus, IInv, CachesCoherent, IsCacheOf, HasChatSelected,
         SelectedChat, OrphansBounded
<1>6. ReferentialIntegrity'
  BY <1>2, <1>3 DEF SetMessageStatus, IInv, ReferentialIntegrity
<1>7. InFlight'
  <2>1. \A s \in sends : s[1] \in DOMAIN Message BY DEF IInv, TypeOK
  <2> QED BY <1>2, <1>3, <2>1 DEF SetMessageStatus, IInv, InFlight
<1> QED BY <1>4, <1>5, <1>6, <1>7 DEF IInv

\* The tables survive, what was in progress does not.
LEMMA CrashStep ==
  ASSUME IInv, Crash
  PROVE  IInv'
<1> USE DEF IInv, Crash
<1>1. TypeOK'
  <2>1. /\ Chats' = Chats /\ Users' = Users /\ MessageRows' = MessageRows
        /\ UNCHANGED <<tables, newName, sends>>
    BY DEF Chats, Users, MessageRows, tables
  <2>2. /\ chats' \in Seq(ChatName)
        /\ users' \in Seq([name : UserName, user_address : Nat])
    OBVIOUS
  <2>3. crashes' \in Nat
    BY DEF TypeOK
  <2> QED BY <2>1, <2>2, <2>3 DEF TypeOK, tables
<1>2. CachesCoherent'
  BY DEF TypeOK, CachesCoherent, IsCacheOf, Chats, Users, FetchUsersOfChat,
         AllForChat, HasChatSelected, SelectedChat
<1>3. ReferentialIntegrity'
  BY DEF TypeOK, ReferentialIntegrity, Users
<1>4. OrphansBounded'
  BY DEF TypeOK, OrphansBounded
<1>5. InFlight'
  BY DEF TypeOK, InFlight, CachesCoherent, ReferentialIntegrity, Chats, Users,
         HasChatSelected, SelectedChat, LastId
<1> QED BY <1>1, <1>2, <1>3, <1>4, <1>5

\* A new process starts from empty caches.
LEMMA RestartStep ==
  ASSUME IInv, Restart
  PROVE  IInv'
<1> USE DEF IInv, Restart
<1>1. TypeOK'
  BY DEF TypeOK, Chats, Users, MessageRows, FetchUsersOfChat, AllForChat
<1>2. CachesCoherent'
  BY DEF TypeOK, CachesCoherent, IsCacheOf, Chats, Users, FetchUsersOfChat,
         AllForChat, HasChatSelected, SelectedChat
<1>3. ReferentialIntegrity'
  BY DEF TypeOK, ReferentialIntegrity, Users
<1>4. OrphansBounded'
  BY DEF TypeOK, OrphansBounded
<1>5. InFlight'
  BY DEF TypeOK, InFlight, CachesCoherent, ReferentialIntegrity, Chats, Users,
         HasChatSelected, SelectedChat, LastId
<1> QED BY <1>1, <1>2, <1>3, <1>4, <1>5

\* A step that changes nothing.
LEMMA StutterStep ==
  ASSUME IInv, UNCHANGED vars
  PROVE  IInv'
BY DEF IInv, vars, TypeOK, Chats, Users, MessageRows, CachesCoherent,
       IsCacheOf,
       HasChatSelected, SelectedChat, ReferentialIntegrity, OrphansBounded,
       InFlight

\* The invariant is inductive.
LEMMA StepInv == IInv /\ [Next]_vars => IInv'
<1> SUFFICES ASSUME IInv, [Next]_vars PROVE IInv'
  OBVIOUS
<1>1. CASE FetchChats BY <1>1, FetchChatsStep
<1>2. CASE FetchUsers BY <1>2, FetchUsersStep
<1>3. CASE Selection
  BY <1>3, SelectNextChatStep, SelectPrevChatStep, DeselectChatStep DEF
         Selection
<1>4. CASE Membership
  BY <1>4, AddUserToSelectedChatStep, RemoveUserFromSelectedChatStep
     DEF Membership
<1>5. CASE Creation
  BY <1>5, InsertAddressStep, InsertUserStep, InsertNewChatStep DEF Creation
<1>6. CASE Messaging
  BY <1>6, PushMessageStep, SendMessageStep, RecvMessageStep, RecvInsertStep,
     RecvDoneStep, SetMessageStatusStep DEF Messaging
<1>7. CASE Crash BY <1>7, CrashStep
<1>8. CASE Restart BY <1>8, RestartStep
<1>9. CASE UNCHANGED vars BY <1>9, StutterStep
<1> QED BY <1>1, <1>2, <1>3, <1>4, <1>5, <1>6, <1>7, <1>8, <1>9 DEF Next

\* The inductive invariant holds throughout.
THEOREM Invariance == Spec => []IInv
BY InitInv, StepInv, PTL DEF Spec

-----------------------------------------------------------------------------
(* What follows from it.                                                   *)

\* Every variable of AppState keeps the type the code gives it.
THEOREM TypeCorrect == Spec => []TypeOK
<1>1. IInv => TypeOK BY DEF IInv
<1> QED BY <1>1, Invariance, PTL

\* The caches the scenes and send_message read are never wrong about the
\* database, and members_of_chat is never behind it.
THEOREM CachesAreCoherent == Spec => []CachesCoherent
<1>1. IInv => CachesCoherent BY DEF IInv
<1> QED BY <1>1, Invariance, PTL

\* The references between tables, which SQLite does not enforce here, hold
\* whatever statement the process is killed after.
THEOREM ReferencesHold == Spec => []ReferentialIntegrity
<1>1. IInv => ReferentialIntegrity BY DEF IInv
<1> QED BY <1>1, Invariance, PTL

\* Addresses without a user come from ends of the process alone.
THEOREM OrphansAreBounded == Spec => []OrphansBounded
<1>1. IInv => OrphansBounded BY DEF IInv
<1> QED BY <1>1, Invariance, PTL

\* push_message: the members cached are those of the database, the row just
\* inserted is in the chat they belong to, and nothing of it was sent before.
LEMMA SendMessageFanOut ==
  ASSUME IInv, SendMessage
  PROVE  LET id == LastId(Message) IN
         {s \in sends' : s[1] = id} =
           {<<id, u, Address[User[u].user_address]>> : u \in
              {v \in AllForChat(Chat_has_User, Message[id].in_chat) :
                 User[v].name # Own}}
<1> DEFINE id == LastId(Message)
           row(u) == <<id, u, Address[User[u].user_address]>>
<1>1. \A s \in sends : s[1] # id BY DEF IInv, InFlight, SendMessage
<1>2. Recipients = {v \in AllForChat(Chat_has_User, Message[id].in_chat) :
                      User[v].name # Own}
  BY DEF IInv, InFlight, CachesCoherent, SendMessage, Recipients
<1>3. sends' = sends \cup {row(u) : u \in Recipients} BY DEF SendMessage
<1>4. \A u : row(u)[1] = id OBVIOUS
<1> HIDE DEF id, row
<1>5. {s \in sends' : s[1] = id} = {row(u) : u \in Recipients}
  BY <1>1, <1>3, <1>4
<1> QED BY <1>2, <1>5 DEF id, row

\* Between two statements of one operation, what the first has found or
\* written is still as the second needs it.
THEOREM InFlightHolds == Spec => []InFlight
<1>1. IInv => InFlight BY DEF IInv
<1> QED BY <1>1, Invariance, PTL

\* Whatever operations came before, a message goes to the members of its
\* chat, at their addresses, and to nobody else.
THEOREM FanOutIsExact == Spec => FanOutExact
<1>1. ASSUME IInv, Next, pc = "send" /\ pc' = "idle"
      PROVE  SendMessage
  BY <1>1 DEF Next, FetchChats, FetchUsers, Selection, SelectNextChat,
     SelectPrevChat, DeselectChat, Select, Membership, AddUserToSelectedChat,
     RemoveUserFromSelectedChat, Creation, InsertAddress, InsertUser,
     InsertNewChat, Messaging, PushMessage, RecvMessage, RecvInsert, RecvDone,
     SetMessageStatus, Crash, Restart
<1>2. ASSUME IInv, UNCHANGED vars PROVE ~(pc = "send" /\ pc' = "idle")
  BY <1>2 DEF vars
<1>3. IInv /\ [Next]_vars =>
        [(pc = "send" /\ pc' = "idle") =>
           LET id == LastId(Message) IN
           {s \in sends' : s[1] = id} =
             {<<id, u, Address[User[u].user_address]>> : u \in
                {v \in AllForChat(Chat_has_User, Message[id].in_chat) :
                   User[v].name # Own}}]_vars
  BY <1>1, SendMessageFanOut
<1> QED BY <1>3, Invariance, PTL DEF Spec, FanOutExact

StoredFromMember ==
  /\ Len(Message') >= Len(Message)
  /\ \A id \in DOMAIN Message' :
       IF id \in DOMAIN Message
       THEN /\ Message'[id].in_chat = Message[id].in_chat
            /\ Message'[id].sent_by = Message[id].sent_by
            /\ Message[id].sent_by # Ours => Message'[id] = Message[id]
       ELSE \/ Message'[id].sent_by = Ours
            \/ <<Message'[id].in_chat, Message'[id].sent_by>> \in Chat_has_User

\* The inserts of recv_message come from a query over the members, and the
\* reports of the workers touch only rows that recv_message did not store.
THEOREM ReceivedComesFromMember == Spec => ReceivedFromMember
<1>1. ASSUME IInv, Message' = Message PROVE StoredFromMember
  BY <1>1 DEF StoredFromMember, IInv, TypeOK
<1>2. ASSUME IInv, PushMessage PROVE StoredFromMember
  <2> DEFINE row == MessageRow(SelectedChat, Ours)
  <2>2. /\ Len(Message') = Len(Message) + 1
        /\ DOMAIN Message = 1 .. Len(Message)
        /\ DOMAIN Message' = 1 .. Len(Message) + 1
        /\ \A id \in 1 .. Len(Message) : Message'[id] = Message[id]
        /\ Message'[Len(Message) + 1] = row
        /\ row.sent_by = Ours
    BY <1>2, PushMessageFacts
  <2> HIDE DEF row
  <2>3. Len(Message) \in Nat BY <1>2 DEF IInv, TypeOK
  <2> QED BY <2>2, <2>3 DEF StoredFromMember
<1>3. ASSUME IInv, NEW uc \in matches, RecvInsert(uc) PROVE StoredFromMember
  <2>1. PICK c \in Chats, u \in Users : uc = <<u, c>>
    BY <1>3 DEF IInv, TypeOK
  <2>2. <<c, u>> \in Chat_has_User BY <1>3, <2>1 DEF IInv, InFlight
  <2> DEFINE row == MessageRow(c, u)
  <2>4. /\ Len(Message') = Len(Message) + 1
        /\ DOMAIN Message = 1 .. Len(Message)
        /\ DOMAIN Message' = 1 .. Len(Message) + 1
        /\ \A id \in 1 .. Len(Message) : Message'[id] = Message[id]
        /\ Message'[Len(Message) + 1] = row
        /\ row.in_chat = c /\ row.sent_by = u
    BY <1>3, <2>1, RecvInsertFacts
  <2> HIDE DEF row
  <2>5. Len(Message) \in Nat BY <1>3 DEF IInv, TypeOK
  <2> QED BY <2>2, <2>4, <2>5 DEF StoredFromMember
<1>4. ASSUME IInv, NEW id \in DOMAIN Message, SetMessageStatus(id)
      PROVE  StoredFromMember
  <2>1. Message[id].sent_by = Ours BY <1>4 DEF SetMessageStatus, IInv, InFlight
  <2>2. Message \in Seq(MessageRows) /\ Message[id] \in MessageRows
    BY <1>4 DEF IInv, TypeOK
  <2>3. CASE Message' = UpdateWithSent(Message, id)
    BY <2>1, <2>2, <2>3 DEF UpdateWithSent, MessageRows, StoredFromMember
  <2>4. CASE Message' = UpdateWithError(Message, id)
    BY <2>1, <2>2, <2>4 DEF UpdateWithError, MessageRows, StoredFromMember
  <2> QED BY <1>4, <2>3, <2>4 DEF SetMessageStatus
<1>5. ASSUME IInv, [Next]_vars PROVE StoredFromMember
  BY <1>1, <1>2, <1>3, <1>4, <1>5 DEF Next, vars, FetchChats, FetchUsers,
     Selection, SelectNextChat, SelectPrevChat, DeselectChat, Select,
     Membership, AddUserToSelectedChat, RemoveUserFromSelectedChat, Creation,
     InsertAddress, InsertUser, InsertNewChat, Messaging, SendMessage,
     RecvMessage, RecvDone, Crash, Restart
<1>6. IInv /\ [Next]_vars => [StoredFromMember]_vars
  BY <1>5
<1> QED BY <1>6, Invariance, PTL DEF Spec, ReceivedFromMember, StoredFromMember

=============================================================================
