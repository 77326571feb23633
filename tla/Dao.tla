-------------------------------- MODULE Dao --------------------------------
(***************************************************************************)
(* The DAO layer: what the SQL statements of ChatDAO, UserDAO, AddressDAO  *)
(* and MessageDAO compute.  A table whose key is INTEGER PRIMARY KEY and   *)
(* whose rows are never deleted is a sequence: SQLite gives a new row the  *)
(* largest id plus one, so the id of a row is its index.  Chat_has_User,   *)
(* the one table rows are deleted from, is a set of <<Chat_id, User_id>>.  *)
(*                                                                         *)
(* An operator defined just before another with the same parameters is a   *)
(* faulty variant of it, used to see that a property can fail.             *)
(***************************************************************************)
EXTENDS Integers, Sequences

\* The sent_by of a message written here, and what a result without row reads.
Ours == -1

\* MessageDAO::insert and the inserts of the other DAOs; db.last_inserted_id
\* is LastId of the table just inserted into.
Insert(table, row) == Append(table, row)
LastIdBefore(table) == Len(table) - 1
LastId(table) == Len(table)

\* ChatDAO::add_user violates the PRIMARY KEY when the pair is there already.
CanAddUser(members, chat, user) == <<chat, user>> \notin members
AddUser(members, chat, user) == members \cup {<<chat, user>>}
RemoveUser(members, chat, user) == members \ {<<chat, user>>}

\* UserDAO::all_for_chat: the ids of the users in a chat.
AllForChat(members, chat) == {cu[2] : cu \in {m \in members : m[1] = chat}}

\* ChatDAO::all_that_contain_user_and_chat: the <<user, chat>> pairs such that
\* a user of that name is a member of a chat of that name.
MatchNamesOnly(User, Chat, members, username, chatname) ==
  {uc \in (DOMAIN User) \X (DOMAIN Chat) :
     User[uc[1]].name = username /\ Chat[uc[2]] = chatname}
AllThatContainUserAndChat(User, Chat, members, username, chatname) ==
  {uc \in (DOMAIN User) \X (DOMAIN Chat) :
     /\ User[uc[1]].name = username
     /\ Chat[uc[2]] = chatname
     /\ <<uc[2], uc[1]>> \in members}

\* MessageDAO::update_with_sent and update_with_error.
UpdateWithSent(Message, id) == [Message EXCEPT ![id].sent = TRUE]
UpdateWithError(Message, id) == [Message EXCEPT ![id].error = TRUE]

=============================================================================
