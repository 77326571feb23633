-------------------------- MODULE SelectViewProofs --------------------------
(***************************************************************************)
(* Proofs about SelectView for every value of its constants: the scenes    *)
(* take only steps AppState has, so that what AppStateProofs shows holds   *)
(* of the program the user drives, and what the modals promise besides.    *)
(*                                                                         *)
(* The inductive invariant is that of AppState with three parts of the     *)
(* scenes: the list modals, the forms, and the copy of the members that    *)
(* ChatInfoScene shows.                                                    *)
(***************************************************************************)
EXTENDS SelectView, AppStateProofs, FiniteSetTheorems

\* The rows of a list modal are users that are cached as well.
ListsInv ==
  /\ list \in [ListModals -> [size : Nat, present : SUBSET Nat,
                              avail : BOOLEAN, cursor : Nat]]
  /\ \A m \in ListModals : list[m].present \subseteq 1 .. list[m].size
  /\ \A m \in ListModals :
       list[m].size <= Len(User) /\ list[m].cursor <= list[m].size
  /\ pc # "down" => \A m \in ListModals : list[m].size <= Len(users)
  /\ CursorOnRow

FormsInv ==
  /\ form \in [FormModals -> [item : Nat, filled : SUBSET Nat, wants : BOOLEAN]]
  /\ \A m \in FormModals :
       form[m].item \in 1 .. Button(m) /\ form[m].filled \subseteq 1 .. Fields(m)
  /\ SavesComplete

\* What info says about its chat, selected or not.
InfoIsRead ==
  \A u \in Users : <<info.chat + 1, u>> \notin info.changed =>
    (u \in info.members <=> <<info.chat + 1, u>> \in Chat_has_User)

InfoInv ==
  /\ info \in [chat : Nat \cup {-1}, members : SUBSET Nat,
               changed : SUBSET (Nat \X Nat)]
  /\ info.members \subseteq Users
  /\ info.chat < Len(Chat) /\ info.changed \subseteq Chats \X Users
  /\ info.chat >= 0 => InfoIsRead
  /\ phase \in FormModals \cup {"write"} => info.chat = selected_chat

\* While no chat is selected there are only listeners of the forms.
FormListeners == {l \in Listeners : l.modal \notin ListModals}

BusInv ==
  /\ phase \in {"poll", "dispatch", "write", "down"} \cup FormModals
  /\ key \in Events \cup {"none"} /\ todo \in Seq(Listeners)
  /\ listeners \in [Events -> Seq(Listeners)]
  /\ showing \subseteq Modals /\ closeHandle \in Listeners
  /\ chats_needs_update \in BOOLEAN /\ wants_input \in BOOLEAN
  /\ selected_chat < 0 /\ phase # "down" =>
       listeners \in [Events -> Seq(FormListeners)]

VInv == IInv /\ ListsInv /\ FormsInv /\ InfoInv /\ BusInv

USE DEF tables, caches, busVars, modalVars, chatVars

-----------------------------------------------------------------------------
(* The cursor of a list.                                                   *)

\* A set of natural numbers has a smallest element.
LEMMA Smallest ==
  ASSUME NEW T \in SUBSET Nat, T # {}
  PROVE  \E x \in T : \A y \in T : x <= y
<1> DEFINE Upto(x) == {y \in T : y <= x}
           TT == {Upto(x) : x \in T}
<1>1. TT \subseteq FiniteSubsetsOf(Nat)
  <2>1. ASSUME NEW x \in T PROVE IsFiniteSet(Upto(x))
    BY FS_BoundedSetOfNaturals
  <2> QED BY <2>1 DEF FiniteSubsetsOf
<1>2. TT # {} OBVIOUS
<1> HIDE DEF TT
<1>3. \E X \in TT : \A Y \in TT : <<Y, X>> \notin StrictSubsetOrdering(Nat)
  BY <1>1, <1>2, FS_StrictSubsetOrderingWellFounded, WFMin
<1>4. PICK x \in T : \A Y \in TT : <<Y, Upto(x)>> \notin StrictSubsetOrdering(Nat)
  BY <1>3 DEF TT
<1>5. ASSUME NEW y \in T, y < x PROVE FALSE
  <2>1. x \in Nat /\ y \in Nat OBVIOUS
  <2>2. \A z \in T : z \in Nat /\ (z <= y => z <= x) BY <1>5, <2>1
  <2>3. Upto(y) \subseteq Upto(x) BY <2>2
  <2>4. x \in Upto(x) /\ ~(x <= y) BY <1>5, <2>1
  <2>5. x \notin Upto(y) BY <2>4
  <2>6. Upto(y) \in SUBSET Nat /\ Upto(x) \in SUBSET Nat /\ Upto(y) # Upto(x)
    BY <2>4, <2>5
  <2>7. Upto(y) \in TT BY DEF TT
  <2> QED BY <1>4, <2>3, <2>6, <2>7 DEF StrictSubsetOrdering
<1>6. \A y \in T : x <= y BY <1>5
<1> QED BY <1>6

\* The loop of select_next_user stops, at a row.
LEMMA NextRowIsRow ==
  ASSUME NEW m, NEW l, l.size \in Nat, l.cursor \in Nat,
         Rows(m, l) # {}, Rows(m, l) \subseteq 1 .. l.size
  PROVE  NextRow(m, l) \in Rows(m, l)
<1> DEFINE steps(r) == (r - 1 - l.cursor) % l.size
           S == {steps(r) : r \in Rows(m, l)}
<1>1. \A r \in Rows(m, l) : steps(r) \in Nat
  <2> TAKE r \in Rows(m, l)
  <2>1. l.size \in Nat \ {0} /\ r - 1 - l.cursor \in Int OBVIOUS
  <2> QED BY <2>1
<1>2. S \in SUBSET Nat /\ S # {} BY <1>1
<1> HIDE DEF steps
<1>3. PICK x \in S : \A y \in S : x <= y
  <2> HIDE DEF S
  <2> QED BY <1>2, Smallest
<1>4. PICK r \in Rows(m, l) : x = steps(r) OBVIOUS
<1>5. \A q \in Rows(m, l) : steps(r) <= steps(q) BY <1>3, <1>4
<1>6. \E p \in Rows(m, l) : \A q \in Rows(m, l) : steps(p) <= steps(q)
  BY <1>5
<1>7. NextRow(m, l) =
        CHOOSE p \in Rows(m, l) : \A q \in Rows(m, l) : steps(p) <= steps(q)
  BY DEF NextRow, steps
<1> QED BY <1>6, <1>7

\* So does that of select_prev_user.
LEMMA PrevRowIsRow ==
  ASSUME NEW m, NEW l, l.size \in Nat, l.cursor \in Nat,
         Rows(m, l) # {}, Rows(m, l) \subseteq 1 .. l.size
  PROVE  PrevRow(m, l) \in Rows(m, l)
<1> DEFINE steps(r) == (l.cursor - 1 - r) % l.size
           S == {steps(r) : r \in Rows(m, l)}
<1>1. \A r \in Rows(m, l) : steps(r) \in Nat
  <2> TAKE r \in Rows(m, l)
  <2>1. l.size \in Nat \ {0} /\ l.cursor - 1 - r \in Int OBVIOUS
  <2> QED BY <2>1
<1>2. S \in SUBSET Nat /\ S # {} BY <1>1
<1> HIDE DEF steps
<1>3. PICK x \in S : \A y \in S : x <= y
  <2> HIDE DEF S
  <2> QED BY <1>2, Smallest
<1>4. PICK r \in Rows(m, l) : x = steps(r) OBVIOUS
<1>5. \A q \in Rows(m, l) : steps(r) <= steps(q) BY <1>3, <1>4
<1>6. \E p \in Rows(m, l) : \A q \in Rows(m, l) : steps(p) <= steps(q)
  BY <1>5
<1>7. PrevRow(m, l) =
        CHOOSE p \in Rows(m, l) : \A q \in Rows(m, l) : steps(p) <= steps(q)
  BY DEF PrevRow, steps
<1> QED BY <1>6, <1>7

\* When has_user_available says so, some row can be stopped at.
LEMMA AvailableRow ==
  ASSUME NEW m \in ListModals, NEW l, l.size \in Nat,
         l.present \subseteq 1 .. l.size,
         HasUserAvailable(m, l.size, l.present)
  PROVE  Rows(m, l) # {} /\ Rows(m, l) \subseteq 1 .. l.size
<1>1. CASE m = "add_user"
  <2>1. l.size # Cardinality(l.present) BY <1>1 DEF HasUserAvailable
  <2>2. Cardinality(1 .. l.size) = l.size BY FS_Interval
  <2>3. l.present # 1 .. l.size BY <2>1, <2>2
  <2> QED BY <1>1, <2>3 DEF Rows
<1>2. CASE m # "add_user"
  BY <1>2 DEF Rows, HasUserAvailable
<1> QED BY <1>1, <1>2

ListRows == [size : Nat, present : SUBSET Nat, avail : BOOLEAN, cursor : Nat]

ReadList(r, n, p, a) == [r EXCEPT !.size = n, !.present = p, !.avail = a]

\* What update_users reads before it moves the cursor.
LEMMA ListIsRead ==
  ASSUME NEW r \in ListRows, NEW n \in Nat, NEW p \in SUBSET Nat,
         NEW a \in BOOLEAN
  PROVE  /\ ReadList(r, n, p, a) \in ListRows
         /\ ReadList(r, n, p, a).size = n
         /\ ReadList(r, n, p, a).present = p
         /\ ReadList(r, n, p, a).avail = a
         /\ ReadList(r, n, p, a).cursor = r.cursor
<1> DEFINE l1 == [r EXCEPT !.size = n]
           l2 == [l1 EXCEPT !.present = p]
           l3 == [l2 EXCEPT !.avail = a]
<1>1. l1 \in ListRows /\ l1.size = n /\ l1.cursor = r.cursor
  BY DEF ListRows
<1> HIDE DEF l1
<1>2. /\ l2 \in ListRows /\ l2.size = n /\ l2.present = p
      /\ l2.cursor = r.cursor
  BY <1>1 DEF ListRows
<1> HIDE DEF l2
<1>3. /\ l3 \in ListRows /\ l3.size = n /\ l3.present = p /\ l3.avail = a
      /\ l3.cursor = r.cursor
  BY <1>2 DEF ListRows
<1> HIDE DEF l3
<1> QED BY <1>3 DEF l1, l2, l3, ReadList

\* update_users leaves the modal's cursor on a row.
LEMMA UpdateUsersLists ==
  ASSUME ListsInv, NEW m \in ListModals, UpdateUsers(m),
         Len(User') \in Nat, members_of_chat' \subseteq 1 .. Len(User'),
         User' = User, Len(users) <= Len(User'), Len(users) \in Nat,
         users' = User', pc # "down"
  PROVE  ListsInv'
<1> DEFINE avail == HasUserAvailable(m, Len(User'), members_of_chat')
           l == ReadList(list[m], Len(User'), members_of_chat', avail)
           new == IF avail THEN [l EXCEPT !.cursor = NextRow(m, l)] ELSE l
<1>1. list' = [list EXCEPT ![m] = new] BY DEF UpdateUsers, ReadList
<1>2. list[m] \in ListRows
  BY DEF ListsInv, ListRows
<1>3. avail \in BOOLEAN BY DEF HasUserAvailable
<1> HIDE DEF avail
<1>4. members_of_chat' \in SUBSET Nat OBVIOUS
<1>5. /\ l.size = Len(User') /\ l.present = members_of_chat' /\ l.avail = avail
      /\ l.cursor = list[m].cursor
      /\ l \in ListRows
  BY <1>2, <1>3, <1>4, ListIsRead
<1> HIDE DEF l
<1>6. avail => NextRow(m, l) \in Rows(m, l) /\ Rows(m, l) \subseteq 1 .. l.size
  <2> SUFFICES ASSUME avail
               PROVE  NextRow(m, l) \in Rows(m, l) /\ Rows(m, l) \subseteq 1 .. l.size
    OBVIOUS
  <2>1. HasUserAvailable(m, l.size, l.present) BY <1>5 DEF avail
  <2>2. l.cursor \in Nat BY <1>2, <1>5 DEF ListRows
  <2> QED BY <1>5, <2>1, <2>2, AvailableRow, NextRowIsRow
<1>7. /\ new \in ListRows
      /\ new.size = Len(User') /\ new.present = members_of_chat'
      /\ new.avail = avail
      /\ new.cursor = IF avail THEN NextRow(m, l) ELSE list[m].cursor
  BY <1>5, <1>6 DEF ListRows
<1>8. Rows(m, new) = Rows(m, l) BY <1>5, <1>7 DEF Rows
<1> HIDE DEF new
<1>9. new.avail => new.cursor \in Rows(m, new) BY <1>6, <1>7, <1>8
<1>10. CursorOnRow'
  <2> SUFFICES ASSUME NEW k \in ListModals, list'[k].avail
               PROVE  list'[k].cursor \in Rows(k, list'[k])
    BY DEF CursorOnRow, Rows
  <2>1. CASE k = m BY <1>1, <1>9, <2>1 DEF ListsInv
  <2>2. CASE k # m BY <1>1, <2>2 DEF ListsInv, CursorOnRow
  <2> QED BY <2>1, <2>2
<1>11. \A k \in ListModals : /\ list'[k].present \subseteq 1 .. list'[k].size
                             /\ list'[k].size <= Len(users')
  <2> TAKE k \in ListModals
  <2>1. CASE k = m
    <3>1. list'[k] = new BY <1>1, <2>1 DEF ListsInv
    <3>2. /\ list'[k].present = members_of_chat'
          /\ list'[k].size = Len(User')
      BY <1>7, <3>1
    <3> QED BY <3>2
  <2>2. CASE k # m
    <3>1. list'[k] = list[k] BY <1>1, <2>2 DEF ListsInv
    <3>2. list[k].size \in Nat /\ list[k].size <= Len(users) BY DEF ListsInv
    <3> QED BY <3>1, <3>2 DEF ListsInv
  <2> QED BY <2>1, <2>2
<1>12. new.cursor <= new.size
  <2>1. CASE avail
    <3>1. new.cursor \in 1 .. l.size BY <1>6, <1>7, <2>1
    <3> QED BY <1>5, <1>7, <3>1
  <2>2. CASE ~avail
    <3>1. new.cursor = list[m].cursor BY <1>7, <2>2
    <3>2. list[m].cursor <= list[m].size /\ list[m].size <= Len(User)
      BY DEF ListsInv
    <3>3. list[m].cursor \in Nat /\ list[m].size \in Nat /\ Len(User) \in Nat
      BY <1>2 DEF ListRows
    <3> QED BY <1>7, <3>1, <3>2, <3>3
  <2> QED BY <2>1, <2>2
<1>13. \A k \in ListModals : /\ list'[k].size <= Len(User')
                             /\ list'[k].cursor <= list'[k].size
  <2> TAKE k \in ListModals
  <2>1. CASE k = m
    <3>1. list'[k] = new BY <1>1, <2>1 DEF ListsInv
    <3> QED BY <1>7, <1>12, <3>1
  <2>2. CASE k # m
    <3>1. list'[k] = list[k] BY <1>1, <2>2 DEF ListsInv
    <3> QED BY <3>1 DEF ListsInv
  <2> QED BY <2>1, <2>2
<1> QED BY <1>1, <1>7, <1>10, <1>11, <1>13 DEF ListsInv, ListRows

\* Nothing of the lists changes while the cached users are at most read again.
LEMMA ListsKept ==
  ASSUME VInv, list' = list,
         pc' # "down" => pc # "down" /\ Len(users) <= Len(users'),
         Len(users) \in Nat, Len(users') \in Nat,
         Len(User) \in Nat, Len(User') \in Nat, Len(User) <= Len(User')
  PROVE  ListsInv'
<1>1. \A m \in ListModals : list[m].size \in Nat BY DEF VInv, ListsInv
<1>2. pc' # "down" => \A m \in ListModals : list'[m].size <= Len(users')
  BY <1>1 DEF VInv, ListsInv
<1>3. CursorOnRow' BY DEF VInv, ListsInv, CursorOnRow, Rows
<1>4. \A m \in ListModals : list'[m].size <= Len(User')
  BY <1>1 DEF VInv, ListsInv
<1> QED BY <1>2, <1>3, <1>4 DEF VInv, ListsInv

-----------------------------------------------------------------------------
(* The scenes take only the steps AppState has.                            *)

\* The cursor of a list that has a row for it is on a cached user.
LEMMA CursorIsUser ==
  ASSUME VInv, pc # "down", NEW m \in ListModals, list[m].avail
  PROVE  list[m].cursor \in DOMAIN users
<1>1. list[m].cursor \in Rows(m, list[m])
  BY DEF VInv, ListsInv, CursorOnRow
<1>2. list[m].size \in Nat /\ list[m].present \subseteq 1 .. list[m].size
  BY DEF VInv, ListsInv
<1>3. list[m].cursor \in 1 .. list[m].size BY <1>1, <1>2 DEF Rows
<1>4. list[m].size <= Len(users) BY DEF VInv, ListsInv
<1>5. Len(users) \in Nat /\ DOMAIN users = 1 .. Len(users)
  BY DEF VInv, IInv, TypeOK
<1> QED BY <1>2, <1>3, <1>4, <1>5

\* Every step of the scenes is one of AppState or leaves it alone.
LEMMA AppStep ==
  ASSUME VInv, [ViewNext]_viewVars
  PROVE  [Next]_vars
<1>1. CASE Keyboard
  <2>1. ASSUME NEW m \in Opens, Open(m) PROVE [Next]_vars
    BY <2>1 DEF Open, Mount, Next
  <2>2. CASE NextChat BY <2>2 DEF NextChat, Next, Selection
  <2>3. CASE Write BY <2>3 DEF Write
  <2>4. ASSUME NEW e \in Events, Press(e) PROVE [Next]_vars
    BY <2>4 DEF Press
  <2> QED BY <1>1, <2>1, <2>2, <2>3, <2>4 DEF Keyboard
<1>2. CASE Dispatch
  <2>1. CASE EndDispatch \/ SkipRemoved
    BY <2>1 DEF EndDispatch, SkipRemoved
  <2>2. CASE ConfirmThrows BY <2>2 DEF ConfirmThrows, Next
  <2>3. ASSUME NEW m \in Modals,
               \/ AskForInput(m) \/ MoveItem(m) \/ MoveRow(m) \/ NoRow(m)
               \/ NothingToConfirm(m) \/ Close(m)
        PROVE  [Next]_vars
    BY <2>3 DEF AskForInput, MoveItem, MoveRow, NoRow, NothingToConfirm, Close
  <2>4. ASSUME NEW m \in Modals, Confirm(m) PROVE [Next]_vars
    <3>1. m \in ListModals /\ list[m].avail BY <2>4 DEF Confirm
    <3>2. \/ AddUserToSelectedChat(list[m].cursor)
          \/ RemoveUserFromSelectedChat(list[m].cursor)
      BY <2>4 DEF Confirm
    <3>3. pc # "down"
      BY <3>2 DEF AddUserToSelectedChat, RemoveUserFromSelectedChat
    <3>4. list[m].cursor \in DOMAIN users BY <3>1, <3>3, CursorIsUser
    <3>5. Membership BY <3>2, <3>4 DEF Membership
    <3> QED BY <3>5 DEF Next
  <2> QED BY <1>2, <2>1, <2>2, <2>3, <2>4 DEF Dispatch
<1>3. CASE Draw
  <2>1. CASE EndPoll BY <2>1 DEF EndPoll, Next
  <2>2. CASE WriteLine BY <2>2 DEF WriteLine, Next, Messaging
  <2>3. CASE WriteDone BY <2>3 DEF WriteDone, Next, Messaging
  <2>4. CASE SaveChat BY <2>4 DEF SaveChat, Next, Creation
  <2>5. CASE SaveAddress BY <2>5 DEF SaveAddress, Next, Creation
  <2>6. CASE SaveUser BY <2>6 DEF SaveUser, Next, Creation
  <2>7. ASSUME NEW m \in FormModals, DrawOnly(m) \/ TypeField(m)
        PROVE  [Next]_vars
    BY <2>7 DEF DrawOnly, TypeField
  <2> QED BY <1>3, <2>1, <2>2, <2>3, <2>4, <2>5, <2>6, <2>7 DEF Draw
<1>4. CASE UNCHANGED viewVars BY <1>4 DEF viewVars
<1> QED BY <1>1, <1>2, <1>3, <1>4 DEF ViewNext

-----------------------------------------------------------------------------
(* The forms.                                                              *)

FormRows == [item : Nat, filled : SUBSET Nat, wants : BOOLEAN]
FormOK(m, f) ==
  /\ f \in FormRows
  /\ f.item \in 1 .. Button(m) /\ f.filled \subseteq 1 .. Fields(m)
  /\ f.item = Button(m) => f.filled = 1 .. Fields(m)

LEMMA FormsAreOK ==
  FormsInv <=> form \in [FormModals -> FormRows]
               /\ \A m \in FormModals : FormOK(m, form[m])
BY DEF FormsInv, FormOK, FormRows, SavesComplete, OnButton

\* A form that changes in one modal alone.
LEMMA FormSet ==
  ASSUME FormsInv, NEW m \in FormModals, NEW f, FormOK(m, f),
         form' = [form EXCEPT ![m] = f]
  PROVE  FormsInv'
<1>1. form \in [FormModals -> FormRows] /\ \A k \in FormModals : FormOK(k, form[k])
  BY FormsAreOK
<1>2. f \in FormRows BY DEF FormOK
<1>3. form' \in [FormModals -> FormRows] BY <1>1, <1>2
<1>4. \A k \in FormModals : FormOK(k, form'[k]) BY <1>1
<1> QED
  BY <1>3, <1>4 DEF FormsInv, FormOK, FormRows, SavesComplete, OnButton

\* Moving the cursor leads to the button only when no field is empty.
LEMMA ItemMoved ==
  ASSUME NEW m \in FormModals, NEW f, FormOK(m, f)
  PROVE  /\ FormOK(m, [f EXCEPT !.item = NextItem(m, f.item, f.filled)])
         /\ FormOK(m, [f EXCEPT !.item = PrevItem(m, f.item, f.filled)])
         /\ FormOK(m, [f EXCEPT !.wants = TRUE])
<1>1. Fields(m) \in {2, 3} /\ Button(m) = Fields(m) + 1
  BY DEF Fields, Button
<1>2. NextItem(m, f.item, f.filled) \in 1 .. Button(m)
  BY <1>1 DEF FormOK, NextItem
<1>3. NextItem(m, f.item, f.filled) = Button(m) => f.filled = 1 .. Fields(m)
  BY <1>1 DEF FormOK, NextItem
<1>4. PrevItem(m, f.item, f.filled) \in 1 .. Button(m)
  BY <1>1 DEF FormOK, PrevItem
<1>5. PrevItem(m, f.item, f.filled) = Button(m) => f.filled = 1 .. Fields(m)
  BY <1>1 DEF FormOK, PrevItem
<1>6. ASSUME NEW i \in 1 .. Button(m),
             i = Button(m) => f.filled = 1 .. Fields(m)
      PROVE  FormOK(m, [f EXCEPT !.item = i])
  BY <1>1, <1>6 DEF FormOK, FormRows
<1>7. FormOK(m, [f EXCEPT !.wants = TRUE]) BY DEF FormOK, FormRows
<1> QED BY <1>2, <1>3, <1>4, <1>5, <1>6, <1>7

LEMMA FormsStep ==
  ASSUME VInv, [ViewNext]_viewVars
  PROVE  FormsInv'
<1>1. FormsInv /\ \A m \in FormModals : FormOK(m, form[m]) /\ form[m] \in FormRows
  BY FormsAreOK DEF VInv, FormOK
<1>2. CASE form' = form
  BY <1>1, <1>2 DEF FormsInv, SavesComplete, OnButton
<1>3. ASSUME NEW m \in FormModals, AskForInput(m) PROVE FormsInv'
  <2>1. form' = [form EXCEPT ![m] = [form[m] EXCEPT !.wants = TRUE]]
    BY <1>3 DEF AskForInput
  <2> QED BY <1>1, <2>1, ItemMoved, FormSet
<1>4. ASSUME NEW m \in FormModals, MoveItem(m) PROVE FormsInv'
  <2>1. \/ form' = [form EXCEPT ![m] = [form[m] EXCEPT
                      !.item = NextItem(m, form[m].item, form[m].filled)]]
        \/ form' = [form EXCEPT ![m] = [form[m] EXCEPT
                      !.item = PrevItem(m, form[m].item, form[m].filled)]]
    BY <1>4 DEF MoveItem
  <2> QED BY <1>1, <2>1, ItemMoved, FormSet
<1>5. ASSUME NEW m \in FormModals, TypeField(m) PROVE FormsInv'
  <2>1. PICK filled \in {form[m].filled \cup {form[m].item},
                         form[m].filled \ {form[m].item}} :
          form' = [form EXCEPT ![m] =
            [item |-> NextItem(m, form[m].item, filled), filled |-> filled,
             wants |-> FALSE]]
    BY <1>5 DEF TypeField
  <2>2. Fields(m) \in {2, 3} /\ Button(m) = Fields(m) + 1
    BY DEF Fields, Button
  <2>3. form[m].item \in 1 .. Fields(m)
    BY <1>1, <1>5, <2>2 DEF TypeField, OnButton, FormOK
  <2>4. filled \subseteq 1 .. Fields(m) /\ filled \in SUBSET Nat
    BY <1>1, <2>2, <2>3 DEF FormOK
  <2>5. NextItem(m, form[m].item, filled) \in 1 .. Button(m)
    BY <2>2, <2>3 DEF NextItem
  <2>6. NextItem(m, form[m].item, filled) = Button(m) => filled = 1 .. Fields(m)
    BY <2>2, <2>3 DEF NextItem
  <2> DEFINE f == [item |-> NextItem(m, form[m].item, filled),
                   filled |-> filled, wants |-> FALSE]
  <2>7. FormOK(m, f) BY <2>2, <2>4, <2>5, <2>6 DEF FormOK, FormRows
  <2> HIDE DEF f
  <2> QED BY <1>1, <2>1, <2>7, FormSet DEF f
<1>6. ASSUME NEW m \in FormModals, Saved(m) PROVE FormsInv'
  <2>1. FormOK(m, EmptyForm)
    BY DEF FormOK, FormRows, EmptyForm, Fields, Button
  <2> QED BY <1>1, <1>6, <2>1, FormSet DEF Saved
<1>7. CASE Keyboard
  BY <1>2, <1>7 DEF Keyboard, Open, NextChat, Write, Press
<1>8. CASE Dispatch
  <2>1. ASSUME NEW m \in Modals, AskForInput(m) \/ MoveItem(m)
        PROVE  m \in FormModals
    BY <2>1 DEF AskForInput, MoveItem
  <2> QED
    BY <1>2, <1>3, <1>4, <1>8, <2>1 DEF Dispatch, EndDispatch, SkipRemoved,
       ConfirmThrows, MoveRow, NoRow, NothingToConfirm, Confirm, Close
<1>9. CASE Draw
  BY <1>2, <1>5, <1>6, <1>9 DEF Draw, EndPoll, WriteLine, WriteDone, SaveChat,
     SaveAddress, SaveUser, DrawOnly, FormModals
<1>10. CASE UNCHANGED viewVars BY <1>2, <1>10 DEF viewVars
<1> QED BY <1>7, <1>8, <1>9, <1>10 DEF ViewNext

-----------------------------------------------------------------------------
(* The lists.                                                              *)

\* The tables and the cached users have a length.
LEMMA Lengths ==
  ASSUME VInv, IInv'
  PROVE  /\ Len(users) \in Nat /\ Len(users') \in Nat
         /\ Len(User) \in Nat /\ Len(User') \in Nat
         /\ Len(users) <= Len(User) /\ Users' = 1 .. Len(User')
         /\ members_of_chat' \subseteq 1 .. Len(User')
<1>1. TypeOK /\ CachesCoherent /\ TypeOK' BY DEF VInv, IInv
<1>2. /\ Len(users) \in Nat /\ Len(User) \in Nat /\ Len(users) <= Len(User)
  BY <1>1, SMTT(30) DEF TypeOK, CachesCoherent, IsCacheOf
<1>3. users' \in Seq([name : UserName, user_address : Nat])
  BY <1>1 DEF TypeOK
<1>4. User' \in Seq([name : UserName, user_address : Nat])
  BY <1>1 DEF TypeOK
<1>5. Users' = 1 .. Len(User') BY <1>4 DEF Users
<1>6. members_of_chat' \subseteq Users' BY <1>1 DEF TypeOK
<1> QED BY <1>2, <1>3, <1>4, <1>5, <1>6

\* A cursor is moved while there is a row to go to.
LEMMA MoveRowLists ==
  ASSUME VInv, IInv', NEW m \in ListModals, MoveRow(m)
  PROVE  ListsInv'
<1>1. list[m] \in ListRows /\ list[m].avail BY DEF VInv, ListsInv, MoveRow, ListRows
<1>2. Rows(m, list[m]) # {} BY <1>1 DEF VInv, ListsInv, CursorOnRow
<1>3. Rows(m, list[m]) \subseteq 1 .. list[m].size
  BY <1>1 DEF VInv, ListsInv, Rows
<1>4. PICK c \in Rows(m, list[m]) :
        list' = [list EXCEPT ![m] = [list[m] EXCEPT !.cursor = c]]
  <2>1. NextRow(m, list[m]) \in Rows(m, list[m])
    BY <1>1, <1>2, <1>3, NextRowIsRow DEF ListRows
  <2>2. PrevRow(m, list[m]) \in Rows(m, list[m])
    BY <1>1, <1>2, <1>3, PrevRowIsRow DEF ListRows
  <2> QED BY <2>1, <2>2 DEF MoveRow
<1>5. c \in Nat /\ c <= list[m].size BY <1>1, <1>3, <1>4 DEF ListRows
<1> DEFINE l == [list[m] EXCEPT !.cursor = c]
<1>6. /\ l \in ListRows /\ l.size = list[m].size
      /\ l.present = list[m].present /\ l.cursor = c
  BY <1>1, <1>5 DEF ListRows
<1>7. l.cursor \in Rows(m, l) BY <1>4, <1>6 DEF Rows
<1> HIDE DEF l
<1>8. \A k \in ListModals : list'[k] = IF k = m THEN l ELSE list[k]
  BY <1>4 DEF l, VInv, ListsInv
<1>9. list' \in [ListModals -> ListRows]
  BY <1>4, <1>6 DEF l, VInv, ListsInv, ListRows
<1>10. CursorOnRow'
  BY <1>7, <1>8 DEF VInv, ListsInv, CursorOnRow, Rows
<1>11. \A k \in ListModals : list'[k].present \subseteq 1 .. list'[k].size
  BY <1>6, <1>8 DEF VInv, ListsInv
<1>12. pc' # "down" => \A k \in ListModals : list'[k].size <= Len(users')
  BY <1>6, <1>8 DEF VInv, ListsInv, MoveRow, vars
<1>13. \A k \in ListModals : /\ list'[k].size <= Len(User')
                             /\ list'[k].cursor <= list'[k].size
  BY <1>5, <1>6, <1>8 DEF VInv, ListsInv, MoveRow, vars
<1> QED BY <1>9, <1>10, <1>11, <1>12, <1>13 DEF ListsInv, ListRows

\* Without a row the cursor goes to the first line.
LEMMA NoRowLists ==
  ASSUME VInv, IInv', NEW m \in ListModals, NoRow(m)
  PROVE  ListsInv'
<1>1. list[m] \in ListRows /\ ~list[m].avail BY DEF VInv, ListsInv, NoRow, ListRows
<1> DEFINE l == [list[m] EXCEPT !.cursor = 0]
<1>2. /\ l \in ListRows /\ l.size = list[m].size
      /\ l.present = list[m].present /\ ~l.avail /\ l.cursor = 0
  BY <1>1 DEF ListRows
<1> HIDE DEF l
<1>3. list' = [list EXCEPT ![m] = l] BY DEF NoRow, l
<1>4. \A k \in ListModals : list'[k] = IF k = m THEN l ELSE list[k]
  BY <1>3 DEF VInv, ListsInv
<1>5. list' \in [ListModals -> ListRows]
  BY <1>2, <1>3 DEF VInv, ListsInv, ListRows
<1>6. CursorOnRow'
  BY <1>2, <1>4 DEF VInv, ListsInv, CursorOnRow, Rows
<1>7. \A k \in ListModals : list'[k].present \subseteq 1 .. list'[k].size
  BY <1>2, <1>4 DEF VInv, ListsInv
<1>8. pc' # "down" => \A k \in ListModals : list'[k].size <= Len(users')
  BY <1>2, <1>4 DEF VInv, ListsInv, NoRow, vars
<1>9. \A k \in ListModals : /\ list'[k].size <= Len(User')
                            /\ list'[k].cursor <= list'[k].size
  BY <1>1, <1>2, <1>4 DEF VInv, ListsInv, NoRow, vars, ListRows
<1> QED BY <1>5, <1>6, <1>7, <1>8, <1>9 DEF ListsInv, ListRows

\* No user and no chat is ever taken from its table.
LEMMA TablesStay ==
  ASSUME IInv, IInv', [Next]_vars
  PROVE  /\ Len(User) <= Len(User') /\ Users \subseteq Users'
         /\ Len(Chat) <= Len(Chat') /\ Chats \subseteq Chats'
<1>1. /\ Len(User) \in Nat /\ Users = 1 .. Len(User)
      /\ Len(Chat) \in Nat /\ Chats = 1 .. Len(Chat)
  BY DEF IInv, TypeOK, Users, Chats
<1>2. User' \in Seq([name : UserName, user_address : Nat])
  BY DEF IInv, TypeOK
<1>3. Chat' \in Seq(ChatName) BY DEF IInv, TypeOK
<1>4. /\ Len(User') \in Nat /\ Users' = 1 .. Len(User')
      /\ Len(Chat') \in Nat /\ Chats' = 1 .. Len(Chat')
  BY <1>2, <1>3 DEF Users, Chats
<1>5. Len(User) <= Len(User') /\ Len(Chat) <= Len(Chat')
  <2>1. CASE User' = User /\ Chat' = Chat BY <1>1, <2>1
  <2>2. CASE InsertUser
    <3>1. Len(User') = Len(User) + 1 /\ Chat' = Chat
      BY <2>2 DEF InsertUser, Insert, IInv, TypeOK
    <3> QED BY <1>1, <3>1
  <2>3. ASSUME NEW name \in ChatName, InsertNewChat(name)
        PROVE  Len(User) <= Len(User') /\ Len(Chat) <= Len(Chat')
    <3>1. Len(Chat') = Len(Chat) + 1 /\ User' = User
      BY <2>3 DEF InsertNewChat, Insert, IInv, TypeOK
    <3> QED BY <1>1, <3>1
  <2> QED
    BY <2>1, <2>2, <2>3 DEF Next, vars, FetchChats, FetchUsers, Selection,
       SelectNextChat, SelectPrevChat, DeselectChat, Select, Membership,
       AddUserToSelectedChat, RemoveUserFromSelectedChat, Creation,
       InsertAddress, Messaging, PushMessage, SendMessage, RecvMessage,
       RecvInsert, RecvDone, SetMessageStatus, Crash, Restart
<1> QED BY <1>1, <1>4, <1>5

LEMMA ListsStep ==
  ASSUME VInv, IInv', [ViewNext]_viewVars
  PROVE  ListsInv'
<1>1. ASSUME list' = list,
             pc' # "down" => pc # "down" /\ Len(users) <= Len(users')
      PROVE  ListsInv'
  <2>1. Len(User) <= Len(User') BY AppStep, TablesStay DEF VInv
  <2> QED BY <1>1, <2>1, Lengths, ListsKept
<1>2. ASSUME list' = list, UNCHANGED vars PROVE ListsInv'
  BY <1>1, <1>2, Lengths DEF vars
<1>3. CASE Keyboard
  <2>1. ASSUME NEW m \in Opens, Open(m) PROVE ListsInv'
    <3>1. CASE list' = list /\ (UNCHANGED vars \/ FetchUsers \/ FetchChats)
      BY <1>1, <1>2, <3>1, Lengths DEF FetchUsers, FetchChats
    <3>2. CASE m \in ListModals /\ FetchUsers /\ UpdateUsers(m)
      BY <3>2, Lengths, UpdateUsersLists DEF FetchUsers, VInv
    <3> QED BY <2>1, <3>1, <3>2 DEF Open, Mount
  <2>2. CASE NextChat
    BY <1>1, <2>2, Lengths DEF NextChat, SelectNextChat, Select
  <2>3. CASE Write BY <1>2, <2>3 DEF Write
  <2>4. ASSUME NEW e \in Events, Press(e) PROVE ListsInv'
    BY <1>2, <2>4 DEF Press
  <2> QED BY <1>3, <2>1, <2>2, <2>3, <2>4 DEF Keyboard
<1>4. CASE Dispatch
  <2>1. CASE EndDispatch \/ SkipRemoved
    BY <1>2, <2>1 DEF EndDispatch, SkipRemoved
  <2>2. CASE ConfirmThrows BY <1>1, <2>2 DEF ConfirmThrows, Crash
  <2>3. ASSUME NEW m \in Modals,
               AskForInput(m) \/ MoveItem(m) \/ NothingToConfirm(m) \/ Close(m)
        PROVE  ListsInv'
    BY <1>2, <2>3 DEF AskForInput, MoveItem, NothingToConfirm, Close
  <2>4. ASSUME NEW m \in Modals, MoveRow(m) PROVE ListsInv'
    BY <2>4, MoveRowLists DEF MoveRow
  <2>5. ASSUME NEW m \in Modals, NoRow(m) PROVE ListsInv'
    BY <2>5, NoRowLists DEF NoRow
  <2>6. ASSUME NEW m \in Modals, Confirm(m) PROVE ListsInv'
    BY <2>6, Lengths, UpdateUsersLists DEF Confirm, AddUserToSelectedChat,
       RemoveUserFromSelectedChat, FetchAll, VInv
  <2> QED BY <1>4, <2>1, <2>2, <2>3, <2>4, <2>5, <2>6 DEF Dispatch
<1>5. CASE Draw
  <2>1. CASE EndPoll BY <1>1, <1>2, <2>1, Lengths DEF EndPoll, FetchChats
  <2>2. CASE WriteLine BY <1>1, <2>2, Lengths DEF WriteLine, PushMessage
  <2>3. CASE WriteDone BY <1>1, <2>3, Lengths DEF WriteDone, SendMessage
  <2>4. CASE SaveChat BY <1>1, <2>4, Lengths DEF SaveChat, InsertNewChat
  <2>5. CASE SaveAddress
    BY <1>1, <2>5, Lengths DEF SaveAddress, InsertAddress
  <2>6. CASE SaveUser
    <3>1. users' = User' /\ pc = "insert_user" /\ list' = list
      BY <2>6 DEF SaveUser, InsertUser
    <3>2. Len(User') = Len(User) + 1
      BY <2>6 DEF SaveUser, InsertUser, Insert, VInv, IInv, TypeOK
    <3> QED BY <1>1, <3>1, <3>2, Lengths
  <2>7. ASSUME NEW m \in FormModals, DrawOnly(m) \/ TypeField(m)
        PROVE  ListsInv'
    BY <1>2, <2>7 DEF DrawOnly, TypeField
  <2> QED BY <1>5, <2>1, <2>2, <2>3, <2>4, <2>5, <2>6, <2>7 DEF Draw
<1>6. CASE UNCHANGED viewVars BY <1>2, <1>6 DEF viewVars
<1> QED BY <1>3, <1>4, <1>5, <1>6 DEF ViewNext

-----------------------------------------------------------------------------
(* The members ChatInfoScene shows.                                        *)

Drawing == FormModals \cup {"write"}

\* all_for_chat yields the users of the pairs.
LEMMA AllForChatPairs ==
  ASSUME NEW C, NEW U, NEW M \in SUBSET (C \X U), NEW c, NEW u
  PROVE  u \in AllForChat(M, c) <=> <<c, u>> \in M
<1>1. ASSUME u \in AllForChat(M, c) PROVE <<c, u>> \in M
  <2>1. PICK cu \in M : cu[1] = c /\ cu[2] = u BY <1>1 DEF AllForChat
  <2>2. PICK x \in C, y \in U : cu = <<x, y>> BY <2>1
  <2>3. x = c /\ y = u BY <2>1, <2>2
  <2> QED BY <2>1, <2>2, <2>3
<1>2. ASSUME <<c, u>> \in M PROVE u \in AllForChat(M, c)
  <2> DEFINE cu == <<c, u>>
  <2>1. cu \in {m \in M : m[1] = c} /\ cu[2] = u BY <1>2
  <2> QED BY <2>1 DEF AllForChat
<1> QED BY <1>1, <1>2

\* Nothing of the copy goes out of date while the members stay as they are.
LEMMA InfoKept ==
  ASSUME VInv, IInv', [Next]_vars, info' = info,
         Chat_has_User' = Chat_has_User,
         phase' \in Drawing => phase \in Drawing /\ selected_chat' = selected_chat
  PROVE  InfoInv'
<1>0. /\ Users \subseteq Users' /\ Chats \subseteq Chats'
      /\ Len(Chat) <= Len(Chat')
  BY TablesStay DEF VInv
<1>1. Chat_has_User \subseteq Chats \X Users BY DEF VInv, IInv, TypeOK
<1>2. info.members \subseteq Users BY DEF VInv, InfoInv
<1>3. info.chat >= 0 => InfoIsRead'
  BY <1>0, <1>1, <1>2 DEF VInv, InfoInv, InfoIsRead
<1>4. info.chat < Len(Chat') /\ info.changed \subseteq Chats' \X Users'
  <2>1. Chat' \in Seq(ChatName) /\ Chat \in Seq(ChatName)
    BY DEF VInv, IInv, TypeOK
  <2>2. Len(Chat') \in Nat /\ Len(Chat) \in Nat BY <2>1
  <2>3. /\ info.chat \in Nat \cup {-1} /\ info.chat < Len(Chat)
        /\ info.changed \subseteq Chats \X Users
    BY DEF VInv, InfoInv
  <2>4. info.chat < Len(Chat') BY <1>0, <2>2, <2>3
  <2> QED BY <1>0, <2>3, <2>4
<1> QED BY <1>0,  <1>2, <1>3, <1>4 DEF VInv, InfoInv, Drawing

\* A confirm changes one pair, and notes it.
LEMMA ConfirmInfo ==
  ASSUME VInv, NEW m \in Modals, Confirm(m)
  PROVE  InfoInv'
<1>1. m \in ListModals /\ list[m].avail BY DEF Confirm
<1>2. \/ AddUserToSelectedChat(list[m].cursor)
      \/ RemoveUserFromSelectedChat(list[m].cursor)
  BY DEF Confirm
<1>3. pc # "down" /\ User' = User /\ Chat' = Chat /\ HasChatSelected
  BY <1>2 DEF AddUserToSelectedChat, RemoveUserFromSelectedChat
<1> DEFINE pair == <<SelectedChat, list[m].cursor>>
<1>4. pair \in Chats \X Users /\ pair \in Nat \X Nat
  <2>1. SelectedChat \in Chats BY <1>3, SelectedChatIsChat DEF VInv, IInv
  <2>2. list[m].cursor \in DOMAIN users BY <1>1, <1>3, CursorIsUser
  <2>3. /\ Len(users) \in Nat /\ DOMAIN users = 1 .. Len(users)
        /\ Len(User) \in Nat /\ Users = 1 .. Len(User)
        /\ Len(users) <= Len(User)
        /\ Chats \subseteq Nat
    BY DEF VInv, IInv, TypeOK, Users, Chats, CachesCoherent, IsCacheOf
  <2>4. list[m].cursor \in Users /\ list[m].cursor \in Nat BY <2>2, <2>3
  <2> QED BY <2>1, <2>3, <2>4
<1>5. \A p : p # pair => (p \in Chat_has_User <=> p \in Chat_has_User')
  BY <1>2 DEF AddUserToSelectedChat, RemoveUserFromSelectedChat, AddUser,
     RemoveUser
<1> HIDE DEF pair
<1>6. info' = [info EXCEPT !.changed = @ \cup {pair}] BY DEF Confirm, pair
<1>7. /\ info' \in [chat : Nat \cup {-1}, members : SUBSET Nat,
                    changed : SUBSET (Nat \X Nat)]
      /\ info'.chat = info.chat /\ info'.members = info.members
      /\ info'.changed = info.changed \cup {pair}
  BY <1>4, <1>6 DEF VInv, InfoInv
<1>8. Users' = Users /\ Chats' = Chats BY <1>3 DEF Users, Chats
<1>9. info.chat >= 0 => InfoIsRead'
  BY <1>5, <1>7, <1>8 DEF VInv, InfoInv, InfoIsRead
<1>10. phase' \notin Drawing BY DEF Confirm, Called, Drawing, FormModals
<1>11. info'.changed \subseteq Chats \X Users
  BY <1>4, <1>7 DEF VInv, InfoInv
<1> QED BY <1>3, <1>7, <1>8, <1>9, <1>10, <1>11 DEF VInv, InfoInv, Drawing

\* The copy is read again when another chat is selected.
LEMMA EndPollInfo ==
  ASSUME VInv, IInv', EndPoll
  PROVE  InfoInv'
<1>1. /\ info' = ReadMembers /\ UNCHANGED <<Chat_has_User, User, Chat, selected_chat>>
  BY DEF EndPoll, FetchChats, vars
<1>2. Users' = Users /\ Chats' = Chats BY <1>1 DEF Users, Chats
<1>3. CASE info.chat = selected_chat
  <2>1. info' = info BY <1>1, <1>3 DEF ReadMembers
  <2> QED BY <1>1, <1>2, <1>3, <2>1 DEF VInv, InfoInv, InfoIsRead
<1>4. CASE info.chat # selected_chat
  <2> DEFINE read == IF HasChatSelected
                     THEN AllForChat(Chat_has_User, SelectedChat)
                     ELSE info.members
  <2>1. info' = [chat |-> selected_chat, changed |-> {}, members |-> read]
    BY <1>1, <1>4 DEF ReadMembers
  <2>2. Chat_has_User \in SUBSET (Chats \X Users) /\ Users \subseteq Nat
        /\ selected_chat \in Nat \cup {-1}
    BY SMTT(30) DEF VInv, IInv, TypeOK, Users
  <2>3. HasChatSelected => \A u : u \in read <=> <<SelectedChat, u>> \in Chat_has_User
    BY <2>2, AllForChatPairs
  <2>4. read \subseteq Users
    <3>1. CASE HasChatSelected
      <4> HIDE DEF read
      <4>1. \A u \in read : <<SelectedChat, u>> \in Chats \X Users
        BY <2>2, <2>3, <3>1
      <4> QED BY <4>1
    <3>2. CASE ~HasChatSelected BY <3>2 DEF VInv, InfoInv
    <3> QED BY <3>1, <3>2
  <2> HIDE DEF read
  <2>5. /\ info' \in [chat : Nat \cup {-1}, members : SUBSET Nat,
                      changed : SUBSET (Nat \X Nat)]
        /\ info'.chat = selected_chat /\ info'.members = read
        /\ info'.changed = {}
    BY <2>1, <2>2, <2>4
  <2>6. info'.chat >= 0 => InfoIsRead'
    BY <1>1, <1>2, <2>3, <2>5 DEF InfoIsRead, HasChatSelected, SelectedChat
  <2>7. selected_chat < Len(Chat')
    <3>1. /\ Len(chats) \in Nat /\ Len(Chat) \in Nat
          /\ selected_chat < Len(chats) /\ Len(chats) <= Len(Chat)
      BY DEF VInv, IInv, TypeOK, CachesCoherent, IsCacheOf
    <3> QED BY <1>1, <2>2, <3>1
  <2> QED BY <1>1, <1>2, <2>4, <2>5, <2>6, <2>7 DEF InfoInv
<1> QED BY <1>3, <1>4

LEMMA InfoStep ==
  ASSUME VInv, IInv', [ViewNext]_viewVars
  PROVE  InfoInv'
<1>0. [Next]_vars BY AppStep
<1>1. ASSUME info' = info, UNCHANGED <<Chat_has_User>>,
             phase' \notin Drawing \/ UNCHANGED <<phase, selected_chat>>
      PROVE  InfoInv'
  BY <1>0, <1>1, InfoKept
<1>2. CASE Keyboard
  BY <1>1, <1>2 DEF Keyboard, Open, Mount, FetchUsers, FetchChats, NextChat,
     SelectNextChat, Select, Write, Press, Drawing, FormModals, vars
<1>3. CASE Dispatch
  <2>1. ASSUME NEW m \in Modals, Confirm(m) PROVE InfoInv'
    BY <2>1, ConfirmInfo
  <2>2. CASE EndDispatch \/ SkipRemoved \/ ConfirmThrows
    BY <1>1, <2>2 DEF EndDispatch, SkipRemoved, ConfirmThrows, Crash, vars,
       Drawing, FormModals
  <2>3. ASSUME NEW m \in Modals,
               \/ AskForInput(m) \/ MoveItem(m) \/ MoveRow(m) \/ NoRow(m)
               \/ NothingToConfirm(m) \/ Close(m)
        PROVE  InfoInv'
    BY <1>1, <2>3 DEF AskForInput, MoveItem, MoveRow, NoRow, NothingToConfirm,
       Close, vars
  <2> QED BY <1>3, <2>1, <2>2, <2>3 DEF Dispatch
<1>4. CASE Draw
  <2>1. CASE EndPoll BY <2>1, EndPollInfo
  <2>2. ASSUME UNCHANGED <<info, Chat_has_User, selected_chat>>,
               phase \in Drawing
        PROVE  InfoInv'
    BY <1>0, <2>2, InfoKept
  <2>3. CASE WriteLine
    BY <2>2, <2>3 DEF WriteLine, PushMessage, Users, Drawing
  <2>4. CASE WriteDone
    BY <2>2, <2>4 DEF WriteDone, SendMessage, Users, Drawing
  <2>5. CASE SaveChat
    BY <2>2, <2>5 DEF SaveChat, TakesInput, InsertNewChat, Users, Drawing,
       FormModals
  <2>6. CASE SaveAddress
    BY <2>2, <2>6 DEF SaveAddress, TakesInput, InsertAddress, Users, Drawing,
       FormModals
  <2>7. CASE SaveUser
    BY <2>2, <2>7 DEF SaveUser, TakesInput, InsertUser, Drawing, FormModals
  <2>8. ASSUME NEW m \in FormModals, DrawOnly(m) \/ TypeField(m)
        PROVE  InfoInv'
    BY <2>2, <2>8 DEF DrawOnly, TypeField, TakesInput, vars, Users, Drawing
  <2> QED BY <1>4, <2>1, <2>3, <2>4, <2>5, <2>6, <2>7, <2>8 DEF Draw
<1>5. CASE UNCHANGED viewVars BY <1>1, <1>5 DEF viewVars, vars
<1> QED BY <1>2, <1>3, <1>4, <1>5 DEF ViewNext

-----------------------------------------------------------------------------
(* The event bus.                                                          *)

\* Taking a listener off leaves listeners of the kinds there were.
LEMMA RemoveFirstType ==
  ASSUME NEW S, NEW s \in Seq(S), NEW e
  PROVE  RemoveFirst(s, e) \in Seq(S)
<1>1. CASE \E i \in 1 .. Len(s) : s[i] = e
  <2> DEFINE I == {i \in 1 .. Len(s) : s[i] = e}
  <2>1. I \in SUBSET Nat /\ I # {} BY <1>1
  <2>2. SelectInSeq(s, LAMBDA v : v = e) = Min(I)
    BY <2>1 DEF SelectInSeq
  <2>3. Min(I) \in I
    <3> HIDE DEF I
    <3> QED BY <2>1, Smallest DEF Min
  <2> DEFINE k == Min(I)
  <2>4. k \in 1 .. Len(s) BY <2>3
  <2>5. RemoveFirst(s, e) = RemoveAt(s, k) BY <1>1, <2>2 DEF RemoveFirst
  <2> HIDE DEF k
  <2>6. SubSeq(s, 1, k - 1) \in Seq(S) /\ SubSeq(s, k + 1, Len(s)) \in Seq(S)
    BY <2>4
  <2> QED BY <2>5, <2>6 DEF RemoveAt
<1>2. CASE ~ \E i \in 1 .. Len(s) : s[i] = e
  BY <1>2 DEF RemoveFirst
<1> QED BY <1>1, <1>2

\* Opening a modal adds listeners of that modal.
LEMMA OpenedType ==
  ASSUME NEW L, listeners \in [Events -> Seq(L)], NEW m,
         Listener(m, "close") \in L, \A e \in Events : Listener(m, Does[e]) \in L
  PROVE  Opened(m) \in [Events -> Seq(L)]
<1>1. "esc" \in Events BY DEF Events, Does
<1>2. CloseRemoved \in Seq(L)
  BY <1>1, RemoveFirstType DEF CloseRemoved, Without
<1>3. ASSUME NEW e \in Events
      PROVE  (IF e = "esc" THEN Append(CloseRemoved, Listener(m, "close"))
              ELSE IF m \in showing THEN listeners[e]
              ELSE Append(listeners[e], Listener(m, Does[e]))) \in Seq(L)
  <2>1. listeners[e] \in Seq(L) /\ Listener(m, Does[e]) \in L OBVIOUS
  <2> HIDE DEF Listener
  <2>2. Append(CloseRemoved, Listener(m, "close")) \in Seq(L) BY <1>2
  <2>3. Append(listeners[e], Listener(m, Does[e])) \in Seq(L) BY <2>1
  <2> QED BY <2>1, <2>2, <2>3
<1> QED BY <1>3 DEF Opened

\* Closing one takes listeners away.
LEMMA ClosedType ==
  ASSUME NEW L, listeners \in [Events -> Seq(L)], NEW m
  PROVE  Closed(m) \in [Events -> Seq(L)]
<1>1. "esc" \in Events BY DEF Events, Does
<1>2. CloseRemoved \in Seq(L)
  BY <1>1, RemoveFirstType DEF CloseRemoved, Without
<1>3. ASSUME NEW e \in Events
      PROVE  (IF e = "esc" THEN CloseRemoved
              ELSE IF m \in showing /\ e \in Unmounted(m)
                   THEN Without(e, Listener(m, Does[e]))
              ELSE listeners[e]) \in Seq(L)
  <2>1. listeners[e] \in Seq(L) OBVIOUS
  <2>2. Without(e, Listener(m, Does[e])) \in Seq(L)
    BY <2>1, RemoveFirstType DEF Without
  <2> QED BY <1>2, <2>1, <2>2
<1> QED BY <1>3 DEF Closed

LEMMA ListenerTypes ==
  ASSUME NEW m \in Modals
  PROVE  /\ Listener(m, "close") \in Listeners
         /\ \A e \in Events : Listener(m, Does[e]) \in Listeners
         /\ m \notin ListModals =>
              /\ Listener(m, "close") \in FormListeners
              /\ \A e \in Events : Listener(m, Does[e]) \in FormListeners
<1>1. \A e \in Events : Does[e] \in {"submit", "next", "prev", "close"}
  BY DEF Events, Does
<1> QED BY <1>1 DEF Listener, Listeners, FormListeners

LEMMA OpenBus ==
  ASSUME VInv, NEW m \in Opens, Open(m)
  PROVE  BusInv'
<1>1. m \in Modals BY ViewAssumption
<1>2. listeners' = Opened(m) /\ listeners \in [Events -> Seq(Listeners)]
  BY DEF Open, VInv, BusInv
<1>3. listeners' \in [Events -> Seq(Listeners)]
  BY <1>1, <1>2, ListenerTypes, OpenedType
<1>4. phase' = phase /\ phase = "poll" /\ selected_chat' = selected_chat
  BY DEF Open, Mount, FetchUsers, FetchChats, vars
<1>5. ASSUME selected_chat' < 0 PROVE listeners' \in [Events -> Seq(FormListeners)]
  <2>1. selected_chat < 0 /\ ~(selected_chat >= 0)
    BY <1>4, <1>5 DEF VInv, IInv, TypeOK
  <2>2. listeners \in [Events -> Seq(FormListeners)]
    BY <1>4, <2>1 DEF VInv, BusInv
  <2>3. m \notin ListModals BY <2>1 DEF Open, CanOpen
  <2> QED BY <1>1, <1>2, <2>2, <2>3, ListenerTypes, OpenedType
<1>6. closeHandle' \in Listeners
  BY <1>1, ListenerTypes DEF Open, VInv, BusInv
<1> QED BY <1>1, <1>3, <1>4, <1>5, <1>6 DEF Open, VInv, BusInv

LEMMA CloseBus ==
  ASSUME VInv, NEW m \in Modals, Close(m)
  PROVE  BusInv'
<1>1. listeners' = Closed(m) /\ UNCHANGED <<phase, selected_chat>>
  BY DEF Close, vars
<1>2. listeners' \in [Events -> Seq(Listeners)]
  BY <1>1, ClosedType DEF VInv, BusInv
<1>3. selected_chat' < 0 /\ phase' # "down" =>
        listeners' \in [Events -> Seq(FormListeners)]
  BY <1>1, ClosedType DEF VInv, BusInv
<1>4. todo' \in Seq(Listeners)
  BY DEF Close, Called, VInv, BusInv
<1> QED BY <1>2, <1>3, <1>4 DEF Close, VInv, BusInv

LEMMA BusStep ==
  ASSUME VInv, IInv', [ViewNext]_viewVars
  PROVE  BusInv'
<1>1. BusInv BY DEF VInv
<1>2. ASSUME UNCHANGED modalVars,
             UNCHANGED <<key, todo>>, wants_input' \in BOOLEAN,
             chats_needs_update' \in BOOLEAN, UNCHANGED selected_chat,
             phase' \in {"poll", "write"} \cup FormModals, phase # "down"
      PROVE  BusInv'
  BY <1>1, <1>2 DEF BusInv, FormModals
<1>3. CASE Keyboard
  <2>1. ASSUME NEW m \in Opens, Open(m) PROVE BusInv' BY <2>1, OpenBus
  <2>2. CASE NextChat
    <3>1. selected_chat < 0 \/ selected_chat >= 0 BY DEF VInv, IInv, TypeOK
    <3>2. selected_chat' \in Nat
      <4>1. Len(chats) \in Nat \ {0}
        BY <2>2 DEF NextChat, SelectNextChat, VInv, IInv, TypeOK
      <4>2. CASE selected_chat < 0
        BY <2>2, <4>2 DEF NextChat, SelectNextChat, Select
      <4>3. CASE ~(selected_chat < 0)
        <5>1. selected_chat + 1 \in Nat BY <4>3 DEF VInv, IInv, TypeOK
        <5>2. (selected_chat + 1) % Len(chats) \in Nat BY <4>1, <5>1
        <5> QED BY <2>2, <4>3, <5>2 DEF NextChat, SelectNextChat, Select
      <4> QED BY <4>2, <4>3
    <3>3. ~(selected_chat' < 0) BY <3>2
    <3> QED BY <1>1, <2>2, <3>3 DEF NextChat, BusInv
  <2>3. CASE Write
    BY <1>1, <1>2, <2>3 DEF Write, BusInv, vars
  <2>4. ASSUME NEW e \in Events, Press(e) PROVE BusInv'
    BY <1>1, <2>4 DEF Press, BusInv, vars
  <2> QED BY <1>3, <2>1, <2>2, <2>3, <2>4 DEF Keyboard
<1>4. CASE Dispatch
  <2>1. CASE EndDispatch BY <1>1, <2>1 DEF EndDispatch, BusInv, vars
  <2>2. CASE SkipRemoved BY <1>1, <2>2 DEF SkipRemoved, BusInv, vars
  <2>3. CASE ConfirmThrows
    BY <1>1, <2>3 DEF ConfirmThrows, Called, BusInv
  <2>4. ASSUME NEW m \in Modals,
               \/ AskForInput(m) \/ MoveItem(m) \/ MoveRow(m) \/ NoRow(m)
               \/ NothingToConfirm(m) \/ Confirm(m)
        PROVE  BusInv'
    <3>1. todo # <<>> /\ todo' = Tail(todo) /\ UNCHANGED <<phase, key>>
      BY <2>4 DEF AskForInput, MoveItem, MoveRow, NoRow, NothingToConfirm,
         Confirm, Called
    <3>2. todo' \in Seq(Listeners) BY <1>1, <3>1 DEF BusInv
    <3>3. UNCHANGED modalVars /\ UNCHANGED selected_chat
      BY <2>4 DEF AskForInput, MoveItem, MoveRow, NoRow, NothingToConfirm,
         Confirm, AddUserToSelectedChat, RemoveUserFromSelectedChat, vars
    <3>4. UNCHANGED <<chats_needs_update, wants_input>>
      BY <2>4 DEF AskForInput, MoveItem, MoveRow, NoRow, NothingToConfirm,
         Confirm
    <3> QED BY <1>1, <3>1, <3>2, <3>3, <3>4 DEF BusInv
  <2>5. ASSUME NEW m \in Modals, Close(m) PROVE BusInv' BY <2>5, CloseBus
  <2> QED BY <1>4, <2>1, <2>2, <2>3, <2>4, <2>5 DEF Dispatch
<1>5. CASE Draw
  <2>1. CASE EndPoll
    BY <1>1, <1>2, <2>1 DEF EndPoll, FetchChats, BusInv, vars, FormModals
  <2>2. CASE WriteLine
    BY <1>1, <1>2, <2>2 DEF WriteLine, PushMessage, BusInv
  <2>3. CASE WriteDone
    BY <1>1, <1>2, <2>3 DEF WriteDone, SendMessage, BusInv, FormModals
  <2>4. CASE SaveChat
    BY <1>1, <1>2, <2>4 DEF SaveChat, Saved, Drawn, TakesInput, InsertNewChat,
       BusInv, FormModals
  <2>5. CASE SaveAddress
    BY <1>1, <1>2, <2>5 DEF SaveAddress, TakesInput, InsertAddress, BusInv,
       FormModals
  <2>6. CASE SaveUser
    BY <1>1, <1>2, <2>6 DEF SaveUser, Saved, Drawn, TakesInput, InsertUser,
       BusInv, FormModals
  <2>7. ASSUME NEW m \in FormModals, DrawOnly(m) \/ TypeField(m)
        PROVE  BusInv'
    BY <1>1, <1>2, <2>7 DEF DrawOnly, TypeField, Drawn, TakesInput, BusInv,
       vars, FormModals
  <2> QED BY <1>5, <2>1, <2>2, <2>3, <2>4, <2>5, <2>6, <2>7 DEF Draw
<1>6. CASE UNCHANGED viewVars BY <1>1, <1>6 DEF viewVars, vars, BusInv
<1> QED BY <1>3, <1>4, <1>5, <1>6 DEF ViewNext

-----------------------------------------------------------------------------
(* The invariant.                                                          *)

\* A process that finds the tables of an earlier one starts well.
LEMMA ViewInitInv == ViewInit => VInv
<1> SUFFICES ASSUME ViewInit PROVE VInv
  OBVIOUS
<1>1. OldChats \in Nat /\ OldUsers \in Nat
  BY AppAssumption, ViewAssumption
<1>2. PICK names \in [1 .. OldUsers -> UserName] :
        User = [u \in 1 .. OldUsers |-> [name |-> names[u], user_address |-> u]]
  BY DEF ViewInit
<1>3. /\ Chat \in Seq(ChatName) /\ Address \in Seq(Addr)
      /\ User \in Seq([name : UserName, user_address : Nat])
      /\ Len(Address) = OldUsers /\ Len(User) = OldUsers
      /\ Chats = 1 .. OldChats /\ Users = 1 .. OldUsers
      /\ DOMAIN Address = 1 .. OldUsers
  BY <1>1, <1>2 DEF ViewInit, Chats, Users
<1>4. TypeOK BY <1>3, AppAssumption DEF ViewInit, TypeOK, MessageRows
<1>5. CachesCoherent
  BY <1>3 DEF ViewInit, CachesCoherent, IsCacheOf, HasChatSelected
<1>6. ReferentialIntegrity
  BY <1>2, <1>3 DEF ViewInit, ReferentialIntegrity
<1>7. OrphansBounded BY <1>1, <1>3 DEF ViewInit, OrphansBounded
<1>8. InFlight BY DEF ViewInit, InFlight
<1>9. ListsInv
  BY <1>1, <1>3 DEF ViewInit, ListsInv, EmptyList, CursorOnRow
<1>10. FormsInv
  BY DEF ViewInit, FormsInv, EmptyForm, SavesComplete, OnButton, Button, Fields
<1>11. InfoInv
  BY DEF ViewInit, InfoInv, FormModals
<1>12. BusInv
  <2>1. <<>> \in Seq(Listeners) /\ <<>> \in Seq(FormListeners) OBVIOUS
  <2>2. NoListener \in Listeners BY DEF NoListener, Listener, Listeners
  <2> QED BY <2>1, <2>2 DEF ViewInit, BusInv
<1> QED BY <1>4, <1>5, <1>6, <1>7, <1>8, <1>9, <1>10, <1>11, <1>12 DEF VInv, IInv

\* Every step of the scenes keeps the invariant.
LEMMA ViewStepInv == VInv /\ [ViewNext]_viewVars => VInv'
<1> SUFFICES ASSUME VInv, [ViewNext]_viewVars PROVE VInv'
  OBVIOUS
<1>1. IInv' BY AppStep, StepInv DEF VInv
<1> QED BY <1>1, ListsStep, FormsStep, InfoStep, BusStep DEF VInv

\* The inductive invariant holds throughout.
THEOREM ViewInvariance == ViewSpec => []VInv
BY ViewInitInv, ViewStepInv, PTL DEF ViewSpec

-----------------------------------------------------------------------------
(* What follows from it.                                                   *)

\* Whatever keys are pressed in whatever order, the scenes do to the database
\* and its caches only what AppState's operations do.
THEOREM StepsAreAppState == ViewSpec => StepsOfAppState
<1>1. VInv /\ [ViewNext]_viewVars => [Next]_vars BY AppStep
<1> QED BY <1>1, ViewInvariance, PTL DEF ViewSpec, StepsOfAppState

\* So the caches are coherent and the references hold under the scenes, also
\* from tables that an earlier process left.
THEOREM AppStateHolds ==
  ViewSpec => [](CachesCoherent /\ ReferentialIntegrity)
<1>1. VInv => CachesCoherent /\ ReferentialIntegrity BY DEF VInv, IInv
<1> QED BY <1>1, ViewInvariance, PTL

\* Every variable of the scenes keeps the type the code gives it.
THEOREM ViewTypeCorrect == ViewSpec => []ViewTypeOK
<1>1. VInv => ViewTypeOK
  <2> SUFFICES ASSUME VInv PROVE ViewTypeOK
    OBVIOUS
  <2>1. ASSUME NEW m \in ListModals
        PROVE  /\ list[m].size \in 0 .. Len(User) /\ list[m].avail \in BOOLEAN
               /\ list[m].present \subseteq 1 .. list[m].size
               /\ list[m].cursor \in 0 .. list[m].size
    <3>1. Len(User) \in Nat BY DEF VInv, IInv, TypeOK
    <3>2. list[m] \in ListRows BY DEF VInv, ListsInv, ListRows
    <3>3. /\ list[m].size <= Len(User) /\ list[m].cursor <= list[m].size
          /\ list[m].present \subseteq 1 .. list[m].size
      BY DEF VInv, ListsInv
    <3> QED BY <3>1, <3>2, <3>3 DEF ListRows
  <2>2. ASSUME NEW m \in FormModals
        PROVE  /\ form[m].item \in 1 .. Button(m) /\ form[m].wants \in BOOLEAN
               /\ form[m].filled \subseteq 1 .. Fields(m)
    BY DEF VInv, FormsInv
  <2>3. /\ info.chat \in -1 .. Len(Chat) - 1 /\ info.members \subseteq DOMAIN User
        /\ info.changed \subseteq (DOMAIN Chat) \X (DOMAIN User)
    <3>1. Len(Chat) \in Nat BY DEF VInv, IInv, TypeOK
    <3>2. info.chat \in Nat \cup {-1} /\ info.chat < Len(Chat)
      BY DEF VInv, InfoInv
    <3>3. info.chat \in -1 .. Len(Chat) - 1 BY <3>1, <3>2
    <3> QED BY <3>3 DEF VInv, InfoInv, Users, Chats
  <2> QED BY <2>1, <2>2, <2>3 DEF VInv, BusInv, ViewTypeOK
<1> QED BY <1>1, ViewInvariance, PTL

\* Whatever listener a list modal has left on the bus, it finds a chat selected.
THEOREM ListsHaveChat == ViewSpec => []ListHasChat
<1>1. VInv => ListHasChat
  <2> SUFFICES ASSUME VInv, NEW e \in Events, NEW l \in ToSet(listeners[e]),
                      l.modal \in ListModals, phase # "down"
               PROVE  selected_chat >= 0
    BY DEF ListHasChat
  <2>1. ASSUME selected_chat < 0 PROVE FALSE
    <3>1. listeners[e] \in Seq(FormListeners) BY <2>1 DEF VInv, BusInv
    <3>2. PICK i \in DOMAIN listeners[e] : l = listeners[e][i] BY DEF ToSet
    <3>3. l \in FormListeners BY <3>1, <3>2
    <3> QED BY <3>3 DEF FormListeners
  <2> QED BY <2>1 DEF VInv, IInv, TypeOK
<1> QED BY <1>1, ViewInvariance, PTL

\* The loops of select_next_user and select_prev_user end, and a confirm finds
\* the cursor on a row, for any number of users and members.
THEOREM CursorsOnRows == ViewSpec => []CursorOnRow
<1>1. VInv => CursorOnRow BY DEF VInv, ListsInv
<1> QED BY <1>1, ViewInvariance, PTL

\* insert_new_user and insert_new_chat never get an empty field.
THEOREM SavesAreComplete == ViewSpec => []SavesComplete
<1>1. VInv => SavesComplete BY DEF VInv, FormsInv
<1> QED BY <1>1, ViewInvariance, PTL

\* The members shown are those of the chat that is selected, as they were when
\* it was selected, up to those the user has added or removed since.
THEOREM MembersAreShown == ViewSpec => []MembersShown
<1>1. VInv => MembersShown
  BY DEF VInv, InfoInv, InfoIsRead, MembersShown, HasChatSelected, SelectedChat,
         Users
<1> QED BY <1>1, ViewInvariance, PTL

\* A line is stored in the chat whose members are shown above it.
THEOREM LinesAreStoredWhereShown == ViewSpec => StoredWhereShown
<1> DEFINE Stored == Len(Message') > Len(Message) =>
                       Message'[LastId(Message')].in_chat = info.chat + 1
<1>1. ASSUME VInv, WriteLine PROVE Stored
  <2>1. info.chat = selected_chat BY <1>1 DEF WriteLine, VInv, InfoInv
  <2>2. /\ Message' = Append(Message, MessageRow(SelectedChat, Ours))
        /\ Message \in Seq(MessageRows)
    BY <1>1 DEF WriteLine, PushMessage, Insert, VInv, IInv, TypeOK
  <2>3. MessageRow(SelectedChat, Ours).in_chat = SelectedChat
    BY DEF MessageRow
  <2> QED BY <2>1, <2>2, <2>3 DEF LastId, SelectedChat
<1>2. ASSUME VInv, Message' = Message PROVE Stored
  <2>1. Len(Message) \in Nat BY <1>2 DEF VInv, IInv, TypeOK
  <2> QED BY <1>2, <2>1
<1>3. ASSUME VInv, [ViewNext]_viewVars PROVE Stored
  <2>1. CASE Keyboard
    BY <1>2, <1>3, <2>1 DEF Keyboard, Open, Mount, FetchUsers, FetchChats,
       NextChat, SelectNextChat, Select, Write, Press, vars
  <2>2. CASE Dispatch
    BY <1>2, <1>3, <2>2 DEF Dispatch, EndDispatch, SkipRemoved, ConfirmThrows,
       Crash, AskForInput, MoveItem, MoveRow, NoRow, NothingToConfirm, Close,
       Confirm, AddUserToSelectedChat, RemoveUserFromSelectedChat, vars
  <2>3. CASE Draw
    BY <1>1, <1>2, <1>3, <2>3 DEF Draw, EndPoll, FetchChats, WriteDone,
       SendMessage, SaveChat, InsertNewChat, SaveAddress, InsertAddress,
       SaveUser, InsertUser, DrawOnly, TypeField, vars
  <2>4. CASE UNCHANGED viewVars BY <1>2, <1>3, <2>4 DEF viewVars, vars
  <2> QED BY <1>3, <2>1, <2>2, <2>3, <2>4 DEF ViewNext
<1>4. VInv /\ [ViewNext]_viewVars => [Stored]_viewVars BY <1>3
<1> QED BY <1>4, ViewInvariance, PTL DEF ViewSpec, StoredWhereShown

=============================================================================
