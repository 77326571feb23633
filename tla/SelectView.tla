----------------------------- MODULE SelectView -----------------------------
(***************************************************************************)
(* SelectViewScene, its four modals and the event bus between the keyboard *)
(* and them, over AppState.  One frame polls any number of keys, each of   *)
(* which runs the listeners of its event one after the other, and then     *)
(* updates and draws; the forms take their input while they are drawn, and *)
(* so does WriteMsgScene, below the members ChatInfoScene has read.        *)
(*                                                                         *)
(* The event bus is eventpp's: a list of callbacks for each event.  A      *)
(* dispatch calls those that were in the list when it began and still are. *)
(* A listener is what it does for which modal; only listeners that nobody  *)
(* holds a handle of are ever in a list twice.                             *)
(*                                                                         *)
(* An operator defined just before another with the same parameters is a   *)
(* faulty variant of it, used to see that a property can fail.             *)
(***************************************************************************)
EXTENDS AppState, SequencesExt

CONSTANTS
  OldChats, OldUsers,  \* rows an earlier process left
  Opens,               \* the modals whose key the user knows
  MaxListeners         \* bound: listeners of one event

FormModals == {"create_user", "create_chat"}
ListModals == {"add_user", "remove_user"}
Modals == FormModals \cup ListModals

ASSUME ViewAssumption ==
  /\ Opens \subseteq Modals /\ MaxListeners \in Nat
  /\ OldChats \in 0 .. MaxChats /\ OldUsers \in 0 .. MaxUsers

VARIABLES
  phase,               \* "poll", "dispatch", "write", a form is drawn, "down"
  key,                 \* the event that is dispatched
  todo,                \* the listeners it has still to call
  listeners,           \* the event bus
  showing,             \* the modals with should_show_modal and modal_mounted
  closeHandle,         \* SelectView: close_any_modal_keybind_handle
  list,                \* the rows and the cursor of each list modal
  form,                \* the fields and the cursor of each form
  chats_needs_update,  \* ChatViewScene
  wants_input,         \* WriteMsgScene
  info                 \* ChatInfoScene: the chat and the members it shows;
                       \* history: whom the user has added or removed since

busVars == <<phase, key, todo>>
modalVars == <<listeners, showing, closeHandle>>
chatVars == <<chats_needs_update, wants_input, info>>
viewVars == <<vars, busVars, modalVars, list, form, chatVars>>

-----------------------------------------------------------------------------
(* The event bus.                                                          *)

Listener(m, does) == [modal |-> m, does |-> does]
NoListener == Listener("none", "close")

Does == [enter |-> "submit", tab |-> "next", shift_tab |-> "prev",
         esc |-> "close"]
Events == DOMAIN Does

Without(e, l) == RemoveFirst(listeners[e], l)

\* remove_close_handler, with a handle that may have expired.
CloseRemoved == Without("esc", closeHandle)

\* mount of modal m, unless it is mounted, and add_*_close_handler.
OpenedSilent(m) ==
  [e \in Events |->
     IF e = "esc" \/ m \in showing THEN listeners[e]
     ELSE Append(listeners[e], Listener(m, Does[e]))]
Opened(m) ==
  [e \in Events |->
     IF e = "esc" THEN Append(CloseRemoved, Listener(m, "close"))
     ELSE IF m \in showing THEN listeners[e]
     ELSE Append(listeners[e], Listener(m, Does[e]))]

\* hide_modal with the unmount of modal m, and remove_close_handler.  The list
\* modals have overwritten the handle of their enter listener.
Unmounted(m) ==
  {"tab", "shift_tab"} \cup (IF m \in FormModals THEN {"enter"} ELSE {})
ClosedOnly(m) == [listeners EXCEPT !.esc = CloseRemoved]
Closed(m) ==
  [e \in Events |->
     IF e = "esc" THEN CloseRemoved
     ELSE IF m \in showing /\ e \in Unmounted(m)
          THEN Without(e, Listener(m, Does[e]))
     ELSE listeners[e]]

-----------------------------------------------------------------------------
(* The list modals.  Row r shows the user with id r, and the cursor is     *)
(* selected_user + 1.                                                      *)

Rows(m, l) == IF m = "add_user" THEN (1 .. l.size) \ l.present ELSE l.present

AnyRow(m, l) == (l.cursor % l.size) + 1
NoWrap(m, l) == l.cursor + 1
NextRow(m, l) ==
  CHOOSE r \in Rows(m, l) : \A q \in Rows(m, l) :
    (r - 1 - l.cursor) % l.size <= (q - 1 - l.cursor) % l.size

PrevRow(m, l) ==
  CHOOSE r \in Rows(m, l) : \A q \in Rows(m, l) :
    (l.cursor - 1 - r) % l.size <= (l.cursor - 1 - q) % l.size

\* update_users, after the caches of AppState have been refreshed.
HasUserAvailable(m, n, present) ==
  IF m = "add_user" THEN n # Cardinality(present) ELSE present # {}

UpdateUsers(m) ==
  LET l == [list[m] EXCEPT !.size = Len(User'), !.present = members_of_chat',
              !.avail = HasUserAvailable(m, Len(User'), members_of_chat')]
  IN  list' = [list EXCEPT ![m] =
                 IF l.avail THEN [l EXCEPT !.cursor = NextRow(m, l)] ELSE l]

-----------------------------------------------------------------------------
(* The forms: items 1 .. Fields(m), and the button behind them.            *)

Fields(m) == IF m = "create_user" THEN 3 ELSE 2
Button(m) == Fields(m) + 1

\* The item after and before one, when the fields in `filled` are not empty.
NextItemAlways(m, item, filled) == IF item = Button(m) THEN 1 ELSE item + 1
NextItem(m, item, filled) ==
  IF item = Button(m) \/ (item = Fields(m) /\ filled # 1 .. Fields(m))
  THEN 1 ELSE item + 1

PrevItem(m, item, filled) ==
  IF item # 1 THEN item - 1
  ELSE IF filled = 1 .. Fields(m) THEN Button(m) ELSE Fields(m)

-----------------------------------------------------------------------------
EmptyForm == [item |-> 1, filled |-> {}, wants |-> FALSE]
EmptyList == [size |-> 0, present |-> {}, avail |-> FALSE, cursor |-> 0]

\* start_app: the tables are what an earlier process left.
ViewInit ==
  /\ Chat \in [1 .. OldChats -> ChatName]
  /\ Address \in [1 .. OldUsers -> Addr]
  /\ \E names \in [1 .. OldUsers -> UserName] :
       User = [u \in 1 .. OldUsers |-> [name |-> names[u], user_address |-> u]]
  /\ Chat_has_User \in SUBSET ((1 .. OldChats) \X (1 .. OldUsers))
  /\ Message = <<>> /\ selected_chat = -1
  /\ chats = <<>> /\ users = <<>> /\ members_of_chat = {}
  /\ pc = "idle" /\ newName = Own /\ matches = {} /\ sends = {}
  /\ crashes = 0
  /\ phase = "poll" /\ key = "none" /\ todo = <<>>
  /\ listeners = [e \in Events |-> <<>>]
  /\ showing = {} /\ closeHandle = NoListener
  /\ list = [m \in ListModals |-> EmptyList]
  /\ form = [m \in FormModals |-> EmptyForm]
  /\ chats_needs_update = TRUE /\ wants_input = FALSE
  /\ info = [chat |-> -1, members |-> {}, changed |-> {}]

-----------------------------------------------------------------------------
(* Keys with one listener each: opening a modal, the next chat.            *)

AnyIsOpen == showing \cap {"create_user", "create_chat", "add_user"} # {}

NoneOpen(m) == ~AnyIsOpen
CanOpen(m) ==
  ~AnyIsOpen /\ (m \in ListModals => selected_chat >= 0)

\* What show_modal does besides listening.
Mount(m) ==
  IF m \in showing THEN UNCHANGED <<vars, list>>
  ELSE \/ m = "create_user" /\ FetchUsers /\ UNCHANGED list
       \/ m = "create_chat" /\ FetchChats /\ UNCHANGED list
       \/ m \in ListModals /\ FetchUsers /\ UpdateUsers(m)

\* The handle of the close listener of remove_user goes elsewhere.
Open(m) ==
  /\ phase = "poll" /\ CanOpen(m)
  /\ \A e \in Events : Len(listeners[e]) < MaxListeners
  /\ showing' = showing \cup {m}
  /\ listeners' = Opened(m)
  /\ closeHandle' = IF m = "remove_user" THEN closeHandle
                    ELSE Listener(m, "close")
  /\ Mount(m)
  /\ UNCHANGED <<busVars, form, chatVars>>

NextChat ==
  /\ phase = "poll" /\ SelectNextChat
  /\ UNCHANGED <<busVars, modalVars, list, form, chatVars>>

\* The m key asks for a line, or takes that back.
Write ==
  /\ phase = "poll" /\ HasChatSelected /\ Len(Message) < MaxMessages
  /\ wants_input' = ~wants_input
  /\ UNCHANGED <<vars, busVars, modalVars, list, form, chats_needs_update, info>>

-----------------------------------------------------------------------------
(* Keys that are dispatched to listeners.                                  *)

Press(e) ==
  /\ phase = "poll"
  /\ phase' = "dispatch" /\ key' = e /\ todo' = listeners[e]
  /\ UNCHANGED <<vars, modalVars, list, form, chatVars>>

EndDispatch ==
  /\ phase = "dispatch" /\ todo = <<>>
  /\ phase' = "poll" /\ key' = "none"
  /\ UNCHANGED <<vars, todo, modalVars, list, form, chatVars>>

\* A listener that was removed by one before it.
SkipRemoved ==
  /\ phase = "dispatch" /\ todo # <<>>
  /\ Head(todo) \notin ToSet(listeners[key])
  /\ todo' = Tail(todo)
  /\ UNCHANGED <<vars, phase, key, modalVars, list, form,
                 chatVars>>

Called(m, does) ==
  /\ phase = "dispatch" /\ todo # <<>>
  /\ Head(todo) = Listener(m, does) /\ Head(todo) \in ToSet(listeners[key])
  /\ todo' = Tail(todo)

AskForInput(m) ==
  /\ Called(m, "submit") /\ m \in FormModals
  /\ form' = [form EXCEPT ![m].wants = TRUE]
  /\ UNCHANGED <<vars, phase, key, modalVars, list, chatVars>>

MoveItem(m) ==
  /\ m \in FormModals
  /\ \E step \in {"next", "prev"} :
       /\ Called(m, step)
       /\ form' = [form EXCEPT ![m].item =
                     IF step = "next" THEN NextItem(m, @, form[m].filled)
                                      ELSE PrevItem(m, @, form[m].filled)]
  /\ UNCHANGED <<vars, phase, key, modalVars, list, chatVars>>

MoveRow(m) ==
  /\ m \in ListModals /\ list[m].avail
  /\ \/ /\ Called(m, "next")
        /\ list' = [list EXCEPT ![m].cursor = NextRow(m, list[m])]
     \/ /\ Called(m, "prev")
        /\ list' = [list EXCEPT ![m].cursor = PrevRow(m, list[m])]
  /\ UNCHANGED <<vars, phase, key, modalVars, form, chatVars>>

NoRow(m) ==
  /\ m \in ListModals /\ ~list[m].avail
  /\ \E does \in {"next", "prev"} : Called(m, does)
  /\ list' = [list EXCEPT ![m].cursor = 0]
  /\ UNCHANGED <<vars, phase, key, modalVars, form, chatVars>>

NothingToConfirm(m) ==
  /\ m \in ListModals /\ ~list[m].avail /\ Called(m, "submit")
  /\ UNCHANGED <<vars, phase, key, modalVars, list, form,
                 chatVars>>

ConfirmByDao(m) ==
  /\ m \in ListModals /\ list[m].avail /\ Called(m, "submit")
  /\ Chat_has_User' = AddUser(Chat_has_User, SelectedChat, list[m].cursor)
  /\ UNCHANGED <<Chat, Address, User, Message, selected_chat, caches, pc,
                 newName, matches, sends, crashes, phase, key, modalVars,
                 list, form, chatVars>>

\* confirm: the user in the row of the cursor, the chat that is selected now.
Confirm(m) ==
  /\ m \in ListModals /\ list[m].avail /\ Called(m, "submit")
  /\ \/ m = "add_user" /\ AddUserToSelectedChat(list[m].cursor)
     \/ m = "remove_user" /\ RemoveUserFromSelectedChat(list[m].cursor)
  /\ UpdateUsers(m)
  /\ info' = [info EXCEPT !.changed = @ \cup {<<SelectedChat, list[m].cursor>>}]
  /\ UNCHANGED <<phase, key, modalVars, form, chats_needs_update, wants_input>>

\* The INSERT breaks the primary key: the DatabaseError ends the program.
ConfirmThrows ==
  /\ list["add_user"].avail /\ Called("add_user", "submit")
  /\ ~CanAddUser(Chat_has_User, SelectedChat, list["add_user"].cursor)
  /\ Crash /\ phase' = "down"
  /\ UNCHANGED <<key, modalVars, list, form, chatVars>>

Close(m) ==
  /\ Called(m, "close")
  /\ showing' = showing \ {m}
  /\ listeners' = Closed(m)
  /\ UNCHANGED <<vars, phase, key, closeHandle, list, form,
                 chatVars>>

-----------------------------------------------------------------------------
(* update and draw.                                                        *)

\* ChatInfoScene::update reads the members when another chat is selected.
ReadOnce ==
  IF info.chat >= 0 THEN info
  ELSE [chat |-> selected_chat, members |-> members_of_chat, changed |-> {}]
ReadMembers ==
  IF info.chat = selected_chat THEN info
  ELSE [chat |-> selected_chat, changed |-> {},
        members |-> IF HasChatSelected THEN AllForChat(Chat_has_User, SelectedChat)
                    ELSE info.members]

\* The last key is handled; ChatViewScene::update fetches on the first frame.
EndPoll ==
  /\ phase = "poll"
  /\ phase' = IF wants_input THEN "write" ELSE "create_user"
  /\ chats_needs_update' = FALSE /\ info' = ReadMembers
  /\ IF chats_needs_update THEN FetchChats ELSE UNCHANGED vars
  /\ UNCHANGED <<key, todo, modalVars, list, form, wants_input>>

\* WriteMsgScene::draw, before the modals are drawn: a line is typed and goes
\* to push_message.
WriteLine ==
  /\ phase = "write" /\ PushMessage
  /\ UNCHANGED <<busVars, modalVars, list, form, chatVars>>

WriteDone ==
  /\ phase = "write" /\ SendMessage
  /\ phase' = "create_user" /\ wants_input' = FALSE
  /\ UNCHANGED <<key, todo, modalVars, list, form, chats_needs_update, info>>

Drawn(m) == phase' = IF m = "create_user" THEN "create_chat" ELSE "poll"
TakesInput(m) == phase = m /\ m \in showing /\ form[m].wants
OnButton(m) == form[m].item = Button(m)

DrawOnly(m) ==
  /\ phase = m /\ ~TakesInput(m) /\ Drawn(m)
  /\ UNCHANGED <<vars, key, todo, modalVars, list, form,
                 chatVars>>

\* confirm on a field: a line is typed, which may be empty.
TypeField(m) ==
  /\ TakesInput(m) /\ ~OnButton(m)
  /\ \E filled \in {form[m].filled \cup {form[m].item},
                    form[m].filled \ {form[m].item}} :
       form' = [form EXCEPT ![m] =
         [item |-> NextItem(m, @.item, filled), filled |-> filled,
          wants |-> FALSE]]
  /\ Drawn(m)
  /\ UNCHANGED <<vars, key, todo, modalVars, list, chatVars>>

\* confirm on the button saves, clears the fields and goes to the first.
Saved(m) == form' = [form EXCEPT ![m] = EmptyForm] /\ Drawn(m)

SaveChat ==
  /\ TakesInput("create_chat") /\ OnButton("create_chat")
  /\ \E name \in ChatName : InsertNewChat(name)
  /\ Saved("create_chat")
  /\ UNCHANGED <<key, todo, modalVars, list, chatVars>>

SaveAddress ==
  /\ TakesInput("create_user") /\ OnButton("create_user")
  /\ \E name \in UserName, address \in Addr : InsertAddress(name, address)
  /\ UNCHANGED <<phase, key, todo, modalVars, list, form, chatVars>>

SaveUser ==
  /\ TakesInput("create_user") /\ InsertUser
  /\ Saved("create_user")
  /\ UNCHANGED <<key, todo, modalVars, list, chatVars>>

-----------------------------------------------------------------------------
Keyboard == \/ \E m \in Opens : Open(m)
            \/ NextChat \/ Write
            \/ \E e \in Events : Press(e)
Dispatch == \/ EndDispatch \/ SkipRemoved \/ ConfirmThrows
            \/ \E m \in Modals :
                 \/ AskForInput(m) \/ MoveItem(m) \/ MoveRow(m) \/ NoRow(m)
                 \/ NothingToConfirm(m) \/ Confirm(m) \/ Close(m)
Draw == \/ EndPoll \/ WriteLine \/ WriteDone \/ SaveChat \/ SaveAddress \/ SaveUser
        \/ \E m \in FormModals : DrawOnly(m) \/ TypeField(m)

ViewNext == Keyboard \/ Dispatch \/ Draw

ViewSpec == ViewInit /\ [][ViewNext]_viewVars

-----------------------------------------------------------------------------
(* What the modals promise.                                                *)

Listeners == [modal : Modals \cup {"none"},
              does : {"submit", "next", "prev", "close"}]

\* Every variable of the scenes holds what the code can put there.
ViewTypeOK ==
  /\ phase \in {"poll", "dispatch", "write", "down"} \cup FormModals
  /\ key \in Events \cup {"none"} /\ todo \in Seq(Listeners)
  /\ listeners \in [Events -> Seq(Listeners)]
  /\ showing \subseteq Modals /\ closeHandle \in Listeners
  /\ \A m \in ListModals :
       /\ list[m].size \in 0 .. Len(User) /\ list[m].avail \in BOOLEAN
       /\ list[m].present \subseteq 1 .. list[m].size
       /\ list[m].cursor \in 0 .. list[m].size
  /\ \A m \in FormModals :
       /\ form[m].item \in 1 .. Button(m) /\ form[m].wants \in BOOLEAN
       /\ form[m].filled \subseteq 1 .. Fields(m)
  /\ chats_needs_update \in BOOLEAN /\ wants_input \in BOOLEAN
  /\ info.chat \in -1 .. Len(Chat) - 1 /\ info.members \subseteq DOMAIN User
  /\ info.changed \subseteq (DOMAIN Chat) \X (DOMAIN User)

\* The loops of select_next_user and select_prev_user come to an end, because
\* there is a row they stop at, and the cursor is on such a row whenever
\* confirm may be called.
CursorOnRow ==
  \A m \in ListModals :
    list[m].avail => list[m].cursor \in Rows(m, list[m])

\* A list modal, and every listener it has left on the bus, finds a chat
\* selected: draw reads the name of the chat without looking.
ListHasChat ==
  \A e \in Events : \A l \in ToSet(listeners[e]) :
    l.modal \in ListModals => selected_chat >= 0 \/ phase = "down"

\* The keys that move and submit reach a modal once while it is shown: the tab
\* keys never when it is hidden, nor enter when it is a form.
HeardOnce ==
  \A m \in Modals : \A e \in Unmounted(m) :
    LET places == {i \in DOMAIN listeners[e] :
                     listeners[e][i] = Listener(m, Does[e])}
    IN  Cardinality(places) = IF m \in showing THEN 1 ELSE 0

\* insert_new_user and insert_new_chat never get an empty field, whatever is
\* typed and wherever the cursor goes before the frame is drawn.
SavesComplete ==
  \A m \in FormModals : OnButton(m) => form[m].filled = 1 .. Fields(m)

\* What is drawn for the selected chat was read for it, whatever was selected
\* in between, and is out of date only about whom the user has added to it or
\* removed from it since: ChatInfoScene has its own copy of the members.
MembersShown ==
  phase \in FormModals \cup {"write"} /\ HasChatSelected =>
    /\ info.chat = selected_chat
    /\ \A u \in DOMAIN User :
         <<SelectedChat, u>> \notin info.changed =>
           (u \in info.members <=> <<SelectedChat, u>> \in Chat_has_User)

\* A line is stored in the chat that is shown above it, also when the chat is
\* changed between the m key and the line.
StoredWhereShown ==
  [][ Len(Message') > Len(Message) =>
        Message'[LastId(Message')].in_chat = info.chat + 1 ]_viewVars

\* Whatever the scenes do to the database and its caches is an operation of
\* AppState: what holds of AppState under any order of operations holds here.
StepsOfAppState == [][Next]_vars

\* The comment of the close listeners: when esc is pressed, the modal closes.
EscCloses ==
  [][ key = "esc" /\ phase = "dispatch" /\ phase' = "poll"
        => showing' = {} ]_viewVars

\* select_next_user and select_prev_user go to a possible user: what confirm
\* adds is not a member yet, so the INSERT does not break the primary key.
ConfirmsPossible == phase # "down"

=============================================================================
