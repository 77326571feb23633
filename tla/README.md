# TermGram: a verification project

TermGram is a chat program for the terminal, written in C++20. A process has
an SQLite database of its own, sends messages to other processes over UDP, one
datagram for each recipient, and receives on a UDP port of its own. This
directory holds TLA+ modules of it, the TLC configurations that check them on
small instances, and proofs about them for every value of their constants.

`PROJECT.json` lists the components, the runs, the lines of code each
definition stands for, the hazards and the findings. To repeat a check:

    tlc -workers 2 -config NetOutbound.cfg MCNetScene.tla
    tlapm NetSceneProofs.tla

## 1. The system

### Components

The program's own code is `src/src`; everything under `src/vendor` (SQLite,
sockpp, eventpp, cppack, fmt, loguru) is third party. Paths below are relative
to `src/src`.

| component | state it keeps | operations |
|---|---|---|
| AppState (`app/state.hpp`) | selected chat, copies of the chats, the users and the members of the selected chat, the pending futures | select, insert chat and user, add and remove a member, `push_message`, `recv_message`, `send_message`, status setters |
| DAOs (`dao/*.hpp`), schema (`src/res/tables-safe.sql`) | the tables Chat, Address, User, Chat_has_User, Message | the SQL statements |
| NetScene (`app/net-scene.*`) | the listener thread, `listener_alive`, the inbound queue | `mount` (starts the thread), `update` (collects results, drains the queue), `join_listener` |
| SafeQueue (`os/safe-queue.hpp`) | a deque, a mutex, a condition variable | `enqueue`, `dequeue`, `empty` |
| Engine (`eng/engine.*`) | `running`, the event bus | `run`, `poll_events`, `finalize` |
| Scene tree (`eng/*-scene.*`) | children, a mounted flag for each, the selection of a modal | `mount`, `unmount`, `update`, `draw` |
| SelectView and its modals (`app/select-view.*`, `create-*`, `*-user-*-chat-scene.*`) | which modal is open, listener handles, cursor, lists, forms | open, close, move, confirm, submit |
| ChatView, ChatInfo, Chat, WriteMsg, Sidebar, Perf scenes | a few display caches | draw, and `WriteMsg` reads a line and calls `push_message` |
| Terminal, screen (`term/*`) | termios modes and timeout, size, pixel buffer | `setc`, `hline`, `vline`, `box`, `print`, `clear`, `commit`, `update_size`, `inputline`, `readc` |
| Database connection (`db/*`) | SQLite handles | `prepare`, `execute`, `execute_many`, `last_inserted_id` |

### How they interact

* The **main thread** runs `Engine::run`: read keys and dispatch them on the
  event bus until `readc` returns 0, clear the pixel buffer, `update` the scene
  tree, `draw` it, commit, test `running`.
  NetScene's `update` and AppState's operations all happen there. A key may
  call AppState (`c` selects the next chat), and `WriteMsg::draw` waits in
  `inputline` for a whole line.
* `AppState::send_message` starts a **worker** with `std::async` for every
  recipient. It looks the host up, sends the datagram and returns an error
  string, empty for success. Its future goes to `outbound_messages`, a list of
  lists; `NetScene::update` walks both lists in each frame, writes what is
  ready to the Message table and erases it.
* The **listener** thread of NetScene waits in `recv_from`, unpacks, and
  enqueues in the SafeQueue; `update` drains the queue into
  `AppState::recv_message`, which stores a row in every chat of that name
  that has a user of that name.
* The **handler of SIGWINCH** runs on the main thread between any two of its
  instructions: it asks for the new size and resizes the pixel buffer.
* At the end the scene tree is destroyed first (`~NetScene` clears
  `listener_alive` and joins the listener) and AppState after it (the
  destructor of a future of `std::async` waits for its worker). A
  `DatabaseError` that nobody catches leaves `Engine::run`, unwinds the same
  way, and is caught in `main`.

### What is hard about it

* Three kinds of threads: workers finish while `update` is anywhere in its
  loops; the listener fills the queue while `update` drains it; `empty` and
  `dequeue` take the lock one after the other.
* `update` erases from `std::list`s while it iterates, then lets the `++` of
  the loop run on what `erase` returned. This steps over items, and past the
  end it goes round, because the lists of libstdc++ are rings.
* Nothing is a transaction: the process may be killed between any two
  statements of an operation. The schema's foreign keys are not enforced.
* Several caches of the database are refreshed by hand.
* UDP loses, duplicates and reorders; the receive buffer has 64 bytes;
  nothing is acknowledged or sent again.
* Modal dialogs share keys on one event bus, and add and remove their
  listeners by handle.
* A line is asked for while keys are polled and read while the frame is drawn;
  keys in between may have selected another chat.
* The scenes compute where to draw from a size the handler may have changed,
  elements of the pixel buffer are written unchecked, and the checks there are
  test the wrong things.
* Every read expects a mode of the terminal and a timeout that an earlier step
  has set, and `readc` returns an uninitialised char when there is no key.

### What makes each component correct

* AppState: its caches never mislead an operation; a message goes to exactly
  the members of its chat; a received message lands only where its sender is
  a member; the references between tables hold after a crash at any point.
* NetScene: its loops never dereference `end()`, and end; while the engine runs
  no result is lost, and none is ever written to another message; an error
  that ends it costs the results of one message at most; a status is never
  taken back; messages are
  stored in the order they arrived; the main thread never blocks on the
  queue; quitting comes to an end.
* SafeQueue: each element is taken once and in order, `dequeue` returns only
  with an element.
* Modals: at most one is open, a closed one does not react, the cursor is on
  a row, what is confirmed is what was shown.
* ChatInfo and WriteMsg: what is shown belongs to the chat that is selected,
  and a line goes to the chat that is shown.
* Engine: every read finds the terminal in the mode it is meant for, the size
  follows the window, ctrl+q is heard, and the shell gets its terminal back.
* Screen: no write and no read outside the buffer.
* Several processes: what is stored as received was written, to the process
  that has it, under the name it is shown with; between writing and storing
  nothing is lost but by a failure with a name.

## 2. The modules

| module | models | lines |
|---|---|---|
| `Dao` | what the SQL statements compute, as operators on tables | 46 |
| `AppState` | AppState over the tables, with crash and restart | 332 |
| `NetScene` | the frame loop as far as messages go, the workers, the listener, the queue, quitting, crash and restart | 515 |
| `Outbox` | the abstract specification of NetScene's outgoing half | 58 |
| `SelectView` | SelectViewScene, its four modals, ChatInfo, WriteMsg and the event bus, over AppState (it EXTENDS that module) | 444 |
| `TermGram` | several processes and the network between them | 308 |
| `Screen` | the elements of the pixel buffer a drawing call writes | 91 |
| `Layout` | the drawing calls of every scene | 98 |
| `Engine` | the frame loop, the keys, the terminal's modes, the buffer and the handler of SIGWINCH, over Layout and Screen | 340 |
| `MCAppState`, `MCNetScene`, `MCSelectView`, `MCTermGram`, `MCEngine` | what the runs need besides | 65 |
| `AppStateProofs`, `NetSceneProofs`, `NetOrderProofs`, `OutboxProofs`, `SelectViewProofs`, `SelectModalProofs`, `TermGramProofs`, `EngineProofs` | the theorems | 6870 |

### Dao and AppState

A table with an `INTEGER PRIMARY KEY` whose rows are never deleted is a
sequence and the row id is the index: SQLite gives a new row the largest id
plus one. `Chat_has_User`, from which rows are deleted, is a set of pairs.
Names and addresses are members of small sets. Text, colours and dates do not
occur: no decision depends on them.

`selected_chat` is the code's index, -1 for none. `chats`, `users` and
`members_of_chat` are the code's caches of those names; the last one holds
ids, as its rows are only read for the id, name and address of a user.

One action is one statement that commits, with everything that follows it up
to the next such statement: `AddUserToSelectedChat` is the INSERT and the three
fetches after it. An operation with more than one statement is several actions
linked by `pc`: `InsertAddress` then `InsertUser`; `PushMessage` (the row) then
`SendMessage` (the workers); `RecvMessage` (the query), `RecvInsert` for each
match, `RecvDone` (the fetches). `RecvDone` may come early: a DatabaseError
inside `recv_message` is caught and the rest of the matches is dropped.
`Crash` may come between any two actions; it stands for a killed process and
for a `DatabaseError` that ends the program, such as the broken primary key of
a pair that is in `Chat_has_User` already. `SetMessageStatus` is what NetScene
calls when a worker has ended. `DeselectChat` and `SelectPrevChat` are part of
the class, but no key is bound to them.

`AppState` is checked under any order of its operations. The scenes allow
fewer orders, so every safety property carries over to them.

### NetScene

`pc` is the main thread's position in a frame: `poll`, the two loops of
`update` (`outer`, `inner`, `tail`), `drain` and `dequeue`, `draw`, and the end
of the process (`unwind`, `join`, `joining`, `wait`, `ended`). `li` and `ii` are the
iterators, counted from 1, with `Len + 1` for `end()`. `NextIt` is the `++` of
libstdc++, where `++` on `end()` gives `begin()`; the standard leaves it
undefined, and this is the library the project is built with. Erasing item `i`
leaves the iterator at `i`, the item behind it.

A future is a pair of the row it reports on and the peer it sends to.
`handed`, `refused` and `threw` say how it ended: the kernel took the datagram,
`send_to` returned -1, or an exception was caught. The code sees the first two
as the same; `SentWasHanded` is about the difference. `Crash` and the end of a
process empty everything but the table.

A `DatabaseError` may leave the frame at three kinds of places, and what it
costs differs. `PushThrows`: a statement of a key's operation or the INSERT of
`push_message` fails, and nothing was sent. `SendThrows`: `with_id`
(`app/state.hpp:338`) fails for a recipient after the row was stored and after
the workers of those before it were started. Their futures are then in the
local list of `send_message`, `results`; while the stack unwinds (`Unwind`) its
destructor waits for them and drops what they say, so that the row stays
undecided. `CollectThrows`: the UPDATE of `update` fails, and `get()`
(`app/net-scene.cpp:35`) has taken the result out of its future by then, so
that it is lost too. `NothingLost` calls an attempt of this process `Lost` when it
is neither in the lists nor on its row: there is none while the engine runs
(`EngineRuns`), and after an error those there are belong to one message. In
AppState the second case is a `Crash` at `send`; in TermGram it is
a `PushMessage` and a `Stop` before the results are in.

`listener`, `alive`, `timesOut`, `sock` and `hand` are the listener and its
socket. `timesOut` is what the uninitialised `tv_sec` of the receive timeout
came to: a value in range gives a timeout, the others no usable one; the
constant `TimeoutChoices` says which are considered. `Bind` may fail (the port is taken),
which ends the thread. `sock` loses nothing: what the network does to a
datagram before the socket is not part of this module. A datagram carries a
number, in the order of arrival, and whether it unpacks.

`OutboxRefined` maps NetScene to **`Outbox`**: the table is `rows`, the futures in
the lists (`InLists`) are the open attempts, and `Up` says whether the process
is off, its engine runs, or it ends. In `Outbox` there are no lists,
iterators, workers or frames: a line becomes a row and an open attempt for each
recipient, and while the engine runs an open attempt stays until it is answered,
once and in its own row. An error that ends the engine may cost one answer
(`LoseAnswer`) or leave a row without attempts (`LoseMessage`), and what is open
when the process ends is forgotten. Every step of the loops and
of the threads must be one of these or change nothing.

AppState and NetScene meet where `PushMessage`, the receipt of a message and the
status setters are called: NetScene chooses any recipients and any number of
matches where AppState says which ones. They are not composed in one module
because no property relates the caches to the positions of the threads; the
main thread runs every operation of AppState to its end.

### SelectView

`SelectView` extends `AppState` and drives it the way the scenes do: its actions
contain AppState's. `phase` is where the frame is: `poll`, `dispatch` while the
listeners of a key run, the form that is being drawn, or `down`.

The keys several listeners share (enter, tab, shift+tab, esc) are dispatched one
callback at a time: `Press` takes the listeners that are there, `Called` is the
head of what is left if it still is in the bus, and `SkipRemoved` passes one that
another removed before its turn. This is what eventpp's callback list does with
its counters, as far as this program can tell. The keys with one listener (those
that open a modal, and `c`) are `Open` and `NextChat`.

A listener is a record of a modal and what it does. That can stand for the node
as only listeners nobody has a handle of (enter for the list modals, esc for
the remove-user modal) are in a list more than once. `showing` stands for
`should_show_modal` and `modal_mounted`, which change together. `list` is the copy of
the users a list modal holds with its cursor; `form` is the cursor of a form,
the fields that are not empty and `wants_input`. A confirm that violates the
primary key is `ConfirmThrows`, after which the process is down. A process
starts with any members in tables an earlier process left.

`info` is ChatInfoScene's copy of the members with the chat it was read for;
its field `changed` is history, the members added or removed since. The m key
sets `wants_input` (`Write`); when the frame is drawn, `WriteLine` hands the line
to AppState's `PushMessage` and `SendMessage` in the chat that is selected by
then, or nothing was typed (`WriteDone`). Lines come before the forms, in the
order in which the scenes are drawn. What NetScene does with a
message is left out here.

### TermGram

A node is a process together with the host and port it is reached at. Each has
tables, a name, and workers in `open`; `net` holds datagrams. One operation of
a process is one step here: AppState shows that its operations work on caches
that agree with the tables, and NetScene that every result comes to its own
row, so nothing is lost by taking each as a whole. `PushMessage` is the
row and the workers, `WorkerEnds` the end of one, `CollectResult` what `update`
does with it; `Receive` is everything from the socket to the rows of
`recv_message`, with the rows in any order, as SQLite may return the matches in any;
`ReceiveSome` is the same with a `DatabaseError` on the way, which is caught, and
`ReceiveTruncated` a text that does not fit the 64 bytes of the buffer. `Lose`
and `Duplicate` are the network's, which also delivers in any order. `Stop` is a
kill or a quit, `Restart` a start on the tables that were left. Memberships,
chats and users change while messages travel.

The programs cannot tell two messages of the same content apart. The `id` and
`copy` of a letter are not in the datagram; the properties need them to say
which message a datagram is of. `posted` is what was to be sent, and `lost` what
of it a failure with a name has taken: a send that was refused or threw, an end
of the process before it, the network, a text that does not fit, an author who
is no member at the receiver, an insert that fails.

### Screen, Layout and Engine

A drawing call writes one element of the pixel buffer or a line of them, so
`Writes` gives the first and the last. Indices are computed as the code does: in
64 bits that wrap, so that a negative coordinate counts back from the row,
and with the checks the code makes, which are not the ones it needs
(`ValidCoords`, `VlineWrites`, `Printed`). A loop `for (; i != end; i++)` that
starts behind its end runs away (`Runaway`). `Layout` has the calls of every
scene as a function of the size and of what there is to show: how many chats,
messages and rows of a list, which modals, whether the sidebar is shown. Texts
are `LongText` long, which is longer than any window of the instances is wide;
pixels and styles do not occur.

`pc` in `Engine` is where the main thread is: the start (`main`, `signal`, `open`,
`mount`), a frame (`test`, `poll`, `escape`, `clear`, `update`, `draw`, `line`,
`commit`) and the end (`return`, and `exited`, `aborted` or `killed`). `raw`,
`vtime` and `alternative` are the terminal; `typed` is what was typed and not
read, one member of `Keys` for a byte. `Readc` on no input leaves any value of
`EmptyRead` in its uninitialised char. After an escape up to eight bytes are
read as its sequence, whatever they are. `size` is the `Term`'s, `len` the length
of the pixel buffer, `frame` the size a frame was started with, `view` what it
shows. `winch` is where the handler of SIGWINCH is: it ignores the
signal, updates the sizes, and takes the signal again; meanwhile the main
thread stands still. `pending` and `missed` say whether a change of the window
is yet to be delivered or never will be. The steps are whole calls: the handler
inside `commit`, or inside a print, is not modelled. What a scene does with a
key or a line is in the other modules; here it may throw a `DatabaseError`, ask
for a line or show any of `Views`.

`WritesInside` is stated for screens with room for what is shown (`Fits`) that
have not shrunk since the frame began. On smaller screens and while the window
shrinks the code does write outside, as `EngineLines` shows for the separators.

## 3. The runs

| run | instance | what it shows |
|---|---|---|
| `App` | 1 chat name for 2 chats, 2 user names, 2 users, 2 messages, 2 addresses (symmetric), 1 crash; 2.1 million states | types; `CachesCoherent`; `ReferentialIntegrity` and `OrphansBounded` over a crash anywhere; `InFlight`, the facts an operation relies on between its statements; `FanOutExact`; `ReceivedFromMember`, with two chats of the same name |
| `NetOutbound` | 2 peers, 2 rows, 2 attempts in each of 2 starts; 477 000 states | `CursorOK`, `StatusSound`, `NothingLost`, `StatusFinal` with a crash, a quit or an error and a restart; `OutboxRefined`; `UpdateEnds` and `ResultsCollected` while both iterators wrap |
| `NetInbound` | 1 peer, 2 rows, 3 datagrams, up to 2 matches, the timeout works; 348 000 states | `NeverWaitsInDequeue`, `InboundOrder`; `InboundHandled`, `QuitEnds` |
| `NetQuit` | the timeout may be endless | finding: `QuitEnds` is violated |
| `NetSent` | 1 peer, 1 row | finding: `SentWasHanded` is violated |
| `ViewLists` | the list modals, 2 chats, 2 users, 1 message, 2 listeners of a key; 1.8 million states | `CursorOnRow`: the loops of the cursors end and confirm finds a row; `ListHasChat`; `MembersShown` and `StoredWhereShown`; `StepsOfAppState`: every step is one of `AppState` or leaves its state alone |
| `ViewNoRemove` | all modals but remove-user, at most 1 chat, up to 2 users, starting with neither chat nor member; 2.2 million states | `EscCloses`, `SavesComplete`, `HeardOnce`, `ConfirmsPossible` |
| `ViewEsc`, `ViewTwoChats` | 2 chats, 2 users | findings: `EscCloses`, `ConfirmsPossible` are violated |
| `TermGram` | 2 processes, each with one of two databases (the other and oneself in two chats; or under other ids, in two chats of one name and with one address for both users), 1 row each, a text that fits and one that does not, 1 duplicate or end of a process, 1 change of a table; 992 000 states | `ReceivedWasWritten`, `NothingVanishes` |
| `Engine` | windows of 0 by 0, 62 by 15 and 80 by 24, 3 views, 3 keys, 2 resizes, any uninitialised char but the end of a line; 1.3 million states | `WritesInside`, `CommitInside`, `SizeFollowsWindow`, `ModeFitsRead`, `TerminalRestored`, `QuitHonoured` |
| `EngineLines` | 80 by 23, five chats in the sidebar | finding: `LinesInside` is violated |

**Why these bounds.** A cache can go stale with two chats and two users: one
that is selected or a member and one that is not. A second crash adds another
orphan address and nothing else, and the proofs cover any number.

The loops of `update` look at no more than the item they are at, the one behind
it and `end()`. Two attempts make a list of two, so that the inner iterator
steps over an item, or two lists of one, so that the outer one does; in both
erasing the last takes `++` past `end()` and round. With two starts, rows of an
earlier process are in the table of the next. The safety properties of
`NetOutbound` are proved for any number of each. Three datagrams fill the socket,
the hand of the listener and the queue at the same time. Up to two matches make
one datagram two rows.

A leaked listener needs a modal to be shown once, and two of them a second
time, so two listeners of a key are enough for a closed modal and an
open one, or two closed ones, to hear the same key.

In `TermGram` one row at each process makes up to two letters, as a user of
one's own address may be among the recipients; one fault is a duplicate or a stop
with a worker under way, one change makes the tables disagree while a letter
travels. The proofs cover any number of processes, rows, faults and changes.

The windows of `Engine` are one that is none (a pipe), the smallest the forms
fit in and the usual one; the second resize can come while the handler is at
work on the first. Three keys are an escape, a byte of its sequence and ctrl+q.

Deadlock is checked in `App`. In the NetScene runs a
process that has ended and may not start again stops for good; in `Engine` the
process ends; in `TermGram` everything may have been sent and received; and in
the violation runs and those of SelectView the tables are full or the process
is down, so these say `CHECK_DEADLOCK FALSE`.

**Fairness.** `MainFairSpec` has weak fairness of the main thread alone: the
operating system schedules it, and a line that is being typed is finished at
some time. `NetOutbound` uses it, so that a frame ends and
finished workers are collected even while others hang in a host lookup.
`FairSpec` adds weak fairness of the workers and of the listener: a host lookup
and `send_to` return. Quitting needs it, because it waits for both. Nothing
makes the user quit, a datagram arrive or the process start or crash. Weak
fairness of `Worker` as a whole is enough because the attempts are finite in
number. `FairSpec` of `Engine` has weak fairness of the main thread and of the
handler; nobody has to type or to finish a line.

**Every property can fail.** `PROJECT.json` names a faulty variant of the code
for each property of a passing run; it stands just before the definition it
replaces (`ListsLeft` and `ErasedAnyway`, for example), and with it the run
reports the property violated.

## 4. Findings

* `NetQuit`: only `tv_usec` of the receive timeout is set, `tv_sec` is read
  uninitialised. When it comes out large, the listener waits for a datagram
  and ctrl+q hangs in `join_listener` (`app/net-scene.cpp:82`).
* `NetSent`: `send_message` ignores what `send_to` returns; a refused datagram
  ends as "sent" and is logged as "no errors" (`app/state.hpp:351`).
* `ViewEsc`: the esc listener of the remove-user modal is never removed, and runs
  before later ones; it takes the listener of the open modal off the bus, so
  that esc does not close a modal any more, no other modal opens, and only
  ctrl+q is left (`app/select-view.cpp:165`). In the shortest trace both are
  shown at once, since `any_is_open` forgets the remove-user modal and a form opens
  over it (`app/select-view.hpp:75`): one esc then leaves the form open.
  `ViewNoRemove` shows that all is well as long as that modal is not used.
* `ViewTwoChats`: the list of the add-user modal is not read again when another
  chat is selected; confirming adds a user that is a member, and the program
  ends. `ViewNoRemove` shows that with one chat it cannot happen, not even with
  the leaked listeners (`app/add-user-to-chat-scene.cpp:117`).
* `EngineLines`: `valid_coords` accepts the row and the column behind the last
  (`term/screen.hpp:220`), and `hline` then writes a whole row past the end of the
  pixel buffer: with five chats on a window of 23 rows, the separator under the
  last one does (`app/chatview-scene.cpp:50`).

Met while modelling, and part of the models, without a run of their own:

* The list modals lose the handle of their enter listener and go on acting on
  enter when they are closed (`app/add-user-to-chat-scene.cpp:46`).
* The comment in `send_message` says that nothing is sent to our own address;
  the code compares names (`app/state.hpp:335`). With its own address under
  another name, a process stores what it wrote as received.
* The slides say of a message that arrives that "o conteúdo é inserido no chat
  que possui o nome recebido" (`src/res/the-slides.md`): the code also asks that
  a user of the author's name is a member there, and drops the message if not.
* `readc` returns an uninitialised char when there is no key; if it happens to
  be ctrl+q's, the program quits on its own, and if it is never 0, a poll does not
  end (`term/term.cpp:141`).
* The comment at `eng/engine.cpp:73` says "Ctrl+Q is quit, always", but one typed
  right behind an escape is taken for a part of its sequence
  (`eng/engine.cpp:82`). `QuitHonoured` says what holds: one with no escape and
  no 0 before it in what is typed stops the engine.
* A SIGWINCH that comes while the handler runs is lost, and the size stays
  behind the window until the next (`main.cpp:63`).
* `abort()` on a database that does not open, or an exception that is no
  `DatabaseError`, leaves the terminal raw (`term/term.cpp:19`).
* `vprint` checks the size of the screen in place of the coordinates, and `vline`
  its two rows as if they were a point (`term/screen.cpp:95`, `106`).
* Our own messages have `sent_by = -1`, which the schema's foreign key forbids;
  the insert works because SQLite leaves foreign keys unenforced unless a
  pragma asks for it.

## 5. The proofs

`AppStateProofs` proves of `AppState`, from `AppAssumption` (our name is a user
name, the bounds are natural numbers), for any numbers of chats, users,
messages and crashes: `TypeOK`, `CachesCoherent`, `ReferentialIntegrity`,
`OrphansBounded`, `InFlight`, `FanOutExact` and `ReceivedFromMember`.

The invariant is `TypeOK /\ CachesCoherent /\ ReferentialIntegrity /\
OrphansBounded /\ InFlight`. `InFlight` is needed because the operations take
several steps: without "the last address is nobody's" between the inserts of
`insert_new_user`, two users might share an address row; without "the last
message lies in the selected chat" between the insert and the fan-out of
`push_message`, `CachesCoherent` says nothing about whom the message goes to;
and a report of a worker keeps `ReceivedFromMember` only if the workers belong
to rows of ours. `InFlight` is checked by `App` too. There is one lemma
per action, and one under it for each conjunct the action disturbs. The two
action properties follow from the invariant in the first state of a step.

`NetSceneProofs` proves of `NetScene`, from `NetAssumption` (finitely many
peers, the bounds are natural numbers): `TypeOK`, `CursorOK`, `StatusSound`,
`NothingLost`, `NeverWaitsInDequeue` and `StatusFinal`.

The invariant adds two conjuncts of `NetSceneProofs` to them. `OwnAttempts`: the
futures are those of attempts that were started, each for a row of ours;
without it a report might go to a received row and break `StatusSound`.
`ProcessOver`: the listener and the attempts are gone once the process is, so
that a restart does not find those of the process before. `NothingLost` is kept
by each step for one of two reasons: the step loses nothing (`NoMoreLost`: every
attempt that was in the lists or on its row still is), or it is one of the two
errors and finds nothing lost before it, as the engine ran, and loses attempts of one
row (`CollectThrowsStep`, `SendThrowsStep`). The lemmas about
`RemoveAt` say what an erased item leaves behind: every other item is kept
(`RemoveAtKeeps`) and nothing new appears (`RemoveAtFrom`).

`NetOrderProofs` proves `InboundOrder` from the same assumption. A datagram passes
four places: the socket, the hand of the listener, the queue and the table. The
property alone is not inductive: the next datagram may only be put behind the
others because every number that is anywhere has been given out (`Known`). The
rest of the invariant is the property taken apart: each place is in order, and of
each two of them what is in the one came before what is in the other, so that a
step from one place to the next has to show only what it moves.

`OutboxProofs` proves `OutboxRefined`: initial states map to initial states of
`Outbox`, and every step to one of its steps or to none. The invariant is
NetScene's with `Distinct`, that no future is in the lists twice, without which
erasing an item would not close its attempt: a new future carries the id of a new
row, and the recipients of a row are different; and with `NoListsOff`, that
there are no lists while the process is down. The errors map to `LoseAnswer`,
`LoseMessage` and `Quit`.

The same invariant gives the parts of two liveness properties that need no
fairness. `UpdateAdvances`: the loops of `update` may go round through `end()`,
but each of their steps closes an attempt, drops a list or moves an iterator on
towards `end()`, and attempts and lists are finite; so `UpdateEnds` is left with
the fairness of the main thread and the loop over the queue, which lasts as long as
datagrams come. `ShutdownAdvances`: when the listener is joined it
has been told off, each of its steps then brings it nearer to its end, and each
worker that ends is one less to wait for, those of a message that was
half sent included. `ListenerIsNeverStuck`: with
a timeout (`TimeoutChoices` at most TRUE) the listener that is joined can go on;
`NetQuit` shows that the hypothesis is needed.

`SelectViewProofs` proves of `SelectView`, from `AppAssumption` and
`ViewAssumption` (which modals are opened, the tables an earlier process left): `StepsOfAppState`, which
carries the theorems of `AppStateProofs` over to the program as it is used
(`AppStateHolds`), `ViewTypeOK`, `CursorOnRow`, `ListHasChat`, `SavesComplete`,
`MembersShown` and `StoredWhereShown`. The invariant is that of AppState
with a part for the list modals (their copies are no longer than `users`, and the
cursor is on a row if there is one), one for the forms (the cursor is on the
button only when every field is filled), one for the copy of ChatInfoScene, and
one for the bus (while no chat is selected there are only listeners of forms).
That the loops of a cursor end rests on the smallest element of a set of
naturals (`Smallest`), which is the row the loop stops at.

`SelectModalProofs` proves what depends on which listeners are on the bus while which
modals are shown. `HeardOnce` holds for any modals: a listener is on the
list of its key at exactly one place while its modal is shown and at none when it is
not (`HeardInv`), and taking off the first one found takes off that one.
`EscCloses` has the hypothesis that the remove-user modal is not
among those opened: then one modal is shown at most and esc has one listener at most, that of the modal shown,
whose handle is the one SelectView keeps (`EscInv`). `ConfirmsPossible` has the
hypothesis that there is one chat at most, and holds even with the remove-user
modal: whom the list of the add-user modal leaves out includes the members
(`AddInv`), since it is read again on whatever adds one. The violation runs `ViewEsc`
and `ViewTwoChats` show that neither hypothesis can be dropped.
That one modal is shown at most is a lemma under the first hypothesis and no
property of its own: with the remove-user modal it is false, as the trace of
`ViewEsc` shows.

`TermGramProofs` proves of `TermGram`, from `TermGramAssumption`, for any number
of processes, databases, texts and faults: `TypeOK`, `ReceivedWasWritten` and
`NothingVanishes`. The invariant adds to them that whatever a worker holds or the
network carries is `Backed`: the row it is of exists at its sender and says what
the letter says, and the user it is for has the address it goes to. Nothing can
make that untrue, as tables only grow and in a row only the status changes
(`Kept`); each action is shown to keep the tables in this sense, and the rest
follows from a few lemmas about steps that do (`OpenStep` to `VanishStep`).

`EngineProofs` proves of `Engine`, from `EngineAssumption` and
`LayoutAssumption`, for windows of any size, any views and texts of any length:
`TypeOK`, `WritesInside`, `CommitInside`, `SizeFollowsWindow`, `ModeFitsRead` and
`TerminalRestored`. The invariant says that the buffer is as long as the size
asks for whenever a step of the main thread begins, what each place of the
program expects of the terminal (`ModeInv`), and what the handler has done so far
(`WinchInv`). `WritesInside` needs for each call that its coordinates lie on the
screen; `Room` collects what `Fits` says about the thirds and quarters the scenes
compute, and there is a lemma for each scene.

**Only model-checked.** `UpdateEnds`, `ResultsCollected`, `InboundHandled`,
`QuitEnds` and `QuitHonoured`: liveness under fairness, and ENABLED with it, are out
of the prover's reach; of the first and the fourth the variants are proved. All
other properties of passing runs have a theorem. Out of reach are also facts that need
induction over data, and RECURSIVE operators; the modules have none.

## 6. What is not modelled, and the plan

In this order:

1. `SafeQueue`: enqueue and dequeue step by step with the mutex and the
   condition variable, spurious wake-ups, several producers; shown to implement
   an abstract queue that takes each element once and in order. In NetScene each
   of its operations is one step.
2. `Connection`: `execute_many` over the schema's script, the ownership of
   statement handles.
3. The handler of SIGWINCH inside a call of the screen, where it reallocates the
   buffer under an iterator.
4. Ends of the process between two statements in `TermGram`, with AppState's
   actions in place of whole operations.

Left out for good: PerfScene, whose drawing is commented out, and BoxScene,
which is never made; pixels, colours and wording; the bytes written to the
terminal; reading the schema file (`os/file.cpp`); loguru; the getters and the
queries nobody calls; the vendored libraries, of which the models have what the
code in `src/src` relies on.
