------------------------------ MODULE NetScene ------------------------------
(***************************************************************************)
(* The networking of one TermGram process: the main thread's frame loop    *)
(* (Engine::run) as far as it touches messages, the std::async workers     *)
(* that send a message to each recipient, the list of their futures kept   *)
(* by AppState, the listener thread of NetScene and the SafeQueue between  *)
(* the listener and the main thread.  The Message table survives a crash;  *)
(* everything else is the memory of the process.                           *)
(*                                                                         *)
(* What a row holds besides its status, who the recipients are and which   *)
(* rows a received message matches are the business of module AppState:    *)
(* here they are any choice.                                               *)
(***************************************************************************)
EXTENDS Naturals, Sequences, FiniteSets, SequencesExt

CONSTANTS
  Peers,           \* the users a message can be addressed to
  MaxRows,         \* bound: rows of the Message table
  MaxAttempts,     \* bound: attempts to send in one run of the process
  MaxArrivals,     \* bound: datagrams that reach the socket
  MaxMatches,      \* bound: (user, chat) rows one received message matches
  MaxStarts,       \* bound: starts of the process
  TimeoutChoices   \* whether recv_from times out: the values SO_RCVTIMEO can take

ASSUME NetAssumption ==
  /\ IsFiniteSet(Peers)
  /\ {MaxRows, MaxAttempts, MaxArrivals, MaxMatches, MaxStarts} \subseteq Nat
  /\ TimeoutChoices \subseteq BOOLEAN

VARIABLES
  Message,      \* the table: its rows, the row id is the index
  pc,           \* where the main thread is
  running,      \* Engine: no finalize() yet
  li, ii,       \* the iterators `list` and `item` of NetScene::update
  outbound,     \* AppState::outbound_messages: lists of futures
  results,      \* the local list of send_message, while an error unwinds it
  handed,       \* finished attempts whose datagram the kernel took
  refused,      \* finished attempts whose send_to returned -1
  threw,        \* finished attempts that ended in the catch block
  listener,     \* where the listener thread is
  alive,        \* NetScene::listener_alive
  timesOut,     \* what SO_RCVTIMEO of this socket came to
  sock,         \* the socket's receive queue
  hand,         \* the datagram the listener has just received
  inbound,      \* NetScene::inbound_messages
  arrivals,     \* datagrams that have reached the socket so far
  starts,       \* starts of the process so far
  spawned       \* history: the attempts this process has started

tableVars  == <<Message>>
mainVars   == <<pc, running, li, ii>>
workerVars == <<handed, refused, threw>>
socketVars == <<listener, alive, timesOut, sock, hand, arrivals>>
listVars   == <<outbound, results>>
vars == <<tableVars, mainVars, listVars, workerVars, socketVars, inbound,
          starts, spawned>>

-----------------------------------------------------------------------------
(* Data.  An operator defined just before another with the same parameters *)
(* is a faulty variant of it, used to see that a property can fail.        *)

\* A future of send_message: the row it reports on and whom it sends to.
Attempt == Nat \X Peers

Row == [own : BOOLEAN, sent : BOOLEAN, error : BOOLEAN, from : Nat]

\* Datagrams are numbered as they arrive; one that does not fit the 64 byte
\* buffer, or is no message at all, does not unpack.
Datagram == [n : Nat, unpacks : BOOLEAN]

\* The recipients of a message in the order the database lists them.
MemberLists == {to \in SeqOf(Peers, Cardinality(Peers)) : \A i, j \in DOMAIN to : to[i] = to[j] => i = j}

OwnRow         == [own |-> TRUE, sent |-> FALSE, error |-> FALSE, from |-> 0]
ReceivedRow(n) == [own |-> FALSE, sent |-> TRUE, error |-> FALSE, from |-> n]

Finished == handed \cup refused \cup threw

InOutbound(a) ==
  \E i \in DOMAIN outbound : \E j \in DOMAIN outbound[i] : outbound[i][j] = a

\* The futures of an async wait in their destructors.
Pending == ({a \in spawned : InOutbound(a)} \cup results) \ Finished

\* ++ on an iterator of a list of n items, n+1 being end(): libstdc++ lists
\* are rings through end(), so ++ on end() yields begin().
NextItLinear(i, n) == i + 1
NextItNoEnd(i, n) == IF i >= n THEN 1 ELSE i + 1
NextIt(i, n) == IF i = n + 1 THEN 1 ELSE i + 1

SetSent(id) == [Message EXCEPT ![id].sent = TRUE]
SetError(id) == [Message EXCEPT ![id].error = TRUE]

\* The row a result goes to is the one its worker was started for, and the
\* column is chosen by whether the worker threw.
ReportAlwaysSent(a) == SetSent(a[1])
ReportBoth(a) ==
  [Message EXCEPT ![a[1]].sent = a \notin threw, ![a[1]].error = a \in threw]
Report(a) == IF a \in threw THEN SetError(a[1]) ELSE SetSent(a[1])

\* last_inserted_id() after the INSERT of the next row.
RowIdBefore == Len(Message)
RowId == Len(Message) + 1

\* The tests against end() of the two loops of NetScene::update.
StopsAtLastList == li >= Len(outbound)
ListsEnd == li = Len(outbound) + 1
StopsAtLastItem == ii >= Len(outbound[li])
ItemsEnd == ii = Len(outbound[li]) + 1

\* What is left of the lists after the items of one have been looked at.
ErasedAnyway == RemoveAt(outbound, li)
ListsLeft == IF outbound[li] = <<>> THEN RemoveAt(outbound, li) ELSE outbound

\* SafeQueue: push at the back, pop at the front.
PushFront(n) == <<n>> \o inbound
Enqueue(n) == Append(inbound, n)
FrontOnly == inbound
Dequeue == Tail(inbound)

-----------------------------------------------------------------------------
(* Start, crash.                                                           *)

Init ==
  /\ Message = <<>>
  /\ pc = "off" /\ running = FALSE /\ li = 1 /\ ii = 1
  /\ outbound = <<>> /\ results = {} /\ spawned = {}
  /\ handed = {} /\ refused = {} /\ threw = {}
  /\ listener = "off" /\ alive = FALSE /\ timesOut \in TimeoutChoices
  /\ sock = <<>> /\ hand = <<>> /\ inbound = <<>>
  /\ arrivals = 0 /\ starts = 0

Start ==
  /\ pc \in {"off", "ended"} /\ starts < MaxStarts
  /\ starts' = starts + 1
  /\ pc' = "poll" /\ running' = TRUE
  /\ listener' = "starting" /\ alive' = TRUE
  /\ UNCHANGED <<tableVars, li, ii, listVars, workerVars, timesOut, sock,
                 hand, arrivals, inbound, spawned>>

\* The process is killed: the table survives, threads and memory do not.
Crash ==
  /\ pc \notin {"off", "ended"} /\ starts < MaxStarts
  /\ pc' = "off" /\ running' = FALSE /\ li' = 1 /\ ii' = 1
  /\ outbound' = <<>> /\ results' = {} /\ spawned' = {}
  /\ listener' = "off" /\ alive' = FALSE
  /\ sock' = <<>> /\ hand' = <<>> /\ inbound' = <<>>
  /\ UNCHANGED <<tableVars, workerVars, timesOut, arrivals, starts>>

-----------------------------------------------------------------------------
(* The main thread: one frame is poll_events, NetScene::update, draw.      *)

\* poll_events: ctrl+q stops the engine; the frame still runs to its end.
Poll ==
  /\ pc = "poll"
  /\ running' \in {running, FALSE}
  /\ pc' = "outer" /\ li' = 1
  /\ UNCHANGED <<tableVars, ii, listVars, workerVars, socketVars, inbound,
                 starts, spawned>>

\* The test of the loop over the pending lists.
NextList ==
  /\ pc = "outer"
  /\ IF ListsEnd
     THEN pc' = "drain" /\ UNCHANGED ii
     ELSE pc' = "inner" /\ ii' = 1
  /\ UNCHANGED <<tableVars, running, li, listVars, workerVars, socketVars,
                 inbound, starts, spawned>>

AtItem == pc = "inner" /\ ~ItemsEnd

ItemsDone ==
  /\ pc = "inner" /\ ItemsEnd
  /\ pc' = "tail"
  /\ UNCHANGED <<tableVars, running, li, ii, listVars, workerVars, socketVars,
                 inbound, starts, spawned>>

\* is_ready says no.
SkipItem ==
  /\ AtItem /\ outbound[li][ii] \notin Finished
  /\ ii' = NextIt(ii, Len(outbound[li]))
  /\ UNCHANGED <<tableVars, pc, running, li, listVars, workerVars, socketVars,
                 inbound, starts, spawned>>

KeepItem == outbound
EraseItem == [outbound EXCEPT ![li] = RemoveAt(@, ii)]

\* The item is ready: its result goes to its row and it leaves the list;
\* erase() returns the item after it, and the loop's ++ steps over that one.
CollectItem ==
  /\ AtItem /\ outbound[li][ii] \in Finished
  /\ Message' = Report(outbound[li][ii])
  /\ outbound' = EraseItem
  /\ ii' = NextIt(ii, Len(outbound[li]) - 1)
  /\ UNCHANGED <<pc, running, li, results, workerVars, socketVars, inbound,
                 starts, spawned>>

\* The UPDATE fails: the DatabaseError leaves update() and Engine::run.  By
\* then get() has taken the result: the future it leaves in the list holds
\* nothing, waits for nothing and is not looked at again.
CollectThrows ==
  /\ AtItem /\ outbound[li][ii] \in Finished
  /\ outbound' = EraseItem
  /\ pc' = "join"
  /\ UNCHANGED <<tableVars, running, li, ii, results, workerVars, socketVars,
                 inbound, starts, spawned>>

\* After the items of a list: an empty list is erased, with the same ++.
EraseIfEmpty ==
  /\ pc = "tail"
  /\ outbound' = ListsLeft /\ li' = NextIt(li, Len(ListsLeft))
  /\ pc' = "outer"
  /\ UNCHANGED <<tableVars, running, ii, results, workerVars, socketVars,
                 inbound, starts, spawned>>

\* inbound_messages.empty(), under the queue's lock.
DequeueFirst ==
  /\ pc = "drain"
  /\ pc' = "dequeue"
  /\ UNCHANGED <<tableVars, running, li, ii, listVars, workerVars, socketVars,
                 inbound, starts, spawned>>

TestInbound ==
  /\ pc = "drain"
  /\ pc' = IF inbound = <<>> THEN "draw" ELSE "dequeue"
  /\ UNCHANGED <<tableVars, running, li, ii, listVars, workerVars, socketVars,
                 inbound, starts, spawned>>

\* dequeue() waits while the queue is empty; recv_message then inserts one
\* row for each match.  A DatabaseError of an insert is caught, so some of
\* the matches may be missing; one of the fetches after it is not.
Receive ==
  /\ pc = "dequeue" /\ inbound # <<>>
  /\ inbound' = Dequeue
  /\ \E k \in 0 .. MaxMatches :
       /\ Len(Message) + k <= MaxRows
       /\ Message' = Message \o [i \in 1 .. k |-> ReceivedRow(Head(inbound))]
  /\ pc' \in {"drain", "join"}
  /\ UNCHANGED <<running, li, ii, listVars, workerVars, socketVars, starts,
                 spawned>>

\* WriteMsgScene::draw: nothing was typed, or a line was and push_message
\* stores it and starts a worker for each recipient.  Then the loop test.
FrameEnd == pc' = IF running THEN "poll" ELSE "join"

Draw ==
  /\ pc = "draw" /\ FrameEnd
  /\ UNCHANGED <<tableVars, running, li, ii, listVars, workerVars, socketVars,
                 inbound, starts, spawned>>

\* The first workers send_message starts for the message it is given.
Futures(to) == [k \in DOMAIN to |-> <<RowId, to[k]>>]

PushMessage(to) ==
  /\ pc = "draw" /\ Len(Message) < MaxRows
  /\ Cardinality(spawned) + Len(to) <= MaxAttempts
  /\ Message' = Append(Message, OwnRow)
  /\ outbound' = Append(outbound, Futures(to))
  /\ spawned' = spawned \cup Range(Futures(to))
  /\ FrameEnd
  /\ UNCHANGED <<running, li, ii, results, workerVars, socketVars, inbound, starts>>

\* The address of the next recipient cannot be read: the row is stored and
\* some workers are under way, but their futures are not in outbound yet.
SendThrows(to) ==
  /\ pc = "draw" /\ Len(Message) < MaxRows
  /\ Len(to) < Cardinality(Peers) /\ Cardinality(spawned) + Len(to) <= MaxAttempts
  /\ Message' = Append(Message, OwnRow)
  /\ results' = Range(Futures(to)) /\ spawned' = spawned \cup results'
  /\ pc' = "unwind"
  /\ UNCHANGED <<running, li, ii, outbound, workerVars, socketVars, inbound, starts>>

\* ~list of the local results waits for these workers and drops what they say;
\* then the DatabaseError leaves draw() and Engine::run.
Unwind ==
  /\ pc = "unwind" /\ results \subseteq Finished
  /\ pc' = "join" /\ results' = {}
  /\ UNCHANGED <<tableVars, running, li, ii, outbound, workerVars, socketVars,
                 inbound, starts, spawned>>

\* A statement fails before anything is sent: one of a key's operation, or the
\* INSERT of push_message.
PushThrows ==
  /\ pc \in {"poll", "draw"} /\ pc' = "join"
  /\ UNCHANGED <<tableVars, running, li, ii, listVars, workerVars, socketVars,
                 inbound, starts, spawned>>

\* ~NetScene: join_listener, in two steps.
JoinAtOnce ==
  /\ pc = "join"
  /\ pc' = "joining"
  /\ UNCHANGED <<tableVars, running, li, ii, listVars, workerVars, socketVars,
                 inbound, starts, spawned>>

StopListener ==
  /\ pc = "join"
  /\ pc' = "joining" /\ alive' = FALSE
  /\ UNCHANGED <<tableVars, running, li, ii, listVars, workerVars, listener,
                 timesOut, sock, hand, arrivals, inbound, starts, spawned>>

JoinListener ==
  /\ pc = "joining" /\ listener = "done"
  /\ pc' = "wait" /\ inbound' = <<>>
  /\ UNCHANGED <<tableVars, running, li, ii, listVars, workerVars, socketVars,
                 starts, spawned>>

\* ~AppState: the destructor of each future waits for its worker, and the
\* results nobody has collected go with it.
DropOutbound ==
  /\ pc = "wait" /\ Pending = {}
  /\ pc' = "ended" /\ outbound' = <<>> /\ spawned' = {}
  /\ li' = 1 /\ ii' = 1
  /\ UNCHANGED <<tableVars, running, results, workerVars, socketVars, inbound, starts>>

Frame == \/ Poll \/ NextList \/ ItemsDone \/ SkipItem \/ CollectItem
         \/ CollectThrows \/ EraseIfEmpty \/ TestInbound \/ Receive
         \/ Draw \/ \E to \in MemberLists : PushMessage(to) \/ SendThrows(to)
         \/ Unwind \/ PushThrows
Quit == StopListener \/ JoinListener \/ DropOutbound

-----------------------------------------------------------------------------
(* The workers of send_message.                                            *)

\* An attempt ends in one of three ways.  Only an exception (the host does
\* not resolve) is reported: the return value of send_to is not looked at.
WorkerEnds(a) ==
  /\ a \in Pending
  /\ \/ handed' = handed \cup {a} /\ UNCHANGED <<refused, threw>>
     \/ refused' = refused \cup {a} /\ UNCHANGED <<handed, threw>>
     \/ threw' = threw \cup {a} /\ UNCHANGED <<handed, refused>>
  /\ UNCHANGED <<tableVars, mainVars, listVars, socketVars, inbound, starts,
                 spawned>>

-----------------------------------------------------------------------------
(* The listener thread and the socket.                                     *)

\* Socket, SO_RCVTIMEO, bind: tv_sec is never set, so the timeout is short
\* or endless; a port that is taken ends the thread.
Bind ==
  /\ listener = "starting"
  /\ timesOut' \in TimeoutChoices
  /\ listener' \in {"test", "done"}
  /\ UNCHANGED <<tableVars, mainVars, listVars, workerVars, alive, sock, hand,
                 arrivals, inbound, starts, spawned>>

TestAlive ==
  /\ listener = "test"
  /\ IF alive THEN listener' = "recv" /\ UNCHANGED sock
              ELSE listener' = "done" /\ sock' = <<>>
  /\ UNCHANGED <<tableVars, mainVars, listVars, workerVars, alive, timesOut,
                 hand, arrivals, inbound, starts, spawned>>

RecvFrom ==
  /\ listener = "recv" /\ sock # <<>>
  /\ hand' = <<Head(sock)>> /\ sock' = Tail(sock) /\ listener' = "got"
  /\ UNCHANGED <<tableVars, mainVars, listVars, workerVars, alive, timesOut,
                 arrivals, inbound, starts, spawned>>

RecvTimesOut ==
  /\ listener = "recv" /\ sock = <<>> /\ timesOut
  /\ listener' = "test"
  /\ UNCHANGED <<tableVars, mainVars, listVars, workerVars, alive, timesOut,
                 sock, hand, arrivals, inbound, starts, spawned>>

\* unpack, and enqueue what unpacks.
Unpack ==
  /\ listener = "got"
  /\ inbound' = IF hand[1].unpacks THEN Enqueue(hand[1].n) ELSE inbound
  /\ hand' = <<>> /\ listener' = "test"
  /\ UNCHANGED <<tableVars, mainVars, listVars, workerVars, alive, timesOut,
                 sock, arrivals, starts, spawned>>

\* The network: a datagram reaches the bound socket.
Arrive ==
  /\ listener \in {"test", "recv", "got"} /\ arrivals < MaxArrivals
  /\ arrivals' = arrivals + 1
  /\ \E u \in BOOLEAN :
       sock' = Append(sock, [n |-> arrivals + 1, unpacks |-> u])
  /\ UNCHANGED <<tableVars, mainVars, listVars, workerVars, listener, alive,
                 timesOut, hand, inbound, starts, spawned>>

Listen == Bind \/ TestAlive \/ RecvFrom \/ RecvTimesOut \/ Unpack

-----------------------------------------------------------------------------
Main == Frame \/ Quit
Worker == \E a \in Pending : WorkerEnds(a)

Next == Start \/ Crash \/ Main \/ Worker \/ Listen \/ Arrive

Spec == Init /\ [][Next]_vars

\* The main thread is scheduled and a line that is being typed is finished; a
\* worker may hang in its host lookup for ever.
MainFairSpec == Spec /\ WF_vars(Main)

\* Besides, every thread is scheduled, and host lookups and sends return;
\* nothing makes a user quit or a datagram arrive.
FairSpec == MainFairSpec /\ WF_vars(Worker) /\ WF_vars(Listen)

-----------------------------------------------------------------------------
(* What the networking promises.                                           *)

Ids == 1 .. Len(Message)

\* Every variable holds what the code can put there, and every future
\* reports on a row of the table.
TypeOK ==
  /\ Message \in Seq(Row)
  /\ pc \in {"off", "poll", "outer", "inner", "tail", "drain", "dequeue",
             "draw", "unwind", "join", "joining", "wait", "ended"}
  /\ running \in BOOLEAN /\ li \in Nat /\ ii \in Nat
  /\ outbound \in Seq(Seq(Ids \X Peers))
  /\ {handed, refused, threw, spawned, results} \subseteq SUBSET (Ids \X Peers)
  /\ listener \in {"off", "starting", "test", "recv", "got", "done"}
  /\ alive \in BOOLEAN /\ timesOut \in BOOLEAN
  /\ sock \in Seq(Datagram) /\ hand \in Seq(Datagram)
  /\ (listener = "got") <=> (Len(hand) = 1)
  /\ inbound \in Seq(Nat)
  /\ arrivals \in Nat /\ starts \in Nat

\* NetScene::update erases from the two lists it iterates over: whenever it
\* dereferences `list` or `item`, the iterator points at an element or is
\* recognised as end().
CursorOK ==
  /\ pc \in {"outer", "inner", "tail"} => li \in 1 .. Len(outbound) + 1
  /\ pc \in {"inner", "tail"} => li # Len(outbound) + 1
  /\ pc = "inner" => ii \in 1 .. Len(outbound[li]) + 1

\* The status the user sees is backed by a worker: an own row is marked sent
\* only if some send_to returned, it carries an error only if some worker
\* threw, and the rows of received messages are as recv_message stored them.
StatusSound ==
  \A id \in Ids :
    IF Message[id].own
    THEN /\ Message[id].sent => \E a \in handed \cup refused : a[1] = id
         /\ Message[id].error => \E a \in threw : a[1] = id
    ELSE Message[id].sent /\ ~Message[id].error

EngineRuns == pc \in {"poll", "outer", "inner", "tail", "drain", "dequeue", "draw"}

OnItsRow(a) ==
  \/ a \in threw /\ Message[a[1]].error
  \/ a \in handed \cup refused /\ Message[a[1]].sent

\* The attempts of this process whose result cannot come to their row any more.
Lost == {a \in spawned : ~InOutbound(a) /\ ~OnItsRow(a)}

\* No result falls between the two loops of NetScene::update: while the engine
\* runs, an attempt of this process is in the lists or has been written to its
\* own row.  A DatabaseError that ends the engine may cost the result in hand,
\* or those of the message that is being sent, but none of any other message.
NothingLost ==
  /\ EngineRuns => Lost = {}
  /\ \A a, b \in Lost : a[1] = b[1]

\* The main thread tests empty() and calls dequeue() without holding the
\* lock between the two; still it never waits on the condition variable.
NeverWaitsInDequeue == pc = "dequeue" => inbound # <<>>

\* Messages are stored in the order their datagrams arrived, through the
\* socket, the listener, the queue and the frame loop; only the rows of one
\* message share a number.
InboundOrder ==
  LET coming == inbound \o [i \in DOMAIN hand |-> hand[i].n]
                        \o [i \in DOMAIN sock |-> sock[i].n]
      received == {id \in Ids : ~Message[id].own}
  IN  /\ \A i, j \in received : i < j => Message[i].from <= Message[j].from
      /\ \A i, j \in DOMAIN coming : i < j => coming[i] < coming[j]
      /\ \A i \in received : \A j \in DOMAIN coming : Message[i].from < coming[j]

\* Without its lists and loops: each attempt is answered at most once, in its
\* own row, and forgotten only when the engine ends.
InLists == UNION {Range(outbound[i]) : i \in DOMAIN outbound}
Up == IF EngineRuns THEN "runs" ELSE IF pc \in {"off", "ended"} THEN "off" ELSE "ends"
Promise == INSTANCE Outbox WITH rows <- Message, open <- InLists, up <- Up
OutboxRefined == Promise!Spec

\* A status is final: no step, crash or restart takes back a "sent" or an
\* error, removes a row or touches the row of a received message.
StatusFinal ==
  [][ /\ Len(Message') >= Len(Message)
      /\ \A id \in Ids :
           IF Message[id].own
           THEN /\ Message'[id].own
                /\ Message[id].sent => Message'[id].sent
                /\ Message[id].error => Message'[id].error
           ELSE Message'[id] = Message[id] ]_vars

\* NetScene::update comes to an end although its loops may go round, and
\* whether or not the workers it looks at ever finish.
UpdateEnds == pc = "outer" ~> pc \notin {"outer", "inner", "tail", "drain"}

\* The finished workers are collected sooner or later, however many items the
\* loops step over, unless the process ends.
ResultsCollected ==
  LET ready == \E a \in Finished : InOutbound(a)
  IN  ready ~> (~ready \/ pc \in {"unwind", "join", "joining", "wait"})

\* An enqueued message is handled sooner or later, unless the process ends.
InboundHandled ==
  \A n \in 1 .. MaxArrivals :
    (n \in Range(inbound)) ~> (n \notin Range(inbound))

\* ctrl+q, or an error, ends the process: it joins the listener and waits
\* for the workers without getting stuck.
QuitEnds ==
  (pc # "off" /\ ~running) \/ pc \in {"unwind", "join"} ~> pc \in {"ended", "off"}

\* What the log line "ended {} with no errors" says of a message marked sent:
\* that some datagram of it was handed to the kernel.
SentWasHanded ==
  \A id \in Ids :
    Message[id].own /\ Message[id].sent => \E a \in handed : a[1] = id

=============================================================================
