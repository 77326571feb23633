---------------------------- MODULE NetSceneProofs ----------------------------
(***************************************************************************)
(* Proofs about NetScene for every value of its constants.                 *)
(*                                                                         *)
(* The inductive invariant joins the safety invariants with two facts: a   *)
(* future kept in the lists reports on a row that was written here, not on *)
(* one that was received (OwnAttempts), and what a process has started is  *)
(* over when it is: the listener once the main thread is past joining it,  *)
(* the attempts once it has waited for them (ProcessOver).                 *)
(***************************************************************************)
EXTENDS NetScene, FiniteSetTheorems, TLAPS

OwnAttempts ==
  \A i \in DOMAIN outbound : \A j \in DOMAIN outbound[i] :
    Message[outbound[i][j][1]].own

ProcessOver ==
  /\ pc \in {"off", "wait", "ended"} => listener \in {"off", "done"}
  /\ pc \in {"off", "ended"} => spawned = {}

IInv == TypeOK /\ CursorOK /\ StatusSound /\ NothingLost
        /\ NeverWaitsInDequeue /\ OwnAttempts /\ ProcessOver

-----------------------------------------------------------------------------
(* Sequences.                                                              *)

\* erase() on a list: what is behind the erased item moves up by one.
LEMMA RemoveAtFacts ==
  ASSUME NEW S, NEW s \in Seq(S), NEW i \in 1 .. Len(s)
  PROVE  /\ RemoveAt(s, i) \in Seq(S)
         /\ Len(RemoveAt(s, i)) = Len(s) - 1
         /\ \A j \in 1 .. Len(s) - 1 :
              RemoveAt(s, i)[j] = IF j < i THEN s[j] ELSE s[j + 1]
<1> DEFINE before == SubSeq(s, 1, i - 1)
           after == SubSeq(s, i + 1, Len(s))
<1>1. Len(s) \in Nat /\ i \in Nat OBVIOUS
<1>2. /\ before \in Seq(S) /\ Len(before) = i - 1
      /\ \A j \in 1 .. i - 1 : before[j] = s[j]
  BY <1>1
<1>3. /\ after \in Seq(S) /\ Len(after) = Len(s) - i
      /\ \A j \in 1 .. Len(s) - i : after[j] = s[i + j]
  BY <1>1
<1>4. RemoveAt(s, i) = before \o after BY DEF RemoveAt
<1> HIDE DEF before, after
<1>5. RemoveAt(s, i) \in Seq(S) BY <1>2, <1>3, <1>4
<1>6. Len(RemoveAt(s, i)) = Len(s) - 1 BY <1>1, <1>2, <1>3, <1>4
<1>7. ASSUME NEW j \in 1 .. Len(s) - 1
      PROVE  RemoveAt(s, i)[j] = IF j < i THEN s[j] ELSE s[j + 1]
  <2>1. CASE j < i BY <1>1, <1>2, <1>3, <1>4, <2>1
  <2>2. CASE ~(j < i)
    <3>1. j - (i - 1) \in 1 .. Len(s) - i /\ i + (j - (i - 1)) = j + 1
      BY <1>1, <2>2
    <3>2. (before \o after)[j] = after[j - (i - 1)]
      BY <1>1, <1>2, <1>3, <2>2
    <3> QED BY <1>3, <1>4, <2>2, <3>1, <3>2
  <2> QED BY <2>1, <2>2
<1> QED BY <1>5, <1>6, <1>7

\* Every other item is still there.
LEMMA RemoveAtKeeps ==
  ASSUME NEW S, NEW s \in Seq(S), NEW i \in 1 .. Len(s),
         NEW k \in 1 .. Len(s), k # i
  PROVE  \E j \in DOMAIN RemoveAt(s, i) : RemoveAt(s, i)[j] = s[k]
<1> DEFINE r == RemoveAt(s, i)
<1>1. /\ r \in Seq(S) /\ Len(r) = Len(s) - 1
      /\ \A j \in 1 .. Len(s) - 1 : r[j] = IF j < i THEN s[j] ELSE s[j + 1]
  BY RemoveAtFacts
<1> HIDE DEF r
<1>2. DOMAIN r = 1 .. Len(s) - 1 BY <1>1
<1>3. CASE k < i
  <2>1. k \in 1 .. Len(s) - 1 BY <1>3
  <2> QED BY <1>1, <1>2, <1>3, <2>1 DEF r
<1>4. CASE k > i
  <2>1. k - 1 \in 1 .. Len(s) - 1 /\ ~(k - 1 < i) /\ (k - 1) + 1 = k BY <1>4
  <2>2. r[k - 1] = s[k] BY <1>1, <2>1
  <2> QED BY <1>2, <2>1, <2>2 DEF r
<1> QED BY <1>3, <1>4

\* And nothing new is.
LEMMA RemoveAtFrom ==
  ASSUME NEW S, NEW s \in Seq(S), NEW i \in 1 .. Len(s),
         NEW j \in DOMAIN RemoveAt(s, i)
  PROVE  \E k \in DOMAIN s : RemoveAt(s, i)[j] = s[k]
<1>1. j \in 1 .. Len(s) - 1 BY RemoveAtFacts
<1>2. j \in DOMAIN s /\ j + 1 \in DOMAIN s BY <1>1
<1> QED BY <1>1, <1>2, RemoveAtFacts

\* A sequence over a set is one over any wider set.
LEMMA SeqMonotone ==
  ASSUME NEW S, NEW T, S \subseteq T, NEW s \in Seq(S)
  PROVE  s \in Seq(T)
  OBVIOUS

\* The recipients of a message are peers.
LEMMA MemberListsType ==
  ASSUME NEW to \in MemberLists
  PROVE  to \in Seq(Peers)
<1>1. Cardinality(Peers) \in Nat BY NetAssumption, FS_CardinalityType
<1>2. to \in SeqOf(Peers, Cardinality(Peers)) BY DEF MemberLists
<1> QED BY <1>1, <1>2 DEF SeqOf

-----------------------------------------------------------------------------
(* Steps that leave the rows, the lists and the workers alone.             *)

USE DEF tableVars, mainVars, listVars, workerVars, socketVars

\* A step that loses nothing, and starts the engine only before any attempt.
LEMMA NoMoreLost ==
  ASSUME IInv, Lost' \subseteq Lost, EngineRuns' => EngineRuns \/ spawned = {}
  PROVE  NothingLost'
<1>1. spawned = {} => Lost = {} BY DEF Lost
<1> QED BY <1>1 DEF IInv, NothingLost

\* A step that touches neither rows nor lists, nor a worker.
LEMMA SameRows ==
  ASSUME IInv, UNCHANGED <<Message, outbound, workerVars, spawned>>,
         EngineRuns' => EngineRuns \/ spawned = {}
  PROVE  StatusSound' /\ NothingLost' /\ OwnAttempts' /\ Ids' = Ids
<1>1. Lost' = Lost BY DEF Lost, InOutbound, OnItsRow
<1>2. NothingLost' BY <1>1, NoMoreLost
<1> QED BY <1>2 DEF IInv, StatusSound, OwnAttempts, Ids

\* Inside the loops the iterator `list` points at a list.
LEMMA ItemsInList ==
  ASSUME IInv, pc \in {"inner", "tail"}
  PROVE  /\ Len(outbound) \in Nat /\ li \in 1 .. Len(outbound)
         /\ outbound[li] \in Seq(Ids \X Peers) /\ Len(outbound[li]) \in Nat
<1>1. outbound \in Seq(Seq(Ids \X Peers)) BY DEF IInv, TypeOK
<1>2. Len(outbound) \in Nat /\ li \in 1 .. Len(outbound)
  BY <1>1 DEF IInv, CursorOK
<1>3. outbound[li] \in Seq(Ids \X Peers) BY <1>1, <1>2
<1> QED BY <1>2, <1>3

\* The process starts with the lists as ~AppState left them: empty.
LEMMA StartStep ==
  ASSUME IInv, Start
  PROVE  IInv'
<1> USE DEF IInv, Start
<1>1. StatusSound' /\ NothingLost' /\ OwnAttempts' /\ Ids' = Ids
  BY SameRows DEF EngineRuns, ProcessOver, AtItem, FrameEnd
<1>2. TypeOK'
  <2>1. Len(hand) # 1 BY DEF TypeOK, ProcessOver
  <2> QED BY <1>1, <2>1 DEF TypeOK
<1>3. CursorOK' BY DEF TypeOK, CursorOK, FrameEnd, AtItem, ListsEnd, ItemsEnd, NextIt
<1>4. NeverWaitsInDequeue' BY DEF TypeOK, NeverWaitsInDequeue, FrameEnd
<1>5. ProcessOver' BY DEF TypeOK, ProcessOver, FrameEnd
<1> QED BY <1>1, <1>2, <1>3, <1>4, <1>5

\* poll_events.
LEMMA PollStep ==
  ASSUME IInv, Poll
  PROVE  IInv'
<1> USE DEF IInv, Poll
<1>1. StatusSound' /\ NothingLost' /\ OwnAttempts' /\ Ids' = Ids
  BY SameRows DEF EngineRuns, ProcessOver, AtItem, FrameEnd
<1>2. TypeOK' BY <1>1, NetAssumption DEF TypeOK, FrameEnd
<1>3. CursorOK' BY DEF TypeOK, CursorOK, FrameEnd, AtItem, ListsEnd, ItemsEnd, NextIt
<1>4. NeverWaitsInDequeue' BY DEF TypeOK, NeverWaitsInDequeue, FrameEnd
<1>5. ProcessOver' BY DEF TypeOK, ProcessOver, FrameEnd
<1> QED BY <1>1, <1>2, <1>3, <1>4, <1>5

\* The test of the outer loop.
LEMMA NextListStep ==
  ASSUME IInv, NextList
  PROVE  IInv'
<1> USE DEF IInv, NextList
<1>1. StatusSound' /\ NothingLost' /\ OwnAttempts' /\ Ids' = Ids
  BY SameRows DEF EngineRuns, ProcessOver, AtItem, FrameEnd
<1>2. TypeOK' BY <1>1, NetAssumption DEF TypeOK, FrameEnd
<1>3. CursorOK' BY DEF TypeOK, CursorOK, FrameEnd, AtItem, ListsEnd, ItemsEnd, NextIt
<1>4. NeverWaitsInDequeue' BY DEF TypeOK, NeverWaitsInDequeue, FrameEnd
<1>5. ProcessOver' BY DEF TypeOK, ProcessOver, FrameEnd
<1> QED BY <1>1, <1>2, <1>3, <1>4, <1>5

\* The test of the inner loop.
LEMMA ItemsDoneStep ==
  ASSUME IInv, ItemsDone
  PROVE  IInv'
<1> USE DEF IInv, ItemsDone
<1>1. StatusSound' /\ NothingLost' /\ OwnAttempts' /\ Ids' = Ids
  BY SameRows DEF EngineRuns, ProcessOver, AtItem, FrameEnd
<1>2. TypeOK' BY <1>1, NetAssumption DEF TypeOK, FrameEnd
<1>3. CursorOK' BY DEF TypeOK, CursorOK, FrameEnd, AtItem, ListsEnd, ItemsEnd, NextIt
<1>4. NeverWaitsInDequeue' BY DEF TypeOK, NeverWaitsInDequeue, FrameEnd
<1>5. ProcessOver' BY DEF TypeOK, ProcessOver, FrameEnd
<1> QED BY <1>1, <1>2, <1>3, <1>4, <1>5

\* The iterator goes on to the next item.
LEMMA SkipItemStep ==
  ASSUME IInv, SkipItem
  PROVE  IInv'
<1> USE DEF IInv, SkipItem
<1>1. StatusSound' /\ NothingLost' /\ OwnAttempts' /\ Ids' = Ids
  BY SameRows DEF EngineRuns, ProcessOver, AtItem, FrameEnd
<1>2. TypeOK'
  <2>1. ii' \in Nat
    <3>1. ii \in Nat BY DEF TypeOK
    <3> QED BY <3>1 DEF NextIt
  <2> QED BY <1>1, <2>1 DEF TypeOK, AtItem
<1>3. CursorOK'
  <2>1. Len(outbound[li]) \in Nat BY ItemsInList DEF AtItem
  <2>2. ii \in 1 .. Len(outbound[li]) BY <2>1 DEF CursorOK, AtItem, ItemsEnd
  <2> QED BY <2>1, <2>2 DEF CursorOK, AtItem, NextIt
<1>4. NeverWaitsInDequeue' BY DEF TypeOK, NeverWaitsInDequeue, FrameEnd
<1>5. ProcessOver' BY DEF TypeOK, ProcessOver, FrameEnd
<1> QED BY <1>1, <1>2, <1>3, <1>4, <1>5

\* empty() says there is a message: nobody but this thread takes one out.
LEMMA TestInboundStep ==
  ASSUME IInv, TestInbound
  PROVE  IInv'
<1> USE DEF IInv, TestInbound
<1>1. StatusSound' /\ NothingLost' /\ OwnAttempts' /\ Ids' = Ids
  BY SameRows DEF EngineRuns, ProcessOver, AtItem, FrameEnd
<1>2. TypeOK' BY <1>1, NetAssumption DEF TypeOK, FrameEnd
<1>3. CursorOK' BY DEF TypeOK, CursorOK, FrameEnd, AtItem, ListsEnd, ItemsEnd, NextIt
<1>4. NeverWaitsInDequeue' BY DEF TypeOK, NeverWaitsInDequeue, FrameEnd
<1>5. ProcessOver' BY DEF TypeOK, ProcessOver, FrameEnd
<1> QED BY <1>1, <1>2, <1>3, <1>4, <1>5

\* A frame in which nothing is typed.
LEMMA DrawStep ==
  ASSUME IInv, Draw
  PROVE  IInv'
<1> USE DEF IInv, Draw
<1>1. StatusSound' /\ NothingLost' /\ OwnAttempts' /\ Ids' = Ids
  BY SameRows DEF EngineRuns, ProcessOver, AtItem, FrameEnd
<1>2. TypeOK' BY <1>1, NetAssumption DEF TypeOK, FrameEnd
<1>3. CursorOK' BY DEF TypeOK, CursorOK, FrameEnd, AtItem, ListsEnd, ItemsEnd, NextIt
<1>4. NeverWaitsInDequeue' BY DEF TypeOK, NeverWaitsInDequeue, FrameEnd
<1>5. ProcessOver' BY DEF TypeOK, ProcessOver, FrameEnd
<1> QED BY <1>1, <1>2, <1>3, <1>4, <1>5

\* A statement throws before anything is sent.
LEMMA PushThrowsStep ==
  ASSUME IInv, PushThrows
  PROVE  IInv'
<1> USE DEF IInv, PushThrows
<1>1. StatusSound' /\ NothingLost' /\ OwnAttempts' /\ Ids' = Ids
  BY SameRows DEF EngineRuns, ProcessOver, AtItem, FrameEnd
<1>2. TypeOK' BY <1>1, NetAssumption DEF TypeOK, FrameEnd
<1>3. CursorOK' BY DEF TypeOK, CursorOK, FrameEnd, AtItem, ListsEnd, ItemsEnd, NextIt
<1>4. NeverWaitsInDequeue' BY DEF TypeOK, NeverWaitsInDequeue, FrameEnd
<1>5. ProcessOver' BY DEF TypeOK, ProcessOver, FrameEnd
<1> QED BY <1>1, <1>2, <1>3, <1>4, <1>5

\* The local list of send_message is gone.
LEMMA UnwindStep ==
  ASSUME IInv, Unwind
  PROVE  IInv'
<1> USE DEF IInv, Unwind
<1>1. StatusSound' /\ NothingLost' /\ OwnAttempts' /\ Ids' = Ids
  BY SameRows DEF EngineRuns, ProcessOver, AtItem, FrameEnd
<1>2. TypeOK' BY <1>1, NetAssumption DEF TypeOK, FrameEnd
<1>3. CursorOK' BY DEF TypeOK, CursorOK, FrameEnd, AtItem, ListsEnd, ItemsEnd, NextIt
<1>4. NeverWaitsInDequeue' BY DEF TypeOK, NeverWaitsInDequeue, FrameEnd
<1>5. ProcessOver' BY DEF TypeOK, ProcessOver, FrameEnd
<1> QED BY <1>1, <1>2, <1>3, <1>4, <1>5

\* listener_alive is cleared.
LEMMA StopListenerStep ==
  ASSUME IInv, StopListener
  PROVE  IInv'
<1> USE DEF IInv, StopListener
<1>1. StatusSound' /\ NothingLost' /\ OwnAttempts' /\ Ids' = Ids
  BY SameRows DEF EngineRuns, ProcessOver, AtItem, FrameEnd
<1>2. TypeOK' BY <1>1, NetAssumption DEF TypeOK, FrameEnd
<1>3. CursorOK' BY DEF TypeOK, CursorOK, FrameEnd, AtItem, ListsEnd, ItemsEnd, NextIt
<1>4. NeverWaitsInDequeue' BY DEF TypeOK, NeverWaitsInDequeue, FrameEnd
<1>5. ProcessOver' BY DEF TypeOK, ProcessOver, FrameEnd
<1> QED BY <1>1, <1>2, <1>3, <1>4, <1>5

\* The listener has been joined, the queue is destroyed.
LEMMA JoinListenerStep ==
  ASSUME IInv, JoinListener
  PROVE  IInv'
<1> USE DEF IInv, JoinListener
<1>1. StatusSound' /\ NothingLost' /\ OwnAttempts' /\ Ids' = Ids
  BY SameRows DEF EngineRuns, ProcessOver, AtItem, FrameEnd
<1>2. TypeOK' BY <1>1, NetAssumption DEF TypeOK, FrameEnd
<1>3. CursorOK' BY DEF TypeOK, CursorOK, FrameEnd, AtItem, ListsEnd, ItemsEnd, NextIt
<1>4. NeverWaitsInDequeue' BY DEF TypeOK, NeverWaitsInDequeue, FrameEnd
<1>5. ProcessOver' BY DEF TypeOK, ProcessOver, FrameEnd
<1> QED BY <1>1, <1>2, <1>3, <1>4, <1>5

\* The listener has its socket.
LEMMA BindStep ==
  ASSUME IInv, Bind
  PROVE  IInv'
<1> USE DEF IInv, Bind
<1>1. StatusSound' /\ NothingLost' /\ OwnAttempts' /\ Ids' = Ids
  BY SameRows DEF EngineRuns, ProcessOver, AtItem, FrameEnd
<1>2. TypeOK' BY <1>1, NetAssumption DEF TypeOK, FrameEnd
<1>3. CursorOK' BY DEF TypeOK, CursorOK, FrameEnd, AtItem, ListsEnd, ItemsEnd, NextIt
<1>4. NeverWaitsInDequeue' BY DEF TypeOK, NeverWaitsInDequeue, FrameEnd
<1>5. ProcessOver' BY DEF TypeOK, ProcessOver, FrameEnd
<1> QED BY <1>1, <1>2, <1>3, <1>4, <1>5

\* The loop of the listener.
LEMMA TestAliveStep ==
  ASSUME IInv, TestAlive
  PROVE  IInv'
<1> USE DEF IInv, TestAlive
<1>1. StatusSound' /\ NothingLost' /\ OwnAttempts' /\ Ids' = Ids
  BY SameRows DEF EngineRuns, ProcessOver, AtItem, FrameEnd
<1>2. TypeOK'
  <2>1. sock' \in Seq(Datagram)
    <3>1. CASE alive BY <3>1 DEF TypeOK
    <3>2. CASE ~alive BY <3>2
    <3> QED BY <3>1, <3>2
  <2> QED BY <1>1, <2>1 DEF TypeOK
<1>3. CursorOK' BY DEF TypeOK, CursorOK, FrameEnd, AtItem, ListsEnd, ItemsEnd, NextIt
<1>4. NeverWaitsInDequeue' BY DEF TypeOK, NeverWaitsInDequeue, FrameEnd
<1>5. ProcessOver' BY DEF TypeOK, ProcessOver, FrameEnd
<1> QED BY <1>1, <1>2, <1>3, <1>4, <1>5

\* A datagram is taken from the socket.
LEMMA RecvFromStep ==
  ASSUME IInv, RecvFrom
  PROVE  IInv'
<1> USE DEF IInv, RecvFrom
<1>1. StatusSound' /\ NothingLost' /\ OwnAttempts' /\ Ids' = Ids
  BY SameRows DEF EngineRuns, ProcessOver, AtItem, FrameEnd
<1>2. TypeOK'
  <2>1. sock \in Seq(Datagram) /\ sock # <<>> BY DEF TypeOK
  <2>2. Head(sock) \in Datagram /\ sock' \in Seq(Datagram) BY <2>1
  <2>3. hand' \in Seq(Datagram) /\ Len(hand') = 1 BY <2>2
  <2> QED BY <1>1, <2>2, <2>3 DEF TypeOK
<1>3. CursorOK' BY DEF TypeOK, CursorOK, FrameEnd, AtItem, ListsEnd, ItemsEnd, NextIt
<1>4. NeverWaitsInDequeue' BY DEF TypeOK, NeverWaitsInDequeue, FrameEnd
<1>5. ProcessOver' BY DEF TypeOK, ProcessOver, FrameEnd
<1> QED BY <1>1, <1>2, <1>3, <1>4, <1>5

\* recv_from gives up.
LEMMA RecvTimesOutStep ==
  ASSUME IInv, RecvTimesOut
  PROVE  IInv'
<1> USE DEF IInv, RecvTimesOut
<1>1. StatusSound' /\ NothingLost' /\ OwnAttempts' /\ Ids' = Ids
  BY SameRows DEF EngineRuns, ProcessOver, AtItem, FrameEnd
<1>2. TypeOK' BY <1>1, NetAssumption DEF TypeOK, FrameEnd
<1>3. CursorOK' BY DEF TypeOK, CursorOK, FrameEnd, AtItem, ListsEnd, ItemsEnd, NextIt
<1>4. NeverWaitsInDequeue' BY DEF TypeOK, NeverWaitsInDequeue, FrameEnd
<1>5. ProcessOver' BY DEF TypeOK, ProcessOver, FrameEnd
<1> QED BY <1>1, <1>2, <1>3, <1>4, <1>5

\* A message is enqueued.
LEMMA UnpackStep ==
  ASSUME IInv, Unpack
  PROVE  IInv'
<1> USE DEF IInv, Unpack
<1>1. StatusSound' /\ NothingLost' /\ OwnAttempts' /\ Ids' = Ids
  BY SameRows DEF EngineRuns, ProcessOver, AtItem, FrameEnd
<1>2. TypeOK'
  <2>1. hand[1] \in Datagram
    <3>1. hand \in Seq(Datagram) /\ Len(hand) = 1 BY DEF TypeOK
    <3>2. DOMAIN hand = 1 .. 1 BY <3>1
    <3> HIDE DEF IInv, Unpack
    <3> QED BY <3>1, <3>2
  <2>2. hand[1].n \in Nat BY <2>1 DEF Datagram
  <2>3. inbound' \in Seq(Nat) BY <2>2 DEF TypeOK, Enqueue
  <2>4. hand' \in Seq(Datagram) /\ Len(hand') = 0 OBVIOUS
  <2> QED BY <1>1, <2>3, <2>4 DEF TypeOK
<1>3. CursorOK' BY DEF TypeOK, CursorOK, FrameEnd, AtItem, ListsEnd, ItemsEnd, NextIt
<1>4. NeverWaitsInDequeue'
  <2>1. inbound # <<>> => inbound' # <<>>
    <3>1. inbound \in Seq(Nat) BY DEF TypeOK
    <3>2. CASE hand[1].unpacks
      <4>1. inbound' = Append(inbound, hand[1].n) BY <3>2 DEF Enqueue
      <4> QED BY <3>1, <4>1
    <3>3. CASE ~hand[1].unpacks BY <3>3
    <3> QED BY <3>2, <3>3
  <2> QED BY <2>1 DEF NeverWaitsInDequeue
<1>5. ProcessOver' BY DEF TypeOK, ProcessOver, FrameEnd
<1> QED BY <1>1, <1>2, <1>3, <1>4, <1>5

\* A datagram reaches the socket.
LEMMA ArriveStep ==
  ASSUME IInv, Arrive
  PROVE  IInv'
<1> USE DEF IInv, Arrive
<1>1. StatusSound' /\ NothingLost' /\ OwnAttempts' /\ Ids' = Ids
  BY SameRows DEF EngineRuns, ProcessOver, AtItem, FrameEnd
<1>2. TypeOK' BY <1>1, NetAssumption DEF TypeOK, Datagram, FrameEnd
<1>3. CursorOK' BY DEF TypeOK, CursorOK, FrameEnd, AtItem, ListsEnd, ItemsEnd, NextIt
<1>4. NeverWaitsInDequeue' BY DEF TypeOK, NeverWaitsInDequeue, FrameEnd
<1>5. ProcessOver' BY DEF TypeOK, ProcessOver, FrameEnd
<1> QED BY <1>1, <1>2, <1>3, <1>4, <1>5

-----------------------------------------------------------------------------
(* Steps that change the rows, the lists or the workers.                   *)

\* The process is killed.
LEMMA CrashStep ==
  ASSUME IInv, Crash
  PROVE  IInv'
<1> USE DEF IInv, Crash
<1>1. Ids' = Ids BY DEF Ids
<1>2. TypeOK'
  <2>1. /\ outbound' \in Seq(Seq(Ids' \X Peers)) /\ sock' \in Seq(Datagram)
        /\ hand' \in Seq(Datagram) /\ inbound' \in Seq(Nat) /\ Len(hand') = 0
    OBVIOUS
  <2>2. {handed', refused', threw', spawned', results'} \subseteq SUBSET (Ids' \X Peers)
    BY <1>1 DEF TypeOK
  <2>3. ~(listener' = "got") /\ ~(Len(hand') = 1) BY <2>1
  <2>4. /\ Message' \in Seq(Row) /\ pc' = "off" /\ running' \in BOOLEAN
        /\ li' \in Nat /\ ii' \in Nat /\ listener' = "off"
        /\ alive' \in BOOLEAN /\ timesOut' \in BOOLEAN
        /\ arrivals' \in Nat /\ starts' \in Nat
    BY DEF TypeOK
  <2> QED BY <2>1, <2>2, <2>3, <2>4 DEF TypeOK
<1>3. StatusSound' /\ OwnAttempts' BY <1>1 DEF StatusSound, OwnAttempts
<1>5. NothingLost' BY DEF NothingLost, Lost
<1>4. CursorOK' /\ NeverWaitsInDequeue' /\ ProcessOver'
  BY DEF CursorOK, NeverWaitsInDequeue, ProcessOver
<1> QED BY <1>2, <1>3, <1>4, <1>5

\* ~AppState: the results nobody has collected are gone.
LEMMA DropOutboundStep ==
  ASSUME IInv, DropOutbound
  PROVE  IInv'
<1> USE DEF IInv, DropOutbound
<1>1. Ids' = Ids BY DEF Ids
<1>2. TypeOK' BY <1>1 DEF TypeOK
<1>3. StatusSound' /\ OwnAttempts' BY <1>1 DEF StatusSound, OwnAttempts
<1>5. NothingLost' BY DEF NothingLost, Lost
<1>4. CursorOK' /\ NeverWaitsInDequeue' /\ ProcessOver'
  BY DEF CursorOK, NeverWaitsInDequeue, ProcessOver
<1> QED BY <1>2, <1>3, <1>4, <1>5

\* A worker ends: what was handed over or thrown stays so.
LEMMA WorkerEndsStep ==
  ASSUME IInv, NEW a \in Pending, WorkerEnds(a)
  PROVE  IInv'
<1> USE DEF IInv, WorkerEnds
<1>1. Ids' = Ids BY DEF Ids
<1>2. a \in Ids \X Peers BY DEF TypeOK, Pending
<1>3. /\ handed \subseteq handed' /\ refused \subseteq refused'
      /\ threw \subseteq threw'
  OBVIOUS
<1>4. TypeOK' BY <1>1, <1>2 DEF TypeOK
<1>5. StatusSound' BY <1>1, <1>3 DEF StatusSound
<1>6. NothingLost'
  <2>1. Lost' \subseteq Lost BY <1>3 DEF Lost, InOutbound, OnItsRow
  <2> QED BY <2>1, NoMoreLost DEF EngineRuns
<1>7. OwnAttempts' /\ CursorOK' /\ NeverWaitsInDequeue' /\ ProcessOver'
  BY DEF OwnAttempts, CursorOK, NeverWaitsInDequeue, ProcessOver
<1> QED BY <1>4, <1>5, <1>6, <1>7

\* The UPDATE of a status: one column of one row becomes true.
LEMMA ReportFacts ==
  ASSUME Message \in Seq(Row), NEW a \in Ids \X Peers, Message' = Report(a)
  PROVE  /\ Message' \in Seq(Row) /\ Ids' = Ids
         /\ \A id \in Ids :
              /\ Message'[id].own = Message[id].own
              /\ id # a[1] => Message'[id] = Message[id]
              /\ Message[id].sent => Message'[id].sent
              /\ Message[id].error => Message'[id].error
         /\ a \in threw => /\ Message'[a[1]].error
                           /\ Message'[a[1]].sent = Message[a[1]].sent
         /\ a \notin threw => /\ Message'[a[1]].sent
                              /\ Message'[a[1]].error = Message[a[1]].error
<1> DEFINE id == a[1]
<1>1. id \in Ids /\ Ids = DOMAIN Message /\ Message[id] \in Row BY DEF Ids
<1>2. CASE a \in threw
  <2> DEFINE row == [Message[id] EXCEPT !.error = TRUE]
  <2>1. Message' = [Message EXCEPT ![id] = row] BY <1>2 DEF Report, SetError
  <2>2. /\ row \in Row /\ row.own = Message[id].own
        /\ row.sent = Message[id].sent /\ row.error
    BY <1>1 DEF Row
  <2> HIDE DEF row
  <2>3. /\ Message' \in Seq(Row) /\ Ids' = Ids /\ Message'[id] = row
        /\ \A k \in Ids : k # id => Message'[k] = Message[k]
    BY <1>1, <2>1, <2>2 DEF Ids
  <2> QED BY <1>1, <1>2, <2>2, <2>3
<1>3. CASE a \notin threw
  <2> DEFINE row == [Message[id] EXCEPT !.sent = TRUE]
  <2>1. Message' = [Message EXCEPT ![id] = row] BY <1>3 DEF Report, SetSent
  <2>2. /\ row \in Row /\ row.own = Message[id].own
        /\ row.error = Message[id].error /\ row.sent
    BY <1>1 DEF Row
  <2> HIDE DEF row
  <2>3. /\ Message' \in Seq(Row) /\ Ids' = Ids /\ Message'[id] = row
        /\ \A k \in Ids : k # id => Message'[k] = Message[k]
    BY <1>1, <2>1, <2>2 DEF Ids
  <2> QED BY <1>1, <1>3, <2>2, <2>3
<1> QED BY <1>2, <1>3

\* The item that is collected, and the lists without it.
LEMMA CollectFacts ==
  ASSUME IInv, AtItem, outbound' = EraseItem
  PROVE  /\ li \in 1 .. Len(outbound) /\ ii \in 1 .. Len(outbound[li])
         /\ outbound[li] \in Seq(Ids \X Peers)
         /\ outbound[li][ii] \in Ids \X Peers
         /\ Message[outbound[li][ii][1]].own
         /\ outbound' \in Seq(Seq(Ids \X Peers))
         /\ Len(outbound') = Len(outbound)
         /\ outbound'[li] = RemoveAt(outbound[li], ii)
         /\ \A k \in 1 .. Len(outbound) : k # li => outbound'[k] = outbound[k]
<1>1. /\ Len(outbound) \in Nat /\ li \in 1 .. Len(outbound)
      /\ outbound[li] \in Seq(Ids \X Peers) /\ Len(outbound[li]) \in Nat
  BY ItemsInList DEF AtItem
<1>2. ii \in 1 .. Len(outbound[li])
  BY <1>1 DEF IInv, CursorOK, AtItem, ItemsEnd
<1>3. outbound[li][ii] \in Ids \X Peers BY <1>1, <1>2
<1>4. outbound \in Seq(Seq(Ids \X Peers)) BY DEF IInv, TypeOK
<1>5. Message[outbound[li][ii][1]].own
  BY <1>1, <1>2, <1>4 DEF IInv, OwnAttempts
<1> DEFINE rest == RemoveAt(outbound[li], ii)
<1>6. outbound' = [outbound EXCEPT ![li] = rest] BY DEF EraseItem
<1>7. rest \in Seq(Ids \X Peers) BY <1>1, <1>2, RemoveAtFacts
<1> HIDE DEF rest
<1>8. /\ outbound' \in Seq(Seq(Ids \X Peers)) /\ Len(outbound') = Len(outbound)
      /\ outbound'[li] = rest
      /\ \A k \in 1 .. Len(outbound) : k # li => outbound'[k] = outbound[k]
  BY <1>1, <1>4, <1>6, <1>7
<1> QED BY <1>1, <1>2, <1>3, <1>5, <1>8 DEF rest

\* Every attempt but the collected one is still in the lists.
LEMMA CollectKeeps ==
  ASSUME IInv, AtItem, outbound' = EraseItem,
         NEW b, InOutbound(b), b # outbound[li][ii]
  PROVE  InOutbound(b)'
<1>1. /\ li \in 1 .. Len(outbound) /\ ii \in 1 .. Len(outbound[li])
      /\ outbound[li] \in Seq(Ids \X Peers)
      /\ Len(outbound') = Len(outbound)
      /\ outbound'[li] = RemoveAt(outbound[li], ii)
      /\ \A k \in 1 .. Len(outbound) : k # li => outbound'[k] = outbound[k]
      /\ outbound' \in Seq(Seq(Ids \X Peers))
  BY CollectFacts
<1>2. outbound \in Seq(Seq(Ids \X Peers)) BY DEF IInv, TypeOK
<1>3. /\ DOMAIN outbound = 1 .. Len(outbound)
      /\ DOMAIN outbound' = 1 .. Len(outbound)
  BY <1>1, <1>2
<1>4. PICK i \in DOMAIN outbound : \E j \in DOMAIN outbound[i] : outbound[i][j] = b
  BY DEF InOutbound
<1> PICK j \in DOMAIN outbound[i] : outbound[i][j] = b
  BY <1>4
<1>5. CASE i # li
  <2>1. outbound'[i] = outbound[i] BY <1>1, <1>3, <1>5
  <2> QED BY <1>3, <1>4, <2>1 DEF InOutbound
<1>6. CASE i = li
  <2>1. j \in 1 .. Len(outbound[li]) /\ j # ii BY <1>1, <1>4, <1>6
  <2>2. \E k \in DOMAIN outbound'[li] : outbound'[li][k] = outbound[li][j]
    BY <1>1, <2>1, RemoveAtKeeps, SMTT(30)
  <2> QED BY <1>1, <1>3, <1>4, <1>6, <2>2 DEF InOutbound
<1> QED BY <1>5, <1>6

\* And nothing else is.
LEMMA CollectFrom ==
  ASSUME IInv, AtItem, outbound' = EraseItem,
         NEW i \in DOMAIN outbound', NEW j \in DOMAIN outbound'[i]
  PROVE  /\ i \in DOMAIN outbound
         /\ \E k \in DOMAIN outbound[i] : outbound'[i][j] = outbound[i][k]
<1>1. /\ li \in 1 .. Len(outbound) /\ ii \in 1 .. Len(outbound[li])
      /\ outbound[li] \in Seq(Ids \X Peers)
      /\ Len(outbound') = Len(outbound)
      /\ outbound'[li] = RemoveAt(outbound[li], ii)
      /\ \A k \in 1 .. Len(outbound) : k # li => outbound'[k] = outbound[k]
      /\ outbound' \in Seq(Seq(Ids \X Peers))
  BY CollectFacts
<1>2. outbound \in Seq(Seq(Ids \X Peers)) BY DEF IInv, TypeOK
<1>3. i \in DOMAIN outbound /\ i \in 1 .. Len(outbound) BY <1>1, <1>2
<1>4. CASE i # li
  <2>1. outbound'[i] = outbound[i] BY <1>1, <1>2, <1>3, <1>4
  <2> QED BY <1>3, <2>1
<1>5. CASE i = li
  <2>1. j \in DOMAIN RemoveAt(outbound[li], ii) BY <1>1, <1>5
  <2>2. \E k \in DOMAIN outbound[li] : RemoveAt(outbound[li], ii)[j] = outbound[li][k]
    BY <1>1, <2>1, RemoveAtFrom
  <2> QED BY <1>1, <1>3, <1>5, <2>2
<1> QED BY <1>3, <1>4, <1>5

\* A result is collected.
LEMMA CollectItemStep ==
  ASSUME IInv, CollectItem
  PROVE  IInv'
<1> DEFINE a == outbound[li][ii]
<1>1. /\ li \in 1 .. Len(outbound) /\ ii \in 1 .. Len(outbound[li])
      /\ outbound[li] \in Seq(Ids \X Peers)
      /\ a \in Ids \X Peers /\ a \in Finished /\ Message[a[1]].own
      /\ Message' = Report(a)
      /\ outbound' \in Seq(Seq(Ids \X Peers))
      /\ Len(outbound') = Len(outbound)
      /\ outbound'[li] = RemoveAt(outbound[li], ii)
  BY CollectFacts DEF CollectItem
<1>2. \A b : InOutbound(b) /\ b # a => InOutbound(b)'
  BY CollectKeeps DEF CollectItem
<1>3. \A i \in DOMAIN outbound' : \A j \in DOMAIN outbound'[i] :
        /\ i \in DOMAIN outbound
        /\ \E k \in DOMAIN outbound[i] : outbound'[i][j] = outbound[i][k]
  BY CollectFrom DEF CollectItem
<1> HIDE DEF a
<1>4. Message \in Seq(Row) BY DEF IInv, TypeOK
<1>5. /\ Message' \in Seq(Row) /\ Ids' = Ids
      /\ \A id \in Ids :
           /\ Message'[id].own = Message[id].own
           /\ id # a[1] => Message'[id] = Message[id]
           /\ Message[id].sent => Message'[id].sent
           /\ Message[id].error => Message'[id].error
      /\ a \in threw => /\ Message'[a[1]].error
                        /\ Message'[a[1]].sent = Message[a[1]].sent
      /\ a \notin threw => /\ Message'[a[1]].sent
                           /\ Message'[a[1]].error = Message[a[1]].error
  BY <1>1, <1>4, ReportFacts
<1>6. /\ handed' = handed /\ refused' = refused /\ threw' = threw
      /\ spawned' = spawned /\ pc' = pc /\ li' = li /\ inbound' = inbound
      /\ running' = running /\ UNCHANGED socketVars /\ starts' = starts
      /\ results' = results /\ pc = "inner"
  BY DEF CollectItem, AtItem
<1>7. ii' \in 1 .. Len(outbound'[li])  + 1
  <2>1. Len(RemoveAt(outbound[li], ii)) = Len(outbound[li]) - 1
    <3> DEFINE items == outbound[li]
    <3>1. items \in Seq(Ids \X Peers) /\ ii \in 1 .. Len(items) BY <1>1
    <3> HIDE DEF items
    <3>2. Len(RemoveAt(items, ii)) = Len(items) - 1 BY <3>1, RemoveAtFacts
    <3> QED BY <3>2 DEF items
  <2>2. Len(outbound[li]) \in Nat BY <1>1
  <2>3. ii' = NextIt(ii, Len(outbound[li]) - 1) BY DEF CollectItem
  <2>4. ii' \in 1 .. Len(outbound[li]) BY <1>1, <2>2, <2>3 DEF NextIt
  <2> QED BY <1>1, <2>1, <2>2, <2>4
<1>8. TypeOK'
  <2>1. ii' \in Nat BY <1>7
  <2> QED BY <1>1, <1>5, <1>6, <2>1 DEF IInv, TypeOK
<1>9. CursorOK'
  <2>1. li # Len(outbound) + 1 BY <1>6 DEF IInv, CursorOK
  <2> QED BY <1>1, <1>6, <1>7, <2>1 DEF CursorOK
<1>10. StatusSound'
  <2> SUFFICES ASSUME NEW id \in Ids
               PROVE  IF Message'[id].own
                      THEN /\ Message'[id].sent =>
                                \E b \in handed \cup refused : b[1] = id
                           /\ Message'[id].error => \E b \in threw : b[1] = id
                      ELSE Message'[id].sent /\ ~Message'[id].error
    BY <1>5, <1>6 DEF StatusSound
  <2>1. IF Message[id].own
        THEN /\ Message[id].sent => \E b \in handed \cup refused : b[1] = id
             /\ Message[id].error => \E b \in threw : b[1] = id
        ELSE Message[id].sent /\ ~Message[id].error
    BY DEF IInv, StatusSound
  <2>2. CASE id # a[1]
    <3>1. Message'[id] = Message[id] BY <1>5, <2>2
    <3> QED BY <2>1, <3>1
  <2>3. CASE id = a[1]
    <3>1. Message'[id].own /\ Message[id].own BY <1>1, <1>5, <2>3
    <3>2. CASE a \in threw BY <1>5, <2>1, <2>3, <3>1, <3>2
    <3>3. CASE a \notin threw
      <4>1. a \in handed \cup refused BY <1>1, <3>3 DEF Finished
      <4> QED BY <1>5, <2>1, <2>3, <3>1, <3>3, <4>1
    <3> QED BY <3>2, <3>3
  <2> QED BY <2>2, <2>3
<1>11. NothingLost'
  <2>1. ASSUME NEW b \in Lost' PROVE b \in Lost
    <3>1. b \in spawned /\ ~InOutbound(b)' /\ ~OnItsRow(b)'
      BY <1>6 DEF Lost
    <3>2. ASSUME b = a PROVE FALSE
      <4>1. b \in threw \/ b \in handed \cup refused BY <1>1, <3>2 DEF Finished
      <4>2. b \in threw => Message'[b[1]].error BY <1>5, <3>2
      <4>3. b \notin threw => Message'[b[1]].sent BY <1>5, <3>2
      <4>4. OnItsRow(b)' BY <1>6, <4>1, <4>2, <4>3 DEF OnItsRow
      <4> QED BY <3>1, <4>4
    <3>3. ~InOutbound(b) BY <1>2, <3>1, <3>2
    <3>4. b[1] \in Ids BY <3>1 DEF IInv, TypeOK
    <3>5. ~OnItsRow(b) BY <1>5, <1>6, <3>1, <3>4 DEF OnItsRow
    <3> QED BY <3>1, <3>3, <3>5 DEF Lost
  <2> QED BY <1>6, <2>1, NoMoreLost DEF EngineRuns
<1>12. OwnAttempts'
  <2> SUFFICES ASSUME NEW i \in DOMAIN outbound', NEW j \in DOMAIN outbound'[i]
               PROVE  Message'[outbound'[i][j][1]].own
    BY DEF OwnAttempts
  <2>1. PICK k \in DOMAIN outbound[i] : outbound'[i][j] = outbound[i][k]
    BY <1>3
  <2>2. i \in DOMAIN outbound BY <1>3
  <2>3. Message[outbound[i][k][1]].own BY <2>2 DEF IInv, OwnAttempts
  <2>4. outbound[i][k][1] \in Ids BY <2>2 DEF IInv, TypeOK
  <2> QED BY <1>5, <2>1, <2>3, <2>4
<1>13. NeverWaitsInDequeue' /\ ProcessOver'
  BY <1>6 DEF IInv, NeverWaitsInDequeue, ProcessOver
<1> QED BY <1>8, <1>9, <1>10, <1>11, <1>12, <1>13 DEF IInv

\* The UPDATE of the status throws: only the result in hand is lost.
LEMMA CollectThrowsStep ==
  ASSUME IInv, CollectThrows
  PROVE  IInv'
<1> DEFINE a == outbound[li][ii]
<1>1. outbound' \in Seq(Seq(Ids \X Peers))
  BY CollectFacts DEF CollectThrows
<1>2. \A b : InOutbound(b) /\ b # a => InOutbound(b)'
  BY CollectKeeps DEF CollectThrows
<1>3. \A i \in DOMAIN outbound' : \A j \in DOMAIN outbound'[i] :
        /\ i \in DOMAIN outbound
        /\ \E k \in DOMAIN outbound[i] : outbound'[i][j] = outbound[i][k]
  BY CollectFrom DEF CollectThrows
<1> HIDE DEF a
<1>4. /\ UNCHANGED <<Message, running, li, ii, results, workerVars, socketVars,
                     inbound, starts, spawned>>
      /\ pc = "inner" /\ pc' = "join"
  BY DEF CollectThrows, AtItem
<1>5. Ids' = Ids BY <1>4 DEF Ids
<1>6. TypeOK' BY <1>1, <1>4, <1>5 DEF IInv, TypeOK
<1>7. StatusSound' BY <1>4, <1>5 DEF IInv, StatusSound
<1>8. NothingLost'
  <2>1. Lost = {} BY <1>4 DEF IInv, NothingLost, EngineRuns
  <2>2. ASSUME NEW b \in Lost' PROVE b = a
    BY <1>2, <1>4, <2>1 DEF Lost, OnItsRow
  <2>3. ~EngineRuns' BY <1>4 DEF EngineRuns
  <2> QED BY <2>2, <2>3 DEF NothingLost
<1>9. OwnAttempts' BY <1>3, <1>4 DEF IInv, OwnAttempts
<1>10. CursorOK' /\ NeverWaitsInDequeue' /\ ProcessOver'
  BY <1>4 DEF CursorOK, NeverWaitsInDequeue, ProcessOver
<1> QED BY <1>6, <1>7, <1>8, <1>9, <1>10 DEF IInv

\* The lists after the items of one have been looked at.
LEMMA EraseFacts ==
  ASSUME IInv, EraseIfEmpty
  PROVE  /\ outbound' \in Seq(Seq(Ids \X Peers))
         /\ li' \in 1 .. Len(outbound') + 1
         /\ \A b : InOutbound(b) => InOutbound(b)'
         /\ \A i \in DOMAIN outbound' :
              \E k \in DOMAIN outbound : outbound'[i] = outbound[k]
<1>1. /\ Len(outbound) \in Nat /\ li \in 1 .. Len(outbound)
      /\ outbound \in Seq(Seq(Ids \X Peers))
  BY ItemsInList DEF EraseIfEmpty, IInv, TypeOK
<1>2. CASE outbound[li] = <<>>
  <2>1. outbound' = RemoveAt(outbound, li) /\ li' = NextIt(li, Len(outbound'))
    BY <1>2 DEF EraseIfEmpty, ListsLeft
  <2>2. outbound' \in Seq(Seq(Ids \X Peers)) /\ Len(outbound') = Len(outbound) - 1
    BY <1>1, <2>1, RemoveAtFacts
  <2>3. li' \in 1 .. Len(outbound') + 1 BY <1>1, <2>1, <2>2 DEF NextIt
  <2>4. ASSUME NEW b, InOutbound(b) PROVE InOutbound(b)'
    <3>1. PICK i \in DOMAIN outbound : \E j \in DOMAIN outbound[i] : outbound[i][j] = b
      BY <2>4 DEF InOutbound
    <3>2. i \in 1 .. Len(outbound) BY <1>1
    <3>3. i # li BY <1>2, <3>1
    <3>4. \E k \in DOMAIN outbound' : outbound'[k] = outbound[i]
      BY <1>1, <2>1, <3>2, <3>3, RemoveAtKeeps
    <3> QED BY <3>1, <3>4 DEF InOutbound
  <2>5. \A i \in DOMAIN outbound' :
          \E k \in DOMAIN outbound : outbound'[i] = outbound[k]
    BY <1>1, <2>1, RemoveAtFrom
  <2> QED BY <2>2, <2>3, <2>4, <2>5
<1>3. CASE outbound[li] # <<>>
  <2>1. outbound' = outbound /\ li' = NextIt(li, Len(outbound))
    BY <1>3 DEF EraseIfEmpty, ListsLeft
  <2>2. li' \in 1 .. Len(outbound') + 1 BY <1>1, <2>1 DEF NextIt
  <2> QED BY <1>1, <2>1, <2>2 DEF InOutbound
<1> QED BY <1>2, <1>3

\* A list is erased, if it is empty.
LEMMA EraseIfEmptyStep ==
  ASSUME IInv, EraseIfEmpty
  PROVE  IInv'
<1>1. /\ outbound' \in Seq(Seq(Ids \X Peers))
      /\ li' \in 1 .. Len(outbound') + 1
      /\ \A b : InOutbound(b) => InOutbound(b)'
      /\ \A i \in DOMAIN outbound' :
           \E k \in DOMAIN outbound : outbound'[i] = outbound[k]
  BY EraseFacts
<1>2. /\ UNCHANGED <<Message, running, ii, results, workerVars, socketVars,
                     inbound, starts, spawned>>
      /\ pc = "tail" /\ pc' = "outer"
  BY DEF EraseIfEmpty
<1>3. Ids' = Ids BY <1>2 DEF Ids
<1>4. TypeOK'
  <2>1. li' \in Nat BY <1>1
  <2> QED BY <1>1, <1>2, <1>3, <2>1 DEF IInv, TypeOK
<1>5. CursorOK' BY <1>1, <1>2 DEF CursorOK
<1>6. StatusSound' BY <1>2, <1>3 DEF IInv, StatusSound
<1>7. NothingLost'
  <2>1. Lost' \subseteq Lost BY <1>1, <1>2 DEF Lost, OnItsRow
  <2> QED BY <1>2, <2>1, NoMoreLost DEF EngineRuns
<1>8. OwnAttempts'
  <2> SUFFICES ASSUME NEW i \in DOMAIN outbound', NEW j \in DOMAIN outbound'[i]
               PROVE  Message[outbound'[i][j][1]].own
    BY <1>2 DEF OwnAttempts
  <2>1. PICK k \in DOMAIN outbound : outbound'[i] = outbound[k] BY <1>1
  <2> QED BY <2>1 DEF IInv, OwnAttempts
<1>9. NeverWaitsInDequeue' /\ ProcessOver'
  BY <1>2 DEF NeverWaitsInDequeue, ProcessOver
<1> QED BY <1>4, <1>5, <1>6, <1>7, <1>8, <1>9 DEF IInv

\* The rows after the inserts of recv_message.
LEMMA ReceiveFacts ==
  ASSUME IInv, Receive
  PROVE  /\ Message' \in Seq(Row) /\ Ids \subseteq Ids'
         /\ Len(Message') >= Len(Message)
         /\ \A id \in Ids : Message'[id] = Message[id]
         /\ \A id \in Ids' \ Ids : /\ ~Message'[id].own
                                   /\ Message'[id].sent /\ ~Message'[id].error
                                   /\ Message'[id].from = Head(inbound)
         /\ inbound' \in Seq(Nat)
<1>1. Message \in Seq(Row) /\ Len(Message) \in Nat BY DEF IInv, TypeOK
<1>2. inbound \in Seq(Nat) /\ inbound # <<>> BY DEF IInv, TypeOK, Receive
<1>3. Head(inbound) \in Nat /\ Tail(inbound) \in Seq(Nat) BY <1>2
<1> DEFINE row == ReceivedRow(Head(inbound))
<1>4. /\ row \in Row /\ row.own = FALSE /\ row.sent = TRUE /\ row.error = FALSE
      /\ row.from = Head(inbound)
  BY <1>3 DEF ReceivedRow, Row
<1>5. PICK k \in 0 .. MaxMatches : Message' = Message \o [i \in 1 .. k |-> row]
  BY DEF Receive
<1> HIDE DEF row
<1>6. k \in Nat BY NetAssumption
<1> DEFINE new == [i \in 1 .. k |-> row]
<1>7. new \in Seq(Row) /\ Len(new) = k /\ \A i \in 1 .. k : new[i] = row
  BY <1>4, <1>6
<1>8. Message' = Message \o new BY <1>5
<1> HIDE DEF new
<1>9. /\ Message' \in Seq(Row) /\ Len(Message') = Len(Message) + k
      /\ \A i \in 1 .. Len(Message) : Message'[i] = Message[i]
  <2>1. Message \in Seq(Row) /\ new \in Seq(Row) /\ Len(new) = k BY <1>1, <1>7
  <2> HIDE DEF Row
  <2>2. Message \o new \in Seq(Row) BY <2>1
  <2>3. Len(Message \o new) = Len(Message) + k BY <2>1
  <2>4. \A i \in 1 .. Len(Message) : (Message \o new)[i] = Message[i] BY <2>1
  <2> QED BY <1>8, <2>2, <2>3, <2>4
<1>10. ASSUME NEW id \in Ids' \ Ids PROVE Message'[id] = row
  <2>1. id \in Nat /\ id > Len(Message) /\ id <= Len(Message) + k
    BY <1>1, <1>6, <1>9 DEF Ids
  <2>2. id - Len(Message) \in 1 .. k BY <1>1, <1>6, <2>1
  <2>3. Message'[id] = new[id - Len(Message)]
    BY <1>1, <1>6, <1>7, <1>8, <2>1
  <2> QED BY <1>7, <2>2, <2>3
<1>11. Len(Message') >= Len(Message) /\ Ids \subseteq Ids'
  BY <1>1, <1>6, <1>9 DEF Ids
<1>12. inbound' \in Seq(Nat) BY <1>3 DEF Receive, Dequeue
<1> QED BY <1>4, <1>9, <1>10, <1>11, <1>12 DEF Ids

\* What is typed by the rows there are stays typed when there are more.
LEMMA MoreRows ==
  ASSUME IInv, Ids \subseteq Ids'
  PROVE  /\ outbound \in Seq(Seq(Ids' \X Peers))
         /\ {handed, refused, threw, spawned, results} \subseteq SUBSET (Ids' \X Peers)
<1>1. Ids \X Peers \subseteq Ids' \X Peers OBVIOUS
<1> DEFINE A == Ids \X Peers
           B == Ids' \X Peers
<1>2. outbound \in Seq(Seq(A)) /\ {handed, refused, threw, spawned, results} \subseteq SUBSET A
  BY DEF IInv, TypeOK
<1>3. A \subseteq B BY <1>1
<1> HIDE DEF A, B
<1>4. Seq(A) \subseteq Seq(B) BY <1>3, SeqMonotone
<1>5. outbound \in Seq(Seq(B)) BY <1>2, <1>4, SeqMonotone
<1>6. {handed, refused, threw, spawned, results} \subseteq SUBSET B BY <1>2, <1>3
<1> QED BY <1>5, <1>6 DEF B

\* recv_message.
LEMMA ReceiveStep ==
  ASSUME IInv, Receive
  PROVE  IInv'
<1>1. /\ Message' \in Seq(Row) /\ Ids \subseteq Ids'
      /\ \A id \in Ids : Message'[id] = Message[id]
      /\ \A id \in Ids' \ Ids : /\ ~Message'[id].own
                                /\ Message'[id].sent /\ ~Message'[id].error
      /\ inbound' \in Seq(Nat)
  BY ReceiveFacts
<1>2. /\ UNCHANGED <<running, li, ii, listVars, workerVars, socketVars, starts,
                     spawned>>
      /\ pc = "dequeue" /\ pc' \in {"drain", "join"}
  BY DEF Receive
<1>3. \A i \in DOMAIN outbound : \A j \in DOMAIN outbound[i] :
        outbound[i][j][1] \in Ids
  BY DEF IInv, TypeOK
<1>4. \A b \in spawned : b[1] \in Ids BY DEF IInv, TypeOK
<1>5. TypeOK' BY <1>1, <1>2, MoreRows DEF IInv, TypeOK
<1>6. CursorOK' /\ NeverWaitsInDequeue' /\ ProcessOver'
  BY <1>2 DEF CursorOK, NeverWaitsInDequeue, ProcessOver
<1>7. StatusSound' BY <1>1, <1>2 DEF IInv, StatusSound
<1>8. NothingLost'
  <2>1. Lost' = Lost BY <1>1, <1>2, <1>4 DEF Lost, OnItsRow, InOutbound
  <2> QED BY <1>2, <2>1, NoMoreLost DEF EngineRuns
<1>9. OwnAttempts' BY <1>1, <1>2, <1>3 DEF IInv, OwnAttempts
<1> QED BY <1>5, <1>6, <1>7, <1>8, <1>9 DEF IInv

\* The rows after the INSERT of push_message.
LEMMA PushFacts ==
  ASSUME IInv, Message' = Append(Message, OwnRow)
  PROVE  /\ Message' \in Seq(Row) /\ Len(Message') = Len(Message) + 1
         /\ Ids' = Ids \cup {RowId} /\ RowId \notin Ids
         /\ \A id \in Ids : Message'[id] = Message[id]
         /\ Message'[RowId].own
         /\ ~Message'[RowId].sent /\ ~Message'[RowId].error
<1>1. Message \in Seq(Row) /\ Len(Message) \in Nat BY DEF IInv, TypeOK
<1>2. OwnRow \in Row /\ OwnRow.own /\ ~OwnRow.sent /\ ~OwnRow.error
  BY DEF OwnRow, Row
<1> HIDE DEF OwnRow
<1>4. /\ Message' \in Seq(Row) /\ Len(Message') = Len(Message) + 1
      /\ \A i \in 1 .. Len(Message) : Message'[i] = Message[i]
      /\ Message'[Len(Message) + 1] = OwnRow
  BY <1>1, <1>2
<1>5. Ids' = Ids \cup {RowId} /\ RowId \notin Ids
  BY <1>1, <1>4 DEF Ids, RowId
<1> QED BY <1>2, <1>4, <1>5 DEF RowId, Ids

\* The workers of send_message report on that row.
LEMMA FuturesFacts ==
  ASSUME IInv, Message' = Append(Message, OwnRow), NEW to \in MemberLists
  PROVE  /\ Futures(to) \in Seq(Ids' \X Peers)
         /\ \A k \in DOMAIN Futures(to) : Futures(to)[k][1] = RowId
         /\ Range(Futures(to)) \subseteq Ids' \X Peers
         /\ \A b \in Range(Futures(to)) : b[1] = RowId
<1>1. to \in Seq(Peers) BY MemberListsType
<1>2. RowId \in Ids' BY PushFacts
<1>3. \A k \in DOMAIN to : <<RowId, to[k]>> \in Ids' \X Peers BY <1>1, <1>2
<1> QED BY <1>1, <1>3 DEF Futures, Range

\* push_message, send_message.
LEMMA PushMessageStep ==
  ASSUME IInv, NEW to \in MemberLists, PushMessage(to)
  PROVE  IInv'
<1> DEFINE futures == Futures(to)
<1>1. /\ Message' \in Seq(Row) /\ Len(Message') = Len(Message) + 1
      /\ Ids' = Ids \cup {RowId} /\ RowId \notin Ids
      /\ \A id \in Ids : Message'[id] = Message[id]
      /\ Message'[RowId].own
      /\ ~Message'[RowId].sent /\ ~Message'[RowId].error
  BY PushFacts DEF PushMessage
<1>2. /\ outbound' = Append(outbound, futures)
      /\ spawned' = spawned \cup Range(futures)
      /\ UNCHANGED <<running, li, ii, results, workerVars, socketVars, inbound,
                     starts>>
      /\ pc = "draw" /\ pc' \in {"poll", "join"}
  BY DEF PushMessage, FrameEnd
<1>3. /\ futures \in Seq(Ids' \X Peers)
      /\ \A k \in DOMAIN futures : futures[k][1] = RowId
      /\ Range(futures) \subseteq Ids' \X Peers
  BY FuturesFacts DEF PushMessage
<1> HIDE DEF futures
<1> DEFINE n == Len(outbound)
<1>4. /\ outbound \in Seq(Seq(Ids' \X Peers))
      /\ {handed, refused, threw, spawned, results} \subseteq SUBSET (Ids' \X Peers)
  BY <1>1, MoreRows
<1>5. /\ outbound' \in Seq(Seq(Ids' \X Peers)) /\ n \in Nat
      /\ DOMAIN outbound = 1 .. n /\ DOMAIN outbound' = 1 .. n + 1
      /\ \A i \in 1 .. n : outbound'[i] = outbound[i]
      /\ outbound'[n + 1] = futures
  BY <1>2, <1>3, <1>4
<1> HIDE DEF n
<1>6. ASSUME NEW b, InOutbound(b) PROVE InOutbound(b)'
  <2>1. PICK i \in DOMAIN outbound : \E j \in DOMAIN outbound[i] : outbound[i][j] = b
    BY <1>6 DEF InOutbound
  <2>2. i \in DOMAIN outbound' /\ outbound'[i] = outbound[i] BY <1>5
  <2> QED BY <2>1, <2>2 DEF InOutbound
<1>7. \A b \in Range(futures) : InOutbound(b)'
  <2> SUFFICES ASSUME NEW b \in Range(futures) PROVE InOutbound(b)'
    OBVIOUS
  <2>1. PICK k \in DOMAIN futures : futures[k] = b BY DEF Range
  <2>2. n + 1 \in DOMAIN outbound' BY <1>5
  <2> QED BY <1>5, <2>1, <2>2 DEF InOutbound
<1>8. TypeOK' BY <1>1, <1>2, <1>3, <1>4, <1>5 DEF IInv, TypeOK
<1>9. CursorOK' /\ NeverWaitsInDequeue' /\ ProcessOver'
  BY <1>2 DEF CursorOK, NeverWaitsInDequeue, ProcessOver
<1>10. StatusSound' BY <1>1, <1>2 DEF IInv, StatusSound
<1>11. NothingLost'
  <2>1. ASSUME NEW b \in Lost' PROVE b \in Lost
    <3>1. b \in spawned' /\ ~InOutbound(b)' /\ ~OnItsRow(b)' BY DEF Lost
    <3>2. b \in spawned BY <1>2, <1>7, <3>1
    <3>3. b[1] \in Ids BY <3>2 DEF IInv, TypeOK
    <3>4. ~InOutbound(b) BY <1>6, <3>1
    <3>5. ~OnItsRow(b) BY <1>1, <1>2, <3>1, <3>3 DEF OnItsRow
    <3> QED BY <3>2, <3>4, <3>5 DEF Lost
  <2> QED BY <1>2, <2>1, NoMoreLost DEF EngineRuns
<1>12. OwnAttempts'
  <2> SUFFICES ASSUME NEW i \in DOMAIN outbound', NEW j \in DOMAIN outbound'[i]
               PROVE  Message'[outbound'[i][j][1]].own
    BY DEF OwnAttempts
  <2>1. CASE i = n + 1 BY <1>1, <1>3, <1>5, <2>1
  <2>2. CASE i # n + 1
    <3>1. i \in DOMAIN outbound /\ outbound'[i] = outbound[i] BY <1>5, <2>2
    <3>2. outbound[i][j][1] \in Ids BY <3>1 DEF IInv, TypeOK
    <3>3. Message[outbound[i][j][1]].own BY <3>1 DEF IInv, OwnAttempts
    <3> QED BY <1>1, <3>1, <3>2, <3>3
  <2> QED BY <2>1, <2>2
<1> QED BY <1>8, <1>9, <1>10, <1>11, <1>12 DEF IInv

\* send_message throws: what is lost belongs to the row just stored.
LEMMA SendThrowsStep ==
  ASSUME IInv, NEW to \in MemberLists, SendThrows(to)
  PROVE  IInv'
<1>1. /\ Message' \in Seq(Row) /\ Ids \subseteq Ids' /\ RowId \notin Ids
      /\ Ids' = Ids \cup {RowId}
      /\ \A id \in Ids : Message'[id] = Message[id]
      /\ Message'[RowId].own
      /\ ~Message'[RowId].sent /\ ~Message'[RowId].error
  BY PushFacts DEF SendThrows
<1>2. /\ UNCHANGED <<running, li, ii, outbound, workerVars, socketVars, inbound,
                     starts>>
      /\ spawned' = spawned \cup results'
      /\ pc = "draw" /\ pc' = "unwind"
  BY DEF SendThrows
<1>3. results' \subseteq Ids' \X Peers /\ \A b \in results' : b[1] = RowId
  BY FuturesFacts DEF SendThrows
<1>4. TypeOK'
  <2>1. /\ outbound' \in Seq(Seq(Ids' \X Peers))
        /\ {handed', refused', threw', spawned', results'} \subseteq SUBSET (Ids' \X Peers)
    BY <1>1, <1>2, <1>3, MoreRows
  <2> QED BY <1>1, <1>2, <2>1 DEF IInv, TypeOK
<1>5. StatusSound' BY <1>1, <1>2 DEF IInv, StatusSound
<1>6. NothingLost'
  <2>1. Lost = {} BY <1>2 DEF IInv, NothingLost, EngineRuns
  <2>2. ASSUME NEW b \in Lost' PROVE b \in results'
    <3>1. b \in spawned' /\ ~InOutbound(b)' /\ ~OnItsRow(b)' BY DEF Lost
    <3>2. ~InOutbound(b) BY <1>2, <3>1 DEF InOutbound
    <3>3. ASSUME b \in spawned PROVE FALSE
      <4>1. b[1] \in Ids BY <3>3 DEF IInv, TypeOK
      <4>2. ~OnItsRow(b) BY <1>1, <1>2, <3>1, <4>1 DEF OnItsRow
      <4> QED BY <2>1, <3>2, <3>3, <4>2 DEF Lost
    <3> QED BY <1>2, <3>1, <3>3
  <2>3. ~EngineRuns' BY <1>2 DEF EngineRuns
  <2> QED BY <1>3, <2>2, <2>3 DEF NothingLost
<1>7. OwnAttempts'
  <2>1. \A i \in DOMAIN outbound : \A j \in DOMAIN outbound[i] :
          outbound[i][j][1] \in Ids
    BY DEF IInv, TypeOK
  <2> QED BY <1>1, <1>2, <2>1 DEF IInv, OwnAttempts
<1>8. CursorOK' /\ NeverWaitsInDequeue' /\ ProcessOver'
  BY <1>2 DEF CursorOK, NeverWaitsInDequeue, ProcessOver
<1> QED BY <1>4, <1>5, <1>6, <1>7, <1>8 DEF IInv

-----------------------------------------------------------------------------
(* The invariant is inductive.                                             *)

\* A process that was never started.
LEMMA InitInv == Init => IInv
<1> SUFFICES ASSUME Init PROVE IInv
  OBVIOUS
<1> USE DEF Init
<1>1. TypeOK
  <2>1. /\ outbound \in Seq(Seq(Ids \X Peers)) /\ sock \in Seq(Datagram)
        /\ hand \in Seq(Datagram) /\ inbound \in Seq(Nat) /\ Len(hand) = 0
        /\ Message \in Seq(Row)
    OBVIOUS
  <2>2. timesOut \in BOOLEAN BY NetAssumption
  <2>3. {handed, refused, threw, spawned, results} \subseteq SUBSET (Ids \X Peers)
    OBVIOUS
  <2>4. ~(listener = "got") /\ ~(Len(hand) = 1) BY <2>1
  <2> QED BY <2>1, <2>2, <2>3, <2>4 DEF TypeOK
<1>2. CursorOK /\ NeverWaitsInDequeue /\ ProcessOver
  BY DEF CursorOK, NeverWaitsInDequeue, ProcessOver
<1>3. StatusSound /\ NothingLost /\ OwnAttempts
  BY DEF StatusSound, NothingLost, Lost, OwnAttempts, Ids
<1> QED BY <1>1, <1>2, <1>3 DEF IInv

\* A step that changes nothing.
LEMMA StutterStep ==
  ASSUME IInv, UNCHANGED vars
  PROVE  IInv'
<1> USE DEF IInv, vars
<1>1. StatusSound' /\ NothingLost' /\ OwnAttempts' /\ Ids' = Ids
  BY SameRows DEF EngineRuns, ProcessOver, AtItem, FrameEnd
<1>2. TypeOK' BY <1>1 DEF TypeOK
<1>3. CursorOK' /\ NeverWaitsInDequeue' /\ ProcessOver'
  BY DEF CursorOK, NeverWaitsInDequeue, ProcessOver
<1> QED BY <1>1, <1>2, <1>3

\* Every step keeps it.
LEMMA StepInv == IInv /\ [Next]_vars => IInv'
<1> SUFFICES ASSUME IInv, [Next]_vars PROVE IInv'
  OBVIOUS
<1>1. CASE Start BY <1>1, StartStep
<1>2. CASE Crash BY <1>2, CrashStep
<1>3. CASE Frame
  BY <1>3, PollStep, NextListStep, ItemsDoneStep, SkipItemStep,
     CollectItemStep, CollectThrowsStep, EraseIfEmptyStep, TestInboundStep,
     ReceiveStep, DrawStep, PushMessageStep, SendThrowsStep, UnwindStep,
     PushThrowsStep DEF Frame
<1>4. CASE Quit
  BY <1>4, StopListenerStep, JoinListenerStep, DropOutboundStep DEF Quit
<1>5. CASE Worker BY <1>5, WorkerEndsStep DEF Worker
<1>6. CASE Listen
  BY <1>6, BindStep, TestAliveStep, RecvFromStep, RecvTimesOutStep, UnpackStep
     DEF Listen
<1>7. CASE Arrive BY <1>7, ArriveStep
<1>8. CASE UNCHANGED vars BY <1>8, StutterStep
<1> QED BY <1>1, <1>2, <1>3, <1>4, <1>5, <1>6, <1>7, <1>8 DEF Next, Main

\* The inductive invariant holds throughout.
THEOREM Invariance == Spec => []IInv
BY InitInv, StepInv, PTL DEF Spec

-----------------------------------------------------------------------------
(* What follows from it.                                                   *)

\* Every variable of NetScene keeps the type the code gives it, and every
\* future reports on a row of the table.
THEOREM TypeCorrect == Spec => []TypeOK
<1>1. IInv => TypeOK BY DEF IInv
<1> QED BY <1>1, Invariance, PTL

\* However NetScene::update erases from the lists it iterates over, it never
\* dereferences an iterator that does not point at an element.
THEOREM CursorsAreValid == Spec => []CursorOK
<1>1. IInv => CursorOK BY DEF IInv
<1> QED BY <1>1, Invariance, PTL

\* A status comes from a worker of that message, and those of received
\* messages are never touched.
THEOREM StatusIsSound == Spec => []StatusSound
<1>1. IInv => StatusSound BY DEF IInv
<1> QED BY <1>1, Invariance, PTL

\* While the engine runs, a result is in the lists or on its row; an error that
\* ends it costs results of one message at most.
THEOREM NoResultIsLost == Spec => []NothingLost
<1>1. IInv => NothingLost BY DEF IInv
<1> QED BY <1>1, Invariance, PTL

\* Testing empty() and calling dequeue() in two steps is harmless here.
THEOREM DequeueNeverWaits == Spec => []NeverWaitsInDequeue
<1>1. IInv => NeverWaitsInDequeue BY DEF IInv
<1> QED BY <1>1, Invariance, PTL

StatusKept ==
  /\ Len(Message') >= Len(Message)
  /\ \A id \in Ids :
       IF Message[id].own
       THEN /\ Message'[id].own
            /\ Message[id].sent => Message'[id].sent
            /\ Message[id].error => Message'[id].error
       ELSE Message'[id] = Message[id]

\* No step, crash or restart takes a status back or touches the row of a
\* received message.
THEOREM StatusIsFinal == Spec => StatusFinal
<1>1. ASSUME IInv, Message' = Message PROVE StatusKept
  BY <1>1 DEF StatusKept, IInv, TypeOK
<1>2. ASSUME IInv, CollectItem PROVE StatusKept
  <2> DEFINE a == outbound[li][ii]
  <2>1. a \in Ids \X Peers /\ Message' = Report(a) /\ Message[a[1]].own
    BY <1>2, CollectFacts DEF CollectItem
  <2> HIDE DEF a
  <2>2. /\ Message \in Seq(Row) /\ Message' \in Seq(Row) /\ Ids' = Ids
        /\ \A id \in Ids :
             /\ Message'[id].own = Message[id].own
             /\ id # a[1] => Message'[id] = Message[id]
             /\ Message[id].sent => Message'[id].sent
             /\ Message[id].error => Message'[id].error
    BY <1>2, <2>1, ReportFacts DEF IInv, TypeOK
  <2>3. Len(Message') >= Len(Message) BY <2>2 DEF Ids
  <2> QED BY <2>1, <2>2, <2>3 DEF StatusKept
<1>3. ASSUME IInv, Receive PROVE StatusKept
  BY <1>3, ReceiveFacts DEF StatusKept
<1>4. ASSUME IInv, NEW to \in MemberLists, PushMessage(to) \/ SendThrows(to)
      PROVE  StatusKept
  <2>1. Len(Message) \in Nat BY <1>4 DEF IInv, TypeOK
  <2> QED BY <1>4, <2>1, PushFacts DEF StatusKept, PushMessage, SendThrows
<1>5. ASSUME IInv, [Next]_vars PROVE StatusKept
  BY <1>1, <1>2, <1>3, <1>4, <1>5 DEF Next, vars, Start, Crash, Main, Frame,
     Poll, NextList, ItemsDone, SkipItem, CollectThrows, EraseIfEmpty,
     TestInbound, Draw, Unwind, PushThrows, Quit, StopListener, JoinListener,
     DropOutbound, Worker, WorkerEnds, Listen, Bind, TestAlive, RecvFrom,
     RecvTimesOut, Unpack, Arrive
<1>6. IInv /\ [Next]_vars => [StatusKept]_vars
  BY <1>5
<1> QED BY <1>6, Invariance, PTL DEF Spec, StatusFinal, StatusKept

=============================================================================
