----------------------------- MODULE OutboxProofs -----------------------------
(***************************************************************************)
(* NetScene implements Outbox, for every value of its constants.           *)
(*                                                                         *)
(* The lists of futures are the set of open attempts because none is in    *)
(* them twice (Distinct): a new one carries the id of a new row, and its   *)
(* recipients are different.  Else erasing one item would not close its    *)
(* attempt.                                                                *)
(*                                                                         *)
(* The same invariant bounds the loops of update and the way to the end of *)
(* the process: liveness itself is beyond the prover, but not that no step *)
(* towards the end is in vain.                                             *)
(***************************************************************************)
EXTENDS NetSceneProofs

USE DEF tableVars, mainVars, listVars, workerVars, socketVars

Distinct ==
  \A i, k \in DOMAIN outbound : \A j \in DOMAIN outbound[i], l \in DOMAIN outbound[k] :
    outbound[i][j] = outbound[k][l] => i = k /\ j = l

\* There are lists only while the process runs.
NoListsOff == Up = "off" => outbound = <<>>

RInv == IInv /\ Distinct /\ NoListsOff

LEMMA InListsMeans == \A b : b \in InLists <=> InOutbound(b)
BY DEF InLists, InOutbound, Range

-----------------------------------------------------------------------------
(* Where the items of the lists were before an erase().                    *)

Moved(j, i) == IF j < i THEN j ELSE j + 1

LEMMA RemoveAtMoves ==
  ASSUME NEW S, NEW s \in Seq(S), NEW i \in 1 .. Len(s),
         NEW j \in DOMAIN RemoveAt(s, i)
  PROVE  /\ j \in Nat /\ Moved(j, i) \in DOMAIN s
         /\ Moved(j, i) # i /\ RemoveAt(s, i)[j] = s[Moved(j, i)]
<1>1. /\ RemoveAt(s, i) \in Seq(S) /\ Len(RemoveAt(s, i)) = Len(s) - 1
      /\ \A k \in 1 .. Len(s) - 1 :
           RemoveAt(s, i)[k] = IF k < i THEN s[k] ELSE s[k + 1]
  BY RemoveAtFacts
<1> DEFINE r == RemoveAt(s, i)
<1>2. r \in Seq(S) /\ Len(r) = Len(s) - 1 /\ j \in DOMAIN r
  BY <1>1
<1> HIDE DEF r
<1>3. j \in 1 .. Len(s) - 1 /\ Len(s) \in Nat
  BY <1>2
<1>4. RemoveAt(s, i)[j] = s[Moved(j, i)]
  BY <1>1, <1>3 DEF Moved
<1> QED
  BY <1>3, <1>4 DEF Moved

\* Where item j of list i was before an item is collected.
Place(i, j) == IF i = li THEN Moved(j, ii) ELSE j

LEMMA CollectMoves ==
  ASSUME IInv, AtItem, outbound' = EraseItem,
         NEW i \in DOMAIN outbound', NEW j \in DOMAIN outbound'[i]
  PROVE  /\ i \in DOMAIN outbound /\ Place(i, j) \in DOMAIN outbound[i]
         /\ outbound'[i][j] = outbound[i][Place(i, j)]
         /\ i = li => j \in Nat /\ Place(i, j) # ii
<1>1. /\ li \in 1 .. Len(outbound) /\ ii \in 1 .. Len(outbound[li])
      /\ outbound[li] \in Seq(Ids \X Peers)
      /\ outbound'[li] = RemoveAt(outbound[li], ii)
      /\ \A k \in 1 .. Len(outbound) : k # li => outbound'[k] = outbound[k]
  BY CollectFacts
<1>2. i \in DOMAIN outbound
  BY CollectFrom
<1>3. i \in 1 .. Len(outbound)
  BY <1>2 DEF IInv, TypeOK
<1>4. CASE i # li
  BY <1>1, <1>2, <1>3, <1>4 DEF Place
<1>5. CASE i = li
  <2>1. j \in DOMAIN RemoveAt(outbound[li], ii)
    BY <1>1, <1>5
  <2>2. /\ j \in Nat /\ Moved(j, ii) \in DOMAIN outbound[li] /\ Moved(j, ii) # ii
        /\ RemoveAt(outbound[li], ii)[j] = outbound[li][Moved(j, ii)]
    BY <1>1, <2>1, RemoveAtMoves
  <2> QED
    BY <1>1, <1>2, <1>5, <2>2 DEF Place
<1> QED
  BY <1>4, <1>5

\* Two items do not move to the same place.
LEMMA MovedInjective ==
  ASSUME NEW i \in Nat, NEW j \in Nat, NEW l \in Nat, Moved(j, i) = Moved(l, i)
  PROVE  j = l
BY DEF Moved

-----------------------------------------------------------------------------
(* The steps that change the lists.                                        *)

LEMMA CollectDistinct ==
  ASSUME RInv, AtItem, outbound' = EraseItem
  PROVE  Distinct'
<1> USE DEF RInv
<1> SUFFICES ASSUME NEW i \in DOMAIN outbound', NEW k \in DOMAIN outbound',
                    NEW j \in DOMAIN outbound'[i], NEW l \in DOMAIN outbound'[k],
                    outbound'[i][j] = outbound'[k][l]
             PROVE  i = k /\ j = l
  BY DEF Distinct
<1>1. /\ i \in DOMAIN outbound /\ Place(i, j) \in DOMAIN outbound[i]
      /\ outbound'[i][j] = outbound[i][Place(i, j)]
      /\ i = li => j \in Nat
  BY CollectMoves
<1>2. /\ k \in DOMAIN outbound /\ Place(k, l) \in DOMAIN outbound[k]
      /\ outbound'[k][l] = outbound[k][Place(k, l)]
      /\ k = li => l \in Nat
  BY CollectMoves
<1>3. outbound[i][Place(i, j)] = outbound[k][Place(k, l)]
  BY <1>1, <1>2
<1>4. i = k /\ Place(i, j) = Place(k, l)
  BY <1>1, <1>2, <1>3 DEF Distinct
<1>5. CASE i # li
  BY <1>4, <1>5 DEF Place
<1>6. CASE i = li
  <2>1. ii \in Nat
    BY DEF IInv, TypeOK
  <2>2. Moved(j, ii) = Moved(l, ii)
    BY <1>4, <1>6 DEF Place
  <2> QED
    BY <1>1, <1>2, <1>4, <1>6, <2>1, <2>2, MovedInjective
<1> QED
  BY <1>5, <1>6

\* The collected attempt is closed, and no other is.
LEMMA CollectCloses ==
  ASSUME RInv, AtItem, outbound' = EraseItem, NEW a, a = outbound[li][ii]
  PROVE  a \in InLists /\ InLists' = InLists \ {a}
<1> USE DEF RInv
<1>1. li \in DOMAIN outbound /\ ii \in DOMAIN outbound[li]
  BY CollectFacts, SMTT(30) DEF IInv, TypeOK
<1>2. InOutbound(a)
  BY <1>1 DEF InOutbound
<1>3. ASSUME NEW i \in DOMAIN outbound', NEW j \in DOMAIN outbound'[i]
      PROVE  outbound'[i][j] # a
  <2>1. /\ i \in DOMAIN outbound /\ Place(i, j) \in DOMAIN outbound[i]
        /\ outbound'[i][j] = outbound[i][Place(i, j)]
        /\ i = li => Place(i, j) # ii
    BY <1>3, CollectMoves
  <2> QED
    BY <1>1, <2>1 DEF Distinct
<1>4. ~InOutbound(a)'
  BY <1>3 DEF InOutbound
<1>5. ASSUME NEW b, InOutbound(b), b # a PROVE InOutbound(b)'
  BY <1>5, CollectKeeps
<1>6. ASSUME NEW b, InOutbound(b)' PROVE InOutbound(b)
  <2>1. PICK i \in DOMAIN outbound' : \E j \in DOMAIN outbound'[i] : outbound'[i][j] = b
    BY <1>6 DEF InOutbound
  <2>2. PICK j \in DOMAIN outbound'[i] : outbound'[i][j] = b
    BY <2>1
  <2> QED
    BY <2>2, CollectFrom DEF InOutbound
<1>7. \A b : b \in InLists' <=> InOutbound(b)'
  BY DEF InLists, InOutbound, Range
<1> QED
  BY <1>2, <1>4, <1>5, <1>6, <1>7, InListsMeans

LEMMA EraseDistinct ==
  ASSUME RInv, EraseIfEmpty
  PROVE  Distinct' /\ InLists' = InLists
<1> USE DEF RInv
<1>1. /\ Len(outbound) \in Nat /\ li \in 1 .. Len(outbound)
      /\ outbound \in Seq(Seq(Ids \X Peers))
  BY ItemsInList DEF EraseIfEmpty, IInv, TypeOK
<1>2. CASE outbound[li] = <<>>
  <2>1. outbound' = RemoveAt(outbound, li)
    BY <1>2 DEF EraseIfEmpty, ListsLeft
  <2>2. \A i \in DOMAIN outbound' :
          /\ i \in Nat /\ Moved(i, li) \in DOMAIN outbound
          /\ outbound'[i] = outbound[Moved(i, li)]
    BY <1>1, <2>1, RemoveAtMoves
  <2>3. Distinct'
    <3> SUFFICES ASSUME NEW i \in DOMAIN outbound', NEW k \in DOMAIN outbound',
                        NEW j \in DOMAIN outbound'[i], NEW l \in DOMAIN outbound'[k],
                        outbound'[i][j] = outbound'[k][l]
                 PROVE  i = k /\ j = l
      BY DEF Distinct
    <3>1. Moved(i, li) = Moved(k, li) /\ j = l
      BY <2>2 DEF Distinct
    <3> QED
      BY <1>1, <2>2, <3>1, MovedInjective
  <2>4. ASSUME NEW b, InOutbound(b) PROVE InOutbound(b)'
    BY <2>4, EraseFacts
  <2>5. ASSUME NEW b, InOutbound(b)' PROVE InOutbound(b)
    BY <2>2, <2>5 DEF InOutbound
  <2>6. \A b : b \in InLists' <=> InOutbound(b)'
    BY DEF InLists, InOutbound, Range
  <2> QED
    BY <2>3, <2>4, <2>5, <2>6, InListsMeans
<1>3. CASE outbound[li] # <<>>
  <2>1. outbound' = outbound
    BY <1>3 DEF EraseIfEmpty, ListsLeft
  <2> QED
    BY <2>1 DEF Distinct, InLists
<1> QED
  BY <1>2, <1>3

\* A line opens an attempt for each recipient.
LEMMA PushOpens ==
  ASSUME RInv, NEW to \in MemberLists, PushMessage(to)
  PROVE  /\ Distinct'
         /\ InLists' = InLists \cup ({RowId} \X Range(to))
         /\ Range(to) \subseteq Peers
<1> USE DEF RInv
<1> DEFINE futures == Futures(to)
           n == Len(outbound)
<1>1. to \in Seq(Peers) /\ \A i, j \in DOMAIN to : to[i] = to[j] => i = j
  BY MemberListsType DEF MemberLists
<1>2. RowId \notin Ids
  BY DEF RowId, Ids, IInv, TypeOK
<1>3. outbound \in Seq(Seq(Ids \X Peers)) /\ n \in Nat
  BY DEF IInv, TypeOK
<1>4. outbound' = Append(outbound, futures)
  BY DEF PushMessage
<1>5. /\ DOMAIN futures = DOMAIN to
      /\ \A k \in DOMAIN futures : futures[k] = <<RowId, to[k]>>
  BY DEF Futures
<1> HIDE DEF futures
<1>6. /\ DOMAIN outbound = 1 .. n /\ DOMAIN outbound' = 1 .. n + 1
      /\ \A i \in 1 .. n : outbound'[i] = outbound[i]
      /\ outbound'[n + 1] = futures
  BY <1>3, <1>4
<1>7. \A i \in 1 .. n : \A j \in DOMAIN outbound[i] : outbound[i][j][1] # RowId
  BY <1>2, <1>3
<1>8. Distinct'
  <2> SUFFICES ASSUME NEW i \in DOMAIN outbound', NEW k \in DOMAIN outbound',
                      NEW j \in DOMAIN outbound'[i], NEW l \in DOMAIN outbound'[k],
                      outbound'[i][j] = outbound'[k][l]
               PROVE  i = k /\ j = l
    BY DEF Distinct
  <2>1. CASE i \in 1 .. n /\ k \in 1 .. n
    <3>1. outbound'[i] = outbound[i] /\ outbound'[k] = outbound[k]
      BY <1>6, <2>1
    <3> QED
      BY <1>6, <2>1, <3>1 DEF Distinct
  <2>2. CASE i = n + 1 /\ k = n + 1
    <3>1. j \in DOMAIN to /\ l \in DOMAIN to
      BY <1>5, <1>6, <2>2
    <3>2. <<RowId, to[j]>> = <<RowId, to[l]>>
      BY <1>5, <1>6, <2>2
    <3> QED
      BY <1>1, <2>2, <3>1, <3>2
  <2>3. CASE i \in 1 .. n /\ k = n + 1
    <3>1. outbound'[k][l][1] = RowId
      BY <1>5, <1>6, <2>3
    <3>2. outbound'[i][j][1] # RowId
      BY <1>6, <1>7, <2>3
    <3> QED
      BY <3>1, <3>2
  <2>4. CASE i = n + 1 /\ k \in 1 .. n
    <3>1. outbound'[i][j][1] = RowId
      BY <1>5, <1>6, <2>4
    <3>2. outbound'[k][l][1] # RowId
      BY <1>6, <1>7, <2>4
    <3> QED
      BY <3>1, <3>2
  <2>5. i \in 1 .. n + 1 /\ k \in 1 .. n + 1
    BY <1>6
  <2> QED
    BY <1>3, <2>1, <2>2, <2>3, <2>4, <2>5
<1>9. Range(futures) = {RowId} \X Range(to)
  BY <1>5 DEF Range
<1>10. InLists' = InLists \cup Range(futures)
  <2>1. ASSUME NEW b PROVE b \in InLists' <=> b \in InLists \/ b \in Range(futures)
    <3>1. b \in InLists' <=> \E i \in 1 .. n + 1 : b \in Range(outbound'[i])
      BY <1>6 DEF InLists
    <3>2. b \in InLists <=> \E i \in 1 .. n : b \in Range(outbound[i])
      BY <1>6 DEF InLists
    <3>3. \A i : i \in 1 .. n + 1 <=> i \in 1 .. n \/ i = n + 1
      BY <1>3
    <3> QED
      BY <1>6, <3>1, <3>2, <3>3
  <2> QED
    BY <2>1
<1>11. Range(to) \subseteq Peers
  BY <1>1 DEF Range
<1> QED
  BY <1>8, <1>9, <1>10, <1>11

-----------------------------------------------------------------------------
(* The other steps leave the lists alone or drop them all.                 *)

Busy ==
  CollectItem \/ CollectThrows \/ EraseIfEmpty \/ \E to \in MemberLists : PushMessage(to)
Drops == Crash \/ DropOutbound

LEMMA OthersKeepLists ==
  ASSUME Next, ~Busy, ~Drops
  PROVE  UNCHANGED outbound
<1>1. CASE Start
  BY <1>1 DEF Start
<1>2. CASE Frame
  BY <1>2 DEF Busy, Frame, Poll, NextList, ItemsDone, SkipItem, TestInbound,
     Receive, Draw, SendThrows, Unwind, PushThrows
<1>3. CASE StopListener \/ JoinListener
  BY <1>3 DEF StopListener, JoinListener
<1>4. CASE Worker \/ Arrive
  BY <1>4 DEF Worker, WorkerEnds, Arrive
<1>5. CASE Listen
  BY <1>5 DEF Listen, Bind, TestAlive, RecvFrom, RecvTimesOut, Unpack
<1> QED
  BY <1>1, <1>2, <1>3, <1>4, <1>5 DEF Next, Main, Quit, Drops

\* The engine starts, goes on, ends, and then the process does.
LEMMA Phases ==
  ASSUME RInv, Next
  PROVE  /\ Start => Up = "off" /\ Up' = "runs"
         /\ Drops => Up # "off" /\ Up' = "off"
         /\ CollectThrows \/ (\E to \in MemberLists : SendThrows(to))
              => Up = "runs" /\ Up' = "ends"
         /\ Frame /\ ~Unwind => Up = "runs" /\ Up' \in {"runs", "ends"}
         /\ CollectItem \/ EraseIfEmpty => Up' = "runs"
         /\ ~Start /\ ~Drops /\ (~Frame \/ Unwind) => UNCHANGED Up
<1> USE DEF Up, EngineRuns
<1>1. Start => Up = "off" /\ Up' = "runs"
  BY DEF Start
<1>2. Drops => Up # "off" /\ Up' = "off"
  BY DEF Drops, Crash, DropOutbound
<1>3. CollectThrows \/ (\E to \in MemberLists : SendThrows(to))
        => Up = "runs" /\ Up' = "ends"
  BY DEF CollectThrows, AtItem, SendThrows
<1>4. Frame /\ ~Unwind => Up = "runs" /\ Up' \in {"runs", "ends"}
  <2>1. ASSUME NEW to \in MemberLists, PushMessage(to) \/ SendThrows(to)
        PROVE  Up = "runs" /\ Up' \in {"runs", "ends"}
    BY <2>1 DEF PushMessage, SendThrows, FrameEnd
  <2> QED
    BY <2>1 DEF Frame, Poll, NextList, ItemsDone, SkipItem, CollectItem,
       CollectThrows, AtItem, EraseIfEmpty, TestInbound, Receive, Draw,
       PushThrows, FrameEnd
<1>5. CollectItem \/ EraseIfEmpty => Up' = "runs"
  BY DEF CollectItem, AtItem, EraseIfEmpty
<1>6. ASSUME ~Start, ~Drops, ~Frame \/ Unwind PROVE UNCHANGED Up
  <2>1. CASE Unwind \/ StopListener \/ JoinListener
    BY <2>1 DEF Unwind, StopListener, JoinListener
  <2>2. CASE Worker \/ Arrive \/ Listen
    BY <2>2 DEF Worker, WorkerEnds, Arrive, Listen, Bind, TestAlive, RecvFrom,
       RecvTimesOut, Unpack
  <2> QED
    BY <1>6, <2>1, <2>2 DEF Next, Main, Quit, Drops
<1> QED
  BY <1>1, <1>2, <1>3, <1>4, <1>5, <1>6

LEMMA RInvStep == RInv /\ [Next]_vars => RInv'
<1> SUFFICES ASSUME RInv, [Next]_vars PROVE RInv'
  OBVIOUS
<1>1. IInv'
  BY StepInv DEF RInv
<1>2. NoListsOff'
  <2>1. CASE Drops
    BY <2>1 DEF Drops, Crash, DropOutbound, NoListsOff
  <2>2. CASE Next /\ ~Drops
    <3>1. CASE Frame /\ ~Unwind
      BY <2>2, <3>1, Phases DEF NoListsOff
    <3>2. CASE ~Frame \/ Unwind
      <4>1. Start \/ UNCHANGED Up
        BY <2>2, <3>2, Phases
      <4>2. Start => Up' = "runs"
        BY <2>2, Phases
      <4>3. ~Busy
        BY <3>2 DEF Busy, Frame, Unwind, CollectItem, CollectThrows, AtItem,
           EraseIfEmpty, PushMessage
      <4>4. UNCHANGED outbound
        BY <2>2, <4>3, OthersKeepLists
      <4> QED
        BY <4>1, <4>2, <4>4 DEF RInv, NoListsOff
    <3> QED
      BY <3>1, <3>2
  <2>3. CASE UNCHANGED vars
    BY <2>3 DEF RInv, NoListsOff, Up, EngineRuns, vars
  <2> QED
    BY <2>1, <2>2, <2>3
<1>3. Distinct'
  <2>1. CASE CollectItem \/ CollectThrows
    BY <2>1, CollectDistinct DEF CollectItem, CollectThrows
  <2>2. CASE EraseIfEmpty
    BY <2>2, EraseDistinct
  <2>3. ASSUME NEW to \in MemberLists, PushMessage(to) PROVE Distinct'
    BY <2>3, PushOpens
  <2>4. CASE Drops
    <3>1. outbound' = <<>>
      BY <2>4 DEF Drops, Crash, DropOutbound
    <3> QED
      BY <3>1 DEF Distinct
  <2>5. CASE (Next /\ ~Busy /\ ~Drops) \/ UNCHANGED vars
    <3>1. UNCHANGED outbound
      BY <2>5, OthersKeepLists DEF vars
    <3> QED
      BY <3>1 DEF RInv, Distinct
  <2> QED
    BY <2>1, <2>2, <2>3, <2>4, <2>5 DEF Busy
<1> QED
  BY <1>1, <1>2, <1>3 DEF RInv

-----------------------------------------------------------------------------
(* Every step of NetScene is one of Outbox.                                *)

LEMMA StepRefines == RInv /\ [Next]_vars => [Promise!Next]_Promise!vars
<1> SUFFICES ASSUME RInv, [Next]_vars PROVE [Promise!Next]_Promise!vars
  OBVIOUS
<1>1. CASE CollectItem
  <2>1. PICK a : a = outbound[li][ii]
    OBVIOUS
  <2>2. a \in InLists /\ InLists' = InLists \ {a}
    BY <1>1, <2>1, CollectCloses DEF CollectItem
  <2>3. Message' \in {[Message EXCEPT ![a[1]].sent = TRUE],
                     [Message EXCEPT ![a[1]].error = TRUE]}
    BY <1>1, <2>1 DEF CollectItem, Report, SetSent, SetError
  <2>4. Up = "runs" /\ Up' = "runs"
    BY <1>1 DEF CollectItem, AtItem, Up, EngineRuns
  <2>5. Promise!Answer(a)
    BY <2>2, <2>3, <2>4 DEF Promise!Answer
  <2> QED
    BY <2>2, <2>5 DEF Promise!Next
<1>2. CASE CollectThrows
  <2>1. PICK a : a = outbound[li][ii]
    OBVIOUS
  <2>2. a \in InLists /\ InLists' = InLists \ {a}
    BY <1>2, <2>1, CollectCloses DEF CollectThrows
  <2>3. Up = "runs" /\ Up' = "ends" /\ Message' = Message
    BY <1>2 DEF CollectThrows, AtItem, Up, EngineRuns
  <2>4. Promise!LoseAnswer(a)
    BY <2>2, <2>3 DEF Promise!LoseAnswer
  <2> QED
    BY <2>2, <2>4 DEF Promise!Next
<1>3. CASE EraseIfEmpty
  <2>1. InLists' = InLists /\ Message' = Message
    BY <1>3, EraseDistinct DEF EraseIfEmpty
  <2>2. Up = "runs" /\ Up' = "runs"
    BY <1>3 DEF EraseIfEmpty, Up, EngineRuns
  <2> QED
    BY <2>1, <2>2 DEF Promise!vars
<1>4. ASSUME NEW to \in MemberLists, PushMessage(to)
      PROVE  Promise!Next
  <2>1. /\ InLists' = InLists \cup ({Len(Message) + 1} \X Range(to))
        /\ Range(to) \subseteq Peers
    BY <1>4, PushOpens DEF RowId
  <2>2. Message' = Append(Message, OwnRow)
    BY <1>4 DEF PushMessage
  <2>3. Up = "runs" /\ Up' \in {"runs", "ends"}
    BY <1>4 DEF PushMessage, FrameEnd, Up, EngineRuns
  <2>4. Promise!Push(Range(to))
    BY <2>1, <2>2, <2>3 DEF Promise!Push, Promise!Engine, Promise!NewRow, OwnRow
  <2> QED
    BY <2>1, <2>4 DEF Promise!Next
<1>5. CASE Drops
  <2>1. outbound' = <<>> /\ Message' = Message
    BY <1>5 DEF Drops, Crash, DropOutbound
  <2>2. Up # "off" /\ Up' = "off"
    BY <1>5 DEF Drops, Crash, DropOutbound, Up, EngineRuns
  <2>3. InLists' = {}
    BY <2>1 DEF InLists
  <2> QED
    BY <2>1, <2>2, <2>3 DEF Promise!Stop, Promise!Next
<1>6. CASE Next /\ ~Busy /\ ~Drops
  <2>1. InLists' = InLists
    BY <1>6, OthersKeepLists DEF InLists
  <2>2. CASE Start
    <3>1. Up = "off" /\ Up' = "runs" /\ Message' = Message
      BY <1>6, <2>2, Phases DEF Start
    <3> QED
      BY <2>1, <3>1 DEF Promise!Start, Promise!Next
  <2>3. ASSUME NEW to \in MemberLists, SendThrows(to) PROVE Promise!Next
    <3>1. Up = "runs" /\ Up' = "ends" /\ Message' = Append(Message, OwnRow)
      BY <2>3 DEF SendThrows, Up, EngineRuns
    <3>2. Promise!LoseMessage
      BY <2>1, <3>1 DEF Promise!LoseMessage, Promise!NewRow, OwnRow
    <3> QED
      BY <3>2 DEF Promise!Next
  <2>4. CASE Receive
    <3>1. /\ Len(Message') >= Len(Message)
          /\ \A id \in 1 .. Len(Message) : Message'[id] = Message[id]
          /\ \A id \in Ids' \ Ids : /\ ~Message'[id].own
                                    /\ Message'[id].sent /\ ~Message'[id].error
      BY <2>4, ReceiveFacts DEF RInv, Ids
    <3>2. Len(Message) \in Nat /\ Len(Message') \in Nat
      BY <2>4, ReceiveFacts DEF RInv, IInv, TypeOK
    <3>3. \A id \in Len(Message) + 1 .. Len(Message') : id \in Ids' \ Ids
      BY <3>2 DEF Ids
    <3>4. Up = "runs" /\ Up' \in {"runs", "ends"}
      BY <2>4 DEF Receive, Up, EngineRuns
    <3>5. Promise!Store
      BY <2>1, <3>1, <3>3, <3>4 DEF Promise!Store, Promise!Engine
    <3> QED
      BY <3>5 DEF Promise!Next
  <2>5. CASE /\ ~Start /\ ~Receive
             /\ ~ \E to \in MemberLists : SendThrows(to)
    <3>1. ASSUME Frame PROVE Message' = Message
      BY <1>6, <2>5, <3>1 DEF Frame, Busy, Poll, NextList, ItemsDone, SkipItem,
         TestInbound, Draw, Unwind, PushThrows
    <3>2. ASSUME Quit \/ Worker \/ Arrive PROVE Message' = Message
      BY <1>6, <3>2 DEF Drops, Quit, StopListener, JoinListener, DropOutbound,
         Worker, WorkerEnds, Arrive
    <3>3. ASSUME Listen PROVE Message' = Message
      BY <3>3 DEF Listen, Bind, TestAlive, RecvFrom, RecvTimesOut, Unpack
    <3>4. Frame \/ Quit \/ Worker \/ Arrive \/ Listen
      BY <1>6, <2>5 DEF Next, Main, Drops
    <3>5. Message' = Message
      BY <3>1, <3>2, <3>3, <3>4
    <3>6. UNCHANGED Up \/ (Up = "runs" /\ Up' = "ends")
      BY <1>6, <2>5, Phases
    <3> QED
      BY <2>1, <3>5, <3>6 DEF Promise!vars, Promise!Quit, Promise!Next
  <2> QED
    BY <2>2, <2>3, <2>4, <2>5
<1>7. CASE UNCHANGED vars
  <2>1. InLists' = InLists /\ Message' = Message /\ UNCHANGED Up
    BY <1>7 DEF vars, InLists, Up, EngineRuns
  <2> QED
    BY <2>1 DEF Promise!vars
<1> QED
  BY <1>1, <1>2, <1>3, <1>4, <1>5, <1>6, <1>7 DEF Busy

\* Of every attempt to send, whatever the lists of futures, the iterators, the
\* workers and the frames do: it is answered at most once, in the row it was
\* made for, and while the engine runs it is not forgotten.
THEOREM NetSceneImplementsOutbox == Spec => OutboxRefined
<1>1. Init => RInv
  BY InitInv DEF RInv, Init, Distinct, NoListsOff
<1>2. Init => Promise!Init
  <2> SUFFICES ASSUME Init PROVE Promise!Init
    OBVIOUS
  <2>1. Up = "off"
    BY DEF Init, Up, EngineRuns
  <2>2. Message = <<>> /\ InLists = {}
    BY DEF Init, InLists
  <2> QED
    BY <2>1, <2>2 DEF Promise!Init
<1> QED
  BY <1>1, <1>2, RInvStep, StepRefines, PTL DEF Spec, OutboxRefined, Promise!Spec

-----------------------------------------------------------------------------
(* Why NetScene::update ends.  Its loops may go round through end(), and   *)
(* nothing in a frame says how often; but each step of them closes an      *)
(* attempt, drops a list or comes nearer to end().  Attempts and lists are *)
(* finitely many, and no other thread opens or drops one.                  *)

Loops == {"outer", "inner", "tail"}

Advance ==
  \/ InLists' \subseteq InLists /\ InLists' # InLists
  \/ InLists' = InLists /\ Len(outbound') < Len(outbound)
  \/ /\ UNCHANGED outbound
     /\ \/ li < li' /\ li' <= Len(outbound) + 1
        \/ /\ UNCHANGED li
           /\ <<pc, pc'>> \in {<<"outer", "inner">>, <<"inner", "tail">>}
        \/ /\ UNCHANGED <<li, pc>> /\ pc = "inner"
           /\ ii < ii' /\ ii' <= Len(outbound[li]) + 1

LoopsAdvance == pc \in Loops /\ pc' \in Loops => Advance

loopVars == <<pc, li, ii, outbound>>

LEMMA OpenAreFinite ==
  ASSUME RInv
  PROVE  IsFiniteSet(InLists) /\ Len(outbound) \in Nat
<1>1. outbound \in Seq(Seq(Ids \X Peers)) /\ Len(Message) \in Nat
  BY DEF RInv, IInv, TypeOK
<1>2. InLists \subseteq Ids \X Peers
  BY <1>1 DEF InLists, Range
<1>3. IsFiniteSet(Ids)
  BY <1>1, FS_Interval DEF Ids
<1>4. IsFiniteSet(Ids \X Peers)
  BY <1>3, NetAssumption, FS_Product
<1> QED
  BY <1>1, <1>2, <1>4, FS_Subset

LEMMA EraseAdvances ==
  ASSUME RInv, EraseIfEmpty
  PROVE  Advance
<1>1. /\ Len(outbound) \in Nat /\ li \in 1 .. Len(outbound)
      /\ outbound \in Seq(Seq(Ids \X Peers))
  BY ItemsInList DEF EraseIfEmpty, RInv, IInv, TypeOK
<1>2. InLists' = InLists
  BY EraseDistinct
<1>3. CASE outbound[li] = <<>>
  <2>1. outbound' = RemoveAt(outbound, li)
    BY <1>3 DEF EraseIfEmpty, ListsLeft
  <2>2. Len(outbound') = Len(outbound) - 1
    BY <1>1, <2>1, RemoveAtFacts
  <2> QED
    BY <1>1, <1>2, <2>2 DEF Advance
<1>4. CASE outbound[li] # <<>>
  <2>1. outbound' = outbound /\ li' = NextIt(li, Len(outbound))
    BY <1>4 DEF EraseIfEmpty, ListsLeft
  <2> QED
    BY <1>1, <2>1 DEF Advance, NextIt
<1> QED
  BY <1>3, <1>4

LEMMA StepAdvances == RInv /\ [Next]_vars => [LoopsAdvance]_loopVars
<1> SUFFICES ASSUME RInv, [Next]_vars, pc \in Loops, pc' \in Loops,
                    ~UNCHANGED loopVars
             PROVE  Advance
  BY DEF LoopsAdvance
<1>1. CASE CollectItem
  <2>1. PICK a : a = outbound[li][ii]
    OBVIOUS
  <2>2. a \in InLists /\ InLists' = InLists \ {a}
    BY <1>1, <2>1, CollectCloses DEF CollectItem
  <2> QED
    BY <2>2 DEF Advance
<1>2. CASE EraseIfEmpty
  BY <1>2, EraseAdvances
<1>3. CASE SkipItem
  <2>1. /\ ii \in 1 .. Len(outbound[li]) + 1 /\ Len(outbound[li]) \in Nat
        /\ ii # Len(outbound[li]) + 1
    BY <1>3, ItemsInList DEF SkipItem, AtItem, ItemsEnd, RInv, IInv, TypeOK, CursorOK
  <2>2. ii' = ii + 1
    BY <1>3, <2>1 DEF SkipItem, NextIt
  <2> QED
    BY <1>3, <2>1, <2>2 DEF SkipItem, AtItem, Advance
<1>4. CASE NextList
  BY <1>4 DEF NextList, Advance, Loops
<1>5. CASE ItemsDone
  BY <1>5 DEF ItemsDone, Advance
<1>6. CASE Poll \/ CollectThrows \/ TestInbound \/ Receive \/ Draw \/ Unwind
           \/ PushThrows
  BY <1>6 DEF Loops, Poll, CollectThrows, TestInbound, Receive, Draw, Unwind,
     PushThrows, FrameEnd
<1>7. ASSUME NEW to \in MemberLists, PushMessage(to) \/ SendThrows(to) PROVE FALSE
  BY <1>7 DEF Loops, PushMessage, SendThrows
<1>8. CASE Quit
  BY <1>8 DEF Loops, Quit, StopListener, JoinListener, DropOutbound
<1>9. CASE Start \/ Crash
  BY <1>9 DEF Loops, Start, Crash
<1>10. CASE Worker \/ Arrive
  BY <1>10 DEF loopVars, Worker, WorkerEnds, Arrive
<1>11. CASE Listen
  BY <1>11 DEF loopVars, Listen, Bind, TestAlive, RecvFrom, RecvTimesOut, Unpack
<1>12. CASE UNCHANGED vars
  BY <1>12 DEF loopVars, vars
<1> QED
  BY <1>1, <1>2, <1>3, <1>4, <1>5, <1>6, <1>7, <1>8, <1>9, <1>10, <1>11, <1>12
     DEF Next, Main, Frame

\* NetScene::update makes no step in vain: between two tests of its loops an
\* attempt is closed, a list is dropped, or an iterator comes nearer to its
\* end(), and of each there is only so much.  (That the main thread takes
\* those steps is its fairness, and UpdateEnds.)
THEOREM UpdateAdvances ==
  Spec => /\ [](IsFiniteSet(InLists) /\ Len(outbound) \in Nat)
          /\ [][LoopsAdvance]_loopVars
<1>1. Init => RInv
  BY InitInv DEF RInv, Init, Distinct, NoListsOff
<1>2. RInv => IsFiniteSet(InLists) /\ Len(outbound) \in Nat
  BY OpenAreFinite
<1> QED
  BY <1>1, <1>2, RInvStep, StepAdvances, PTL DEF Spec

-----------------------------------------------------------------------------
(* Why the process ends, once the main thread joins the listener and then  *)
(* waits for the workers: each step of the listener brings it nearer to    *)
(* its end and each of a worker leaves fewer of them.  The listener can be *)
(* stuck in recvfrom only if no timeout is in force.                       *)

\* The steps until the listener is done, once listener_alive is false.
StepsLeft ==
  CASE listener = "recv" -> 3
    [] listener \in {"starting", "got"} -> 2
    [] listener = "test" -> 1
    [] listener \in {"done", "off"} -> 0

JoinAdvances ==
  /\ pc = "joining" /\ pc' = "joining" /\ listener' # listener => StepsLeft' < StepsLeft
  /\ pc \in {"unwind", "wait"} /\ pc' = pc /\ workerVars' # workerVars =>
       Pending' \subseteq Pending /\ Pending' # Pending

ListenerCanGoOn ==
  pc = "joining" => /\ listener # "off"
                    /\ listener = "recv" => sock # <<>> \/ timesOut

ListenerToldOff ==
  /\ pc = "joining" => ~alive
  /\ listener = "off" => pc = "off"

QInv == RInv /\ ListenerToldOff

LEMMA ToldOffStep == QInv /\ [Next]_vars => QInv'
<1> SUFFICES ASSUME QInv, [Next]_vars PROVE ListenerToldOff'
  BY RInvStep DEF QInv
<1> USE DEF QInv, ListenerToldOff
<1>1. CASE Start \/ Crash
  BY <1>1 DEF Start, Crash
<1>2. CASE Poll \/ NextList \/ ItemsDone \/ SkipItem \/ CollectItem \/ CollectThrows
  BY <1>2 DEF Poll, NextList, ItemsDone, SkipItem, AtItem, CollectItem, CollectThrows
<1>3. CASE EraseIfEmpty \/ TestInbound \/ Receive \/ Draw \/ Unwind \/ PushThrows
  BY <1>3 DEF EraseIfEmpty, TestInbound, Receive, Draw, Unwind, PushThrows, FrameEnd
<1>4. ASSUME NEW to \in MemberLists, PushMessage(to) \/ SendThrows(to)
      PROVE  ListenerToldOff'
  BY <1>4 DEF PushMessage, SendThrows, FrameEnd
<1>5. CASE Quit
  BY <1>5 DEF Quit, StopListener, JoinListener, DropOutbound
<1>6. CASE Worker \/ Arrive
  BY <1>6 DEF Worker, WorkerEnds, Arrive
<1>7. CASE Listen
  BY <1>7 DEF Listen, Bind, TestAlive, RecvFrom, RecvTimesOut, Unpack
<1>8. CASE UNCHANGED vars
  BY <1>8 DEF vars
<1> QED
  BY <1>1, <1>2, <1>3, <1>4, <1>5, <1>6, <1>7, <1>8 DEF Next, Main, Frame

\* A worker that ends is not waited for any more.
LEMMA PendingFalls ==
  ASSUME RInv, NEW a \in Pending, WorkerEnds(a)
  PROVE  Pending' = Pending \ {a}
<1>1. Finished' = Finished \cup {a}
  BY DEF WorkerEnds, Finished
<1>2. UNCHANGED <<spawned, results>> /\ \A b : InOutbound(b)' <=> InOutbound(b)
  BY DEF WorkerEnds, InOutbound
<1> QED
  BY <1>1, <1>2 DEF Pending

LEMMA StepJoins == QInv /\ [Next]_vars => [JoinAdvances]_vars
<1> SUFFICES ASSUME QInv, Next PROVE JoinAdvances
  BY DEF vars
<1>1. CASE Listen
  <2>1. pc' = pc /\ workerVars' = workerVars
    BY <1>1 DEF Listen, Bind, TestAlive, RecvFrom, RecvTimesOut, Unpack
  <2>2. ASSUME pc = "joining" PROVE StepsLeft' < StepsLeft
    <3>1. CASE Bind
      BY <3>1 DEF Bind, StepsLeft
    <3>2. CASE TestAlive
      BY <2>2, <3>2 DEF TestAlive, StepsLeft, QInv, ListenerToldOff
    <3>3. CASE RecvFrom \/ RecvTimesOut
      BY <3>3 DEF RecvFrom, RecvTimesOut, StepsLeft
    <3>4. CASE Unpack
      BY <3>4 DEF Unpack, StepsLeft
    <3> QED
      BY <1>1, <3>1, <3>2, <3>3, <3>4 DEF Listen
  <2> QED
    BY <2>1, <2>2 DEF JoinAdvances
<1>2. CASE Worker
  <2>1. PICK a \in Pending : WorkerEnds(a)
    BY <1>2 DEF Worker
  <2>2. Pending' = Pending \ {a}
    BY <2>1, PendingFalls DEF QInv
  <2>3. UNCHANGED listener
    BY <2>1 DEF WorkerEnds
  <2> QED
    BY <2>1, <2>2, <2>3 DEF JoinAdvances
<1>3. CASE Arrive
  BY <1>3 DEF Arrive, JoinAdvances
<1>4. CASE Start \/ Crash \/ Quit
  BY <1>4 DEF JoinAdvances, Start, Crash, Quit, StopListener, JoinListener,
     DropOutbound
<1>5. CASE Frame
  <2>1. pc # "joining" /\ (pc \in {"unwind", "wait"} => pc' # pc)
    BY <1>5 DEF Frame, Poll, NextList, ItemsDone, SkipItem, AtItem, CollectItem,
       CollectThrows, EraseIfEmpty, TestInbound, Receive, Draw, PushMessage,
       SendThrows, Unwind, PushThrows
  <2> QED
    BY <2>1 DEF JoinAdvances
<1> QED
  BY <1>1, <1>2, <1>3, <1>4, <1>5 DEF Next, Main

\* Quitting cannot go on for ever: while the main thread joins the listener,
\* each step of that thread brings it nearer to its end, and while the
\* destructors wait for the workers, there is one less with each that ends.
THEOREM ShutdownAdvances ==
  Spec => /\ []ListenerToldOff
          /\ [][JoinAdvances]_vars
<1>1. Init => QInv
  BY InitInv DEF QInv, RInv, Init, Distinct, NoListsOff, ListenerToldOff
<1>2. QInv => ListenerToldOff
  BY DEF QInv
<1> QED
  BY <1>1, <1>2, ToldOffStep, StepJoins, PTL DEF Spec

\* With a timeout in force ctrl+q never meets a listener that is stuck: it is
\* not in recvfrom, or a datagram or the timeout ends that.  Without one it
\* does, as the finding about SO_RCVTIMEO says.
THEOREM ListenerIsNeverStuck ==
  ASSUME TimeoutChoices \subseteq {TRUE}
  PROVE  Spec => []ListenerCanGoOn
<1>1. Init => QInv
  BY InitInv DEF QInv, RInv, Init, Distinct, NoListsOff, ListenerToldOff
<1>2. Init => timesOut
  BY DEF Init
<1>3. timesOut /\ [Next]_vars => timesOut'
  <2> SUFFICES ASSUME timesOut, [Next]_vars PROVE timesOut'
    OBVIOUS
  <2>1. CASE Start \/ Crash \/ Arrive \/ Worker \/ UNCHANGED vars
    BY <2>1 DEF Start, Crash, Arrive, Worker, WorkerEnds, vars
  <2>2. CASE Listen
    BY <2>2 DEF Listen, Bind, TestAlive, RecvFrom, RecvTimesOut, Unpack
  <2>3. CASE Frame
    BY <2>3 DEF Frame, Poll, NextList, ItemsDone, SkipItem, CollectItem,
       CollectThrows, EraseIfEmpty, TestInbound, Receive, Draw, PushMessage,
       SendThrows, Unwind, PushThrows
  <2>4. CASE Quit
    BY <2>4 DEF Quit, StopListener, JoinListener, DropOutbound
  <2> QED
    BY <2>1, <2>2, <2>3, <2>4 DEF Next, Main
<1>4. QInv /\ timesOut => ListenerCanGoOn
  BY DEF QInv, ListenerToldOff, ListenerCanGoOn
<1> QED
  BY <1>1, <1>2, <1>3, <1>4, ToldOffStep, PTL DEF Spec

=============================================================================
