---------------------------- MODULE NetOrderProofs ----------------------------
(***************************************************************************)
(* Received messages are stored in the order their datagrams arrived, for  *)
(* every value of the constants of NetScene.                               *)
(*                                                                         *)
(* A datagram passes four places: the socket, the hand of the listener,    *)
(* the queue and the table.  The inductive invariant says of each place    *)
(* that it is in order (for the hand, that it holds one datagram at most), *)
(* of each two of them that what is in the one came before what is in the  *)
(* other, and of all that their numbers have been given out (Known), so    *)
(* that the next one is higher.                                            *)
(***************************************************************************)
EXTENDS NetSceneProofs

USE DEF tableVars, mainVars, listVars, workerVars, socketVars

\* The numbers in the hand of the listener, in the socket, and in the table.
InHand == [i \in DOMAIN hand |-> hand[i].n]
InSock == [i \in DOMAIN sock |-> sock[i].n]
Received == {id \in Ids : ~Message[id].own}
InTable == {Message[id].from : id \in Received}

Increasing(s) == \A i, j \in DOMAIN s : i < j => s[i] < s[j]
AllBelow(s, t) == \A i \in DOMAIN s : \A j \in DOMAIN t : s[i] < t[j]
SetBelow(S, t) == \A n \in S : \A j \in DOMAIN t : n < t[j]

TableInOrder ==
  \A i, j \in Received : i < j => Message[i].from <= Message[j].from

PlacesInOrder ==
  /\ Increasing(inbound) /\ Increasing(InSock) /\ Len(hand) <= 1
  /\ AllBelow(inbound, InHand) /\ AllBelow(inbound, InSock)
  /\ AllBelow(InHand, InSock)

TableFirst ==
  SetBelow(InTable, inbound) /\ SetBelow(InTable, InHand) /\ SetBelow(InTable, InSock)

Known ==
  /\ \A n \in InTable : n <= arrivals
  /\ \A i \in DOMAIN inbound : inbound[i] <= arrivals
  /\ \A i \in DOMAIN hand : hand[i].n <= arrivals
  /\ \A i \in DOMAIN sock : sock[i].n <= arrivals

Order == TableInOrder /\ PlacesInOrder /\ TableFirst /\ Known

OInv == IInv /\ TableInOrder /\ PlacesInOrder /\ TableFirst /\ Known

-----------------------------------------------------------------------------
(* The steps that move a datagram from one place to the next, or drop what *)
(* is in one.                                                              *)

LEMMA OrderTypes ==
  ASSUME IInv
  PROVE  /\ inbound \in Seq(Nat) /\ sock \in Seq(Datagram) /\ hand \in Seq(Datagram)
         /\ Message \in Seq(Row) /\ arrivals \in Nat
         /\ \A i \in DOMAIN sock : sock[i].n \in Nat
         /\ \A i \in DOMAIN hand : hand[i].n \in Nat
         /\ \A i \in DOMAIN inbound : inbound[i] \in Nat
         /\ InTable \subseteq Nat
<1>1. /\ inbound \in Seq(Nat) /\ sock \in Seq(Datagram) /\ hand \in Seq(Datagram)
      /\ Message \in Seq(Row) /\ arrivals \in Nat
  BY DEF IInv, TypeOK
<1>2. /\ \A i \in DOMAIN sock : sock[i].n \in Nat
      /\ \A i \in DOMAIN hand : hand[i].n \in Nat
      /\ \A i \in DOMAIN inbound : inbound[i] \in Nat
  <2>1. /\ \A i \in DOMAIN sock : sock[i] \in Datagram
        /\ \A i \in DOMAIN hand : hand[i] \in Datagram
        /\ \A i \in DOMAIN inbound : inbound[i] \in Nat
    BY <1>1
  <2>2. \A d \in Datagram : d.n \in Nat BY DEF Datagram
  <2> QED BY <2>1, <2>2
<1>3. \A id \in Ids : Message[id].from \in Nat
  <2>1. \A id \in Ids : Message[id] \in Row BY <1>1 DEF Ids
  <2>2. \A r \in Row : r.from \in Nat BY DEF Row
  <2> QED BY <2>1, <2>2
<1> QED BY <1>1, <1>2, <1>3 DEF InTable, Received

\* What a step keeps that touches no datagram and no row of a received message.
LEMMA OrderKept ==
  ASSUME OInv, UNCHANGED <<inbound, hand, sock, arrivals>>, Received' = Received,
         \A id \in Received : Message'[id].from = Message[id].from
  PROVE  Order'
<1>1. InTable' = InTable BY DEF InTable
<1>2. TableInOrder' BY DEF OInv, TableInOrder
<1>3. PlacesInOrder' BY DEF OInv, PlacesInOrder, InHand, InSock, Increasing, AllBelow
<1>4. TableFirst' BY <1>1 DEF OInv, TableFirst, SetBelow, InHand, InSock
<1>5. Known' BY <1>1 DEF OInv, Known
<1> QED BY <1>2, <1>3, <1>4, <1>5 DEF Order

\* The queue, the hand and the socket may be emptied: a crash, ~NetScene, the
\* end of the listener.
LEMMA Emptied ==
  ASSUME OInv, UNCHANGED <<Message, arrivals>>,
         inbound' \in {inbound, <<>>}, hand' \in {hand, <<>>}, sock' \in {sock, <<>>}
  PROVE  Order'
<1>1. InTable' = InTable /\ Received' = Received BY DEF InTable, Received, Ids
<1>2. TableInOrder' BY <1>1 DEF OInv, TableInOrder
<1>3. PlacesInOrder'
  BY DEF OInv, PlacesInOrder, InHand, InSock, Increasing, AllBelow
<1>4. TableFirst' BY <1>1 DEF OInv, TableFirst, SetBelow, InHand, InSock
<1>5. Known' BY <1>1 DEF OInv, Known
<1> QED BY <1>2, <1>3, <1>4, <1>5 DEF Order

\* The socket gives its first datagram to the listener.
LEMMA RecvFromOrder ==
  ASSUME OInv, RecvFrom
  PROVE  Order'
<1>1. /\ UNCHANGED <<Message, inbound, arrivals>> /\ sock # <<>>
      /\ hand' = <<Head(sock)>> /\ sock' = Tail(sock)
  BY DEF RecvFrom
<1>2. sock \in Seq(Datagram) /\ \A i \in DOMAIN sock : sock[i].n \in Nat
  BY OrderTypes DEF OInv
<1>3. /\ 1 \in DOMAIN sock /\ DOMAIN hand' = {1} /\ hand'[1] = sock[1] /\ Len(hand') = 1
      /\ \A i \in DOMAIN sock' : i \in Nat /\ i + 1 \in DOMAIN sock /\ 1 < i + 1
                                 /\ sock'[i] = sock[i + 1]
  BY <1>1, <1>2
<1>4. InTable' = InTable /\ Received' = Received BY <1>1 DEF InTable, Received, Ids
<1>5. TableInOrder' BY <1>1, <1>4 DEF OInv, TableInOrder
<1>6. PlacesInOrder'
  <2>1. Increasing(inbound)' /\ Len(hand)' <= 1
    BY <1>1, <1>3 DEF OInv, PlacesInOrder, Increasing
  <2>2. Increasing(InSock)'
    BY <1>3 DEF OInv, PlacesInOrder, Increasing, InSock
  <2>3. AllBelow(inbound, InHand)'
    BY <1>1, <1>3 DEF OInv, PlacesInOrder, AllBelow, InSock, InHand
  <2>4. AllBelow(inbound, InSock)'
    BY <1>1, <1>3 DEF OInv, PlacesInOrder, AllBelow, InSock
  <2>5. AllBelow(InHand, InSock)'
    BY <1>3 DEF OInv, PlacesInOrder, AllBelow, Increasing, InSock, InHand
  <2> QED BY <2>1, <2>2, <2>3, <2>4, <2>5 DEF PlacesInOrder
<1>7. TableFirst'
  BY <1>1, <1>3, <1>4 DEF OInv, TableFirst, SetBelow, InSock, InHand
<1>8. Known' BY <1>1, <1>3, <1>4 DEF OInv, Known
<1> QED BY <1>5, <1>6, <1>7, <1>8 DEF Order

\* The listener puts the datagram it has behind the queue.
LEMMA UnpackOrder ==
  ASSUME OInv, Unpack
  PROVE  Order'
<1>1. /\ UNCHANGED <<Message, sock, arrivals>> /\ listener = "got" /\ hand' = <<>>
      /\ inbound' = inbound \/ inbound' = Append(inbound, hand[1].n)
  BY DEF Unpack, Enqueue
<1>2. CASE inbound' = inbound BY <1>1, <1>2, Emptied
<1>3. CASE inbound' = Append(inbound, hand[1].n)
  <2>1. /\ inbound \in Seq(Nat) /\ hand \in Seq(Datagram) /\ hand[1].n \in Nat
        /\ 1 \in DOMAIN hand /\ \A i \in DOMAIN inbound : inbound[i] \in Nat
    <3>1. Len(hand) = 1 BY <1>1 DEF OInv, IInv, TypeOK
    <3> QED BY <3>1, OrderTypes DEF OInv
  <2> DEFINE d == hand[1].n
  <2>2. \A i \in DOMAIN inbound' :
          \/ i \in DOMAIN inbound /\ inbound'[i] = inbound[i]
          \/ i = Len(inbound) + 1 /\ inbound'[i] = d
    BY <1>3, <2>1
  <2>3. \A i \in DOMAIN inbound : i \in Nat /\ i < Len(inbound) + 1 BY <2>1
  <2>4. InTable' = InTable /\ Received' = Received BY <1>1 DEF InTable, Received, Ids
  <2>5. TableInOrder' BY <1>1, <2>4 DEF OInv, TableInOrder
  <2>6. \A i \in DOMAIN inbound : inbound[i] < d
    BY <2>1 DEF OInv, PlacesInOrder, AllBelow, InHand
  <2>7. \A j \in DOMAIN sock : d < sock[j].n
    BY <2>1 DEF OInv, PlacesInOrder, AllBelow, InHand, InSock
  <2>8. d <= arrivals /\ \A n \in InTable : n < d
    BY <2>1 DEF OInv, Known, TableFirst, SetBelow, InHand
  <2>9. PlacesInOrder'
    <3>1. Increasing(inbound)'
      BY <2>1, <2>2, <2>3, <2>6 DEF OInv, PlacesInOrder, Increasing
    <3>2. AllBelow(inbound, InSock)'
      BY <1>1, <2>2, <2>7 DEF OInv, PlacesInOrder, AllBelow, InSock
    <3>3. Increasing(InSock)' BY <1>1 DEF OInv, PlacesInOrder, Increasing, InSock
    <3>4. DOMAIN hand' = {} /\ Len(hand') = 0 BY <1>1
    <3> QED BY <3>1, <3>2, <3>3, <3>4 DEF PlacesInOrder, AllBelow, InHand
  <2>10. TableFirst'
    BY <1>1, <2>2, <2>4, <2>8 DEF OInv, TableFirst, SetBelow, InSock, InHand
  <2>11. Known' BY <1>1, <2>2, <2>4, <2>8 DEF OInv, Known
  <2> QED BY <2>5, <2>9, <2>10, <2>11 DEF Order
<1> QED BY <1>1, <1>2, <1>3

\* A datagram that arrives has a number higher than any there is.
LEMMA ArriveOrder ==
  ASSUME OInv, Arrive
  PROVE  Order'
<1>1. UNCHANGED <<Message, inbound, hand>> /\ arrivals' = arrivals + 1 BY DEF Arrive
<1>2. PICK d \in Datagram : sock' = Append(sock, d) /\ d.n = arrivals + 1
  <2>1. arrivals + 1 \in Nat BY OrderTypes DEF OInv
  <2>2. PICK u \in BOOLEAN : sock' = Append(sock, [n |-> arrivals + 1, unpacks |-> u])
    BY DEF Arrive
  <2> QED BY <2>1, <2>2 DEF Datagram
<1>3. /\ sock \in Seq(Datagram) /\ arrivals \in Nat /\ InTable \subseteq Nat
      /\ \A i \in DOMAIN sock : sock[i].n \in Nat
      /\ \A i \in DOMAIN hand : hand[i].n \in Nat
      /\ \A i \in DOMAIN inbound : inbound[i] \in Nat
  BY OrderTypes DEF OInv
<1>4. \A i \in DOMAIN sock' :
        \/ i \in DOMAIN sock /\ sock'[i] = sock[i]
        \/ i = Len(sock) + 1 /\ sock'[i].n = arrivals + 1
  BY <1>2, <1>3
<1>5. \A i \in DOMAIN sock : i \in Nat /\ i < Len(sock) + 1 BY <1>3
<1>6. InTable' = InTable /\ Received' = Received BY <1>1 DEF InTable, Received, Ids
<1>7. TableInOrder' BY <1>1, <1>6 DEF OInv, TableInOrder
<1>8. /\ \A i \in DOMAIN sock : sock[i].n < arrivals + 1
      /\ \A i \in DOMAIN hand : hand[i].n < arrivals + 1
      /\ \A i \in DOMAIN inbound : inbound[i] < arrivals + 1
      /\ \A n \in InTable : n < arrivals + 1
  BY <1>3 DEF OInv, Known
<1>9. PlacesInOrder'
  <2>1. Increasing(InSock)'
    BY <1>3, <1>4, <1>5, <1>8 DEF OInv, PlacesInOrder, Increasing, InSock
  <2>2. AllBelow(inbound, InSock)'
    BY <1>1, <1>4, <1>8 DEF OInv, PlacesInOrder, AllBelow, InSock
  <2>3. AllBelow(InHand, InSock)'
    BY <1>1, <1>4, <1>8 DEF OInv, PlacesInOrder, AllBelow, InHand, InSock
  <2>4. Increasing(inbound)' /\ Len(hand)' <= 1 /\ AllBelow(inbound, InHand)'
    BY <1>1 DEF OInv, PlacesInOrder, Increasing, AllBelow, InHand
  <2> QED BY <2>1, <2>2, <2>3, <2>4 DEF PlacesInOrder
<1>10. TableFirst'
  BY <1>1, <1>4, <1>6, <1>8 DEF OInv, TableFirst, SetBelow, InSock, InHand
<1>11. Known'
  <2>1. \A n \in InTable' : n <= arrivals'
    <3>1. \A n \in InTable : n \in Nat /\ n < arrivals + 1 BY <1>3, <1>8
    <3> QED BY <1>1, <1>6, <3>1
  <2>2. \A i \in DOMAIN inbound' : inbound'[i] <= arrivals' BY <1>1, <1>3, <1>8
  <2>3. \A i \in DOMAIN hand' : hand'[i].n <= arrivals' BY <1>1, <1>3, <1>8
  <2>4. \A i \in DOMAIN sock' : sock'[i].n <= arrivals' BY <1>1, <1>3, <1>4, <1>8
  <2> QED BY <2>1, <2>2, <2>3, <2>4 DEF Known
<1> QED BY <1>7, <1>9, <1>10, <1>11 DEF Order

-----------------------------------------------------------------------------
(* The steps that write rows.                                              *)

\* A status goes to a row of this process.
LEMMA CollectItemOrder ==
  ASSUME OInv, CollectItem
  PROVE  Order'
<1>1. UNCHANGED <<inbound, hand, sock, arrivals>> BY DEF CollectItem
<1>2. PICK a \in Ids \X Peers : Message[a[1]].own /\ Message' = Report(a)
  BY CollectFacts DEF OInv, CollectItem
<1>3. Message \in Seq(Row) BY OrderTypes DEF OInv
<1>4. /\ Ids' = Ids
      /\ \A id \in Ids : /\ Message'[id].own = Message[id].own
                         /\ id # a[1] => Message'[id] = Message[id]
  BY <1>2, <1>3, ReportFacts
<1>5. Received' = Received BY <1>4 DEF Received
<1>6. \A id \in Received : Message'[id].from = Message[id].from
  BY <1>2, <1>4 DEF Received
<1> QED BY <1>1, <1>5, <1>6, OrderKept

\* What is typed is no received message.
LEMMA PushMessageOrder ==
  ASSUME OInv, NEW to \in MemberLists, PushMessage(to) \/ SendThrows(to)
  PROVE  Order'
<1>1. UNCHANGED <<inbound, hand, sock, arrivals>> BY DEF PushMessage, SendThrows
<1>2. /\ Ids' = Ids \cup {RowId}
      /\ \A id \in Ids : Message'[id] = Message[id]
      /\ Message'[RowId].own
  BY PushFacts DEF OInv, PushMessage, SendThrows
<1>3. Received' = Received BY <1>2 DEF Received
<1>4. \A id \in Received : Message'[id].from = Message[id].from
  BY <1>2 DEF Received
<1> QED BY <1>1, <1>3, <1>4, OrderKept

\* The front of the queue goes to the end of the table.
LEMMA ReceiveOrder ==
  ASSUME OInv, Receive
  PROVE  Order'
<1>1. /\ UNCHANGED <<hand, sock, arrivals>> /\ inbound # <<>>
      /\ inbound' = Tail(inbound)
  BY DEF Receive, Dequeue
<1> DEFINE d == Head(inbound)
<1>2. /\ inbound \in Seq(Nat) /\ d \in Nat /\ 1 \in DOMAIN inbound /\ d = inbound[1]
      /\ \A i \in DOMAIN inbound' : i \in Nat /\ i + 1 \in DOMAIN inbound /\ 1 < i + 1
                                    /\ inbound'[i] = inbound[i + 1]
  BY <1>1, OrderTypes DEF OInv
<1>3. /\ Ids \subseteq Ids' /\ Len(Message') >= Len(Message)
      /\ \A id \in Ids : Message'[id] = Message[id]
      /\ \A id \in Ids' \ Ids : ~Message'[id].own /\ Message'[id].from = d
  BY ReceiveFacts DEF OInv
<1> HIDE DEF d
<1>4. \A id \in Received' :
        \/ id \in Received /\ Message'[id].from = Message[id].from
        \/ id \in Ids' \ Ids /\ Message'[id].from = d
  BY <1>3 DEF Received
<1>5. \A n \in InTable : n \in Nat /\ n < d
  BY <1>2, OrderTypes DEF OInv, TableFirst, SetBelow
<1>6. \A id \in Received : Message[id].from \in Nat /\ Message[id].from < d
  BY <1>5 DEF InTable
<1>7. \A n \in InTable' : n \in InTable \/ n = d BY <1>4 DEF InTable
<1>8. TableInOrder'
  <2> SUFFICES ASSUME NEW i \in Received', NEW j \in Received', i < j
               PROVE  Message'[i].from <= Message'[j].from
    BY DEF TableInOrder
  <2>1. CASE i \in Received /\ j \in Received
    <3>1. Message[i].from <= Message[j].from BY <2>1 DEF OInv, TableInOrder
    <3> QED BY <1>3, <2>1, <3>1 DEF Received
  <2>2. CASE j \in Ids' \ Ids BY <1>2, <1>4, <1>6, <2>2 DEF Received
  <2>3. CASE i \in Ids' \ Ids /\ j \in Received
    <3>1. Message \in Seq(Row) /\ Message' \in Seq(Row)
      BY OrderTypes, ReceiveFacts DEF OInv
    <3>2. j <= Len(Message) /\ i > Len(Message) /\ {i, j, Len(Message)} \subseteq Nat
      BY <2>3, <3>1 DEF Received, Ids
    <3> QED BY <3>2
  <2> QED BY <1>4, <2>1, <2>2, <2>3
<1>9. PlacesInOrder'
  <2>1. Increasing(inbound)'
    BY <1>2 DEF OInv, PlacesInOrder, Increasing
  <2>2. AllBelow(inbound, InHand)' /\ AllBelow(inbound, InSock)'
    <3>1. AllBelow(inbound, InHand) /\ AllBelow(inbound, InSock)
      BY DEF OInv, PlacesInOrder
    <3>2. InHand' = InHand /\ InSock' = InSock BY <1>1 DEF InHand, InSock
    <3>3. \A i \in DOMAIN inbound' : \E k \in DOMAIN inbound : inbound'[i] = inbound[k]
      BY <1>2
    <3> QED BY <3>1, <3>2, <3>3 DEF AllBelow
  <2>3. Increasing(InSock)' /\ AllBelow(InHand, InSock)' /\ Len(hand)' <= 1
    BY <1>1 DEF OInv, PlacesInOrder, AllBelow, Increasing, InHand, InSock
  <2> QED BY <2>1, <2>2, <2>3 DEF PlacesInOrder
<1>10. TableFirst'
  <2>1. SetBelow(InTable, inbound)'
    <3>1. \A j \in DOMAIN inbound : 1 < j => d < inbound[j]
      BY <1>2 DEF OInv, PlacesInOrder, Increasing
    <3> QED BY <1>2, <1>7, <3>1 DEF OInv, TableFirst, SetBelow
  <2>2. SetBelow(InTable, InHand)'
    BY <1>1, <1>2, <1>7 DEF OInv, TableFirst, SetBelow, PlacesInOrder, AllBelow, InHand
  <2>3. SetBelow(InTable, InSock)'
    BY <1>1, <1>2, <1>7 DEF OInv, TableFirst, SetBelow, PlacesInOrder, AllBelow, InSock
  <2> QED BY <2>1, <2>2, <2>3 DEF TableFirst
<1>11. Known' BY <1>1, <1>2, <1>7 DEF OInv, Known
<1> QED BY <1>8, <1>9, <1>10, <1>11 DEF Order

-----------------------------------------------------------------------------
(* The invariant is inductive.                                             *)

LEMMA InitOrder == Init => OInv
<1> SUFFICES ASSUME Init PROVE OInv
  OBVIOUS
<1>1. /\ Message = <<>> /\ inbound = <<>> /\ hand = <<>> /\ sock = <<>>
      /\ arrivals = 0
  BY DEF Init
<1>2. Received = {} BY <1>1 DEF Received, Ids
<1>3. InTable = {} BY <1>2 DEF InTable
<1>4. TableInOrder /\ Known BY <1>1, <1>2, <1>3 DEF TableInOrder, Known
<1>5. PlacesInOrder
  BY <1>1 DEF PlacesInOrder, Increasing, AllBelow, InHand, InSock
<1>6. TableFirst BY <1>3 DEF TableFirst, SetBelow
<1> QED BY <1>4, <1>5, <1>6, InitInv DEF OInv

LEMMA StepOrder == OInv /\ [Next]_vars => OInv'
<1> SUFFICES ASSUME OInv, [Next]_vars PROVE Order'
  BY StepInv DEF OInv, Order
<1>1. CASE UNCHANGED <<Message, inbound, hand, sock, arrivals>>
  <2>1. Received' = Received BY <1>1 DEF Received, Ids
  <2> QED BY <1>1, <2>1, OrderKept
<1>2. CASE Start BY <1>1, <1>2 DEF Start
<1>3. CASE Crash BY <1>3, Emptied DEF Crash
<1>4. CASE Frame
  <2>1. CASE CollectItem BY <2>1, CollectItemOrder
  <2>2. CASE Receive BY <2>2, ReceiveOrder
  <2>3. CASE \E to \in MemberLists : PushMessage(to) \/ SendThrows(to)
    BY <2>3, PushMessageOrder
  <2> QED BY <1>1, <1>4, <2>1, <2>2, <2>3 DEF Frame, Poll, NextList, ItemsDone,
         SkipItem, CollectThrows, EraseIfEmpty, TestInbound, Draw, Unwind,
         PushThrows
<1>5. CASE Quit
  <2>1. CASE JoinListener BY <2>1, Emptied DEF JoinListener
  <2> QED BY <1>1, <1>5, <2>1 DEF Quit, StopListener, DropOutbound
<1>6. CASE Worker BY <1>1, <1>6 DEF Worker, WorkerEnds
<1>7. CASE Listen
  <2>1. CASE TestAlive BY <2>1, Emptied DEF TestAlive
  <2>2. CASE RecvFrom BY <2>2, RecvFromOrder
  <2>3. CASE Unpack BY <2>3, UnpackOrder
  <2> QED BY <1>1, <1>7, <2>1, <2>2, <2>3 DEF Listen, Bind, RecvTimesOut
<1>8. CASE Arrive BY <1>8, ArriveOrder
<1> QED BY <1>1, <1>2, <1>3, <1>4, <1>5, <1>6, <1>7, <1>8 DEF Next, Main, vars

THEOREM OrderInvariance == Spec => []OInv
BY InitOrder, StepOrder, PTL DEF Spec

-----------------------------------------------------------------------------
(* What follows from it.                                                   *)

\* The numbers of a sequence of datagrams.
LEMMA NumbersType ==
  ASSUME NEW s \in Seq(Datagram)
  PROVE  [i \in DOMAIN s |-> s[i].n] \in Seq(Nat)
<1> DEFINE f == [i \in DOMAIN s |-> s[i].n]
<1>1. Len(s) \in Nat /\ DOMAIN s = 1 .. Len(s) OBVIOUS
<1>2. \A i \in DOMAIN s : s[i] \in Datagram OBVIOUS
<1>3. \A d \in Datagram : d.n \in Nat BY DEF Datagram
<1>4. f \in [1 .. Len(s) -> Nat] BY <1>1, <1>2, <1>3
<1> HIDE DEF f
<1>5. f \in Seq(Nat) BY <1>1, <1>4
<1> QED BY <1>5 DEF f

\* Two increasing sequences, one below the other, joined.
LEMMA JoinedIncreasing ==
  ASSUME NEW s \in Seq(Nat), NEW t \in Seq(Nat),
         Increasing(s), Increasing(t), AllBelow(s, t)
  PROVE  Increasing(s \o t)
<1>1. /\ Len(s) \in Nat /\ Len(t) \in Nat
      /\ \A i \in DOMAIN (s \o t) :
           \/ i \in DOMAIN s /\ (s \o t)[i] = s[i]
           \/ i - Len(s) \in DOMAIN t /\ i > Len(s) /\ (s \o t)[i] = t[i - Len(s)]
  OBVIOUS
<1>2. \A i \in DOMAIN (s \o t) : i \in Nat OBVIOUS
<1>3. \A i \in DOMAIN s : i \in Nat /\ i <= Len(s) OBVIOUS
<1> QED BY <1>1, <1>2, <1>3 DEF Increasing, AllBelow

\* What is above a set, or above a sequence, joined.
LEMMA JoinedAbove ==
  ASSUME NEW S, NEW s \in Seq(Nat), NEW t \in Seq(Nat)
  PROVE  /\ SetBelow(S, s) /\ SetBelow(S, t) => SetBelow(S, s \o t)
         /\ \A u : AllBelow(s, u) /\ AllBelow(t, u) => AllBelow(s \o t, u)
<1>1. \A i \in DOMAIN (s \o t) :
           \/ i \in DOMAIN s /\ (s \o t)[i] = s[i]
           \/ i - Len(s) \in DOMAIN t /\ (s \o t)[i] = t[i - Len(s)]
  OBVIOUS
<1> QED BY <1>1 DEF SetBelow, AllBelow

\* Messages are stored in the order their datagrams arrived, whatever the
\* listener, the frame loop, crashes and restarts do in between.
THEOREM InboundIsOrdered == Spec => []InboundOrder
<1>1. ASSUME OInv PROVE InboundOrder
  <2>1. InHand \in Seq(Nat) /\ InSock \in Seq(Nat) /\ inbound \in Seq(Nat)
    <3>1. /\ inbound \in Seq(Nat) /\ sock \in Seq(Datagram) /\ hand \in Seq(Datagram)
      BY <1>1, OrderTypes DEF OInv
    <3>2. InHand \in Seq(Nat) BY <3>1, NumbersType DEF InHand
    <3>3. InSock \in Seq(Nat) BY <3>1, NumbersType DEF InSock
    <3> QED BY <3>1, <3>2, <3>3
  <2>2. Increasing(InHand)
    BY <1>1, OrderTypes DEF OInv, PlacesInOrder, Increasing, InHand
  <2> DEFINE first == inbound \o InHand
             coming == first \o InSock
  <2>3. Increasing(first)
    BY <1>1, <2>1, <2>2, JoinedIncreasing DEF OInv, PlacesInOrder
  <2>4. first \in Seq(Nat) BY <2>1
  <2>5. AllBelow(first, InSock)
    BY <1>1, <2>1, JoinedAbove DEF OInv, PlacesInOrder
  <2>6. SetBelow(InTable, first)
    BY <1>1, <2>1, JoinedAbove DEF OInv, TableFirst
  <2> HIDE DEF first
  <2>7. Increasing(coming)
    BY <1>1, <2>1, <2>3, <2>4, <2>5, JoinedIncreasing DEF OInv, PlacesInOrder
  <2>8. SetBelow(InTable, coming)
    BY <1>1, <2>1, <2>4, <2>6, JoinedAbove DEF OInv, TableFirst
  <2>9. coming = inbound \o [i \in DOMAIN hand |-> hand[i].n]
                         \o [i \in DOMAIN sock |-> sock[i].n]
    BY DEF first, InHand, InSock
  <2> HIDE DEF coming
  <2>10. \A i, j \in DOMAIN coming : i < j => coming[i] < coming[j]
    BY <2>7 DEF Increasing
  <2>11. \A i \in Received : \A j \in DOMAIN coming : Message[i].from < coming[j]
    BY <2>8 DEF SetBelow, InTable
  <2>12. \A i, j \in Received : i < j => Message[i].from <= Message[j].from
    BY <1>1 DEF OInv, TableInOrder
  <2> QED BY <2>9, <2>10, <2>11, <2>12 DEF InboundOrder, Received
<1> QED BY <1>1, OrderInvariance, PTL

=============================================================================
