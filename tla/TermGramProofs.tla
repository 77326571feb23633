---------------------------- MODULE TermGramProofs ----------------------------
(***************************************************************************)
(* TermGram for any number of processes, databases, messages and faults:   *)
(* what is stored as received was written, and nothing vanishes within the *)
(* programs.                                                               *)
(*                                                                         *)
(* Both rest on Backed: whatever a worker holds or the network carries     *)
(* says what a row of its sender says.  Nothing makes that untrue, because *)
(* tables only grow and a status is all that changes in a row.             *)
(***************************************************************************)
EXTENDS TermGram, FiniteSetTheorems, TLAPS

\* A letter is what its sender's row says, to one of its sender's users.
Backed(l) ==
  LET n == l.id[1]
      k == l.id[2]
      u == l.id[3]
  IN  /\ n \in Node /\ k \in DOMAIN Message[n] /\ u \in DOMAIN User[n]
      /\ Wrote(n, k, l.message) /\ WritesTo(n, u, l.to)

OpenBacked ==
  \A n \in Node : \A a \in open[n] : a.letter.id[1] = n /\ Backed(a.letter)
NetBacked == \A d \in net : Backed(d.letter)

\* What was to be sent was to be sent for a row, to a user.
PostedBacked ==
  \A p \in posted :
    p[1] \in Node /\ p[2] \in DOMAIN Message[p[1]] /\ p[3] \in DOMAIN User[p[1]]

IInv == TypeOK /\ OpenBacked /\ NetBacked /\ PostedBacked
          /\ ReceivedWasWritten /\ NothingVanishes

-----------------------------------------------------------------------------
(* Tables only grow.                                                       *)

\* Of the tables before, all is kept but the status of messages.
Kept ==
  \A n \in Node :
    /\ \A c \in DOMAIN Chat[n] : c \in DOMAIN Chat'[n] /\ Chat'[n][c] = Chat[n][c]
    /\ \A u \in DOMAIN User[n] : u \in DOMAIN User'[n] /\ User'[n][u] = User[n][u]
    /\ \A k \in DOMAIN Message[n] :
         /\ k \in DOMAIN Message'[n]
         /\ Message'[n][k].in_chat = Message[n][k].in_chat
         /\ Message'[n][k].sent_by = Message[n][k].sent_by
         /\ Message'[n][k].content = Message[n][k].content

LEMMA AppendKeeps ==
  ASSUME NEW S, NEW s \in Seq(S), NEW e \in S
  PROVE  /\ Append(s, e) \in Seq(S)
         /\ DOMAIN Append(s, e) = 1 .. Len(s) + 1
         /\ \A i \in DOMAIN s : i \in DOMAIN Append(s, e) /\ Append(s, e)[i] = s[i]
         /\ Append(s, e)[Len(s) + 1] = e
OBVIOUS

LEMMA ExceptInSeq ==
  ASSUME NEW S, NEW s \in Seq(S), NEW i \in DOMAIN s, NEW e \in S
  PROVE  [s EXCEPT ![i] = e] \in Seq(S)
OBVIOUS

LEMMA WroteKept ==
  ASSUME TypeOK, Kept, NEW n \in Node, NEW k \in DOMAIN Message[n], NEW m, Wrote(n, k, m)
  PROVE  Wrote(n, k, m)'
<1>1. Message[n][k].in_chat \in DOMAIN Chat[n] BY DEF TypeOK
<1> QED BY <1>1 DEF Kept, Wrote

LEMMA WritesToKept ==
  ASSUME Kept, NEW n \in Node, NEW u \in DOMAIN User[n], NEW to, WritesTo(n, u, to)
  PROVE  WritesTo(n, u, to)'
BY DEF Kept, WritesTo

LEMMA BackedKept ==
  ASSUME TypeOK, Kept, NEW l, Backed(l)
  PROVE  Backed(l)'
<1>1. /\ l.id[1] \in Node /\ l.id[2] \in DOMAIN Message[l.id[1]]
      /\ l.id[3] \in DOMAIN User[l.id[1]]
      /\ Wrote(l.id[1], l.id[2], l.message) /\ WritesTo(l.id[1], l.id[3], l.to)
  BY DEF Backed
<1>2. Wrote(l.id[1], l.id[2], l.message)' BY <1>1, WroteKept
<1>3. WritesTo(l.id[1], l.id[3], l.to)' BY <1>1, WritesToKept
<1>4. l.id[2] \in DOMAIN Message'[l.id[1]] /\ l.id[3] \in DOMAIN User'[l.id[1]]
  BY <1>1 DEF Kept
<1> QED BY <1>1, <1>2, <1>3, <1>4 DEF Backed

\* A row that was received goes on saying what it says.
LEMMA ReceivedKept ==
  ASSUME TypeOK, Kept, NEW n \in Node, NEW i \in DOMAIN Message[n],
         Message[n][i].sent_by # Ours
  PROVE  /\ i \in DOMAIN Message'[n] /\ Message'[n][i].sent_by # Ours
         /\ Received(n, i)' = Received(n, i)
<1>1. Message[n][i].in_chat \in DOMAIN Chat[n] /\ Message[n][i].sent_by \in DOMAIN User[n]
  BY DEF TypeOK
<1> QED BY <1>1 DEF Kept, Received

LEMMA StoredKept ==
  ASSUME TypeOK, Kept, NEW p, p[1] \in Node, p[2] \in DOMAIN Message[p[1]],
         p[3] \in DOMAIN User[p[1]], Stored(p)
  PROVE  Stored(p)'
<1>0. User[p[1]] \in Seq(UserRow) BY DEF TypeOK
<1>1. PICK to \in Node : to = User[p[1]][p[3]].at
  <2>1. User[p[1]][p[3]] \in UserRow BY <1>0
  <2> QED BY <2>1 DEF UserRow
<1>2. PICK i \in DOMAIN Message[to] :
        Message[to][i].sent_by # Ours /\ Wrote(p[1], p[2], Received(to, i))
  BY <1>1 DEF Stored
<1>3. /\ i \in DOMAIN Message'[to] /\ Message'[to][i].sent_by # Ours
      /\ Received(to, i)' = Received(to, i)
  BY <1>2, ReceivedKept
<1> PICK m : m = Received(to, i) OBVIOUS
<1>4. Wrote(p[1], p[2], Received(to, i))'
  <2>1. Wrote(p[1], p[2], m)' BY <1>2, WroteKept
  <2> QED BY <2>1, <1>3
<1>5. User'[p[1]][p[3]] = User[p[1]][p[3]] BY DEF Kept
<1> QED BY <1>1, <1>3, <1>4, <1>5 DEF Stored

\* A received row that was there, with all that shows that it was written.
LEMMA OldReceived ==
  ASSUME TypeOK, Kept, ReceivedWasWritten, NEW n \in Node, NEW i \in DOMAIN Message[n],
         Message[n][i].sent_by # Ours
  PROVE  /\ Message'[n][i].content \notin Long
         /\ \E from \in Node :
              /\ \E k \in DOMAIN Message'[from] : Wrote(from, k, Received(n, i))'
              /\ \E u \in DOMAIN User'[from] : WritesTo(from, u, n)'
<1>1. PICK from \in Node :
        /\ \E k \in DOMAIN Message[from] : Wrote(from, k, Received(n, i))
        /\ \E u \in DOMAIN User[from] : WritesTo(from, u, n)
  BY DEF ReceivedWasWritten
<1>2. PICK k \in DOMAIN Message[from] : Wrote(from, k, Received(n, i)) BY <1>1
<1>3. PICK u \in DOMAIN User[from] : WritesTo(from, u, n) BY <1>1
<1>4. Received(n, i)' = Received(n, i) BY ReceivedKept
<1> PICK m : m = Received(n, i) OBVIOUS
<1>5. Wrote(from, k, Received(n, i))'
  <2>1. Wrote(from, k, m)' BY <1>2, WroteKept
  <2> QED BY <2>1, <1>4
<1>6. WritesTo(from, u, n)' BY <1>3, WritesToKept
<1>7. k \in DOMAIN Message'[from] /\ u \in DOMAIN User'[from] BY DEF Kept
<1>8. Message'[n][i].content \notin Long BY DEF ReceivedWasWritten, Kept
<1> QED BY <1>5, <1>6, <1>7, <1>8

-----------------------------------------------------------------------------
(* What a step has to show of itself for the invariant to hold after it.   *)

LEMMA OpenStep ==
  ASSUME TypeOK, Kept, OpenBacked,
         \A n \in Node : \A a \in open'[n] : \E b \in open[n] : b.letter = a.letter
  PROVE  OpenBacked'
<1> SUFFICES ASSUME NEW n \in Node, NEW a \in open'[n]
             PROVE  a.letter.id[1] = n /\ Backed(a.letter)'
  BY DEF OpenBacked
<1>1. a.letter.id[1] = n /\ Backed(a.letter) BY DEF OpenBacked
<1> PICK l : l = a.letter OBVIOUS
<1>2. Backed(l)' BY <1>1, BackedKept
<1> QED BY <1>1, <1>2

LEMMA NetStep ==
  ASSUME TypeOK, Kept, \A d \in net' : Backed(d.letter)
  PROVE  NetBacked'
<1> SUFFICES ASSUME NEW d \in net' PROVE Backed(d.letter)'
  BY DEF NetBacked
<1> PICK l : l = d.letter OBVIOUS
<1>1. Backed(l)' BY BackedKept
<1> QED BY <1>1

LEMMA PostedStep ==
  ASSUME Kept, PostedBacked, posted' = posted
  PROVE  PostedBacked'
BY DEF PostedBacked, Kept

\* A step that stores nothing received.
LEMMA WrittenStep ==
  ASSUME TypeOK, Kept, ReceivedWasWritten,
         \A n \in Node : \A i \in DOMAIN Message'[n] :
           Message'[n][i].sent_by # Ours => i \in DOMAIN Message[n]
  PROVE  ReceivedWasWritten'
<1> SUFFICES ASSUME NEW n \in Node, NEW i \in DOMAIN Message'[n],
                    Message'[n][i].sent_by # Ours
             PROVE  /\ Message'[n][i].content \notin Long
                    /\ \E from \in Node :
                         /\ \E k \in DOMAIN Message'[from] : Wrote(from, k, Received(n, i))'
                         /\ \E u \in DOMAIN User'[from] : WritesTo(from, u, n)'
  BY DEF ReceivedWasWritten
<1>1. i \in DOMAIN Message[n] OBVIOUS
<1>2. Message[n][i].sent_by # Ours BY <1>1 DEF Kept
<1> QED BY <1>1, <1>2, OldReceived

\* A step that accounts for what was waiting and for what was on its way.
LEMMA VanishStep ==
  ASSUME TypeOK, Kept, PostedBacked, NothingVanishes,
         posted' = posted, lost \subseteq lost',
         \A p \in posted : Waiting(p) => Waiting(p)' \/ OnItsWay(p)' \/ p \in lost',
         \A p \in posted : OnItsWay(p) => OnItsWay(p)' \/ Stored(p)' \/ p \in lost'
  PROVE  NothingVanishes'
<1> SUFFICES ASSUME NEW p \in posted
             PROVE  Waiting(p)' \/ OnItsWay(p)' \/ Stored(p)' \/ p \in lost'
  BY DEF NothingVanishes
<1>1. p[1] \in Node /\ p[2] \in DOMAIN Message[p[1]] /\ p[3] \in DOMAIN User[p[1]]
  BY DEF PostedBacked
<1>2. Stored(p) => Stored(p)' BY <1>1, StoredKept
<1> QED BY <1>2 DEF NothingVanishes

\* A step that leaves the rows of all processes alone.
LEMMA TablesKept ==
  ASSUME TypeOK, UNCHANGED <<Chat, User, Message>>
  PROVE  /\ Kept
         /\ \A n \in Node : \A i \in DOMAIN Message'[n] :
              Message'[n][i].sent_by # Ours => i \in DOMAIN Message[n]
BY DEF Kept

LEMMA WaitsOn ==
  ASSUME open' = open, NEW p \in posted, Waiting(p)
  PROVE  Waiting(p)'
BY DEF Waiting

LEMMA TravelsOn ==
  ASSUME net \subseteq net', NEW p \in posted, OnItsWay(p)
  PROVE  OnItsWay(p)'
BY DEF OnItsWay

-----------------------------------------------------------------------------
(* The network, and what is dropped.                                       *)

\* A datagram is gone, and its letter is accounted for.
LEMMA GoneStep ==
  ASSUME IInv, NEW d \in net, net' = net \ {d}, lost' = lost \cup {d.letter.id},
         UNCHANGED <<tables, up, open, faults, changes, posted>>
  PROVE  IInv'
<1> USE DEF IInv
<1>1. Kept /\ \A n \in Node : \A i \in DOMAIN Message'[n] :
                Message'[n][i].sent_by # Ours => i \in DOMAIN Message[n]
  BY TablesKept DEF tables
<1>2. TypeOK'
  <2>1. d.letter.id \in Node \X Nat \X Nat BY DEF TypeOK, Letters
  <2> QED BY <2>1 DEF TypeOK, tables
<1>3. OpenBacked' BY <1>1, OpenStep
<1>4. NetBacked' BY <1>1, NetStep DEF NetBacked
<1>5. PostedBacked' BY <1>1, PostedStep
<1>6. ReceivedWasWritten' BY <1>1, WrittenStep
<1>7. NothingVanishes'
  <2>1. ASSUME NEW p \in posted, OnItsWay(p) PROVE OnItsWay(p)' \/ p \in lost'
    BY <2>1 DEF OnItsWay
  <2> QED BY <1>1, <2>1, WaitsOn, VanishStep
<1> QED BY <1>2, <1>3, <1>4, <1>5, <1>6, <1>7

LEMMA LoseStep == ASSUME IInv, NEW d \in net, Lose(d) PROVE IInv'
BY GoneStep DEF Lose

LEMMA TruncatedStep == ASSUME IInv, NEW d \in net, ReceiveTruncated(d) PROVE IInv'
BY GoneStep DEF ReceiveTruncated

LEMMA DuplicateStep ==
  ASSUME IInv, NEW d \in net, Duplicate(d)
  PROVE  IInv'
<1> USE DEF IInv, Duplicate
<1>1. Kept /\ \A n \in Node : \A i \in DOMAIN Message'[n] :
                Message'[n][i].sent_by # Ours => i \in DOMAIN Message[n]
  BY TablesKept DEF tables
<1>2. TypeOK'
  <2>1. d.letter \in Letters BY DEF TypeOK
  <2>2. faults + 1 \in Nat BY DEF TypeOK
  <2>3. Datagram(d.letter, faults + 1) \in [letter : Letters, copy : Nat]
    BY <2>1, <2>2 DEF Datagram
  <2> QED BY <2>2, <2>3 DEF TypeOK, tables, history
<1>3. OpenBacked' BY <1>1, OpenStep
<1>4. NetBacked'
  <2>1. \A e \in net' : Backed(e.letter) BY DEF NetBacked, Datagram
  <2> QED BY <1>1, <2>1, NetStep
<1>5. PostedBacked' BY <1>1, PostedStep DEF history
<1>6. ReceivedWasWritten' BY <1>1, WrittenStep
<1>7. NothingVanishes' BY <1>1, WaitsOn, TravelsOn, VanishStep DEF history
<1> QED BY <1>2, <1>3, <1>4, <1>5, <1>6, <1>7

-----------------------------------------------------------------------------
(* Sending.                                                                *)

LEMMA PushStep ==
  ASSUME IInv, NEW n \in Node, NEW c \in DOMAIN Chat[n], NEW text \in Text,
         PushMessage(n, c, text)
  PROVE  IInv'
<1> USE DEF IInv
<1> PICK k : k = Len(Message[n]) + 1 OBVIOUS
<1> DEFINE row == MessageRow(c, Ours, text)
           l(u) == Letter(n, k, u, Packed(n, c, text))
<1>1. /\ Message' = [Message EXCEPT ![n] = Insert(@, row)]
      /\ open' = [open EXCEPT ![n] = @ \cup
                    {[letter |-> l(u), result |-> "none"] : u \in Recipients(n, c)}]
      /\ posted' = posted \cup
           {<<n, k, u>> : u \in {v \in DOMAIN User[n] :
                <<c, v>> \in Chat_has_User[n] /\ User[n][v].name # Name[n]}}
      /\ UNCHANGED <<Chat, User, Chat_has_User, up, net, faults, changes, lost>>
  BY DEF PushMessage
<1>2. /\ c \in Nat /\ row \in MessageRows /\ row.in_chat = c /\ row.sent_by = Ours
      /\ row.content = text
  <2>1. Chat[n] \in Seq(ChatName) BY DEF TypeOK
  <2>2. c \in Nat BY <2>1
  <2> QED BY <2>2 DEF MessageRow, MessageRows, Ours
<1>3. /\ Message[n] \in Seq(MessageRows) /\ k \in Nat
      /\ Message'[n] = Append(Message[n], row) /\ Message'[n] \in Seq(MessageRows)
      /\ DOMAIN Message'[n] = 1 .. k
      /\ \A i \in DOMAIN Message[n] : i \in DOMAIN Message'[n] /\ Message'[n][i] = Message[n][i]
      /\ Message'[n][k] = row
      /\ \A i \in DOMAIN Message'[n] : i = k \/ i \in DOMAIN Message[n]
  <2>1. Message[n] \in Seq(MessageRows) /\ Message'[n] = Append(Message[n], row)
    BY <1>1 DEF TypeOK, Insert
  <2>2. DOMAIN Message[n] = 1 .. Len(Message[n]) /\ Len(Message[n]) \in Nat BY <2>1
  <2> HIDE DEF row
  <2> QED BY <2>1, <2>2, <1>2, AppendKeeps
<1>4. \A m \in Node : m # n => Message'[m] = Message[m] BY <1>1 DEF TypeOK
<1>5. Kept
  <2> SUFFICES ASSUME NEW m \in Node, NEW i \in DOMAIN Message[m]
               PROVE  i \in DOMAIN Message'[m] /\ Message'[m][i] = Message[m][i]
    BY <1>1 DEF Kept
  <2>1. CASE m = n BY <2>1, <1>3
  <2>2. CASE m # n BY <2>2, <1>4
  <2> QED BY <2>1, <2>2
<1>6. /\ Recipients(n, c) =
           {v \in DOMAIN User[n] :
              <<c, v>> \in Chat_has_User[n] /\ User[n][v].name # Name[n]}
      /\ User[n] \in Seq(UserRow) /\ Recipients(n, c) \subseteq Nat
  <2>0. Chat_has_User[n] \subseteq (DOMAIN Chat[n]) \X (DOMAIN User[n])
    BY DEF TypeOK
  <2>1. AllForChat(Chat_has_User[n], c) =
          {v \in DOMAIN User[n] : <<c, v>> \in Chat_has_User[n]}
    <3>1. ASSUME NEW v \in AllForChat(Chat_has_User[n], c)
          PROVE  v \in DOMAIN User[n] /\ <<c, v>> \in Chat_has_User[n]
      <4>1. PICK cu \in Chat_has_User[n] : cu[1] = c /\ v = cu[2]
        BY <3>1 DEF AllForChat
      <4>2. cu = <<cu[1], cu[2]>> /\ cu[2] \in DOMAIN User[n] BY <2>0
      <4> QED BY <4>1, <4>2
    <3>2. ASSUME NEW v, <<c, v>> \in Chat_has_User[n]
          PROVE  v \in AllForChat(Chat_has_User[n], c)
      <4>1. <<c, v>> \in {m \in Chat_has_User[n] : m[1] = c} BY <3>2
      <4>2. <<c, v>>[2] = v OBVIOUS
      <4> QED BY <4>1, <4>2 DEF AllForChat
    <3> QED BY <3>1, <3>2
  <2>2. User[n] \in Seq(UserRow) BY DEF TypeOK
  <2> QED BY <2>1, <2>2 DEF Recipients
<1>7. ASSUME NEW u \in Recipients(n, c), NEW x, x = l(u)
      PROVE  x \in Letters /\ x.id = <<n, k, u>> /\ Backed(x)'
  <2>1. /\ User[n][u] \in UserRow /\ u \in Nat /\ u \in DOMAIN User[n]
        /\ User[n][u].name # Name[n]
    BY <1>6
  <2>2. Packed(n, c, text) \in UdpMessage
    <3>1. Name[n] \in UserName BY TermGramAssumption
    <3>2. Chat[n] \in Seq(ChatName) BY DEF TypeOK
    <3> QED BY <3>1, <3>2 DEF Packed, UdpMessage
  <2>3. x \in Letters
    BY <2>1, <2>2, <1>3, <1>7 DEF Letter, Letters, AddressOf, UserRow
  <2>4. /\ x.id = <<n, k, u>> /\ x.to = User[n][u].at
        /\ x.message = Packed(n, c, text)
    BY <1>7 DEF Letter, AddressOf
  <2>5. Wrote(n, k, x.message)'
    BY <2>4, <1>1, <1>2, <1>3 DEF Wrote, Packed
  <2>6. WritesTo(n, u, x.to)' BY <2>1, <2>4, <1>1 DEF WritesTo
  <2>7. k \in DOMAIN Message'[n] /\ u \in DOMAIN User'[n] BY <2>1, <1>1, <1>3
  <2>8. x.id[1] = n /\ x.id[2] = k /\ x.id[3] = u BY <2>4
  <2> QED BY <2>3, <2>4, <2>5, <2>6, <2>7, <2>8 DEF Backed
<1>8. \A m \in Node : \A a \in open'[m] :
        \/ a \in open[m]
        \/ m = n /\ \E u \in Recipients(n, c) :
                       a = [letter |-> l(u), result |-> "none"]
  BY <1>1 DEF TypeOK
<1>9. TypeOK'
  <2>1. Message' \in [Node -> Seq(MessageRows)]
    BY <1>1, <1>2 DEF TypeOK, Insert
  <2>2. open' \in [Node -> SUBSET [letter : Letters, result : Results]]
    <3>1. {[letter |-> l(u), result |-> "none"] : u \in Recipients(n, c)}
            \subseteq [letter : Letters, result : Results]
      BY <1>7 DEF Results
    <3> HIDE DEF l
    <3> QED BY <1>1, <3>1 DEF TypeOK
  <2>3. ASSUME NEW m \in Node, NEW i \in DOMAIN Message'[m]
        PROVE  /\ Message'[m][i].in_chat \in DOMAIN Chat'[m]
               /\ Message'[m][i].sent_by \in (DOMAIN User'[m]) \cup {Ours}
    <3>1. CASE m = n /\ i = k BY <3>1, <1>1, <1>2, <1>3
    <3>2. CASE i \in DOMAIN Message[m] /\ Message'[m][i] = Message[m][i]
      BY <3>2, <1>1 DEF TypeOK
    <3> QED BY <3>1, <3>2, <1>3, <1>4
  <2>4. posted' \subseteq Node \X Nat \X Nat
    <3>1. posted' = posted \cup {<<n, k, u>> : u \in Recipients(n, c)} BY <1>1, <1>6
    <3>2. \A v \in Recipients(n, c) : <<n, k, v>> \in Node \X Nat \X Nat
      BY <1>3, <1>6
    <3>3. posted \subseteq Node \X Nat \X Nat BY DEF TypeOK
    <3> QED BY <3>1, <3>2, <3>3
  <2> QED BY <1>1, <2>1, <2>2, <2>3, <2>4 DEF TypeOK
<1>10. OpenBacked'
  <2> SUFFICES ASSUME NEW m \in Node, NEW a \in open'[m]
               PROVE  a.letter.id[1] = m /\ Backed(a.letter)'
    BY DEF OpenBacked
  <2> PICK x : x = a.letter OBVIOUS
  <2>1. CASE a \in open[m]
    <3>1. x.id[1] = m /\ Backed(x) BY <2>1 DEF OpenBacked
    <3> QED BY <3>1, <1>5, BackedKept
  <2>2. ASSUME NEW u \in Recipients(n, c), m = n,
               a = [letter |-> l(u), result |-> "none"]
        PROVE  x.id[1] = m /\ Backed(x)'
    <3>1. x = l(u) BY <2>2
    <3>2. x.id = <<n, k, u>> /\ Backed(x)' BY <3>1, <1>7
    <3> QED BY <3>2, <2>2
  <2> QED BY <2>1, <2>2, <1>8
<1>11. NetBacked' BY <1>1, <1>5, NetStep DEF NetBacked
<1>12. PostedBacked'
  <2> SUFFICES ASSUME NEW p \in posted'
               PROVE  /\ p[1] \in Node /\ p[2] \in DOMAIN Message'[p[1]]
                      /\ p[3] \in DOMAIN User'[p[1]]
    BY DEF PostedBacked
  <2>1. CASE p \in posted BY <2>1, <1>5 DEF PostedBacked, Kept
  <2>2. ASSUME NEW u \in Recipients(n, c), p = <<n, k, u>>
        PROVE  /\ p[1] \in Node /\ p[2] \in DOMAIN Message'[p[1]]
               /\ p[3] \in DOMAIN User'[p[1]]
    BY <2>2, <1>1, <1>3, <1>6
  <2> QED BY <2>1, <2>2, <1>1, <1>6
<1>13. ReceivedWasWritten'
  <2>1. ASSUME NEW m \in Node, NEW i \in DOMAIN Message'[m],
               Message'[m][i].sent_by # Ours
        PROVE  i \in DOMAIN Message[m]
    BY <2>1, <1>2, <1>3, <1>4
  <2> QED BY <1>5, <2>1, WrittenStep
<1>14. NothingVanishes'
  <2> SUFFICES ASSUME NEW p \in posted'
               PROVE  Waiting(p)' \/ OnItsWay(p)' \/ Stored(p)' \/ p \in lost'
    BY DEF NothingVanishes
  <2>1. CASE p \in posted
    <3>1. /\ p[1] \in Node /\ p[2] \in DOMAIN Message[p[1]]
          /\ p[3] \in DOMAIN User[p[1]]
      BY <2>1 DEF PostedBacked
    <3>2. Stored(p) => Stored(p)' BY <3>1, <1>5, StoredKept
    <3>3. Waiting(p) => Waiting(p)'
      <4>1. open[p[1]] \subseteq open'[p[1]] BY <1>1, <3>1 DEF TypeOK
      <4> QED BY <4>1 DEF Waiting
    <3>4. OnItsWay(p) => OnItsWay(p)' BY <1>1 DEF OnItsWay
    <3> QED BY <2>1, <3>2, <3>3, <3>4, <1>1 DEF NothingVanishes
  <2>2. ASSUME NEW u \in Recipients(n, c), p = <<n, k, u>> PROVE Waiting(p)'
    <3> PICK x : x = l(u) OBVIOUS
    <3>1. [letter |-> x, result |-> "none"] \in open'[n] BY <1>1 DEF TypeOK
    <3>2. x.id = p BY <2>2, <1>7
    <3>3. p[1] = n BY <2>2
    <3> HIDE DEF l
    <3> QED BY <3>1, <3>2, <3>3 DEF Waiting
  <2> QED BY <2>1, <2>2, <1>1, <1>6
<1> QED BY <1>9, <1>10, <1>11, <1>12, <1>13, <1>14

LEMMA WorkerStep ==
  ASSUME IInv, NEW n \in Node, NEW a \in open[n], WorkerEnds(n, a)
  PROVE  IInv'
<1> USE DEF IInv
<1>1. PICK r \in {"handed", "refused", "threw"} :
        /\ open' = [open EXCEPT ![n] = (@ \ {a}) \cup {[a EXCEPT !.result = r]}]
        /\ net' = IF r = "handed" THEN net \cup {Datagram(a.letter, 0)} ELSE net
        /\ lost' = IF r = "handed" THEN lost ELSE lost \cup {a.letter.id}
  BY DEF WorkerEnds
<1>2. UNCHANGED <<tables, up, faults, changes, posted>> BY DEF WorkerEnds
<1>3. Kept /\ \A m \in Node : \A i \in DOMAIN Message'[m] :
                Message'[m][i].sent_by # Ours => i \in DOMAIN Message[m]
  BY <1>2, TablesKept DEF tables
<1>4. a \in [letter : Letters, result : Results] /\ a.letter.id[1] = n /\ Backed(a.letter)
  BY DEF TypeOK, OpenBacked
<1>5. /\ \A m \in Node : \A b \in open'[m] : \E e \in open[m] : e.letter = b.letter
      /\ \A m \in Node : \A e \in open[m] : e # a => e \in open'[m]
      /\ open' \in [Node -> SUBSET [letter : Letters, result : Results]]
  <2> PICK b : b = [a EXCEPT !.result = r] OBVIOUS
  <2>1. b.letter = a.letter /\ b \in [letter : Letters, result : Results]
    BY <1>4 DEF Results
  <2>2. open' = [open EXCEPT ![n] = (@ \ {a}) \cup {b}] BY <1>1
  <2> QED BY <2>1, <2>2 DEF TypeOK
<1>6. TypeOK'
  <2>1. Datagram(a.letter, 0) \in [letter : Letters, copy : Nat] BY <1>4 DEF Datagram
  <2>2. a.letter.id \in Node \X Nat \X Nat BY <1>4 DEF Letters
  <2>3. net' \subseteq [letter : Letters, copy : Nat] BY <1>1, <2>1 DEF TypeOK
  <2>4. lost' \subseteq Node \X Nat \X Nat BY <1>1, <2>2 DEF TypeOK
  <2> QED BY <1>2, <1>5, <2>3, <2>4 DEF TypeOK, tables
<1>7. OpenBacked' BY <1>3, <1>5, OpenStep
<1>8. NetBacked'
  <2>1. \A d \in net' : Backed(d.letter) BY <1>1, <1>4 DEF NetBacked, Datagram
  <2> QED BY <1>3, <2>1, NetStep
<1>9. PostedBacked' BY <1>2, <1>3, PostedStep
<1>10. ReceivedWasWritten' BY <1>3, WrittenStep
<1>11. NothingVanishes'
  <2>1. ASSUME NEW p \in posted, Waiting(p)
        PROVE  Waiting(p)' \/ OnItsWay(p)' \/ p \in lost'
    <3>1. PICK b \in open[p[1]] : b.letter.id = p /\ b.result = "none"
      BY <2>1 DEF Waiting
    <3>2. CASE b = a /\ r = "handed"
      <4>1. Datagram(a.letter, 0) \in net' /\ Datagram(a.letter, 0).letter = a.letter
        BY <1>1, <3>2 DEF Datagram
      <4> QED BY <4>1, <3>1, <3>2 DEF OnItsWay
    <3>3. CASE b = a /\ r # "handed" BY <1>1, <3>1, <3>3
    <3>4. CASE b # a
      <4>1. p[1] \in Node BY DEF PostedBacked
      <4>2. b \in open'[p[1]] BY <1>5, <3>4, <4>1
      <4> QED BY <3>1, <4>2 DEF Waiting
    <3> QED BY <3>2, <3>3, <3>4
  <2>2. \A p \in posted : OnItsWay(p) => OnItsWay(p)' BY <1>1, TravelsOn
  <2>3. lost \subseteq lost' /\ posted' = posted BY <1>1, <1>2
  <2> QED BY <1>3, <2>1, <2>2, <2>3, VanishStep
<1> QED BY <1>6, <1>7, <1>8, <1>9, <1>10, <1>11

LEMMA CollectStep ==
  ASSUME IInv, NEW n \in Node, NEW a \in open[n], CollectResult(n, a)
  PROVE  IInv'
<1> USE DEF IInv
<1> PICK k : k = a.letter.id[2] OBVIOUS
<1>1. /\ a.result # "none" /\ open' = [open EXCEPT ![n] = @ \ {a}]
      /\ Message' = [Message EXCEPT ![n] =
           IF a.result = "threw" THEN UpdateWithError(@, k) ELSE UpdateWithSent(@, k)]
      /\ UNCHANGED <<Chat, User, Chat_has_User, up, net, faults, changes, posted, lost>>
  BY DEF CollectResult, history
<1>2. k \in DOMAIN Message[n] BY DEF OpenBacked, Backed
<1>3. PICK row \in MessageRows :
        /\ Message'[n] = [Message[n] EXCEPT ![k] = row]
        /\ row.in_chat = Message[n][k].in_chat /\ row.sent_by = Message[n][k].sent_by
        /\ row.content = Message[n][k].content
  <2>1. Message[n] \in Seq(MessageRows) BY DEF TypeOK
  <2>2. Message[n][k] \in MessageRows BY <2>1, <1>2
  <2>3. [Message[n][k] EXCEPT !.sent = TRUE] \in MessageRows
        /\ [Message[n][k] EXCEPT !.error = TRUE] \in MessageRows
    BY <2>2 DEF MessageRows
  <2>4. /\ Message'[n] = IF a.result = "threw" THEN UpdateWithError(Message[n], k)
                                               ELSE UpdateWithSent(Message[n], k)
    BY <1>1 DEF TypeOK
  <2>5. CASE a.result = "threw"
    <3>1. Message'[n] = [Message[n] EXCEPT ![k] = [Message[n][k] EXCEPT !.error = TRUE]]
      BY <2>4, <2>5, <1>2 DEF UpdateWithError
    <3> QED BY <3>1, <2>2, <2>3 DEF MessageRows
  <2>6. CASE a.result # "threw"
    <3>1. Message'[n] = [Message[n] EXCEPT ![k] = [Message[n][k] EXCEPT !.sent = TRUE]]
      BY <2>4, <2>6, <1>2 DEF UpdateWithSent
    <3> QED BY <3>1, <2>2, <2>3 DEF MessageRows
  <2> QED BY <2>5, <2>6
<1>4. /\ \A m \in Node : m # n => Message'[m] = Message[m]
      /\ \A m \in Node : DOMAIN Message'[m] = DOMAIN Message[m]
      /\ \A m \in Node : \A i \in DOMAIN Message[m] :
           /\ Message'[m][i].in_chat = Message[m][i].in_chat
           /\ Message'[m][i].sent_by = Message[m][i].sent_by
           /\ Message'[m][i].content = Message[m][i].content
  <2>1. \A m \in Node : m # n => Message'[m] = Message[m] BY <1>1 DEF TypeOK
  <2>2. /\ DOMAIN Message'[n] = DOMAIN Message[n]
        /\ \A i \in DOMAIN Message[n] :
             Message'[n][i] = IF i = k THEN row ELSE Message[n][i]
    BY <1>3
  <2> HIDE DEF IInv
  <2>3. \A i \in DOMAIN Message[n] :
          /\ Message'[n][i].in_chat = Message[n][i].in_chat
          /\ Message'[n][i].sent_by = Message[n][i].sent_by
          /\ Message'[n][i].content = Message[n][i].content
    BY <1>3, <2>2
  <2> QED BY <2>1, <2>2, <2>3
<1>5. Kept BY <1>1, <1>4 DEF Kept
<1>6. /\ \A m \in Node : open'[m] \subseteq open[m]
      /\ \A m \in Node : \A e \in open[m] : e # a => e \in open'[m]
      /\ open' \in [Node -> SUBSET [letter : Letters, result : Results]]
  BY <1>1 DEF TypeOK
<1>7. TypeOK'
  <2>1. \A m \in Node : Message'[m] \in Seq(MessageRows)
    <3>1. Message[n] \in Seq(MessageRows) BY DEF TypeOK
    <3>2. Message'[n] \in Seq(MessageRows) BY <1>2, <1>3, <3>1, ExceptInSeq
    <3> QED BY <1>4, <3>2 DEF TypeOK
  <2>2. Message' \in [Node -> Seq(MessageRows)] BY <1>1, <2>1 DEF TypeOK
  <2>3. \A m \in Node : \A i \in DOMAIN Message'[m] :
          /\ Message'[m][i].in_chat \in DOMAIN Chat[m]
          /\ Message'[m][i].sent_by \in (DOMAIN User[m]) \cup {Ours}
    <3> SUFFICES ASSUME NEW m \in Node, NEW i \in DOMAIN Message'[m]
                 PROVE  /\ Message'[m][i].in_chat \in DOMAIN Chat[m]
                        /\ Message'[m][i].sent_by \in (DOMAIN User[m]) \cup {Ours}
      OBVIOUS
    <3>1. /\ Message[m][i].in_chat \in DOMAIN Chat[m]
          /\ Message[m][i].sent_by \in (DOMAIN User[m]) \cup {Ours}
      BY <1>4 DEF TypeOK
    <3> QED BY <1>4, <3>1
  <2> QED BY <1>1, <1>6, <2>2, <2>3 DEF TypeOK
<1>8. OpenBacked' BY <1>5, <1>6, OpenStep
<1>9. NetBacked' BY <1>1, <1>5, NetStep DEF NetBacked
<1>10. PostedBacked' BY <1>1, <1>5, PostedStep
<1>11. ReceivedWasWritten' BY <1>4, <1>5, WrittenStep
<1>12. NothingVanishes'
  <2>1. ASSUME NEW p \in posted, Waiting(p) PROVE Waiting(p)'
    <3>1. PICK b \in open[p[1]] : b.letter.id = p /\ b.result = "none"
      BY <2>1 DEF Waiting
    <3>2. p[1] \in Node BY DEF PostedBacked
    <3> QED BY <1>1, <1>6, <3>1, <3>2 DEF Waiting
  <2> QED BY <1>1, <1>5, <2>1, TravelsOn, VanishStep
<1> QED BY <1>7, <1>8, <1>9, <1>10, <1>11, <1>12

-----------------------------------------------------------------------------
(* Receiving.                                                              *)

\* A message goes only where its author is a member of a chat of that name.
LEMMA MatchesKnown ==
  ASSUME TypeOK, NEW n \in Node, NEW m, NEW uc \in Matches(n, m)
  PROVE  /\ uc[1] \in DOMAIN User[n] /\ uc[2] \in DOMAIN Chat[n]
         /\ User[n][uc[1]].name = m.sent_by /\ Chat[n][uc[2]] = m.sent_from
BY DEF Matches, AllThatContainUserAndChat

LEMMA KnownMatches ==
  ASSUME NEW n \in Node, NEW m, Knows(n, m)
  PROVE  Matches(n, m) # {}
<1>1. PICK u \in DOMAIN User[n], c \in DOMAIN Chat[n] :
        /\ User[n][u].name = m.sent_by /\ Chat[n][c] = m.sent_from
        /\ <<c, u>> \in Chat_has_User[n]
  BY DEF Knows
<1>2. <<u, c>> \in Matches(n, m) BY <1>1 DEF Matches, AllThatContainUserAndChat
<1> QED BY <1>2

\* Process n gets rows that say m, one at least if there is a match.
Added(n, m, S) ==
  /\ Kept /\ Message' \in [Node -> Seq(MessageRows)]
  /\ \A q \in Node : q # n => Message'[q] = Message[q]
  /\ \A i \in DOMAIN Message'[n] :
       \/ i \in DOMAIN Message[n] /\ Message'[n][i] = Message[n][i]
       \/ /\ Message'[n][i].in_chat \in DOMAIN Chat[n]
          /\ Message'[n][i].sent_by \in DOMAIN User[n]
          /\ Message'[n][i].sent_by # Ours
          /\ Message'[n][i].content = m.content /\ Received(n, i)' = m
  /\ S # {} => \E i \in DOMAIN Message'[n] :
                 Message'[n][i].sent_by # Ours /\ Received(n, i)' = m

\* The rows that are added, whichever matches they are for.
LEMMA RowsAdded ==
  ASSUME TypeOK, NEW n \in Node, NEW m \in UdpMessage, NEW S \in SUBSET Matches(n, m),
         NEW order \in Orders(S), UNCHANGED <<Chat, User>>,
         Message' = [Message EXCEPT ![n] = @ \o Rows(order, m)]
  PROVE  Added(n, m, S)
<1> DEFINE old == Message[n]
           new == Rows(order, m)
<1>1. /\ old \in Seq(MessageRows) /\ Chat[n] \in Seq(ChatName) /\ User[n] \in Seq(UserRow)
      /\ Message'[n] = old \o new
  BY DEF TypeOK
<1>2. DOMAIN order = 1 .. Cardinality(S) BY DEF Orders
<1>3. ASSUME NEW j \in DOMAIN order
      PROVE  /\ order[j] \in S /\ new[j] \in MessageRows
             /\ new[j].in_chat = order[j][2] /\ order[j][2] \in DOMAIN Chat[n]
             /\ new[j].sent_by = order[j][1] /\ order[j][1] \in DOMAIN User[n]
             /\ new[j].sent_by # Ours /\ new[j].content = m.content
  <2>1. order[j] \in S BY DEF Orders
  <2>2. order[j][1] \in DOMAIN User[n] /\ order[j][2] \in DOMAIN Chat[n]
    BY <2>1, MatchesKnown
  <2>3. order[j][1] \in Nat /\ order[j][2] \in Nat /\ order[j][1] # Ours
    BY <1>1, <2>2 DEF Ours
  <2>4. new[j] = MessageRow(order[j][2], order[j][1], m.content) BY DEF Rows
  <2>5. m.content \in Text BY DEF UdpMessage
  <2> QED BY <2>1, <2>2, <2>3, <2>4, <2>5 DEF MessageRow, MessageRows
<1>4. Cardinality(S) \in Nat
  <2>1. /\ DOMAIN User[n] = 1 .. Len(User[n]) /\ Len(User[n]) \in Nat
        /\ DOMAIN Chat[n] = 1 .. Len(Chat[n]) /\ Len(Chat[n]) \in Nat
    BY <1>1
  <2>2. IsFiniteSet(DOMAIN User[n]) /\ IsFiniteSet(DOMAIN Chat[n])
    <3>1. Len(User[n]) \in Int /\ Len(Chat[n]) \in Int /\ 1 \in Int BY <2>1
    <3>2. IsFiniteSet(1 .. Len(User[n])) /\ IsFiniteSet(1 .. Len(Chat[n]))
      BY <3>1, FS_Interval
    <3> QED BY <2>1, <3>2
  <2>3. IsFiniteSet((DOMAIN User[n]) \X (DOMAIN Chat[n])) BY <2>2, FS_Product
  <2>4. S \subseteq (DOMAIN User[n]) \X (DOMAIN Chat[n])
    BY DEF Matches, AllThatContainUserAndChat
  <2> QED BY <2>3, <2>4, FS_Subset, FS_CardinalityType
<1>5. new \in Seq(MessageRows) /\ Len(new) = Cardinality(S) /\ DOMAIN new = DOMAIN order
  <2>1. DOMAIN new = 1 .. Cardinality(S) BY <1>2 DEF Rows
  <2>2. new = [j \in 1 .. Cardinality(S) |-> new[j]] BY <1>2 DEF Rows
  <2>3. \A j \in 1 .. Cardinality(S) : new[j] \in MessageRows BY <1>2, <1>3
  <2> HIDE DEF new
  <2> QED BY <1>2, <1>4, <2>1, <2>2, <2>3
<1>6. /\ old \o new \in Seq(MessageRows)
      /\ DOMAIN (old \o new) = 1 .. Len(old) + Len(new)
      /\ \A i \in DOMAIN old : i \in DOMAIN (old \o new) /\ (old \o new)[i] = old[i]
      /\ \A j \in DOMAIN new : Len(old) + j \in DOMAIN (old \o new)
                                /\ (old \o new)[Len(old) + j] = new[j]
      /\ \A i \in DOMAIN (old \o new) :
           i \in DOMAIN old \/ \E j \in DOMAIN new : i = Len(old) + j
  <2> HIDE DEF old, new
  <2>1. /\ DOMAIN old = 1 .. Len(old) /\ Len(old) \in Nat
        /\ DOMAIN new = 1 .. Len(new) /\ Len(new) \in Nat
    BY <1>1, <1>5
  <2>2. ASSUME NEW i \in 1 .. Len(old) + Len(new), i \notin DOMAIN old
        PROVE  \E j \in DOMAIN new : i = Len(old) + j
    <3>1. PICK j \in Nat : j = i - Len(old) BY <2>1, <2>2
    <3>2. j \in DOMAIN new /\ i = Len(old) + j BY <2>1, <2>2, <3>1
    <3> QED BY <3>2
  <2> QED BY <1>1, <1>5, <2>1, <2>2
<1>7. \A q \in Node : q # n => Message'[q] = Message[q] BY DEF TypeOK
<1>8. ASSUME NEW q \in Node, NEW i \in DOMAIN Message[q]
      PROVE  i \in DOMAIN Message'[q] /\ Message'[q][i] = Message[q][i]
  <2>1. CASE q = n BY <2>1, <1>1, <1>6
  <2>2. CASE q # n BY <2>2, <1>7
  <2> QED BY <2>1, <2>2
<1>9. Kept BY <1>8 DEF Kept
<1>10. Message' \in [Node -> Seq(MessageRows)] BY <1>1, <1>6 DEF TypeOK
<1>11. ASSUME NEW j \in DOMAIN order, NEW i, i = Len(old) + j
       PROVE  /\ i \in DOMAIN Message'[n]
              /\ Message'[n][i].in_chat \in DOMAIN Chat[n]
              /\ Message'[n][i].sent_by \in DOMAIN User[n]
              /\ Message'[n][i].sent_by # Ours
              /\ Message'[n][i].content = m.content /\ Received(n, i)' = m
  <2>1. i \in DOMAIN Message'[n] /\ Message'[n][i] = new[j]
    BY <1>1, <1>5, <1>6, <1>11
  <2>2. /\ User[n][order[j][1]].name = m.sent_by /\ Chat[n][order[j][2]] = m.sent_from
    BY <1>3, MatchesKnown
  <2>3. m = [content |-> m.content, sent_by |-> m.sent_by, sent_from |-> m.sent_from]
    BY DEF UdpMessage
  <2>4. Received(n, i)' =
          [content |-> m.content, sent_by |-> m.sent_by, sent_from |-> m.sent_from]
    BY <1>3, <2>1, <2>2 DEF Received
  <2> QED BY <1>3, <2>1, <2>3, <2>4
<1>12. S # {} => \E i \in DOMAIN Message'[n] :
                   Message'[n][i].sent_by # Ours /\ Received(n, i)' = m
  <2>1. ASSUME NEW s \in S PROVE \E j \in DOMAIN order : order[j] = s
    BY DEF Orders
  <2> QED BY <2>1, <1>11
<1>13. ASSUME NEW i \in DOMAIN Message'[n]
       PROVE  \/ i \in DOMAIN Message[n] /\ Message'[n][i] = Message[n][i]
              \/ /\ Message'[n][i].in_chat \in DOMAIN Chat[n]
                 /\ Message'[n][i].sent_by \in DOMAIN User[n]
                 /\ Message'[n][i].sent_by # Ours
                 /\ Message'[n][i].content = m.content /\ Received(n, i)' = m
  <2>1. i \in DOMAIN old \/ \E j \in DOMAIN order : i = Len(old) + j
    BY <1>1, <1>5, <1>6
  <2> QED BY <2>1, <1>8, <1>11
<1> QED BY <1>7, <1>9, <1>10, <1>12, <1>13 DEF Added

\* What a receipt keeps, whatever it is for and whatever is lost with it.
LEMMA ArrivalStep ==
  ASSUME IInv, NEW n \in Node, NEW d \in net, d.letter.to = n,
         NEW S \in SUBSET Matches(n, d.letter.message), NEW order \in Orders(S),
         d.letter.message.content \notin Long, net' = net \ {d},
         Message' = [Message EXCEPT ![n] = @ \o Rows(order, d.letter.message)],
         UNCHANGED <<Chat, User, Chat_has_User, up, open, faults, changes, posted>>,
         lost \subseteq lost', lost' \subseteq lost \cup {d.letter.id},
         S # {} \/ d.letter.id \in lost'
  PROVE  IInv'
<1> USE DEF IInv
<1> PICK m : m = d.letter.message OBVIOUS
<1>1. d.letter \in Letters /\ m \in UdpMessage BY DEF TypeOK, Letters
<1>2. /\ Kept /\ Message' \in [Node -> Seq(MessageRows)]
      /\ \A q \in Node : q # n => Message'[q] = Message[q]
      /\ \A i \in DOMAIN Message'[n] :
           \/ i \in DOMAIN Message[n] /\ Message'[n][i] = Message[n][i]
           \/ /\ Message'[n][i].in_chat \in DOMAIN Chat[n]
              /\ Message'[n][i].sent_by \in DOMAIN User[n]
              /\ Message'[n][i].sent_by # Ours
              /\ Message'[n][i].content = m.content /\ Received(n, i)' = m
      /\ S # {} => \E i \in DOMAIN Message'[n] :
                     Message'[n][i].sent_by # Ours /\ Received(n, i)' = m
  <2>1. /\ UNCHANGED <<Chat, User>> /\ S \in SUBSET Matches(n, m)
        /\ Message' = [Message EXCEPT ![n] = @ \o Rows(order, m)]
    OBVIOUS
  <2>2. Added(n, m, S) BY <1>1, <2>1, RowsAdded
  <2> QED BY <2>2 DEF Added
<1>3. Backed(d.letter) BY DEF NetBacked
<1>4. TypeOK'
  <2>1. ASSUME NEW q \in Node, NEW i \in DOMAIN Message'[q]
        PROVE  /\ Message'[q][i].in_chat \in DOMAIN Chat[q]
               /\ Message'[q][i].sent_by \in (DOMAIN User[q]) \cup {Ours}
    <3>1. CASE i \in DOMAIN Message[q] /\ Message'[q][i] = Message[q][i]
      BY <3>1 DEF TypeOK
    <3> QED BY <3>1, <1>2
  <2>2. lost' \subseteq Node \X Nat \X Nat BY <1>1 DEF TypeOK, Letters
  <2> QED BY <1>2, <2>1, <2>2 DEF TypeOK
<1>5. OpenBacked' BY <1>2, OpenStep
<1>6. NetBacked' BY <1>2, NetStep DEF NetBacked
<1>7. PostedBacked' BY <1>2, PostedStep
<1> PICK l : l = d.letter OBVIOUS
<1>8. /\ l.id[1] \in Node /\ l.id[2] \in DOMAIN Message'[l.id[1]]
      /\ l.id[3] \in DOMAIN User'[l.id[1]]
      /\ Wrote(l.id[1], l.id[2], m)' /\ WritesTo(l.id[1], l.id[3], n)'
  <2>1. Backed(l)' BY <1>2, <1>3, BackedKept
  <2> QED BY <2>1 DEF Backed
<1>9. ReceivedWasWritten'
  <2> SUFFICES ASSUME NEW q \in Node, NEW i \in DOMAIN Message'[q],
                      Message'[q][i].sent_by # Ours
               PROVE  /\ Message'[q][i].content \notin Long
                      /\ \E from \in Node :
                           /\ \E k \in DOMAIN Message'[from] : Wrote(from, k, Received(q, i))'
                           /\ \E u \in DOMAIN User'[from] : WritesTo(from, u, q)'
    BY DEF ReceivedWasWritten
  <2>1. CASE i \in DOMAIN Message[q] /\ Message'[q][i] = Message[q][i]
    <3>1. Message[q][i].sent_by # Ours BY <2>1
    <3>2. TypeOK /\ Kept /\ ReceivedWasWritten BY <1>2
    <3> HIDE DEF IInv
    <3> QED BY <2>1, <3>1, <3>2, OldReceived
  <2>2. CASE q = n /\ Message'[n][i].content = m.content /\ Received(n, i)' = m
    <3>1. Wrote(l.id[1], l.id[2], Received(q, i))' BY <2>2, <1>8
    <3> QED BY <2>2, <3>1, <1>8
  <2>3. CASE q # n BY <2>1, <2>3, <1>2
  <2>4. q = n => \/ i \in DOMAIN Message[q] /\ Message'[q][i] = Message[q][i]
                 \/ Message'[n][i].content = m.content /\ Received(n, i)' = m
    <3> HIDE DEF IInv
    <3> QED BY <1>2
  <2> HIDE DEF IInv
  <2> QED BY <2>1, <2>2, <2>3, <2>4
<1>10. NothingVanishes'
  <2>1. ASSUME NEW p \in posted, OnItsWay(p)
        PROVE  OnItsWay(p)' \/ Stored(p)' \/ p \in lost'
    <3>1. PICK e \in net : e.letter.id = p BY <2>1 DEF OnItsWay
    <3>2. CASE e # d BY <3>1, <3>2 DEF OnItsWay
    <3>3. CASE e = d /\ S # {}
      <4>1. p = l.id BY <3>1, <3>3
      <4>2. PICK i \in DOMAIN Message'[n] :
              Message'[n][i].sent_by # Ours /\ Received(n, i)' = m
        BY <3>3, <1>2
      <4>3. User'[p[1]][p[3]].at = n BY <4>1, <1>8 DEF WritesTo
      <4>4. Wrote(p[1], p[2], Received(n, i))' BY <4>1, <4>2, <1>8
      <4> QED BY <4>2, <4>3, <4>4 DEF Stored
    <3> QED BY <3>1, <3>2, <3>3
  <2> QED BY <1>2, <2>1, WaitsOn, VanishStep
<1> QED BY <1>4, <1>5, <1>6, <1>7, <1>9, <1>10

LEMMA ReceiveStep == ASSUME IInv, NEW d \in net, Receive(d) PROVE IInv'
<1> DEFINE n == d.letter.to
           m == d.letter.message
<1>1. PICK order \in Orders(Matches(n, m)) :
        Message' = [Message EXCEPT ![n] = @ \o Rows(order, m)]
  BY DEF Receive
<1>2. /\ m.content \notin Long /\ net' = net \ {d}
      /\ lost' = IF Knows(n, m) THEN lost ELSE lost \cup {d.letter.id}
      /\ UNCHANGED <<Chat, User, Chat_has_User, up, open, faults, changes, posted>>
  BY DEF Receive
<1>3. n \in Node BY DEF IInv, TypeOK, Letters
<1>4. Matches(n, m) # {} \/ d.letter.id \in lost' BY <1>2, <1>3, KnownMatches
<1>5. lost \subseteq lost' /\ lost' \subseteq lost \cup {d.letter.id} BY <1>2
<1> QED BY <1>1, <1>2, <1>3, <1>4, <1>5, ArrivalStep

LEMMA ReceiveSomeStep == ASSUME IInv, NEW d \in net, ReceiveSome(d) PROVE IInv'
<1> DEFINE n == d.letter.to
           m == d.letter.message
<1> PICK S \in SUBSET Matches(n, m) : \E order \in Orders(S) :
        Message' = [Message EXCEPT ![n] = @ \o Rows(order, m)]
  BY DEF ReceiveSome
<1>1. PICK order \in Orders(S) : Message' = [Message EXCEPT ![n] = @ \o Rows(order, m)]
  OBVIOUS
<1>2. /\ m.content \notin Long /\ net' = net \ {d} /\ lost' = lost \cup {d.letter.id}
      /\ UNCHANGED <<Chat, User, Chat_has_User, up, open, faults, changes, posted>>
  BY DEF ReceiveSome
<1>3. n \in Node BY DEF IInv, TypeOK, Letters
<1> QED BY <1>1, <1>2, <1>3, ArrivalStep

-----------------------------------------------------------------------------
(* Chats, users and members; the end of a process and its restart.         *)

\* A step that sends and receives nothing, and adds to the tables.
LEMMA EditStep ==
  ASSUME IInv, Kept, TypeOK', UNCHANGED <<Message, open, net, posted, lost>>
  PROVE  IInv'
<1> USE DEF IInv
<1>1. OpenBacked' BY OpenStep
<1>2. NetBacked' BY NetStep DEF NetBacked
<1>3. PostedBacked' BY PostedStep
<1>4. ReceivedWasWritten' BY WrittenStep
<1>5. NothingVanishes' BY WaitsOn, TravelsOn, VanishStep
<1> QED BY <1>1, <1>2, <1>3, <1>4, <1>5

LEMMA ChangeNat == ASSUME TypeOK, Change PROVE changes' \in Nat
BY DEF TypeOK, Change

LEMMA MemberStep ==
  ASSUME IInv, NEW n \in Node, NEW c \in DOMAIN Chat[n], NEW u \in DOMAIN User[n],
         AddMember(n, c, u) \/ RemoveMember(n, c, u)
  PROVE  IInv'
<1>1. /\ UNCHANGED <<Chat, User, Message, up, open, net, faults, posted, lost>> /\ Change
      /\ \/ Chat_has_User' = [Chat_has_User EXCEPT ![n] = @ \cup {<<c, u>>}]
         \/ Chat_has_User' = [Chat_has_User EXCEPT ![n] = @ \ {<<c, u>>}]
  BY DEF AddMember, RemoveMember, AddUser, RemoveUser, history
<1>2. TypeOK /\ Kept /\ changes' \in Nat BY <1>1, TablesKept, ChangeNat DEF IInv
<1>3. TypeOK'
  <2>1. Chat[n] \in Seq(ChatName) /\ User[n] \in Seq(UserRow) BY <1>2 DEF TypeOK
  <2>2. c \in Nat /\ u \in Nat BY <2>1
  <2>3. Chat_has_User' \in [Node -> SUBSET (Nat \X Nat)]
    <3>1. Chat_has_User \in [Node -> SUBSET (Nat \X Nat)] BY <1>2 DEF TypeOK
    <3> PICK cu \in Nat \X Nat : cu = <<c, u>> BY <2>2
    <3>2. CASE Chat_has_User' = [Chat_has_User EXCEPT ![n] = @ \cup {cu}] BY <3>1, <3>2
    <3>3. CASE Chat_has_User' = [Chat_has_User EXCEPT ![n] = @ \ {cu}] BY <3>1, <3>3
    <3> QED BY <1>1, <3>2, <3>3
  <2>4. ASSUME NEW q \in Node
        PROVE  /\ Chat_has_User'[q] \subseteq (DOMAIN Chat[q]) \X (DOMAIN User[q])
               /\ \A i \in DOMAIN Message[q] :
                    /\ Message[q][i].in_chat \in DOMAIN Chat[q]
                    /\ Message[q][i].sent_by \in (DOMAIN User[q]) \cup {Ours}
    <3>1. Chat_has_User[q] \subseteq (DOMAIN Chat[q]) \X (DOMAIN User[q])
      BY <1>2 DEF TypeOK
    <3>2. CASE q = n
      <4>1. Chat_has_User'[q] \subseteq Chat_has_User[q] \cup {<<c, u>>}
        BY <1>1, <1>2, <3>2 DEF TypeOK
      <4>2. <<c, u>> \in (DOMAIN Chat[q]) \X (DOMAIN User[q]) BY <3>2
      <4> QED BY <1>2, <3>1, <4>1, <4>2 DEF TypeOK
    <3>3. CASE q # n BY <1>1, <1>2, <3>1, <3>3 DEF TypeOK
    <3> QED BY <3>2, <3>3
  <2> QED BY <1>1, <1>2, <2>3, <2>4 DEF TypeOK
<1> QED BY <1>1, <1>2, <1>3, EditStep

LEMMA NewChatStep ==
  ASSUME IInv, NEW n \in Node, NEW name \in ChatName, NewChat(n, name)
  PROVE  IInv'
<1>1. /\ Chat' = [Chat EXCEPT ![n] = Append(@, name)]
      /\ UNCHANGED <<User, Chat_has_User, Message, up, open, net, faults, posted, lost>>
      /\ Change
  BY DEF NewChat, Insert, history
<1>2. TypeOK /\ changes' \in Nat BY <1>1, ChangeNat DEF IInv
<1>3. Chat[n] \in Seq(ChatName) /\ Chat'[n] = Append(Chat[n], name) BY <1>1, <1>2 DEF TypeOK
<1>4. Chat'[n] \in Seq(ChatName)
      /\ \A c \in DOMAIN Chat[n] : c \in DOMAIN Chat'[n] /\ Chat'[n][c] = Chat[n][c]
  BY <1>3, AppendKeeps
<1>5. \A q \in Node : q # n => Chat'[q] = Chat[q] BY <1>1, <1>2 DEF TypeOK
<1>6. \A q \in Node : /\ Chat'[q] \in Seq(ChatName)
                      /\ \A c \in DOMAIN Chat[q] :
                           c \in DOMAIN Chat'[q] /\ Chat'[q][c] = Chat[q][c]
  BY <1>2, <1>4, <1>5 DEF TypeOK
<1>7. Kept BY <1>1, <1>6 DEF Kept
<1>8. TypeOK'
  <2>1. Chat' \in [Node -> Seq(ChatName)] BY <1>1, <1>2, <1>6 DEF TypeOK
  <2>2. ASSUME NEW q \in Node
        PROVE  /\ Chat_has_User[q] \subseteq (DOMAIN Chat'[q]) \X (DOMAIN User[q])
               /\ \A i \in DOMAIN Message[q] :
                    /\ Message[q][i].in_chat \in DOMAIN Chat'[q]
                    /\ Message[q][i].sent_by \in (DOMAIN User[q]) \cup {Ours}
    <3>1. DOMAIN Chat[q] \subseteq DOMAIN Chat'[q] BY <1>6
    <3> QED BY <1>2, <3>1 DEF TypeOK
  <2> QED BY <1>1, <1>2, <2>1, <2>2 DEF TypeOK
<1> QED BY <1>1, <1>7, <1>8, EditStep

LEMMA NewUserStep ==
  ASSUME IInv, NEW n \in Node, NEW name \in UserName, NEW at \in Node, NewUser(n, name, at)
  PROVE  IInv'
<1> PICK row : row = [name |-> name, at |-> at] OBVIOUS
<1>1. /\ User' = [User EXCEPT ![n] = Append(@, row)]
      /\ UNCHANGED <<Chat, Chat_has_User, Message, up, open, net, faults, posted, lost>>
      /\ Change
  BY DEF NewUser, Insert, history
<1>2. TypeOK /\ changes' \in Nat /\ row \in UserRow BY <1>1, ChangeNat DEF IInv, UserRow
<1>3. User[n] \in Seq(UserRow) /\ User'[n] = Append(User[n], row) BY <1>1, <1>2 DEF TypeOK
<1>4. User'[n] \in Seq(UserRow)
      /\ \A u \in DOMAIN User[n] : u \in DOMAIN User'[n] /\ User'[n][u] = User[n][u]
  BY <1>2, <1>3, AppendKeeps
<1>5. \A q \in Node : q # n => User'[q] = User[q] BY <1>1, <1>2 DEF TypeOK
<1>6. \A q \in Node : /\ User'[q] \in Seq(UserRow)
                      /\ \A u \in DOMAIN User[q] :
                           u \in DOMAIN User'[q] /\ User'[q][u] = User[q][u]
  BY <1>2, <1>4, <1>5 DEF TypeOK
<1>7. Kept BY <1>1, <1>6 DEF Kept
<1>8. TypeOK'
  <2>1. User' \in [Node -> Seq(UserRow)] BY <1>1, <1>2, <1>6 DEF TypeOK
  <2>2. ASSUME NEW q \in Node
        PROVE  /\ Chat_has_User[q] \subseteq (DOMAIN Chat[q]) \X (DOMAIN User'[q])
               /\ \A i \in DOMAIN Message[q] :
                    /\ Message[q][i].in_chat \in DOMAIN Chat[q]
                    /\ Message[q][i].sent_by \in (DOMAIN User'[q]) \cup {Ours}
    <3>1. DOMAIN User[q] \subseteq DOMAIN User'[q] BY <1>6
    <3> QED BY <1>2, <3>1 DEF TypeOK
  <2> QED BY <1>1, <1>2, <2>1, <2>2 DEF TypeOK
<1> QED BY <1>1, <1>7, <1>8, EditStep

\* What a process has not handed to the network when it ends is accounted for.
LEMMA StopStep == ASSUME IInv, NEW n \in Node, Stop(n) PROVE IInv'
<1> USE DEF IInv
<1>1. /\ faults' = faults + 1 /\ up' = [up EXCEPT ![n] = FALSE]
      /\ open' = [open EXCEPT ![n] = {}]
      /\ lost' = lost \cup {a.letter.id : a \in {b \in open[n] : b.result = "none"}}
      /\ UNCHANGED <<Chat, User, Chat_has_User, Message, net, changes, posted>>
  BY DEF Stop, tables
<1>2. Kept /\ \A m \in Node : \A i \in DOMAIN Message'[m] :
                Message'[m][i].sent_by # Ours => i \in DOMAIN Message[m]
  BY <1>1, TablesKept
<1>3. /\ open'[n] = {} /\ \A m \in Node : m # n => open'[m] = open[m]
      /\ open' \in [Node -> SUBSET [letter : Letters, result : Results]]
  BY <1>1 DEF TypeOK
<1>4. TypeOK'
  <2>1. faults' \in Nat BY <1>1 DEF TypeOK
  <2>2. {a.letter.id : a \in {b \in open[n] : b.result = "none"}} \subseteq Node \X Nat \X Nat
    <3>1. \A a \in open[n] : a.letter.id \in Node \X Nat \X Nat BY DEF TypeOK, Letters
    <3> QED BY <3>1
  <2>3. lost' \subseteq Node \X Nat \X Nat BY <1>1, <2>2 DEF TypeOK
  <2>4. up' \in [Node -> BOOLEAN] BY <1>1 DEF TypeOK
  <2> QED BY <1>1, <1>3, <2>1, <2>3, <2>4 DEF TypeOK
<1>5. OpenBacked'
  <2>1. \A m \in Node : open'[m] \subseteq open[m] BY <1>3
  <2> QED BY <1>2, <2>1, OpenStep
<1>6. NetBacked' BY <1>1, <1>2, NetStep DEF NetBacked
<1>7. PostedBacked' BY <1>1, <1>2, PostedStep
<1>8. ReceivedWasWritten' BY <1>2, WrittenStep
<1>9. NothingVanishes'
  <2>1. ASSUME NEW p \in posted, Waiting(p) PROVE Waiting(p)' \/ p \in lost'
    <3>1. PICK b \in open[p[1]] : b.letter.id = p /\ b.result = "none"
      BY <2>1 DEF Waiting
    <3>2. p[1] \in Node BY DEF PostedBacked
    <3>3. CASE p[1] = n BY <1>1, <3>1, <3>3
    <3>4. CASE p[1] # n BY <1>3, <3>1, <3>2, <3>4 DEF Waiting
    <3> QED BY <3>3, <3>4
  <2> QED BY <1>1, <1>2, <2>1, TravelsOn, VanishStep
<1> QED BY <1>4, <1>5, <1>6, <1>7, <1>8, <1>9

LEMMA RestartStep == ASSUME IInv, NEW n \in Node, Restart(n) PROVE IInv'
<1>1. /\ up' = [up EXCEPT ![n] = TRUE]
      /\ UNCHANGED <<Chat, User, Chat_has_User, Message, open, net, faults, changes,
                     posted, lost>>
  BY DEF Restart, tables, history
<1>2. Kept BY <1>1, TablesKept DEF IInv
<1>3. TypeOK' BY <1>1 DEF IInv, TypeOK
<1> QED BY <1>1, <1>2, <1>3, EditStep

-----------------------------------------------------------------------------
(* The theorems.                                                           *)

LEMMA InitInvariant == Init => IInv
<1> SUFFICES ASSUME Init PROVE IInv OBVIOUS
<1>1. PICK t \in [Node -> Tables] :
        /\ Chat = [n \in Node |-> t[n].Chat] /\ User = [n \in Node |-> t[n].User]
        /\ Chat_has_User = [n \in Node |-> t[n].members]
  BY DEF Init
<1>2. /\ Message = [n \in Node |-> <<>>] /\ up = [n \in Node |-> TRUE]
      /\ open = [n \in Node |-> {}] /\ net = {} /\ faults = 0 /\ changes = 0
      /\ posted = {} /\ lost = {}
  BY DEF Init
<1>3. \A n \in Node : /\ Chat[n] \in Seq(ChatName) /\ User[n] \in Seq(UserRow)
                      /\ Chat_has_User[n] \subseteq (DOMAIN Chat[n]) \X (DOMAIN User[n])
  <2> SUFFICES ASSUME NEW n \in Node
               PROVE  /\ Chat[n] \in Seq(ChatName) /\ User[n] \in Seq(UserRow)
                      /\ Chat_has_User[n] \subseteq (DOMAIN Chat[n]) \X (DOMAIN User[n])
    OBVIOUS
  <2>1. t[n] \in Tables OBVIOUS
  <2>2. /\ t[n].Chat \in Seq(ChatName) /\ t[n].User \in Seq(UserRow)
        /\ t[n].members \subseteq (DOMAIN t[n].Chat) \X (DOMAIN t[n].User)
    BY <2>1, TermGramAssumption
  <2> QED BY <1>1, <2>2
<1>4. \A n \in Node : Chat_has_User[n] \subseteq Nat \X Nat
  <2> SUFFICES ASSUME NEW n \in Node PROVE Chat_has_User[n] \subseteq Nat \X Nat OBVIOUS
  <2>1. Chat[n] \in Seq(ChatName) /\ User[n] \in Seq(UserRow) BY <1>3
  <2>2. DOMAIN Chat[n] \subseteq Nat /\ DOMAIN User[n] \subseteq Nat BY <2>1
  <2> QED BY <1>3, <2>2
<1>5. \A n \in Node : Message[n] = <<>> /\ Message[n] \in Seq(MessageRows) /\ DOMAIN Message[n] = {}
  BY <1>2
<1>6. TypeOK
  <2>1. Chat \in [Node -> Seq(ChatName)] /\ User \in [Node -> Seq(UserRow)]
        /\ Chat_has_User \in [Node -> SUBSET (Nat \X Nat)]
    BY <1>1, <1>3, <1>4
  <2> QED BY <1>2, <1>3, <1>5, <2>1 DEF TypeOK
<1>7. OpenBacked /\ NetBacked /\ PostedBacked /\ NothingVanishes
  BY <1>2 DEF OpenBacked, NetBacked, PostedBacked, NothingVanishes
<1>8. ReceivedWasWritten BY <1>5 DEF ReceivedWasWritten
<1> QED BY <1>6, <1>7, <1>8 DEF IInv

LEMMA StepInvariant == IInv /\ [Next]_vars => IInv'
<1> SUFFICES ASSUME IInv, [Next]_vars PROVE IInv' OBVIOUS
<1>1. ASSUME NEW n \in Node, Send(n) PROVE IInv'
  BY <1>1, PushStep, WorkerStep, CollectStep DEF Send
<1>2. ASSUME NEW n \in Node, Edit(n) PROVE IInv'
  BY <1>2, MemberStep, NewChatStep, NewUserStep DEF Edit
<1>3. ASSUME NEW n \in Node, Stop(n) \/ Restart(n) PROVE IInv'
  BY <1>3, StopStep, RestartStep
<1>4. ASSUME NEW d \in net, Network(d) PROVE IInv'
  BY <1>4, LoseStep, DuplicateStep DEF Network
<1>5. ASSUME NEW d \in net, Arrive(d) PROVE IInv'
  BY <1>5, ReceiveStep, ReceiveSomeStep, TruncatedStep DEF Arrive
<1>6. CASE UNCHANGED vars
  <2>1. UNCHANGED <<Chat, User, Chat_has_User, Message, up, open, net, faults, changes,
                    posted, lost>>
    BY <1>6 DEF vars, tables, history
  <2>2. Kept BY <2>1, TablesKept DEF IInv
  <2>3. TypeOK' BY <2>1 DEF IInv, TypeOK
  <2> QED BY <2>1, <2>2, <2>3, EditStep
<1> QED BY <1>1, <1>2, <1>3, <1>4, <1>5, <1>6 DEF Next

\* The invariant holds of whatever the processes and the network do.
LEMMA Invariant == Spec => []IInv
BY InitInvariant, StepInvariant, PTL DEF Spec

\* Every row of every process refers to a chat and a user that it has, for
\* any number of processes (the ids push_message and recv_message insert).
THEOREM TypeCorrect == Spec => []TypeOK
<1>1. IInv => TypeOK BY DEF IInv
<1> QED BY <1>1, Invariant, PTL

\* What a process has stored as received was written by a process of the
\* author's name in a chat of that name, to this process's address, whatever
\* the network repeats or reorders (push_message, recv_message).
THEOREM ReceivedWereWritten == Spec => []ReceivedWasWritten
<1>1. IInv => ReceivedWasWritten BY DEF IInv
<1> QED BY <1>1, Invariant, PTL

\* Every message that was to be sent is with a worker, on its way, stored at
\* the user's address or lost to a failure that has a name.
THEOREM NothingIsLostWithin == Spec => []NothingVanishes
<1>1. IInv => NothingVanishes BY DEF IInv
<1> QED BY <1>1, Invariant, PTL

=============================================================================
