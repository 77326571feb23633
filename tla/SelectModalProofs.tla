-------------------------- MODULE SelectModalProofs --------------------------
(***************************************************************************)
(* Proofs about the modals of SelectView and the event bus: which          *)
(* listeners there are for which modals are shown, and what follows for    *)
(* the keys.                                                               *)
(*                                                                         *)
(* HeardOnce holds whatever modals the user knows.  That esc closes the    *)
(* modal needs that remove_user is not among them, whose close listener    *)
(* is never removed; and that no confirm breaks the primary key needs that *)
(* there is one chat at most, so that the list of the add-user modal is of *)
(* the chat that is selected.  Runs ViewEsc and ViewTwoChats show that     *)
(* neither hypothesis can be left out.                                     *)
(***************************************************************************)
EXTENDS SelectViewProofs

USE DEF tables, caches, busVars, modalVars, chatVars

\* Listener l is in the list s at one place, or at none.
Once(s, l) == \E i \in DOMAIN s : s[i] = l /\ \A j \in DOMAIN s : s[j] = l => j = i
Never(s, l) == \A j \in DOMAIN s : s[j] # l

HeardInv ==
  \A m \in Modals : \A e \in Unmounted(m) :
    IF m \in showing THEN Once(listeners[e], Listener(m, Does[e]))
                     ELSE Never(listeners[e], Listener(m, Does[e]))

\* At most one modal is shown, and it is one the user knows.
OneShown == showing \subseteq Opens /\ (showing = {} \/ \E m \in Opens : showing = {m})

\* The listeners of the other keys do not close anything.
KeepsOpen == {l \in Listeners : l.does # "close"}
KindsInv ==
  /\ \A e \in Events \ {"esc"} : listeners[e] \in Seq(KeepsOpen)
  /\ phase = "dispatch" => key \in Events

\* The one listener of esc is that of the modal that is shown, its handle is
\* the one SelectView holds, and a dispatch of esc has it still to call or has
\* called it.
EscInv ==
  /\ listeners["esc"] = IF showing = {} THEN <<>> ELSE <<closeHandle>>
  /\ \A m \in showing : closeHandle = Listener(m, "close")
  /\ phase = "dispatch" /\ key = "esc" =>
       IF todo = <<>> THEN showing = {} ELSE todo = listeners["esc"]

\* Whom the list of the add-user modal leaves out are the members of the one
\* chat, and perhaps users that have been removed from it.
AddInv ==
  /\ Len(Chat) <= MaxChats /\ phase # "down"
  /\ list["add_user"].avail =>
       AllForChat(Chat_has_User, 1) \subseteq list["add_user"].present

-----------------------------------------------------------------------------
(* Which listeners are in a list of callbacks.                             *)

\* What RemoveAt leaves.
LEMMA RemoveAtFacts ==
  ASSUME NEW S, NEW s \in Seq(S), NEW i \in 1 .. Len(s)
  PROVE  /\ RemoveAt(s, i) \in Seq(S)
         /\ Len(RemoveAt(s, i)) = Len(s) - 1
         /\ \A j \in 1 .. Len(s) - 1 :
              RemoveAt(s, i)[j] = IF j < i THEN s[j] ELSE s[j + 1]
<1> DEFINE before == SubSeq(s, 1, i - 1)
           after == SubSeq(s, i + 1, Len(s))
<1>1. Len(s) \in Nat /\ i \in Nat OBVIOUS
<1>2. /\ before \in Seq(S) /\ Len(before) = i - 1
      /\ \A j \in 1 .. i - 1 : before[j] = s[j]
  BY <1>1
<1>3. /\ after \in Seq(S) /\ Len(after) = Len(s) - i
      /\ \A j \in 1 .. Len(s) - i : after[j] = s[i + j]
  BY <1>1
<1>4. RemoveAt(s, i) = before \o after BY DEF RemoveAt
<1> HIDE DEF before, after
<1>5. RemoveAt(s, i) \in Seq(S) BY <1>2, <1>3, <1>4
<1>6. Len(RemoveAt(s, i)) = Len(s) - 1 BY <1>1, <1>2, <1>3, <1>4
<1>7. ASSUME NEW j \in 1 .. Len(s) - 1
      PROVE  RemoveAt(s, i)[j] = IF j < i THEN s[j] ELSE s[j + 1]
  <2>1. CASE j < i BY <1>1, <1>2, <1>3, <1>4, <2>1
  <2>2. CASE ~(j < i)
    <3>1. j - (i - 1) \in 1 .. Len(s) - i /\ i + (j - (i - 1)) = j + 1
      BY <1>1, <2>2
    <3>2. (before \o after)[j] = after[j - (i - 1)]
      BY <1>1, <1>2, <1>3, <2>2
    <3> QED BY <1>3, <1>4, <2>2, <3>1, <3>2
  <2> QED BY <2>1, <2>2
<1> QED BY <1>5, <1>6, <1>7

\* Taking off a listener that is there: those behind its first place move up.
LEMMA RemoveFirstFacts ==
  ASSUME NEW S, NEW s \in Seq(S), NEW l, \E i \in DOMAIN s : s[i] = l
  PROVE  \E k \in DOMAIN s :
           /\ s[k] = l
           /\ DOMAIN RemoveFirst(s, l) = 1 .. (Len(s) - 1)
           /\ \A i \in 1 .. (Len(s) - 1) :
                RemoveFirst(s, l)[i] = s[IF i < k THEN i ELSE i + 1]
<1> DEFINE I == {i \in 1 .. Len(s) : s[i] = l}
           k == Min(I)
<1>1. DOMAIN s = 1 .. Len(s) /\ Len(s) \in Nat OBVIOUS
<1>2. I \in SUBSET Nat /\ I # {} BY <1>1
<1>3. SelectInSeq(s, LAMBDA v : v = l) = k
  BY <1>2 DEF SelectInSeq
<1>4. k \in I
  <2> HIDE DEF I
  <2> QED BY <1>2, Smallest DEF Min
<1>5. k \in 1 .. Len(s) /\ s[k] = l BY <1>4
<1>6. RemoveFirst(s, l) = RemoveAt(s, k) BY <1>1, <1>3 DEF RemoveFirst
<1> HIDE DEF k
<1>7. /\ RemoveAt(s, k) \in Seq(S) /\ Len(RemoveAt(s, k)) = Len(s) - 1
      /\ \A i \in 1 .. Len(s) - 1 :
           RemoveAt(s, k)[i] = IF i < k THEN s[i] ELSE s[i + 1]
  BY <1>5, RemoveAtFacts
<1>8. DOMAIN RemoveAt(s, k) = 1 .. (Len(s) - 1) BY <1>7
<1>9. \A i \in 1 .. (Len(s) - 1) :
        RemoveAt(s, k)[i] = s[IF i < k THEN i ELSE i + 1]
  BY <1>7
<1> QED BY <1>1, <1>5, <1>6, <1>8, <1>9

\* Adding a listener, and taking one off, and what that is for the others.
LEMMA Added ==
  ASSUME NEW S, NEW s \in Seq(S), NEW l \in S, NEW k \in S
  PROVE  /\ Never(s, l) => Once(Append(s, l), l)
         /\ k # l /\ Once(s, l) => Once(Append(s, k), l)
         /\ k # l /\ Never(s, l) => Never(Append(s, k), l)
<1> DEFINE new(x) == Append(s, x)
<1>1. \A x \in {k, l} : \A i \in DOMAIN new(x) :
        \/ i \in DOMAIN s /\ new(x)[i] = s[i]
        \/ i = Len(s) + 1 /\ new(x)[i] = x
  OBVIOUS
<1>2. \A x \in {k, l} : /\ \A i \in DOMAIN s : i \in DOMAIN new(x) /\ new(x)[i] = s[i]
                        /\ Len(s) + 1 \in DOMAIN new(x)
                        /\ new(x)[Len(s) + 1] = x
  OBVIOUS
<1> HIDE DEF new
<1>3. ASSUME Never(s, l) PROVE Once(new(l), l)
  BY <1>1, <1>2, <1>3 DEF Never, Once
<1>4. ASSUME k # l, Once(s, l) PROVE Once(new(k), l)
  BY <1>1, <1>2, <1>4 DEF Once
<1>5. ASSUME k # l, Never(s, l) PROVE Never(new(k), l)
  BY <1>1, <1>5 DEF Never
<1> QED BY <1>3, <1>4, <1>5 DEF new

LEMMA TakenOff ==
  ASSUME NEW S, NEW s \in Seq(S), NEW l, NEW k
  PROVE  /\ Once(s, l) => Never(RemoveFirst(s, l), l)
         /\ k # l /\ Once(s, l) => Once(RemoveFirst(s, k), l)
         /\ k # l /\ Never(s, l) => Never(RemoveFirst(s, k), l)
<1>1. DOMAIN s = 1 .. Len(s) /\ Len(s) \in Nat OBVIOUS
<1>2. ASSUME Once(s, l) PROVE Never(RemoveFirst(s, l), l)
  <2>1. PICK p \in DOMAIN s :
          /\ s[p] = l
          /\ DOMAIN RemoveFirst(s, l) = 1 .. (Len(s) - 1)
          /\ \A i \in 1 .. (Len(s) - 1) :
               RemoveFirst(s, l)[i] = s[IF i < p THEN i ELSE i + 1]
    BY <1>2, RemoveFirstFacts DEF Once
  <2>2. \A j \in DOMAIN s : s[j] = l => j = p BY <1>2, <2>1 DEF Once
  <2>3. \A i \in 1 .. (Len(s) - 1) :
          LET j == IF i < p THEN i ELSE i + 1 IN j \in DOMAIN s /\ j # p
    BY <1>1, <2>1
  <2> QED BY <2>1, <2>2, <2>3 DEF Never
<1>3. CASE ~ \E i \in DOMAIN s : s[i] = k
  <2>1. RemoveFirst(s, k) = s BY <1>1, <1>3 DEF RemoveFirst
  <2> QED BY <1>2, <2>1
<1>4. CASE \E i \in DOMAIN s : s[i] = k
  <2>1. PICK p \in DOMAIN s :
          /\ s[p] = k
          /\ DOMAIN RemoveFirst(s, k) = 1 .. (Len(s) - 1)
          /\ \A i \in 1 .. (Len(s) - 1) :
               RemoveFirst(s, k)[i] = s[IF i < p THEN i ELSE i + 1]
    BY <1>4, RemoveFirstFacts
  <2> DEFINE r == RemoveFirst(s, k)
             from(i) == IF i < p THEN i ELSE i + 1
  <2>2. \A i \in DOMAIN r : from(i) \in DOMAIN s /\ r[i] = s[from(i)]
    BY <1>1, <2>1
  <2>3. \A i, j \in DOMAIN r : from(i) = from(j) => i = j
    BY <1>1, <2>1
  <2>4. \A j \in DOMAIN s : j # p => \E i \in DOMAIN r : from(i) = j
    <3> TAKE j \in DOMAIN s
    <3> HAVE j # p
    <3>1. CASE j < p
      <4>1. j \in DOMAIN r BY <1>1, <2>1, <3>1
      <4> QED BY <3>1, <4>1
    <3>2. CASE ~(j < p)
      <4>1. j - 1 \in DOMAIN r /\ ~(j - 1 < p) /\ (j - 1) + 1 = j
        BY <1>1, <2>1, <3>2
      <4> QED BY <4>1
    <3> QED BY <3>1, <3>2
  <2> HIDE DEF r, from
  <2>5. ASSUME k # l, Once(s, l) PROVE Once(r, l)
    <3>1. PICK a \in DOMAIN s : s[a] = l /\ \A j \in DOMAIN s : s[j] = l => j = a
      BY <2>5 DEF Once
    <3>2. PICK i \in DOMAIN r : from(i) = a BY <2>1, <2>4, <2>5, <3>1
    <3> QED BY <2>2, <2>3, <3>1, <3>2 DEF Once
  <2>6. ASSUME k # l, Never(s, l) PROVE Never(r, l)
    BY <2>2, <2>6 DEF Never
  <2> QED BY <1>2, <2>5, <2>6 DEF r
<1> QED BY <1>3, <1>4

-----------------------------------------------------------------------------
(* Which steps change the modals and the bus.                              *)

LEMMA ModalSteps ==
  ASSUME [ViewNext]_viewVars
  PROVE  \/ \E m \in Opens : Open(m)
         \/ \E m \in Modals : Close(m)
         \/ UNCHANGED modalVars
<1>1. CASE Keyboard BY <1>1 DEF Keyboard, NextChat, Write, Press
<1>2. CASE Dispatch
  BY <1>2 DEF Dispatch, EndDispatch, SkipRemoved, ConfirmThrows, AskForInput,
     MoveItem, MoveRow, NoRow, NothingToConfirm, Confirm
<1>3. CASE Draw
  BY <1>3 DEF Draw, EndPoll, WriteLine, WriteDone, SaveChat, SaveAddress,
     SaveUser, DrawOnly, TypeField
<1>4. CASE UNCHANGED viewVars BY <1>4 DEF viewVars
<1> QED BY <1>1, <1>2, <1>3, <1>4 DEF ViewNext

LEMMA UnmountedEvents ==
  ASSUME NEW m
  PROVE  Unmounted(m) \subseteq Events /\ "esc" \notin Unmounted(m)
BY DEF Unmounted, Events, Does

LEMMA HeardStep ==
  ASSUME VInv, HeardInv, [ViewNext]_viewVars
  PROVE  HeardInv'
<1>1. listeners \in [Events -> Seq(Listeners)] BY DEF VInv, BusInv
<1> SUFFICES ASSUME NEW n \in Modals, NEW e \in Unmounted(n)
             PROVE  IF n \in showing' THEN Once(listeners'[e], Listener(n, Does[e]))
                                      ELSE Never(listeners'[e], Listener(n, Does[e]))
  BY DEF HeardInv
<1>2. e \in Events /\ e # "esc" BY UnmountedEvents
<1>3. IF n \in showing THEN Once(listeners[e], Listener(n, Does[e]))
                       ELSE Never(listeners[e], Listener(n, Does[e]))
  BY DEF HeardInv
<1>4. listeners[e] \in Seq(Listeners) BY <1>1, <1>2
<1>5. ASSUME NEW m \in Modals
      PROVE  /\ Listener(m, Does[e]) \in Listeners
             /\ m # n => Listener(m, Does[e]) # Listener(n, Does[e])
  BY <1>2, ListenerTypes DEF Listener
<1>6. ASSUME NEW m \in Opens, Open(m)
      PROVE  IF n \in showing' THEN Once(listeners'[e], Listener(n, Does[e]))
                               ELSE Never(listeners'[e], Listener(n, Does[e]))
  <2>1. m \in Modals BY ViewAssumption
  <2>2. /\ showing' = showing \cup {m}
        /\ listeners'[e] = IF m \in showing THEN listeners[e]
                           ELSE Append(listeners[e], Listener(m, Does[e]))
    BY <1>2, <1>6 DEF Open, Opened
  <2>3. CASE m \in showing BY <1>3, <2>2, <2>3
  <2>4. CASE m \notin showing
    <3>1. CASE m = n
      BY <1>3, <1>4, <1>5, <2>2, <2>4, <3>1, Added
    <3>2. CASE m # n
      BY <1>3, <1>4, <1>5, <2>1, <2>2, <2>4, <3>2, Added
    <3> QED BY <3>1, <3>2
  <2> QED BY <2>3, <2>4
<1>7. ASSUME NEW m \in Modals, Close(m)
      PROVE  IF n \in showing' THEN Once(listeners'[e], Listener(n, Does[e]))
                               ELSE Never(listeners'[e], Listener(n, Does[e]))
  <2>1. /\ showing' = showing \ {m}
        /\ listeners'[e] = IF m \in showing /\ e \in Unmounted(m)
                           THEN RemoveFirst(listeners[e], Listener(m, Does[e]))
                           ELSE listeners[e]
    BY <1>2, <1>7 DEF Close, Closed, Without
  <2>2. CASE m = n
    BY <1>3, <1>4, <2>1, <2>2, TakenOff
  <2>3. CASE m # n
    BY <1>3, <1>4, <1>5, <2>1, <2>3, TakenOff
  <2> QED BY <2>2, <2>3
<1>8. CASE UNCHANGED modalVars BY <1>3, <1>8
<1> QED BY <1>6, <1>7, <1>8, ModalSteps

\* A modal hears its keys once while it is shown: each showing adds its
\* listeners once and each hiding takes exactly those off again.
THEOREM KeysAreHeardOnce == ViewSpec => []HeardOnce
<1>1. ViewInit => HeardInv
  <2> SUFFICES ASSUME ViewInit, NEW m \in Modals, NEW e \in Unmounted(m)
               PROVE  m \notin showing /\ Never(listeners[e], Listener(m, Does[e]))
    BY DEF HeardInv
  <2>1. e \in Events BY UnmountedEvents
  <2>2. listeners[e] = <<>> /\ showing = {} BY <2>1 DEF ViewInit
  <2> QED BY <2>2 DEF Never
<1>2. VInv /\ HeardInv /\ [ViewNext]_viewVars => HeardInv' BY HeardStep
<1>3. HeardInv => HeardOnce
  <2> SUFFICES ASSUME HeardInv, NEW m \in Modals, NEW e \in Unmounted(m)
               PROVE  Cardinality({i \in DOMAIN listeners[e] :
                                     listeners[e][i] = Listener(m, Does[e])})
                        = IF m \in showing THEN 1 ELSE 0
    BY DEF HeardOnce
  <2> DEFINE l == Listener(m, Does[e])
             places == {i \in DOMAIN listeners[e] : listeners[e][i] = l}
  <2>1. CASE m \in showing
    <3>1. Once(listeners[e], l) BY <2>1 DEF HeardInv
    <3>2. PICK i \in DOMAIN listeners[e] :
            /\ listeners[e][i] = l
            /\ \A j \in DOMAIN listeners[e] : listeners[e][j] = l => j = i
      BY <3>1 DEF Once
    <3>3. places = {i} BY <3>2
    <3>4. Cardinality({i}) = 1 BY FS_Singleton
    <3> HIDE DEF places
    <3>5. Cardinality(places) = 1 BY <3>3, <3>4
    <3> QED BY <2>1, <3>5 DEF places
  <2>2. CASE m \notin showing
    <3>1. Never(listeners[e], l) BY <2>2 DEF HeardInv
    <3>2. places = {} BY <3>1 DEF Never
    <3> QED BY <2>2, <3>2, FS_EmptySet
  <2> QED BY <2>1, <2>2
<1> QED BY <1>1, <1>2, <1>3, ViewInvariance, PTL DEF ViewSpec

-----------------------------------------------------------------------------
(* Esc closes the modal: without the remove-user modal there is only one.  *)

LEMMA OneShownStep ==
  ASSUME "remove_user" \notin Opens, OneShown, [ViewNext]_viewVars
  PROVE  OneShown'
<1>1. ASSUME NEW m \in Opens, Open(m) PROVE OneShown'
  <2>1. showing = {}
    BY <1>1, ViewAssumption DEF Open, CanOpen, AnyIsOpen, OneShown, Modals,
       FormModals, ListModals
  <2> QED BY <1>1, <2>1 DEF Open, OneShown
<1>2. ASSUME NEW m \in Modals, Close(m) PROVE OneShown'
  BY <1>2 DEF Close, OneShown
<1>3. CASE UNCHANGED modalVars BY <1>3 DEF OneShown
<1> QED BY <1>1, <1>2, <1>3, ModalSteps

LEMMA OneShownInit == ViewInit => OneShown
BY DEF ViewInit, OneShown

\* Only the esc key has listeners that close a modal.
LEMMA KindsStep ==
  ASSUME VInv, KindsInv, [ViewNext]_viewVars
  PROVE  KindsInv'
<1>0. phase' = "dispatch" => key' \in Events
  <2>1. phase = "dispatch" => key \in Events BY DEF KindsInv
  <2>2. CASE Keyboard
    BY <2>1, <2>2 DEF Keyboard, Open, NextChat, Write, Press
  <2>3. CASE Dispatch
    BY <2>1, <2>3 DEF Dispatch, EndDispatch, SkipRemoved, ConfirmThrows, AskForInput,
       MoveItem, MoveRow, NoRow, NothingToConfirm, Confirm, Close
  <2>4. CASE Draw
    BY <2>4 DEF Draw, EndPoll, WriteLine, WriteDone, SaveChat, SaveAddress,
       SaveUser, Saved, DrawOnly, TypeField, Drawn, TakesInput, FormModals
  <2>5. CASE UNCHANGED viewVars BY <2>1, <2>5 DEF viewVars
  <2> QED BY <2>2, <2>3, <2>4, <2>5 DEF ViewNext
<1> SUFFICES ASSUME NEW e \in Events \ {"esc"}
             PROVE  listeners'[e] \in Seq(KeepsOpen)
  BY <1>0 DEF KindsInv
<1>1. listeners[e] \in Seq(KeepsOpen) BY DEF KindsInv
<1>2. ASSUME NEW m \in Modals PROVE Listener(m, Does[e]) \in KeepsOpen
  <2>1. Listener(m, Does[e]) \in Listeners BY ListenerTypes
  <2>2. Does[e] # "close" BY DEF Events, Does
  <2> QED BY <2>1, <2>2 DEF KeepsOpen, Listener
<1>3. ASSUME NEW m \in Opens, Open(m) PROVE listeners'[e] \in Seq(KeepsOpen)
  <2>1. listeners'[e] = IF m \in showing THEN listeners[e]
                        ELSE Append(listeners[e], Listener(m, Does[e]))
    BY <1>3 DEF Open, Opened
  <2>2. Listener(m, Does[e]) \in KeepsOpen BY <1>2, ViewAssumption
  <2> HIDE DEF Listener
  <2> QED BY <1>1, <2>1, <2>2
<1>4. ASSUME NEW m \in Modals, Close(m) PROVE listeners'[e] \in Seq(KeepsOpen)
  <2>1. listeners'[e] = IF m \in showing /\ e \in Unmounted(m)
                        THEN RemoveFirst(listeners[e], Listener(m, Does[e]))
                        ELSE listeners[e]
    BY <1>4 DEF Close, Closed, Without
  <2> QED BY <1>1, <2>1, RemoveFirstType
<1>5. CASE UNCHANGED modalVars BY <1>1, <1>5
<1> QED BY <1>3, <1>4, <1>5, ModalSteps

\* A listener that is called is in the list of the key.
LEMMA CalledIsListed ==
  ASSUME NEW m, NEW does, Called(m, does)
  PROVE  \E i \in DOMAIN listeners[key] : listeners[key][i] = Listener(m, does)
BY DEF Called, ToSet

EscNow ==
  listeners["esc"] = (IF showing = {} THEN <<>> ELSE <<closeHandle>>)

\* What a key calls, and when it is done: while esc is dispatched, only its
\* one listener is called.
LEMMA EscStep ==
  ASSUME "remove_user" \notin Opens, VInv, KindsInv, OneShown, EscInv,
         [ViewNext]_viewVars, VInv'
  PROVE  EscInv'
<1> DEFINE one == <<closeHandle>>
<1>1. /\ EscNow /\ \A m \in showing : closeHandle = Listener(m, "close")
      /\ phase = "dispatch" /\ key = "esc" =>
           IF todo = <<>> THEN showing = {} ELSE todo = listeners["esc"]
  BY DEF EscInv, EscNow
<1>2. "esc" \in Events BY DEF Events, Does
<1>3. one # <<>> /\ Head(one) = closeHandle /\ Tail(one) = <<>>
      /\ ToSet(one) = {closeHandle}
  BY DEF ToSet
<1>4. RemoveFirst(<<>>, closeHandle) = <<>>
  BY DEF RemoveFirst
<1>5. RemoveFirst(one, closeHandle) = <<>>
  <2>1. one \in Seq({closeHandle}) /\ DOMAIN one = {1} /\ one[1] = closeHandle
        /\ Len(one) = 1
    OBVIOUS
  <2> HIDE DEF one
  <2>2. DOMAIN RemoveFirst(one, closeHandle) = 1 .. (Len(one) - 1)
    BY <2>1, RemoveFirstFacts
  <2>3. RemoveFirst(one, closeHandle) \in Seq({closeHandle})
    BY <2>1, RemoveFirstType
  <2>4. DOMAIN RemoveFirst(one, closeHandle) = {} BY <2>1, <2>2
  <2> QED BY <2>3, <2>4
<1>6. CloseRemoved = <<>> BY <1>1, <1>4, <1>5 DEF EscNow, CloseRemoved, Without
<1> HIDE DEF one
<1>7. ASSUME NEW m \in Opens, Open(m) PROVE EscInv'
  <2>1. m # "remove_user" OBVIOUS
  <2>2. showing = {}
    BY <1>7, ViewAssumption DEF Open, CanOpen, AnyIsOpen, OneShown, Modals,
       FormModals, ListModals
  <2>3. /\ showing' = {m} /\ closeHandle' = Listener(m, "close")
        /\ phase' = "poll"
    BY <1>7, <2>1, <2>2 DEF Open
  <2>4. listeners'["esc"] = Append(<<>>, Listener(m, "close"))
    BY <1>2, <1>6, <1>7 DEF Open, Opened
  <2>5. listeners'["esc"] = <<closeHandle'>> BY <2>3, <2>4
  <2> QED BY <2>3, <2>5 DEF EscInv
<1>8. ASSUME NEW m \in Modals, Close(m) PROVE EscInv'
  <2>1. Called(m, "close") BY <1>8 DEF Close
  <2>2. key = "esc"
    <3> SUFFICES ASSUME key # "esc" PROVE FALSE
      OBVIOUS
    <3>1. PICK i \in DOMAIN listeners[key] : listeners[key][i] = Listener(m, "close")
      BY <2>1, CalledIsListed
    <3>2. key \in Events
      BY <2>1 DEF KindsInv, Called
    <3>3. listeners[key] \in Seq(KeepsOpen) BY <3>2 DEF KindsInv
    <3>4. listeners[key][i] \in KeepsOpen BY <3>1, <3>3
    <3> QED BY <3>1, <3>4 DEF KeepsOpen, Listener
  <2>3. todo # <<>> /\ phase = "dispatch" BY <2>1 DEF Called
  <2>4. todo = listeners["esc"] /\ todo = one /\ showing # {}
    BY <1>1, <2>2, <2>3 DEF EscNow, one
  <2>5. Listener(m, "close") = closeHandle BY <1>3, <2>1, <2>4 DEF Called
  <2>6. showing = {m}
    <3>1. PICK n \in Opens : showing = {n} BY <2>4 DEF OneShown
    <3>2. Listener(n, "close") = Listener(m, "close") BY <1>1, <2>5, <3>1
    <3> QED BY <3>1, <3>2 DEF Listener
  <2>7. showing' = {} /\ todo' = <<>>
    BY <1>3, <1>8, <2>1, <2>4, <2>6 DEF Close, Called
  <2>8. listeners'["esc"] = <<>> BY <1>2, <1>6, <1>8 DEF Close, Closed
  <2> QED BY <2>7, <2>8 DEF EscInv
<1>9. CASE UNCHANGED modalVars
  <2>1. /\ EscNow' /\ \A m \in showing' : closeHandle' = Listener(m, "close")
    BY <1>1, <1>9 DEF EscNow
  <2>2. ASSUME phase' # "dispatch" PROVE EscInv'
    BY <2>1, <2>2 DEF EscInv, EscNow
  <2>3. CASE UNCHANGED <<phase, key, todo>>
    BY <1>1, <1>9, <2>1, <2>3 DEF EscInv, EscNow
  <2>4. ASSUME NEW e \in Events, Press(e) PROVE EscInv'
    <3>1. todo' = listeners[e] /\ key' = e BY <2>4 DEF Press
    <3>2. key' = "esc" => IF todo' = <<>> THEN showing' = {}
                          ELSE todo' = listeners'["esc"]
      BY <1>1, <1>3, <1>9, <3>1 DEF EscNow, one
    <3> QED BY <2>1, <3>2 DEF EscInv, EscNow
  <2>5. CASE SkipRemoved
    <3>1. CASE key = "esc"
      <4>1. todo # <<>> /\ phase = "dispatch" BY <2>5 DEF SkipRemoved
      <4>2. todo = one /\ listeners["esc"] = one
        BY <1>1, <3>1, <4>1 DEF EscNow, one
      <4>3. Head(todo) \notin ToSet(listeners["esc"]) BY <2>5, <3>1 DEF SkipRemoved
      <4> QED BY <1>3, <4>2, <4>3
    <3>2. CASE key # "esc" BY <2>1, <2>5, <3>2 DEF SkipRemoved, EscInv, EscNow
    <3> QED BY <3>1, <3>2
  <2>6. ASSUME NEW m \in Modals, NEW does \in {"submit", "next", "prev"},
               Called(m, does), UNCHANGED <<phase, key>>
        PROVE  EscInv'
    <3>1. CASE key = "esc"
      <4>1. todo # <<>> /\ phase = "dispatch" /\ Head(todo) = Listener(m, does)
        BY <2>6 DEF Called
      <4>2. todo = one /\ showing # {}
        BY <1>1, <3>1, <4>1 DEF EscNow, one
      <4>3. PICK n \in showing : closeHandle = Listener(n, "close")
        BY <1>1, <4>2
      <4> QED BY <1>3, <4>1, <4>2, <4>3 DEF Listener
    <3>2. CASE key # "esc" BY <2>1, <2>6, <3>2 DEF EscInv, EscNow
    <3> QED BY <3>1, <3>2
  <2>7. CASE Keyboard
    <3>1. CASE NextChat BY <2>3, <3>1 DEF NextChat
    <3>2. CASE Write BY <2>3, <3>2 DEF Write
    <3> QED BY <1>7, <2>4, <2>7, <3>1, <3>2 DEF Keyboard
  <2>8. CASE Dispatch
    <3>1. CASE EndDispatch BY <2>2, <3>1 DEF EndDispatch
    <3>2. CASE ConfirmThrows BY <2>2, <3>2 DEF ConfirmThrows
    <3>3. ASSUME NEW m \in Modals,
                 \/ AskForInput(m) \/ MoveItem(m) \/ MoveRow(m) \/ NoRow(m)
                 \/ NothingToConfirm(m) \/ Confirm(m)
          PROVE  EscInv'
      <4>1. UNCHANGED <<phase, key>>
        BY <3>3 DEF AskForInput, MoveItem, MoveRow, NoRow, NothingToConfirm, Confirm
      <4>2. \E does \in {"submit", "next", "prev"} : Called(m, does)
        BY <3>3 DEF AskForInput, MoveItem, MoveRow, NoRow, NothingToConfirm, Confirm
      <4> QED BY <2>6, <4>1, <4>2
    <3> QED BY <1>8, <2>5, <2>8, <3>1, <3>2, <3>3 DEF Dispatch
  <2>9. CASE Draw
    BY <2>2, <2>9 DEF Draw, EndPoll, WriteLine, WriteDone, SaveChat, SaveAddress,
       SaveUser, Saved, DrawOnly, TypeField, Drawn, TakesInput, FormModals
  <2>10. CASE UNCHANGED viewVars BY <2>3, <2>10 DEF viewVars
  <2> QED BY <2>7, <2>8, <2>9, <2>10 DEF ViewNext
<1> QED BY <1>7, <1>8, <1>9, ModalSteps

\* When esc is pressed, the modal that is shown closes before the next key is
\* looked at, as long as the remove-user modal is not used.
THEOREM EscClosesTheModal ==
  ASSUME "remove_user" \notin Opens
  PROVE  ViewSpec => EscCloses
<1> DEFINE MInv == VInv /\ KindsInv /\ OneShown /\ EscInv
           Closes == key = "esc" /\ phase = "dispatch" /\ phase' = "poll"
                       => showing' = {}
<1>1. ViewInit => MInv
  <2> SUFFICES ASSUME ViewInit PROVE KindsInv /\ EscInv
    BY ViewInitInv, OneShownInit
  <2>1. \A e \in Events : listeners[e] = <<>> BY DEF ViewInit
  <2>2. "esc" \in Events BY DEF Events, Does
  <2>3. <<>> \in Seq(KeepsOpen) OBVIOUS
  <2> QED BY <2>1, <2>2, <2>3 DEF ViewInit, KindsInv, EscInv
<1>2. MInv /\ [ViewNext]_viewVars => MInv'
  BY ViewStepInv, KindsStep, OneShownStep, EscStep
<1>3. ASSUME MInv, [ViewNext]_viewVars PROVE Closes
  <2> SUFFICES ASSUME key = "esc", phase = "dispatch", phase' = "poll"
               PROVE  showing' = {}
    OBVIOUS
  <2>1. EndDispatch
    BY <1>3 DEF ViewNext, viewVars, Keyboard, Open, NextChat, Write, Press,
       Dispatch, SkipRemoved, ConfirmThrows, AskForInput, MoveItem, MoveRow, NoRow,
       NothingToConfirm, Confirm, Close, Called, Draw, EndPoll, WriteLine,
       WriteDone, SaveChat, SaveAddress, SaveUser, Saved, DrawOnly, TypeField,
       Drawn, TakesInput, FormModals
  <2>2. todo = <<>> /\ showing' = showing BY <2>1 DEF EndDispatch
  <2> QED BY <1>3, <2>2 DEF EscInv
<1>4. MInv /\ [ViewNext]_viewVars => [Closes]_viewVars BY <1>3
<1> HIDE DEF MInv
<1> QED BY <1>1, <1>2, <1>4, PTL DEF ViewSpec, EscCloses

-----------------------------------------------------------------------------
(* No confirm breaks the primary key.                                      *)

\* What update_users reads: the members; the other list stays as it is.
LEMMA UpdateUsersReads ==
  ASSUME ListsInv, NEW m \in ListModals, UpdateUsers(m),
         Len(User') \in Nat, members_of_chat' \in SUBSET Nat
  PROVE  /\ list'[m].present = members_of_chat'
         /\ \A k \in ListModals \ {m} : list'[k] = list[k]
<1> DEFINE avail == HasUserAvailable(m, Len(User'), members_of_chat')
           l == ReadList(list[m], Len(User'), members_of_chat', avail)
           new == IF avail THEN [l EXCEPT !.cursor = NextRow(m, l)] ELSE l
<1>1. list' = [list EXCEPT ![m] = new] BY DEF UpdateUsers, ReadList
<1>2. list[m] \in ListRows /\ DOMAIN list = ListModals
  BY DEF ListsInv, ListRows
<1>3. avail \in BOOLEAN BY DEF HasUserAvailable
<1> HIDE DEF avail
<1>4. l.present = members_of_chat' /\ l \in ListRows
  BY <1>2, <1>3, ListIsRead
<1> HIDE DEF l
<1>5. new.present = members_of_chat' BY <1>4 DEF ListRows
<1> HIDE DEF new
<1> QED BY <1>1, <1>2, <1>5

\* A list modal that is on the bus works on the one chat there is.
LEMMA OneChat ==
  ASSUME MaxChats <= 1, VInv, AddInv, selected_chat >= 0
  PROVE  SelectedChat = 1
<1>1. /\ MaxChats \in Nat /\ Len(Chat) \in Nat /\ Len(chats) \in Nat
      /\ selected_chat \in Nat \cup {-1}
  BY AppAssumption DEF VInv, IInv, TypeOK
<1>2. selected_chat < Len(chats) /\ Len(chats) <= Len(Chat)
  BY DEF VInv, IInv, CachesCoherent, IsCacheOf
<1>3. Len(Chat) <= 1 BY <1>1 DEF AddInv
<1>4. selected_chat = 0 BY <1>1, <1>2, <1>3
<1> QED BY <1>4 DEF SelectedChat

LEMMA CalledHasChat ==
  ASSUME VInv, KindsInv, NEW m \in ListModals, NEW does, Called(m, does)
  PROVE  selected_chat >= 0
<1> SUFFICES ASSUME selected_chat < 0 PROVE FALSE
  BY DEF VInv, IInv, TypeOK
<1>1. phase = "dispatch" BY DEF Called
<1>2. PICK i \in DOMAIN listeners[key] : listeners[key][i] = Listener(m, does)
  BY CalledIsListed
<1>3. key \in Events BY <1>1 DEF KindsInv
<1>4. listeners \in [Events -> Seq(FormListeners)] BY <1>1 DEF VInv, BusInv
<1>5. listeners[key] \in Seq(FormListeners) BY <1>3, <1>4
<1>6. listeners[key][i] \in FormListeners BY <1>2, <1>5
<1> QED BY <1>2, <1>6 DEF FormListeners, Listener

\* The user a confirm of the add-user modal would add is no member.
LEMMA NoConfirmThrows ==
  ASSUME MaxChats <= 1, VInv, KindsInv, AddInv
  PROVE  ~ConfirmThrows
<1> SUFFICES ASSUME ConfirmThrows PROVE FALSE
  OBVIOUS
<1> DEFINE u == list["add_user"].cursor
<1>1. /\ list["add_user"].avail /\ Called("add_user", "submit")
      /\ <<SelectedChat, u>> \in Chat_has_User
  BY DEF ConfirmThrows, CanAddUser
<1>2. "add_user" \in ListModals BY DEF ListModals
<1>3. SelectedChat = 1 BY <1>1, <1>2, CalledHasChat, OneChat
<1>4. u \in Rows("add_user", list["add_user"])
  BY <1>1, <1>2 DEF VInv, ListsInv, CursorOnRow
<1>5. u \notin list["add_user"].present BY <1>4 DEF Rows
<1>6. u \in AllForChat(Chat_has_User, 1)
  <2>1. <<1, u>> \in {p \in Chat_has_User : p[1] = 1} BY <1>1, <1>3
  <2> QED BY <2>1 DEF AllForChat
<1> QED BY <1>1, <1>5, <1>6 DEF AddInv

LEMMA MembersTypes ==
  ASSUME VInv'
  PROVE  Len(User') \in Nat /\ members_of_chat' \in SUBSET Nat
<1>1. TypeOK' BY DEF VInv, IInv
<1>2. User' \in Seq([name : UserName, user_address : Nat]) BY <1>1 DEF TypeOK
<1>3. members_of_chat' \subseteq DOMAIN User' BY <1>1 DEF TypeOK, Users
<1>4. Len(User') \in Nat /\ DOMAIN User' = 1 .. Len(User') BY <1>2
<1> QED BY <1>3, <1>4

\* What update_users reads is true of the one chat.
LEMMA ListIsTrue ==
  ASSUME MaxChats <= 1, VInv, VInv', AddInv, selected_chat >= 0,
         UNCHANGED selected_chat, UpdateUsers("add_user")
  PROVE  AllForChat(Chat_has_User, 1)' \subseteq list'["add_user"].present
<1>1. SelectedChat' = 1 BY OneChat DEF SelectedChat
<1>2. members_of_chat' = AllForChat(Chat_has_User, 1)'
  BY <1>1 DEF VInv, IInv, CachesCoherent, HasChatSelected
<1>3. Len(User') \in Nat /\ members_of_chat' \in SUBSET Nat BY MembersTypes
<1>4. ListsInv /\ "add_user" \in ListModals BY DEF VInv, ListModals
<1> QED BY <1>2, <1>3, <1>4, UpdateUsersReads

LEMMA AddStep ==
  ASSUME MaxChats <= 1, VInv, KindsInv, AddInv, [ViewNext]_viewVars, VInv'
  PROVE  AddInv'
<1> DEFINE a == "add_user"
<1>1. /\ Len(Chat) <= MaxChats /\ phase # "down"
      /\ list[a].avail => AllForChat(Chat_has_User, 1) \subseteq list[a].present
  BY DEF AddInv
<1>2. MaxChats \in Nat /\ Len(Chat) \in Nat
  BY AppAssumption DEF VInv, IInv, TypeOK
<1>3. list[a] \in ListRows /\ DOMAIN list = ListModals /\ a \in ListModals
  BY DEF VInv, ListsInv, ListRows, ListModals
<1>4. ASSUME UNCHANGED list, UNCHANGED <<Chat, Chat_has_User>>, phase' # "down"
      PROVE  AddInv'
  BY <1>1, <1>4 DEF AddInv
<1>5. ASSUME NEW m \in ListModals, UpdateUsers(m), selected_chat >= 0,
             UNCHANGED <<Chat, selected_chat, phase>>,
             Chat_has_User' \subseteq Chat_has_User \/ m = a
      PROVE  AddInv'
  <2>1. AllForChat(Chat_has_User, 1)' \subseteq list'[a].present \/ m # a
    BY <1>5, ListIsTrue
  <2>2. CASE m = a BY <1>1, <1>5, <2>1, <2>2 DEF AddInv
  <2>3. CASE m # a
    <3>1. Len(User') \in Nat /\ members_of_chat' \in SUBSET Nat BY MembersTypes
    <3>2. list'[a] = list[a]
      BY <1>3, <1>5, <2>3, <3>1, UpdateUsersReads DEF VInv
    <3>3. AllForChat(Chat_has_User, 1)' \subseteq AllForChat(Chat_has_User, 1)
      BY <1>5, <2>3 DEF AllForChat
    <3> QED BY <1>1, <1>5, <3>2, <3>3 DEF AddInv
  <2> QED BY <2>2, <2>3
<1>6. ASSUME NEW m \in Opens, Open(m) PROVE AddInv'
  <2>1. UNCHANGED <<Chat, Chat_has_User, selected_chat, phase>>
    BY <1>6 DEF Open, Mount, FetchUsers, FetchChats, vars
  <2>2. CASE UNCHANGED list BY <1>1, <1>4, <2>1, <2>2
  <2>3. CASE m \in ListModals /\ UpdateUsers(m)
    <3>1. selected_chat >= 0 BY <1>6, <2>3 DEF Open, CanOpen
    <3> QED BY <1>5, <2>1, <2>3, <3>1
  <2> QED BY <1>6, <2>2, <2>3 DEF Open, Mount
<1>7. ASSUME NEW m \in Modals, Confirm(m) PROVE AddInv'
  <2>1. m \in ListModals /\ UpdateUsers(m) /\ Called(m, "submit")
    BY <1>7 DEF Confirm
  <2>2. selected_chat >= 0 BY <2>1, CalledHasChat
  <2>3. UNCHANGED <<Chat, selected_chat, phase>>
    BY <1>7 DEF Confirm, AddUserToSelectedChat, RemoveUserFromSelectedChat
  <2>4. Chat_has_User' \subseteq Chat_has_User \/ m = a
    BY <1>7 DEF Confirm, RemoveUserFromSelectedChat, RemoveUser
  <2> QED BY <1>5, <2>1, <2>2, <2>3, <2>4
<1>8. ASSUME NEW m \in Modals, MoveRow(m) \/ NoRow(m) PROVE AddInv'
  <2>1. /\ m \in ListModals /\ UNCHANGED <<Chat, Chat_has_User, phase>>
        /\ \E c : list' = [list EXCEPT ![m].cursor = c]
    BY <1>8 DEF MoveRow, NoRow, vars
  <2>2. list'[a].avail = list[a].avail /\ list'[a].present = list[a].present
    <3>1. PICK c : list' = [list EXCEPT ![m].cursor = c] BY <2>1
    <3>2. CASE m = a
      <4>1. list'[a] = [list[a] EXCEPT !.cursor = c] BY <1>3, <3>1, <3>2
      <4> QED BY <1>3, <4>1 DEF ListRows
    <3>3. CASE m # a BY <1>3, <3>1, <3>3
    <3> QED BY <3>2, <3>3
  <2> QED BY <1>1, <2>1, <2>2 DEF AddInv
<1>9. CASE Keyboard
  <2>1. CASE NextChat BY <1>1, <1>4, <2>1 DEF NextChat, SelectNextChat, Select
  <2>2. CASE Write BY <1>1, <1>4, <2>2 DEF Write, vars
  <2>3. ASSUME NEW e \in Events, Press(e) PROVE AddInv'
    BY <1>4, <2>3 DEF Press, vars
  <2> QED BY <1>6, <1>9, <2>1, <2>2, <2>3 DEF Keyboard
<1>10. CASE Dispatch
  <2>1. CASE EndDispatch BY <1>4, <2>1 DEF EndDispatch, vars
  <2>2. CASE SkipRemoved BY <1>1, <1>4, <2>2 DEF SkipRemoved, vars
  <2>3. ASSUME NEW m \in Modals,
               AskForInput(m) \/ MoveItem(m) \/ NothingToConfirm(m) \/ Close(m)
        PROVE  AddInv'
    BY <1>1, <1>4, <2>3 DEF AskForInput, MoveItem, NothingToConfirm, Close, vars
  <2> QED BY <1>7, <1>8, <1>10, <2>1, <2>2, <2>3, NoConfirmThrows DEF Dispatch
<1>11. CASE Draw
  <2>1. CASE SaveChat
    <3>1. Len(Chat) < MaxChats /\ \E name \in ChatName : Chat' = Append(Chat, name)
      BY <2>1 DEF SaveChat, InsertNewChat, Insert
    <3>2. Len(Chat') <= MaxChats
      BY <1>2, <3>1 DEF VInv, IInv, TypeOK
    <3>3. UNCHANGED <<list, Chat_has_User>> /\ phase' # "down"
      BY <2>1 DEF SaveChat, InsertNewChat, Saved, Drawn
    <3> QED BY <1>1, <3>2, <3>3 DEF AddInv
  <2>2. CASE EndPoll \/ WriteLine \/ WriteDone
    BY <1>1, <1>4, <2>2 DEF EndPoll, FetchChats, WriteLine, PushMessage, WriteDone,
       SendMessage, vars
  <2>3. CASE SaveAddress \/ SaveUser
    BY <1>1, <1>4, <2>3 DEF SaveAddress, InsertAddress, SaveUser, InsertUser, Saved,
       Drawn
  <2>4. ASSUME NEW m \in FormModals, DrawOnly(m) \/ TypeField(m)
        PROVE  AddInv'
    BY <1>4, <2>4 DEF DrawOnly, TypeField, Drawn, vars
  <2> QED BY <1>11, <2>1, <2>2, <2>3, <2>4 DEF Draw
<1>12. CASE UNCHANGED viewVars BY <1>1, <1>4, <1>12 DEF viewVars, vars
<1> QED BY <1>9, <1>10, <1>11, <1>12 DEF ViewNext

\* With one chat no confirm violates the primary key, although closed modals
\* go on hearing enter and whatever users are created, added and removed.
THEOREM ConfirmsArePossible ==
  ASSUME MaxChats <= 1
  PROVE  ViewSpec => []ConfirmsPossible
<1> DEFINE CInv == VInv /\ KindsInv /\ AddInv
<1>1. ViewInit => CInv
  <2> SUFFICES ASSUME ViewInit PROVE KindsInv /\ AddInv
    BY ViewInitInv
  <2>1. \A e \in Events : listeners[e] = <<>> BY DEF ViewInit
  <2>2. <<>> \in Seq(KeepsOpen) OBVIOUS
  <2>3. OldChats \in Nat /\ OldChats <= MaxChats BY AppAssumption, ViewAssumption
  <2>4. Len(Chat) = OldChats BY <2>3 DEF ViewInit
  <2>5. "add_user" \in ListModals BY DEF ListModals
  <2>6. list["add_user"].avail = FALSE BY <2>5 DEF ViewInit, EmptyList
  <2> QED BY <2>1, <2>2, <2>3, <2>4, <2>6 DEF ViewInit, KindsInv, AddInv
<1>2. CInv /\ [ViewNext]_viewVars => CInv'
  BY ViewStepInv, KindsStep, AddStep
<1>3. CInv => ConfirmsPossible BY DEF AddInv, ConfirmsPossible
<1> HIDE DEF CInv
<1> QED BY <1>1, <1>2, <1>3, PTL DEF ViewSpec

=============================================================================
