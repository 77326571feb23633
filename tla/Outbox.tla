------------------------------- MODULE Outbox -------------------------------
(***************************************************************************)
(* What the outgoing half of NetScene promises, without lists of futures,  *)
(* iterators, workers or frames: a line that is typed becomes a row and an *)
(* open attempt for each recipient; while the engine runs, every open      *)
(* attempt stays until it is answered, once, in its own row.  An error     *)
(* that ends the engine may cost one answer, or leave a row without        *)
(* attempts; what is open when the process ends is forgotten.  Rows of     *)
(* received messages appear, and nothing else happens.                     *)
(***************************************************************************)
EXTENDS Naturals, Sequences

CONSTANT Peers    \* the users a message can be addressed to

VARIABLES
  rows,    \* the table of messages
  open,    \* the attempts that have not been answered: row and recipient
  up       \* the process is "off", its engine "runs", or it "ends"

vars == <<rows, open, up>>

Init == rows = <<>> /\ open = {} /\ up = "off"

Start == up = "off" /\ up' = "runs" /\ UNCHANGED <<rows, open>>

\* A step of the engine, perhaps its last one.
Engine == up = "runs" /\ up' \in {"runs", "ends"}

NewRow == rows' = Append(rows, [own |-> TRUE, sent |-> FALSE, error |-> FALSE, from |-> 0])

Push(to) == Engine /\ NewRow /\ open' = open \cup ({Len(rows) + 1} \X to)

Answer(a) ==
  /\ up = "runs" /\ UNCHANGED up
  /\ a \in open /\ open' = open \ {a}
  /\ rows' \in {[rows EXCEPT ![a[1]].sent = TRUE], [rows EXCEPT ![a[1]].error = TRUE]}

Store ==
  /\ Engine /\ UNCHANGED open
  /\ Len(rows') >= Len(rows) /\ \A i \in 1 .. Len(rows) : rows'[i] = rows[i]
  /\ \A i \in Len(rows) + 1 .. Len(rows') :
       ~rows'[i].own /\ rows'[i].sent /\ ~rows'[i].error

\* The user quits, or an error ends the engine: with an answer in hand, with a
\* message half sent, or in between.
Quit == up = "runs" /\ up' = "ends" /\ UNCHANGED <<rows, open>>
LoseAnswer(a) == up = "runs" /\ up' = "ends" /\ open' = open \ {a} /\ UNCHANGED rows
LoseMessage == up = "runs" /\ up' = "ends" /\ NewRow /\ UNCHANGED open

Stop == up # "off" /\ up' = "off" /\ open' = {} /\ UNCHANGED rows

Next == \/ Start \/ Store \/ Quit \/ LoseMessage \/ Stop
        \/ \E to \in SUBSET Peers : Push(to)
        \/ \E a \in open : Answer(a) \/ LoseAnswer(a)

Spec == Init /\ [][Next]_vars

=============================================================================
