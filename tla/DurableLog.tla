----------------------------- MODULE DurableLog -----------------------------
(***************************************************************************)
(* What the collaboration backend promises about durability, whatever      *)
(* fails: the operations of a map form one append-only sequence in which   *)
(* an identifier occurs at most once, and a client is told that its        *)
(* operation is durable only when it is there.                             *)
(***************************************************************************)
EXTENDS Naturals, Sequences

CONSTANT Initially   \* the operations a map starts with

VARIABLES
  durable,     \* the durable operations, in the order of their commit
  announced    \* the operations of which a client was told

dvars == <<durable, announced>>

Elements(s) == {s[i] : i \in 1..Len(s)}

NoRepeats(s) == \A i, j \in 1..Len(s) : s[i].id = s[j].id => i = j

Init ==
  /\ durable = Initially
  /\ announced = {}

\* One commit makes any number of new operations durable at once.
Commit ==
  /\ Len(durable') > Len(durable)
  /\ SubSeq(durable', 1, Len(durable)) = durable
  /\ NoRepeats(durable')

\* A commit may be announced in the step that makes it, later, or never.
Tell ==
  /\ announced \subseteq announced'
  /\ announced' \subseteq Elements(durable')

Next == (Commit \/ UNCHANGED durable) /\ Tell

Spec == Init /\ [][Next]_dvars
=============================================================================
