------------------------------ MODULE WriteOnce ------------------------------
(* What a shard promises about the writes that clients send it, again and    *)
(* again until one answer gets through: a write is applied only while it is  *)
(* open, applying it closes it in the same step, and success is answered     *)
(* only for a write that was applied.  A closed write opens again only when  *)
(* the retention of its receipt has passed (Forgettable names the writes     *)
(* whose receipts may grow that old).                                        *)
EXTENDS Naturals

CONSTANTS Writes,        \* the writes of the clients, by identity
          Forgettable    \* those of them whose receipt may outlive its retention

VARIABLES open,    \* writes that would be applied if they came now
          count,   \* how often each write has been applied
          heard    \* writes some client was told have succeeded

vars == <<open, count, heard>>

Init == /\ open = Writes
        /\ count = [w \in Writes |-> 0]
        /\ heard = {}

\* Receipts past their retention go, whenever the shard collects them.
Reopened(gone, left) == gone \subseteq Forgettable /\ open' = left \union gone

\* A write takes effect and is closed by the same step.
Apply(w) ==
    /\ w \in open
    /\ count' = [count EXCEPT ![w] = @ + 1]
    /\ \E gone \in SUBSET Forgettable : Reopened(gone, open \ {w})
    /\ UNCHANGED heard

Forget ==
    /\ \E gone \in SUBSET Forgettable : Reopened(gone, open)
    /\ UNCHANGED <<count, heard>>

\* Success is told of writes that have taken effect.
Answer ==
    /\ \E ws \in SUBSET {w \in Writes : count[w] > 0} : heard' = heard \union ws
    /\ UNCHANGED <<open, count>>

Next == Forget \/ Answer \/ \E w \in Writes : Apply(w)

Spec == Init /\ [][Next]_vars
=============================================================================
