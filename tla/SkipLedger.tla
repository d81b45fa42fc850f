----------------------------- MODULE SkipLedger -----------------------------
(***************************************************************************)
(* What the store of skips promises, without rows, fetches or dialogs: a   *)
(* count per song that every skip raises by exactly one, and a durable     *)
(* copy of the counts that is only ever replaced as a whole by the current *)
(* counts.  When the process ends, the durable counts are what is left.    *)
(***************************************************************************)
EXTENDS Naturals

CONSTANT Songs

VARIABLES count, durable

Init ==
    /\ count = [s \in Songs |-> 0]
    /\ durable = count

\* A skip of s, saved at once or left pending.
Skip(s) ==
    /\ count' = [count EXCEPT ![s] = @ + 1]
    /\ durable' \in {durable, count'}

\* Pending counts are saved.
Save == durable' = count /\ UNCHANGED count

\* The process ends with counts pending.
Forget == count' = durable /\ UNCHANGED durable

Next == (\E s \in Songs : Skip(s)) \/ Save \/ Forget

Spec == Init /\ [][Next]_<<count, durable>>
=============================================================================
