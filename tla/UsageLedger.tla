---------------------------- MODULE UsageLedger ----------------------------
(***************************************************************************)
(* What the usage pipeline promises of a user's bytes, whatever the jobs,  *)
(* caches and retries behind it: a byte that was sent is held somewhere or *)
(* recorded, it is recorded once, and it is lost only by a loss that        *)
(* counts, for a user that is gone, or below the size that is ignored.      *)
(***************************************************************************)
EXTENDS Naturals

CONSTANTS Users, Nodes, IgnoreBelow

VARIABLES
    sent,      \* sent[n][u]: bytes u ever sent through n
    held,      \* held[n][u]: those on their way
    recorded,  \* recorded[n][u]: those in the history
    known,     \* users that still exist
    losses     \* how many losses there were

ledger == <<sent, held, recorded, known, losses>>

Total(n, u) == held[n][u] + recorded[n][u]

Init ==
    /\ sent = [n \in Nodes |-> [u \in Users |-> 0]]
    /\ held = sent
    /\ recorded = sent
    /\ known = Users
    /\ losses = 0

Send(n, u) ==
    /\ sent' = [sent EXCEPT ![n][u] = @ + 1]
    /\ held' = [held EXCEPT ![n][u] = @ + 1]
    /\ UNCHANGED <<recorded, known, losses>>

(* Bytes move on towards the history, and stay there.  A report of less than *)
(* IgnoreBelow is dropped, and so is whatever belongs to nobody any more.    *)
Settle ==
    /\ \A n \in Nodes, u \in Users :
        /\ recorded[n][u] <= recorded'[n][u]
        /\ Total(n, u)' <= Total(n, u)
        /\ u \in known /\ Total(n, u)' # Total(n, u) => Total(n, u) < Total(n, u)' + IgnoreBelow
    /\ UNCHANGED <<sent, known, losses>>

(* A loss records nothing.                                                  *)
Lose ==
    /\ losses' = losses + 1
    /\ known' \subseteq known
    /\ \A n \in Nodes, u \in Users :
        recorded'[n][u] <= recorded[n][u] /\ Total(n, u)' <= Total(n, u)
    /\ UNCHANGED sent

Next == (\E n \in Nodes, u \in Users : Send(n, u)) \/ Settle \/ Lose

Spec == Init /\ [][Next]_ledger

=============================================================================
