----------------------------- MODULE ClickLedger -----------------------------
(***************************************************************************)
(* What click ingestion promises (queue.ts, click-ingestion.ts): a click   *)
(* that has been made is counted at most once on its link's total, a total *)
(* never moves for another reason, and a deleted link takes no more clicks. *)
(* ClickQueue implements this whatever Redis and its workers do.           *)
(***************************************************************************)
EXTENDS Naturals, FiniteSets

CONSTANTS Clicks, Links, LinkOf

VARIABLES made, counted, total, closed
vars == <<made, counted, total, closed>>

On(S, l) == { c \in S : LinkOf[c] = l }

Init ==
    /\ made = {} /\ counted = {} /\ closed = {}
    /\ total = [l \in Links |-> 0]

Make(c) ==
    /\ c \notin made /\ made' = made \cup {c}
    /\ UNCHANGED <<counted, total, closed>>

Count(S) ==
    /\ \A c \in S : LinkOf[c] \notin closed
    /\ counted' = counted \cup S
    /\ total' = [l \in Links |-> total[l] + Cardinality(On(S, l))]
    /\ UNCHANGED <<made, closed>>

Close(l) ==
    /\ l \notin closed /\ closed' = closed \cup {l}
    /\ total' = [total EXCEPT ![l] = 0]
    /\ UNCHANGED <<made, counted>>

Next ==
    \/ \E c \in Clicks : Make(c)
    \/ \E S \in SUBSET (made \ counted) : Count(S)
    \/ \E l \in Links : Close(l)

Spec == Init /\ [][Next]_vars
=============================================================================
