---------------------------- MODULE MCClickQueue ----------------------------
(* Instances of ClickQueue for TLC. *)
EXTENDS ClickQueue, TLC

CONSTANTS c1, c2, m1, w1, l1, d1, r1, none

mcOneLink == [c \in Clicks |-> l1]
mcDayOf == [c \in Clicks |-> d1]
mcNoRefs == [c \in Clicks |-> NoRef]
mcFirstHasRef == [c \in Clicks |-> IF c = c1 THEN r1 ELSE NoRef]
mcCapOne == [l \in Links |-> 1]

-----------------------------------------------------------------------------
(***************************************************************************)
(* Stronger claims, which the code does not keep.  No run checks them; the  *)
(* README names, for each, the constants under which TLC refutes it.       *)
(***************************************************************************)
\* "so a click is never dropped" (queue.ts push).
NeverDropped == dropped \subseteq Excluded

\* The cron "drains the Redis-backed click queue into Postgres"
\* (process-clicks/route.ts), for a click that names no rule of its own.
BystandersDrain == \A c \in Clicks : RefOf[c] = NoRef => (sends[c] > 0 ~> c \in Settled)

\* "aggregates only newly inserted rows", so that redelivery is safe
\* (queue.ts processBatch), for a click that is counted once.
CountedOnce == \A l \in Links : total[l] <= Cardinality(On(persisted, l))

\* "Bot/crawler traffic is excluded" (click-dimensions.ts).
HumanRollupIsHuman == \A l \in Links : human[l] <= Cardinality(On(persisted \cap Humans, l))

\* "a shared link cannot die (or burn budget) before any human arrives"
\* (the redirect route).
AliveBeforeHumans == \A l \in Links : active[l] \/ On(persisted \cap Humans, l) # {}
=============================================================================
