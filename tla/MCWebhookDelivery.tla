-------------------------- MODULE MCWebhookDelivery --------------------------
(* Instances of WebhookDelivery for TLC. *)
EXTENDS WebhookDelivery, TLC

CONSTANTS d1, d2, d3, e1, e2, r1, r2, b1, b2

mcOneEndpoint == [d \in Deliveries |-> e1]
mcTwoEndpoints == [d \in Deliveries |-> IF d = d1 THEN e1 ELSE e2]
OneEndpointSymmetry == Permutations(Runs) \cup Permutations(Deliveries)

\* Bound: an owner's switch or a dead or stalled run, not both in one behaviour.
OneTrouble == edits + faults <= 1

-----------------------------------------------------------------------------
(***************************************************************************)
(* Stronger claims, which the code does not keep.  No run checks them; the  *)
(* README names, for each, the constants under which TLC refutes it.       *)
(***************************************************************************)
\* webhook-delivery-log.ts:89 "Failures already replayed are skipped, so pressing
\* the button twice doesn't double-send".
ReplayedOnce == \A original \in Deliveries :
    Cardinality({d \in Deliveries : bulk[d] /\ replayOf[d] = original}) <= 1

\* webhooks.ts:12 WEBHOOK_MAX_RETRIES: a delivery is attempted that often at most.
AttemptsBounded == \A d \in Deliveries : attempts[d] <= MaxRetries

\* webhooks.ts:141 "Concurrent cron invocations ... observe count === 0 and skip
\* instead of double-posting": a claim is made only on a delivery that is due or
\* whose lease ran out, never one another run has just put into backoff.
ClaimedWhenDue == [][\A d \in Deliveries : attempts'[d] # attempts[d] =>
    d \in ToSet(due) \/ LeaseExpired(d)]_vars

\* webhook-health.ts:9 "Any success in between resets the streak": an endpoint
\* is switched off by failures only if its latest deliveries did fail.
DisabledOnStreak == [][\A e \in Endpoints :
    notices'[e] # notices[e] => ShouldDisable(e)]_vars
=============================================================================
