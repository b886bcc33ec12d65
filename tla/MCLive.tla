-------------------------------- MODULE MCLive ---------------------------------
(***************************************************************************)
(* What must eventually happen, for TLC: components under the fairness     *)
(* their modules assume, each explored from its own initial states while   *)
(* the others do not exist; s1, s2, ... are the variables of whichever     *)
(* component is in focus.                                                  *)
(***************************************************************************)
EXTENDS TLC

CONSTANTS
    Focus,         \* the components to explore
    Probed, Pressing, Take, SiteEvents,   \* Links, Presses, Take, MaxEvents of DestinationHealth
    a1, a2, l1, l2, l3, h1, nobody, d1, d2, e1, b1

VARIABLES
    focus,   \* the component under way; it never changes
    s1, s2, s3, s4, s5, s6, s7, s8, s9, s10, s11, s12, s13, s14, s15, s16, s17, s18

Off == "off"
benchVars ==
    <<focus, s1, s2, s3, s4, s5, s6, s7, s8, s9, s10, s11, s12, s13, s14, s15, s16,
      s17, s18>>

\* What the components are given.
WebhooksEndpointOf == (d1 :> e1) @@ (d2 :> e1)

Cache == INSTANCE LinkCache WITH
    Instances <- {a1, a2}, Links <- {l1}, Paths <- {}, Hosts <- {h1},
    HostOf <- [p \in {} |-> h1], LinkKinds <- {"code"}, Nobody <- nobody,
    MaxEntries <- 1, MaxWrites <- 1, MaxFaults <- 1,
    version <- s1, alive <- s2, revision <- s3, scheduled <- s4, target <- s5,
    entry <- s6, flight <- s7, live <- s8, connected <- s9, wire <- s10,
    ops <- s11, writes <- s12, faults <- s13

Webhooks == INSTANCE WebhookDelivery WITH
    Deliveries <- {d1, d2}, Endpoints <- {e1}, EndpointOf <- WebhooksEndpointOf,
    Runs <- {a1}, Buttons <- {}, Unsafe <- {e1}, Take <- 2, MaxRetries <- 2,
    MinFailures <- 2, MaxEdits <- 0, MaxFaults <- 1,
    status <- s1, attempts <- s2, token <- s3, leased <- s4, due <- s5,
    later <- s6, created <- s7, aged <- s8, replayOf <- s9, bulk <- s10,
    active <- s11, job <- s12, wanted <- s13, edits <- s14, faults <- s15,
    posts <- s16, notices <- s17, rejected <- s18

Health == INSTANCE DestinationHealth WITH
    Links <- Probed, Runs <- {a1}, Presses <- Pressing, FailureThreshold <- 1,
    SuccessThreshold <- 1, Most <- 1, MaxEvents <- SiteEvents,
    site <- s1, active <- s2, checked <- s3, health <- s4, rule <- s5,
    routed <- s6, sweep <- s7, press <- s8, failed <- s9, events <- s10,
    clashed <- s11

\* The variables a component with so many of its own leaves alone.
Off13 ==
    /\ s14 = Off /\ s15 = Off /\ s16 = Off /\ s17 = Off /\ s18 = Off
Off11 ==
    /\ s12 = Off /\ s13 = Off /\ Off13

BenchInit ==
    /\ focus \in Focus
    /\ \/ focus = "cache" /\ Cache!Init /\ Off13
       \/ focus = "webhooks" /\ Webhooks!Init
       \/ focus = "health" /\ Health!Init /\ Off11
Rest11 == <<s12, s13, s14, s15, s16, s17, s18>>
Rest13 == <<s14, s15, s16, s17, s18>>

BenchNext ==
    \/ focus = "cache" /\ Cache!Next /\ UNCHANGED <<focus, Rest13>>
    \/ focus = "webhooks" /\ Webhooks!Next /\ UNCHANGED focus
    \/ focus = "health" /\ Health!Next /\ UNCHANGED <<focus, Rest11>>

BenchSpec == BenchInit /\ [][BenchNext]_benchVars

ASSUME CacheParameters == Cache!KeysAssumption /\ Cache!BoundsAssumption

\* The variables of a component with so many of its own.
Own11 == <<s1, s2, s3, s4, s5, s6, s7, s8, s9, s10, s11>>
Own13 == <<Own11, s12, s13>>
Own18 == <<Own13, s14, s15, s16, s17, s18>>

Both == {a1, a2}

\* Progress as each module has it, while the component is in focus.
CacheProgress ==
    /\ \A i \in Both : \A k \in Cache!Keys :
        /\ WF_Own13(focus = "cache" /\ Cache!Load(i, k))
        /\ WF_Own13(focus = "cache" /\ Cache!Store(i, k))
        /\ WF_Own13(focus = "cache" /\ Cache!Expire(i, k))
    /\ \A i \in Both :
        /\ WF_Own13(focus = "cache" /\ Cache!Deliver(i))
        /\ WF_Own13(focus = "cache" /\ Cache!Up(i))
        /\ WF_Own13(focus = "cache" /\ Cache!Down(i))
    /\ WF_Own13(focus = "cache" /\ \E op \in s11 :
            Cache!Invalidate(op) \/ Cache!PublishInvalidation(op) \/ Cache!CapCommits(op))
WebhookProgress ==
    /\ WF_Own18(focus = "webhooks" /\ Webhooks!ProcessDeadLetterQueue(a1))
    /\ \A d \in {d1, d2} :
        /\ WF_Own18(focus = "webhooks" /\ Webhooks!Call(a1, d))
        /\ WF_Own18(focus = "webhooks" /\ Webhooks!LeaseRunsOut(d))
    /\ WF_Own18(focus = "webhooks" /\ Webhooks!BecomesDue)
HealthProgress == WF_Own11(focus = "health" /\ Health!Work(a1))

FairBench ==
    BenchSpec /\ CacheProgress /\ WebhookProgress /\ HealthProgress

(***************************************************************************)
(* What the run checks: of one instance, delivery and link, for the others *)
(* differ from it in name only.                                            *)
(***************************************************************************)
\* An outdated entry goes, whatever was lost (link-cache-bus.ts:15).
StaleNeverLasts == \A k \in Cache!Keys :
    <>[](focus = "cache" => ~Cache!Stale(a1, k))
\* A delivery whose endpoint stays on is settled in the end (webhooks.ts:221).
EventuallySettled ==
    focus = "webhooks" /\ s1[d1] = "pending" ~>
        focus = "webhooks" /\ (s1[d1] # "pending" \/ ~s11[e1])
\* The health sweep goes round (health/sweep/route.ts:44).
ProbedAgain ==
    <>[](focus = "health" /\ Health!Due(l1)) => []<>(focus = "health" /\ Health!Saved(l1))

(***************************************************************************)
(* Claims the README refutes, with Focus = {"health"}.                     *)
(***************************************************************************)
EveryLinkProbed == Health!EveryLinkProbed
UnblockedByLost == Health!UnblockedByLost
GoneIsNoticed == Health!GoneIsNoticed

================================================================================
