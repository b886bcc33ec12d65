------------------------------ MODULE MCAccounts -------------------------------
(***************************************************************************)
(* Accounts, teams and money, for TLC: the components a signed-in user, an *)
(* administrator or a client of the API deals with, in one run.  Each is   *)
(* explored from its own initial states while the others do not exist, so  *)
(* the run covers the sum of their state spaces, not the product; s1, s2,  *)
(* ... are the variables of whichever component is in focus.               *)
(***************************************************************************)
EXTENDS TLC

CONSTANTS
    Focus,         \* the components to explore
    MaxSecrets, Dies, Alone,   \* of SignIn
    Admins, Proposers, MindsChange,   \* of CampaignReleases, beside one owner
    Crowded,       \* of RateLimit
    Third,         \* a third run of the crons of AlertSweeps and DomainProvisioning
    Again,         \* of DomainProvisioning
    a1, a2, x1, x2, t1, t2, q1, q2, q3, k1, p1, n1, n2, g1, g2, control

VARIABLES
    focus,   \* the component under way; it never changes
    s1, s2, s3, s4, s5, s6, s7, s8, s9, s10, s11, s12, s13, s14, s15, s16

Off == "off"
benchVars ==
    <<focus, s1, s2, s3, s4, s5, s6, s7, s8, s9, s10, s11, s12, s13, s14, s15, s16>>

\* What the components are given.
StripeAmount == p1 :> 8
StripeRefundOf == (g1 :> p1) @@ (g2 :> p1)
StripeTotal == (g1 :> 2) @@ (g2 :> 7)
TrialAmount == (p1 :> 0) @@ (n1 :> 8) @@ (n2 :> 8)
KeysKeyOf == (q1 :> k1) @@ (q2 :> k1) @@ (q3 :> k1)
KeysCallOf == (q1 :> "call") @@ (q2 :> "call") @@ (q3 :> "other")
CampaignRoleOf == [u \in {"owner"} \cup Admins |-> IF u = "owner" THEN u ELSE "admin"]
CampaignWeights == (control :> 2) @@ (x1 :> 1) @@ (x2 :> 1)

Stripe == INSTANCE StripeSales WITH
    Purchases <- {p1}, Renewals <- {}, Amount <- StripeAmount, Refunds <- {g1, g2},
    RefundOf <- StripeRefundOf, Total <- StripeTotal,
    Tokened <- {<<"checkout", p1>>, <<"invoice", p1>>}, InOrder <- FALSE,
    Requests <- {a1, a2}, ValueCap <- 6, RewardPercent <- 50, Quota <- 0,
    MaxEdits <- 0, MaxFaults <- 1,
    receipt <- s1, sale <- s2, value <- s3, daily <- s4, usage <- s5, quota <- s6,
    customer <- s7, recurring <- s8, goal <- s9, commission <- s10, call <- s11,
    locked <- s12, acked <- s13, edits <- s14, faults <- s15, payouts <- s16

Trial == INSTANCE StripeSales WITH
    Purchases <- {p1}, Renewals <- {n1, n2}, Amount <- TrialAmount, Refunds <- {},
    RefundOf <- <<>>, Total <- <<>>, Tokened <- {<<"invoice", n1>>},
    InOrder <- FALSE, Requests <- {a1, a2}, ValueCap <- 6, RewardPercent <- 50,
    Quota <- 1, MaxEdits <- 1, MaxFaults <- 0,
    receipt <- s1, sale <- s2, value <- s3, daily <- s4, usage <- s5, quota <- s6,
    customer <- s7, recurring <- s8, goal <- s9, commission <- s10, call <- s11,
    locked <- s12, acked <- s13, edits <- s14, faults <- s15, payouts <- s16

Keys == INSTANCE Idempotency WITH
    Requests <- {q1, q2, q3}, Keys <- {k1}, KeyOf <- KeysKeyOf,
    CallOf <- KeysCallOf, MaxSlow <- 1, MaxFaults <- 1,
    row <- s1, step <- s2, seen <- s3, slow <- s4, faults <- s5, late <- s6,
    expired <- s7, done <- s8, reply <- s9

Members == INSTANCE WorkspaceMembers WITH
    Users <- {q1, q2}, Requests <- {a1, a2}, Invitable <- {q2}, Managed <- {q2},
    MaxJoins <- 1,
    role <- s1, seat <- s2, grants <- s3, invite <- s4, identity <- s5,
    crossed <- s6, late <- s7, job <- s8

\* Three users, so that the ownership can go to two of them at once.
Handover == INSTANCE WorkspaceMembers WITH
    Users <- {x1, x2, q3}, Requests <- {a1, a2}, Invitable <- {}, Managed <- {},
    MaxJoins <- 2,
    role <- s1, seat <- s2, grants <- s3, invite <- s4, identity <- s5,
    crossed <- s6, late <- s7, job <- s8

\* The second factor: no passwords change and no links are asked for.
SignIn == INSTANCE SignIn WITH
    Requests <- {a1, a2}, Sessions <- {x1, x2}, Tokens <- {}, MaxStep <- 2,
    MaxBatches <- 2, MaxChanges <- 0,
    user <- s1, recovery <- s2, issued <- s3, session <- s4, token <- s5,
    accepted <- s6, now <- s7, job <- s8, spared <- s9, twin <- s10

\* Passwords and reset links, of an account without a second factor.
Password == INSTANCE SignIn WITH
    Requests <- {a1, a2}, Sessions <- {x1, x2}, Tokens <- {t1, t2, q1}, MaxStep <- 0,
    MaxSecrets <- 0, MaxBatches <- 0, MaxChanges <- 2,
    Dies <- {"login", "change", "reset"}, Alone <- {},
    user <- s1, recovery <- s2, issued <- s3, session <- s4, token <- s5,
    accepted <- s6, now <- s7, job <- s8, spared <- s9, twin <- s10

Campaign == INSTANCE CampaignReleases WITH
    Users <- {"owner"} \cup Admins, Requests <- {a1, a2},
    Variants <- {control, x1, x2}, Control <- control, RoleOf <- CampaignRoleOf,
    Weights <- CampaignWeights, MaxVersion <- 3,
    campaign <- s1, experiment <- s2, release <- s3, vote <- s4, job <- s5

Alerts == INSTANCE AlertSweeps WITH
    Items <- {x1, x2}, Runs <- IF Third THEN {a1, a2, q2} ELSE {a1, a2},
    MaxLevel <- 2, MaxFailures <- 2,
    MaxCrashes <- 1,
    sweep <- s1, level <- s2, mark <- s3, job <- s4, mails <- s5, failures <- s6,
    crashes <- s7

Rate == INSTANCE RateLimit WITH
    Instances <- {q1}, Requests <- {a1, a2}, Limit <- 2, Window <- 3, Delay <- 1,
    MaxTime <- 6,
    now <- s1, memory <- s2, redis <- s3, cooling <- s4, job <- s5, passed <- s6

Naming == INSTANCE DomainProvisioning WITH
    Domains <- {p1}, Runs <- IF Third THEN {a1, a2, q2} ELSE {a1, a2},
    Requests <- {q1}, Life <- 2, Horizon <- 3, MaxDeaths <- 1,
    now <- s1, dns <- s2, cert <- s3, asked <- s4, domain <- s5, prov <- s6,
    call <- s7, job <- s8, abandoned <- s9, deaths <- s10

\* The variables a component with so many of its own leaves alone.
Off10 ==
    /\ s11 = Off /\ s12 = Off /\ s13 = Off /\ s14 = Off /\ s15 = Off /\ s16 = Off
Off9 ==
    /\ s10 = Off /\ Off10
Off8 ==
    /\ s9 = Off /\ Off9
Off7 ==
    /\ s8 = Off /\ Off8
Off6 ==
    /\ s7 = Off /\ Off7
Off5 ==
    /\ s6 = Off /\ Off6

BenchInit ==
    /\ focus \in Focus
    /\ \/ focus = "stripe" /\ Stripe!Init
       \/ focus = "trial" /\ Trial!Init
       \/ focus = "keys" /\ Keys!Init /\ Off9
       \/ focus = "members" /\ Members!Init /\ Off8
       \/ focus = "handover" /\ Handover!Init /\ Off8
       \/ focus = "signin" /\ SignIn!Init /\ Off10
       \/ focus = "password" /\ Password!Init /\ Off10
       \/ focus = "campaign" /\ Campaign!Init /\ Off5
       \/ focus = "alerts" /\ Alerts!Init /\ Off7
       \/ focus = "rate" /\ Rate!Init /\ Off6
       \/ focus = "domains" /\ Naming!Init /\ Off10
Rest5 == <<s6, s7, s8, s9, s10, s11, s12, s13, s14, s15, s16>>
Rest6 == <<s7, s8, s9, s10, s11, s12, s13, s14, s15, s16>>
Rest7 == <<s8, s9, s10, s11, s12, s13, s14, s15, s16>>
Rest8 == <<s9, s10, s11, s12, s13, s14, s15, s16>>
Rest9 == <<s10, s11, s12, s13, s14, s15, s16>>
Rest10 == <<s11, s12, s13, s14, s15, s16>>

BenchNext ==
    \/ focus = "stripe" /\ Stripe!Next /\ UNCHANGED focus
    \/ focus = "trial" /\ Trial!Next /\ UNCHANGED focus
    \/ focus = "keys" /\ Keys!Next /\ UNCHANGED <<focus, Rest9>>
    \/ focus = "members" /\ Members!Next /\ UNCHANGED <<focus, Rest8>>
    \/ focus = "handover" /\ Handover!Next /\ UNCHANGED <<focus, Rest8>>
    \/ focus = "signin" /\ SignIn!Next /\ UNCHANGED <<focus, Rest10>>
    \/ focus = "password" /\ Password!Next /\ UNCHANGED <<focus, Rest10>>
    \/ focus = "campaign" /\ Campaign!Next /\ UNCHANGED <<focus, Rest5>>
    \/ focus = "alerts" /\ Alerts!Next /\ UNCHANGED <<focus, Rest7>>
    \/ focus = "rate" /\ Rate!Next /\ UNCHANGED <<focus, Rest6>>
    \/ focus = "domains" /\ Naming!Next /\ UNCHANGED <<focus, Rest10>>

BenchSpec == BenchInit /\ [][BenchNext]_benchVars

BenchSymmetry == Permutations({a1, a2}) \cup Permutations({x1, x2})

(***************************************************************************)
(* What the run checks: a property of the component in focus, stated in its *)
(* module.                                                                 *)
(***************************************************************************)
\* A retried or duplicated delivery never counts a sale twice (stripe-attribution.ts:229),
\* and what is counted and owed is net of the refunds (416).
SalesSound ==
    /\ focus = "stripe" => Stripe!SaleCountedOnce /\ Stripe!NetOfRefunds
    /\ focus = "trial" => Trial!SaleCountedOnce /\ Trial!NetOfRefunds
\* A retried request has one effect and its own answer (idempotency.ts:22).
RetriesAreSafe == focus = "keys" => Keys!RetriesAreSafe
\* Never two owners, and no grant without a membership (members/route.ts:28, 60).
MembershipsSound ==
    /\ focus = "members" => Members!MembershipsSound
    /\ focus = "handover" => Handover!MembershipsSound
\* No second factor is accepted twice (mfa.ts:33).
SecondFactorOnce == focus = "signin" => SignIn!SecondFactorOnce
\* An old password's sessions and an old reset link are dead (account/password/route.ts:12).
SupersededIsDead == focus = "password" => Password!SupersededIsDead
\* Moving traffic between variants conserves it (campaigns.ts shiftTrafficWeights), and
\* a reviewed release goes out with its quorum only (release-approval.ts).
ReleasesSound == focus = "campaign" => Campaign!TrafficConserved /\ Campaign!PublishedHadQuorum
\* What is published is what is live, and versions never go back (campaigns.ts:126).
PublishedIsLive == [][focus = "campaign" => Campaign!PublishesWhatIsLive]_benchVars
\* An alert is mailed once, and is not forgotten when a mail fails (click-milestones.ts).
ToldOnce == focus = "alerts" => Alerts!ToldOnce
\* The instances share one budget (rate-limit.ts).
BudgetKept == focus = "rate" => Rate!BudgetKept
\* One run renews a certificate, and its claim is given back (domain-provisioning.ts:22).
DomainsSound == focus = "domains" => Naming!DomainsSound

(***************************************************************************)
(* Claims the README refutes, with Focus set to the component alone.       *)
(***************************************************************************)
PaidOnce == Stripe!PaidOnce
NetPayable == Stripe!NetPayable
OneInTimeAtWork == Keys!OneInTimeAtWork
ResponseKept == Keys!ResponseKept
ResponseKeptAlways == Keys!ResponseKeptAlways
EffectOnceAlways == Keys!EffectOnceAlways
AlwaysOneOwner == Members!AlwaysOneOwner
NeverTwo == Handover!NeverTwo
GrantsNeverReturn == Handover!GrantsNeverReturn
RefusedStaysOut == Members!RefusedStaysOut
InactiveIsOut == Members!InactiveIsOut
RevokedAdmitsNobody == Members!RevokedAdmitsNobody
AcceptKeepsOwner == Members!AcceptKeepsOwner
NoneSpared == Password!NoneSpared
NeverTwoTokens == Password!NeverTwoTokens
TokenUsedOnce == Password!TokenUsedOnce
SetupSparesEnabled == SignIn!SetupSparesEnabled
UnanimousIsApproved == Campaign!UnanimousIsApproved
ApprovedGoesOut == Campaign!ApprovedGoesOut
MailedOnce == Alerts!MailedOnce
NothingEverForgotten == Alerts!NothingEverForgotten
QuotaMailed == Alerts!QuotaMailed
FullWindowKept == Rate!FullWindowKept
DenialsCostNothing == Rate!DenialsCostNothing
RenewedByOne == Naming!RenewedByOne
ExpiryIsCurrent == Naming!ExpiryIsCurrent
SurvivesDeath == Naming!SurvivesDeath
TrafficConserved == Campaign!TrafficConserved
PublishedHadQuorum == Campaign!PublishedHadQuorum

================================================================================
