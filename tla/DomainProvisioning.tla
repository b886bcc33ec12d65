-------------------------- MODULE DomainProvisioning ---------------------------
(***************************************************************************)
(* A branded domain and its TLS certificate: a link's owner registers the  *)
(* host and verifies it, and the domains cron looks for the DNS record,    *)
(* asks the TLS provider for a certificate, probes the host and writes     *)
(* down what it found.  Runs of the cron may overlap, and end after 60     *)
(* seconds wherever they are (maxDuration).                                *)
(*                                                                         *)
(* A day here is the renewal window of 14 days; tlsReady is tlsStatus =    *)
(* "active"; attempts, certificate ids and error texts are left out.       *)
(***************************************************************************)
EXTENDS Naturals, FiniteSets

CONSTANTS
    Domains, Runs, Requests,
    Life,           \* days a certificate lasts
    Horizon,        \* bound: the last day
    Again,          \* a domain may be registered again
    MaxDeaths       \* bound: runs that are cut off

VARIABLES
    now,
    dns,            \* the hosts whose TXT record is there
    cert,           \* per domain: day its certificate expires, 0 for none
    asked,          \* domains a provider has agreed to issue a certificate for
    domain,         \* branded_domains: status, tls (tlsStatus), expires (0: null)
    prov,           \* domain_provisions: status, next (nextRenewalAt)
    call,           \* per request: the registration under way, its read of the status
    job,            \* per run: the reconcileDomain under way
    abandoned,      \* history: domains whose claim was last taken by a run that died
    deaths

envVars == <<now, dns, cert, asked>>
vars == <<envVars, domain, prov, call, job, abandoned, deaths>>

Absent == [status |-> "absent", tls |-> "none", expires |-> 0]
NoProvision == [status |-> "absent", next |-> "none"]
Quiet == [pc |-> "idle"]

Init ==
    /\ now = 1 /\ dns = {} /\ asked = {}
    /\ cert = [d \in Domains |-> 0]
    /\ domain = [d \in Domains |-> Absent]
    /\ prov = [d \in Domains |-> NoProvision]
    /\ call = [q \in Requests |-> Quiet]
    /\ job = [r \in Runs |-> Quiet]
    /\ abandoned = {} /\ deaths = 0

\* Every write of the provisioning row takes a claim away with it.
Provision(d, row) ==
    /\ prov' = [prov EXCEPT ![d] = row]
    /\ abandoned' = abandoned \ {d}

(***************************************************************************)
(* The owner: registerDomain, from POST domains and domains/connect, and   *)
(* PATCH domains, which verifies at once.                                  *)
(***************************************************************************)
Register(q, d) ==
    /\ call[q] = Quiet /\ (Again \/ domain[d].status = "absent")
    /\ domain' = [domain EXCEPT ![d].status = IF @ = "absent" THEN "pending" ELSE @]
    /\ call' = [call EXCEPT ![q] = [pc |-> "upsert", on |-> d, status |-> domain'[d].status]]
    /\ UNCHANGED <<envVars, prov, job, abandoned, deaths>>

\* The upsert, by the status read before it.
RegisteredAs(d, status) ==
    IF prov[d].status = "absent" THEN "requested"
    ELSE IF status = "verified" THEN "provisioning" ELSE "verifying"
UpsertProvision(q) ==
    /\ call[q].pc = "upsert"
    /\ LET d == call[q].on IN
       Provision(d, [prov[d] EXCEPT !.status = RegisteredAs(d, call[q].status)])
    /\ call' = [call EXCEPT ![q] = Quiet]
    /\ UNCHANGED <<envVars, domain, job, deaths>>

VerifyNow(d) ==
    /\ domain[d].status # "absent" /\ d \in dns
    /\ domain' = [domain EXCEPT ![d].status = "verified"]
    /\ UNCHANGED <<envVars, prov, call, job, abandoned, deaths>>

(***************************************************************************)
(* cron/domains and reconcileDomain.                                       *)
(***************************************************************************)
Selectable(d) ==
    \/ prov[d].status \in {"requested", "verifying", "provisioning", "renewal_due", "failed"}
    \/ prov[d].status = "renewal_in_progress" /\ prov[d].next = "past"

Select(r, d) ==
    /\ job[r] = Quiet /\ Selectable(d)
    /\ job' = [job EXCEPT ![r] = [pc |-> "read", on |-> d]]
    /\ UNCHANGED <<envVars, domain, prov, call, abandoned, deaths>>

\* findUnique with its provision; previous is what the state machine starts from.
ReadDomain(r) ==
    /\ job[r].pc = "read"
    /\ LET d == job[r].on IN
       job' = [job EXCEPT ![r] = [pc |-> "dns", on |-> d, previous |-> prov[d].status,
                                  expires |-> domain[d].expires]]
    /\ UNCHANGED <<envVars, domain, prov, call, abandoned, deaths>>

RecordMissing(r) ==
    /\ job[r].pc = "dns" /\ job[r].on \notin dns
    /\ Provision(job[r].on, [prov[job[r].on] EXCEPT !.status = "verifying"])
    /\ job' = [job EXCEPT ![r] = Quiet]
    /\ UNCHANGED <<envVars, domain, call, deaths>>

\* One run renews: the UPDATE that claims is conditional on status and nextRenewalAt.
Due(j) == j.previous = "renewal_due" \/ (j.expires # 0 /\ j.expires <= now + 1)
Claimable(d) ==
    /\ prov[d].status \in {"active", "renewal_due", "provisioning", "failed"}
    /\ prov[d].next # "ahead"
RenewalWritten(d) == Provision(d, [prov[d] EXCEPT !.status = "renewal_in_progress"])
ClaimRenewal(r) ==
    LET d == job[r].on
        renewing == Due(job[r]) /\ Claimable(d) IN
    /\ job[r].pc = "dns" /\ d \in dns
    /\ IF renewing THEN RenewalWritten(d) ELSE UNCHANGED <<prov, abandoned>>
    /\ job' = [job EXCEPT ![r] = [pc |-> "provider", on |-> d, previous |-> @.previous,
                                  renewing |-> renewing]]
    /\ UNCHANGED <<envVars, domain, call, deaths>>

\* vercel, cloudflare, custom: accepted, or refused with an error.
AskProvider(r, accepted) ==
    /\ job[r].pc = "provider"
    /\ asked' = IF accepted THEN asked \cup {job[r].on} ELSE asked
    /\ job' = [job EXCEPT ![r] = [pc |-> "probe", on |-> @.on, previous |-> @.previous,
                                  renewing |-> @.renewing, accepted |-> accepted]]
    /\ UNCHANGED <<now, dns, cert, domain, prov, call, abandoned, deaths>>

\* A connection that fails for any reason, an expired certificate among them, has no
\* expiry.
Probed(d, reached) == IF reached /\ cert[d] > now THEN cert[d] ELSE 0
ProbeTls(r, reached) ==
    /\ job[r].pc = "probe"
    /\ job' = [job EXCEPT ![r] = [pc |-> "save", on |-> @.on, previous |-> @.previous,
                                  renewing |-> @.renewing, accepted |-> @.accepted,
                                  expires |-> Probed(@.on, reached)]]
    /\ UNCHANGED <<envVars, domain, prov, call, abandoned, deaths>>

\* nextTlsState, once the DNS record is there.
NextTlsState(j) ==
    IF j.expires <= now
    THEN IF j.accepted THEN "renewal_in_progress" ELSE "failed"
    ELSE IF j.expires > now + 1 THEN "active"
    ELSE IF j.accepted /\ j.previous \in {"renewal_due", "renewal_in_progress"}
         THEN "renewal_in_progress" ELSE "renewal_due"
EffectiveState(j) ==
    IF j.renewing /\ j.accepted /\ NextTlsState(j) = "renewal_due"
    THEN "renewal_in_progress" ELSE NextTlsState(j)
NextRenewalIfDue(state) == IF state = "renewal_due" THEN "ahead" ELSE "none"
NextRenewal(state) ==
    IF state \in {"renewal_in_progress", "renewal_due"} THEN "ahead" ELSE "none"

\* One transaction over both rows.
SaveState(r) ==
    LET j == job[r]
        state == EffectiveState(j) IN
    /\ j.pc = "save"
    /\ domain' = [domain EXCEPT ![j.on] = [status |-> "verified", tls |-> state, expires |-> j.expires]]
    /\ Provision(j.on, [status |-> state, next |-> NextRenewal(state)])
    /\ job' = [job EXCEPT ![r] = Quiet]
    /\ UNCHANGED <<envVars, call, deaths>>

Claims(r, d) == job[r].pc \in {"provider", "probe", "save"} /\ job[r].on = d /\ job[r].renewing
CutOff(r) ==
    /\ job[r] # Quiet /\ deaths < MaxDeaths
    /\ deaths' = deaths + 1
    /\ abandoned' = abandoned \cup {d \in Domains : Claims(r, d)}
    /\ job' = [job EXCEPT ![r] = Quiet]
    /\ UNCHANGED <<envVars, domain, prov, call>>

(***************************************************************************)
(* What happens outside.  A run lasts a minute at most, so none is under   *)
(* way when 15 minutes, 6 hours or a day have passed since it began.       *)
(***************************************************************************)
DnsChanges(d) ==
    /\ dns' = IF d \in dns THEN dns \ {d} ELSE dns \cup {d}
    /\ UNCHANGED <<now, cert, asked, domain, prov, call, job, abandoned, deaths>>

Issued(d) ==
    /\ d \in asked /\ asked' = asked \ {d}
    /\ cert' = [cert EXCEPT ![d] = now + Life]
    /\ UNCHANGED <<now, dns, domain, prov, call, job, abandoned, deaths>>

RetryComesDue(d) ==
    /\ prov[d].next = "ahead" /\ \A r \in Runs : job[r] = Quiet
    /\ prov' = [prov EXCEPT ![d].next = "past"]
    /\ UNCHANGED <<envVars, domain, call, job, abandoned, deaths>>

DayPasses ==
    /\ now < Horizon /\ \A r \in Runs : job[r] = Quiet
    /\ now' = now + 1
    /\ UNCHANGED <<dns, cert, asked, domain, prov, call, job, abandoned, deaths>>

Run(r) ==
    \/ ReadDomain(r) \/ RecordMissing(r) \/ ClaimRenewal(r)
    \/ \E accepted \in BOOLEAN : AskProvider(r, accepted)
    \/ \E reached \in BOOLEAN : ProbeTls(r, reached)
    \/ SaveState(r)

Next ==
    \/ \E q \in Requests : UpsertProvision(q) \/ \E d \in Domains : Register(q, d)
    \/ \E r \in Runs : Run(r) \/ CutOff(r) \/ \E d \in Domains : Select(r, d)
    \/ \E d \in Domains : VerifyNow(d) \/ DnsChanges(d) \/ Issued(d) \/ RetryComesDue(d)
    \/ DayPasses

Spec == Init /\ [][Next]_vars

\* The cron comes every ten minutes and takes what it selects; time passes.
Progress ==
    /\ \A r \in Runs : WF_vars(Run(r)) /\ \A d \in Domains : WF_vars(Select(r, d))
    /\ \A d \in Domains : WF_vars(RetryComesDue(d))
    /\ WF_vars(DayPasses)

FairSpec == Spec /\ Progress

(***************************************************************************)
(* Properties.                                                             *)
(***************************************************************************)
\* Two runs never renew one certificate at the same time (reconcileDomain, claimed),
\* unless the domain is registered again meanwhile or a third run overlaps.
RenewedByOne ==
    \A d \in Domains : Cardinality({r \in Runs : Claims(r, d)}) <= 1

\* A claim is given back (cron/domains): a domain under renewal is worked on, or comes
\* up again, unless the run that claimed it died.
ClaimComesBack ==
    \A d \in Domains : prov[d].status = "renewal_in_progress" =>
        \/ prov[d].next # "none" \/ d \in abandoned
        \/ \E r \in Runs : Claims(r, d)

DomainsSound == RenewedByOne /\ ClaimComesBack

(***************************************************************************)
(* Claims the code does not keep.                                          *)
(***************************************************************************)
\* domain-registration.ts:9 "so the domains cron keeps checking it": a certificate
\* that has run out is not called active for good.
LapseIsNoticed ==
    \A d \in Domains :
        domain[d].tls = "active" /\ cert[d] <= now ~> domain[d].tls # "active" \/ cert[d] > now

\* domain-alerts.ts:36 "has not renewed yet": what the mail about an expiry says.
ExpiryIsCurrent ==
    \A d \in Domains : domain[d].tls = "active" => domain[d].expires = cert[d]

\* A run that dies leaves nothing behind that no later run takes up.
SurvivesDeath == \A d \in Domains :
    prov[d].status = "renewal_in_progress" /\ prov[d].next = "none" =>
        \E r \in Runs : Claims(r, d)
================================================================================
