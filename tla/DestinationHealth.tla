--------------------------- MODULE DestinationHealth ---------------------------
(***************************************************************************)
(* The health of the destinations: a cron sweep probes the links whose     *)
(* last check is oldest, an owner probes a link, or one of its rules, by   *)
(* hand.  Every probe reads counters, waits up to 30 seconds for somebody  *)
(* else's server, and writes the counters it works out from what it read.  *)
(* A rule that is down is skipped by the redirect, which routes by a       *)
(* cached copy of it.                                                      *)
(*                                                                         *)
(* Only the order of the check times is kept, and a counter only up to     *)
(* Most.  All links of a sweep are under way at once, as if Take were no   *)
(* more than CONCURRENCY.  Latencies, messages and the rows of the history *)
(* are left out.                                                           *)
(***************************************************************************)
EXTENDS Naturals, FiniteSets

CONSTANTS
    Links,
    Runs,               \* sweeps
    Presses,            \* requests of owners
    Take,               \* MAX_LINKS_PER_SWEEP
    FailureThreshold, SuccessThreshold,
    Most,               \* bound: a counter at Most stands for all from there on
    MaxEvents           \* bound: what happens to sites and links, and sweeps cut off

VARIABLES
    site,       \* how the destination would answer: "healthy", "degraded", "down", or
                \* "gone" when its host does not resolve
    active,     \* isActive
    checked,    \* healthCheckedAt, by rank; 0 for null
    health,     \* per link: healthStatus and the consecutive failures and successes
    rule,       \* the same for a rule of the link
    routed,     \* the rule's status in the cached link, "none" when it is not cached
    sweep,      \* per run: the links it is still to save, with what it read of them
    press,      \* per request: the probe under way
    failed,     \* history: probes of the link, and of its rule, that found it down
    clashed,    \* history: links whose rule was probed by two owners at once, and not
                \* evicted by one alone since
    events

vars == <<site, active, checked, health, rule, routed, sweep, press, failed, clashed, events>>

Unknown == [status |-> "unknown", failures |-> 0, successes |-> 0]
NoSweep == [items |-> <<>>, at |-> 0]
Quiet == [pc |-> "idle"]

Init ==
    /\ site \in [Links -> {"healthy", "down"}]
    /\ active = Links
    /\ checked = [l \in Links |-> 0]
    /\ health = [l \in Links |-> Unknown]
    /\ rule = [l \in Links |-> Unknown]
    /\ routed = [l \in Links |-> "none"]
    /\ sweep = [r \in Runs |-> NoSweep]
    /\ press = [q \in Presses |-> Quiet]
    /\ failed = [l \in Links |-> [link |-> 0, rule |-> 0]]
    /\ clashed = {}
    /\ events = 0

UpTo(n) == IF n <= Most THEN n ELSE Most

\* What a probe makes of the counters it was given: checkUrl, updateFallbackHealth
\* and the rule's probe agree.
After(row, result) ==
    LET failures == IF result = "down" THEN UpTo(row.failures + 1) ELSE 0
        successes == IF result = "down" THEN 0 ELSE UpTo(row.successes + 1) IN
    [status |-> IF failures >= FailureThreshold THEN "down"
                ELSE IF successes >= SuccessThreshold THEN "healthy" ELSE result,
     failures |-> failures, successes |-> successes]

Tally(l, what) ==
    failed' = IF site[l] = "down" THEN [failed EXCEPT ![l][what] = UpTo(@ + 1)] ELSE failed

(***************************************************************************)
(* Check times, kept as small numbers in the order of the times.           *)
(***************************************************************************)
Stamps == {checked[l] : l \in Links} \cup {sweep[r].at : r \in Runs}
Latest == CHOOSE t \in Stamps : \A u \in Stamps : u <= t
Rank(t, stamps) == Cardinality({u \in stamps : 0 < u /\ u <= t})
Ranked(times, runs) ==
    LET stamps == {times[l] : l \in Links} \cup {runs[r].at : r \in Runs} IN
    /\ checked' = [l \in Links |-> Rank(times[l], stamps)]
    /\ sweep' = [r \in Runs |-> [runs[r] EXCEPT !.at = Rank(@, stamps)]]

(***************************************************************************)
(* POST health/sweep.                                                      *)
(***************************************************************************)
Under(r) == DOMAIN sweep[r].items

\* ORDER BY healthCheckedAt ASC: the database puts the links never checked last.
Before(l, m) == checked[l] # 0 /\ (checked[m] = 0 \/ checked[l] < checked[m])
AnyTaken(links) == links # {} /\ Cardinality(links) <= Take
Stalest(links) ==
    /\ links \subseteq active
    /\ Cardinality(links) = IF Cardinality(active) < Take THEN Cardinality(active) ELSE Take
    /\ \A m \in active \ links : \A l \in links : ~Before(m, l)

\* checkUrl stamps the row before it asks anybody.
Sweep(r) ==
    /\ Under(r) = {}
    /\ \E links \in SUBSET active :
        /\ Stalest(links) /\ links # {}
        /\ Ranked(checked, [sweep EXCEPT ![r] =
               [items |-> [l \in links |-> [row |-> health[l], result |-> "none"]],
                at |-> Latest + 1]])
    /\ UNCHANGED <<site, active, health, rule, routed, press, failed, clashed, events>>

Drop(runs, r, l) ==
    LET rest == DOMAIN runs[r].items \ {l} IN
    [runs EXCEPT ![r] = IF rest = {} THEN NoSweep
                        ELSE [@ EXCEPT !.items = [m \in rest |-> runs[r].items[m]]]]

\* normalizeHealthTarget throws for a host that does not resolve: allSettled goes on
\* without the link, and its row is left as it was.
Probe(r, l) ==
    /\ l \in Under(r) /\ sweep[r].items[l].result = "none"
    /\ IF site[l] = "gone"
       THEN Ranked(checked, Drop(sweep, r, l))
       ELSE /\ sweep' = [sweep EXCEPT ![r].items[l].result = site[l]]
            /\ UNCHANGED checked
    /\ Tally(l, "link")
    /\ UNCHANGED <<site, active, health, rule, routed, press, clashed, events>>

SaveCheck(r, l) ==
    /\ l \in Under(r) /\ sweep[r].items[l].result # "none"
    /\ health' = [health EXCEPT ![l] = After(sweep[r].items[l].row, sweep[r].items[l].result)]
    /\ Ranked([checked EXCEPT ![l] = sweep[r].at], Drop(sweep, r, l))
    /\ UNCHANGED <<site, active, rule, routed, press, failed, clashed, events>>

CutOff(r) ==
    /\ Under(r) # {} /\ events < MaxEvents
    /\ events' = events + 1
    /\ Ranked(checked, [sweep EXCEPT ![r] = NoSweep])
    /\ UNCHANGED <<site, active, health, rule, routed, press, failed, clashed>>

(***************************************************************************)
(* POST links/[shortCode]/health, for the link itself ("fallback").        *)
(***************************************************************************)
PressFallback(q, l) ==
    /\ press[q] = Quiet /\ site[l] # "gone"
    /\ press' = [press EXCEPT ![q] = [pc |-> "counters", link |-> l, result |-> site[l]]]
    /\ Tally(l, "link")
    /\ UNCHANGED <<site, active, checked, health, rule, routed, sweep, clashed, events>>

\* updateFallbackHealth reads the counters after the probe, and then writes.
ReadCounters(q) ==
    /\ press[q].pc = "counters"
    /\ press' = [press EXCEPT ![q] = [pc |-> "fallback", link |-> @.link, result |-> @.result,
                                      row |-> health[@.link]]]
    /\ UNCHANGED <<site, active, checked, health, rule, routed, sweep, failed, clashed, events>>
WriteFallback(q) ==
    /\ press[q].pc = "fallback"
    /\ health' = [health EXCEPT ![press[q].link] = After(press[q].row, press[q].result)]
    /\ Ranked([checked EXCEPT ![press[q].link] = Latest + 1], sweep)
    /\ press' = [press EXCEPT ![q] = Quiet]
    /\ UNCHANGED <<site, active, rule, routed, failed, clashed, events>>

(***************************************************************************)
(* The same for a rule, whose row is read before the probe.  The redirect  *)
(* keeps a copy of the rule until it is told to forget it.                 *)
(***************************************************************************)
AtRule(q, l) == press[q].pc \in {"probe", "rule", "evict"} /\ press[q].link = l
PressRule(q, l) ==
    /\ press[q] = Quiet
    /\ press' = [press EXCEPT ![q] = [pc |-> "probe", link |-> l, row |-> rule[l]]]
    /\ clashed' = IF \E p \in Presses : AtRule(p, l) THEN clashed \cup {l} ELSE clashed
    /\ UNCHANGED <<site, active, checked, health, rule, routed, sweep, failed, events>>
ProbeRule(q) ==
    /\ press[q].pc = "probe"
    /\ press' = [press EXCEPT ![q] =
           IF site[@.link] = "gone" THEN Quiet
           ELSE [pc |-> "rule", link |-> @.link, row |-> @.row, result |-> site[@.link]]]
    /\ Tally(press[q].link, "rule")
    /\ UNCHANGED <<site, active, checked, health, rule, routed, sweep, clashed, events>>

\* Whether to evict is decided against the row read before the probe.
EvictsNever(q) == FALSE
Evicts(q) == After(press[q].row, press[q].result).status # press[q].row.status
WriteRule(q) ==
    /\ press[q].pc = "rule"
    /\ rule' = [rule EXCEPT ![press[q].link] = After(press[q].row, press[q].result)]
    /\ press' = [press EXCEPT ![q] = IF Evicts(q) THEN [pc |-> "evict", link |-> @.link] ELSE Quiet]
    /\ UNCHANGED <<site, active, checked, health, routed, sweep, failed, clashed, events>>
Evict(q) ==
    /\ press[q].pc = "evict"
    /\ routed' = [routed EXCEPT ![press[q].link] = "none"]
    /\ press' = [press EXCEPT ![q] = Quiet]
    /\ clashed' = IF \E p \in Presses \ {q} : AtRule(p, press[q].link) THEN clashed ELSE clashed \ {press[q].link}
    /\ UNCHANGED <<site, active, checked, health, rule, sweep, failed, events>>

Visit(l) ==
    /\ routed[l] = "none"
    /\ routed' = [routed EXCEPT ![l] = rule[l].status]
    /\ UNCHANGED <<site, active, checked, health, rule, sweep, press, failed, clashed, events>>

(***************************************************************************)
(* What happens outside.                                                   *)
(***************************************************************************)
SiteChanges(l, answer) ==
    /\ answer # site[l] /\ events < MaxEvents
    /\ events' = events + 1
    /\ site' = [site EXCEPT ![l] = answer]
    /\ UNCHANGED <<active, checked, health, rule, routed, sweep, press, failed, clashed>>
Toggle(l) ==
    /\ events < MaxEvents
    /\ events' = events + 1
    /\ active' = IF l \in active THEN active \ {l} ELSE active \cup {l}
    /\ UNCHANGED <<site, checked, health, rule, routed, sweep, press, failed, clashed>>

Work(r) == Sweep(r) \/ \E l \in Links : Probe(r, l) \/ SaveCheck(r, l)
Answer(q) == ReadCounters(q) \/ WriteFallback(q) \/ ProbeRule(q) \/ WriteRule(q) \/ Evict(q)

Next ==
    \/ \E r \in Runs : Work(r) \/ CutOff(r)
    \/ \E q \in Presses : Answer(q) \/ \E l \in Links : PressFallback(q, l) \/ PressRule(q, l)
    \/ \E l \in Links : Visit(l) \/ Toggle(l)
    \/ \E l \in Links : \E answer \in {"healthy", "degraded", "down", "gone"} : SiteChanges(l, answer)

Spec == Init /\ [][Next]_vars

\* The sweep is called every ten minutes and gets on with what it took.
Progress == \A r \in Runs : WF_vars(Work(r))
FairSpec == Spec /\ Progress

(***************************************************************************)
(* Properties.                                                             *)
(***************************************************************************)
\* broken-link-alerts.ts:6 "at least MIN_FAILURES consecutive failed probes": however
\* probes overlap, no mail counts failures that did not happen.
ConfirmedDown == \A l \in Links :
    health[l].failures <= failed[l].link /\ rule[l].failures <= failed[l].rule

\* health/route.ts:93 "unchanged health needs no eviction": visitors are routed by the
\* rule's health as it is, once no probe of it is under way; and after two probes that
\* overlapped, from the next eviction on.
RoutedByHealth == \A l \in Links :
    routed[l] \in {"none", rule[l].status} \/ l \in clashed \/ \E q \in Presses : AtRule(q, l)

HealthSound == ConfirmedDown /\ RoutedByHealth

\* Sweeps go round: a link that has been checked, is active and resolves is checked
\* again and again, unless as many links as a sweep takes do not resolve.
Due(l) == /\ l \in active /\ checked[l] # 0 /\ site[l] # "gone"
          /\ Cardinality({m \in active : site[m] = "gone"}) < Take
Saved(l) == \E r \in Runs : l \in Under(r) /\ sweep[r].items[l].result # "none"
ProbedAgain == \A l \in Links : <>[]Due(l) => []<>Saved(l)

(***************************************************************************)
(* Claims the code does not keep.                                          *)
(***************************************************************************)
\* README.md:80 "probe the 50 stalest links": a link that was never checked is as
\* stale as can be, and gets its turn.
EveryLinkProbed == \A l \in Links :
    <>[](l \in active /\ \A m \in active : site[m] # "gone") => <>(checked[l] # 0)

\* health/route.ts:93, of overlapping probes: whether to evict is decided against a row
\* that another probe has changed since.
AlwaysRoutedByHealth == \A l \in Links :
    routed[l] \in {"none", rule[l].status} \/ \E q \in Presses : AtRule(q, l)

\* README.md:11 "circuit-breaker thresholds": a link is down after FAILURE_THRESHOLD
\* failures.
DownByThreshold == \A l \in Links :
    health[l].status = "down" => health[l].failures >= FailureThreshold

\* broken-links.ts:6 "active links whose last destination health probe says down": no
\* check that began earlier covers the answer of a later one.
LaterCheckStands == [][\A l \in Links :
    checked'[l] # 0 /\ health'[l] # health[l] => checked'[l] >= Latest]_vars

\* A link that resolves is checked again, whatever happens to others.
UnblockedByLost == \A l \in Links :
    <>[](l \in active /\ checked[l] # 0 /\ site[l] # "gone") => []<>Saved(l)

\* broken-link-alerts.ts:5 "links whose destination is confirmed down": a destination
\* whose host is gone for good is found out.
GoneIsNoticed == \A l \in Links :
    <>[](l \in active /\ site[l] = "gone") => <>(health[l].status = "down")
================================================================================
