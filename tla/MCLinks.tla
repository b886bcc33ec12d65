-------------------------------- MODULE MCLinks --------------------------------
(***************************************************************************)
(* The life of a link, for TLC: the components that create, cache, edit,   *)
(* rename, bin, file and publish links, and the drain of their clicks, in  *)
(* one run.  Each keeps state of its own and is explored from its own      *)
(* initial states while the others do not exist, so the run covers the sum *)
(* of their state spaces, not the product; s1, s2, ... are the variables   *)
(* of whichever component is in focus.                                     *)
(***************************************************************************)
EXTENDS TLC

CONSTANTS
    Focus,         \* the components to explore
    EditedLinks, EditHorizon, Templates,   \* Links, Horizon and Templates of LinkEditing
    CalmBoundary, FreeCodes,  \* of LinkLifecycle, with a reserved code
    EdgeSnapshots, \* MaxSnapshots of EdgeRouting
    QueueFaults,   \* MaxFaults of ClickQueue
    a1, a2, a3, l0, l1, l2, l3, h1, nobody, p1, u1, u2, w0, w1, w2, f1, c1, c2, m1, r1

VARIABLES
    focus,   \* the component under way; it never changes
    s1, s2, s3, s4, s5, s6, s7, s8, s9, s10, s11, s12, s13, s14, s15, s16, s17,
    s18, s19, s20, s21, s22

Off == "off"
benchVars ==
    <<focus, s1, s2, s3, s4, s5, s6, s7, s8, s9, s10, s11, s12, s13, s14, s15, s16,
      s17, s18, s19, s20, s21, s22>>

\* What the components are given.
FilingHome == f1 :> w1
FilingRoleIn ==
    (u1 :> (w1 :> "admin" @@ w2 :> "admin")) @@
    (u2 :> (w1 :> "editor" @@ w2 :> "editor"))
DrainLinkOf == (c1 :> l0) @@ (c2 :> l3)
DrainDayOf == (c1 :> "day") @@ (c2 :> "day")
DrainRefOf == (c1 :> r1) @@ (c2 :> "none")
DrainMaxClicks == (l0 :> 1) @@ (l3 :> 1)
CrewMaxClicks == l0 :> 1

Cache == INSTANCE LinkCache WITH
    Instances <- {a1, a2}, Links <- {l0}, Paths <- {}, Hosts <- {h1},
    HostOf <- [p \in {} |-> h1], LinkKinds <- {"code"}, Nobody <- nobody,
    MaxEntries <- 3, MaxWrites <- 2, MaxFaults <- 0,
    version <- s1, alive <- s2, revision <- s3, scheduled <- s4, target <- s5,
    entry <- s6, flight <- s7, live <- s8, connected <- s9, wire <- s10,
    ops <- s11, writes <- s12, faults <- s13

Lossy == INSTANCE LinkCache WITH
    Instances <- {a1, a2}, Links <- {l0}, Paths <- {}, Hosts <- {h1},
    HostOf <- [p \in {} |-> h1], LinkKinds <- {"code"}, Nobody <- nobody,
    MaxEntries <- 3, MaxWrites <- 1, MaxFaults <- 1,
    version <- s1, alive <- s2, revision <- s3, scheduled <- s4, target <- s5,
    entry <- s6, flight <- s7, live <- s8, connected <- s9, wire <- s10,
    ops <- s11, writes <- s12, faults <- s13

Routes == INSTANCE LinkCache WITH
    Instances <- {a3}, Links <- {l0}, Paths <- {p1}, Hosts <- {h1},
    HostOf <- [p \in {p1} |-> h1], LinkKinds <- {"code", "rev"}, Nobody <- nobody,
    MaxEntries <- 2, MaxWrites <- 1, MaxFaults <- 0,
    version <- s1, alive <- s2, revision <- s3, scheduled <- s4, target <- s5,
    entry <- s6, flight <- s7, live <- s8, connected <- s9, wire <- s10,
    ops <- s11, writes <- s12, faults <- s13

Editing == INSTANCE LinkEditing WITH
    Links <- EditedLinks, Requests <- {a1, a2, a3}, Dests <- {"plain", "utm"},
    Untagged <- "plain", Tagged <- "utm", Caps <- {1}, Releases <- TRUE,
    NoRev <- "none", Horizon <- EditHorizon,
    row <- s1, latest <- s2, clock <- s3, today <- s4, job <- s5, events <- s6,
    updates <- s7, undone <- s8, released <- s9, reverted <- s10, raced <- s11,
    misreported <- s12

Lifecycle == INSTANCE LinkLifecycle WITH
    Links <- {l1, l2}, Codes <- FreeCodes \cup {"api"}, Requests <- {a1, a2, a3},
    Reserved <- {"api"}, MaxTries <- 2, Window <- 1, Horizon <- 1,
    link <- s1, renames <- s2, job <- s3, today <- s4

Filing == INSTANCE FolderFiling WITH
    Users <- {u1, u2}, Workspaces <- {w1, w2}, Folders <- {f1},
    Links <- {l1, l2}, Requests <- {a3},
    Home <- FilingHome, RoleIn <- FilingRoleIn, Granted <- {<<u2, f1>>},
    folder <- s1, link <- s2, edits <- s3, job <- s4, overtaken <- s5

\* Two requests of an administrator's side by side.
Crossing == INSTANCE FolderFiling WITH
    Users <- {u1}, Workspaces <- {w1, w2}, Folders <- {f1},
    Links <- {l1, l2}, Requests <- {a1, a2},
    Home <- FilingHome, RoleIn <- FilingRoleIn, Granted <- {},
    folder <- s1, link <- s2, edits <- s3, job <- s4, overtaken <- s5

Edge == INSTANCE EdgeRouting WITH
    Links <- {l1, l2}, Requests <- {a1, a2}, MaxEdits <- 2, MaxSnapshots <- EdgeSnapshots,
    MaxSends <- 1, MaxFailures <- 1,
    link <- s1, snapshots <- s2, lock <- s3, job <- s4, cron <- s5, replica <- s6,
    edge <- s7, told <- s8, sends <- s9, failures <- s10

Health == INSTANCE DestinationHealth WITH
    Links <- {l0}, Runs <- {a1, a2}, Presses <- {a3},
    Take <- 1, FailureThreshold <- 2, SuccessThreshold <- 2, Most <- 2,
    MaxEvents <- 1,
    site <- s1, active <- s2, checked <- s3, health <- s4, rule <- s5,
    routed <- s6, sweep <- s7, press <- s8, failed <- s9, events <- s10,
    clashed <- s11

\* Two owners at the link and its rule, between two sweeps.
Rules == INSTANCE DestinationHealth WITH
    Links <- {l0}, Runs <- {}, Presses <- {a1, a2},
    Take <- 1, FailureThreshold <- 2, SuccessThreshold <- 2, Most <- 2,
    MaxEvents <- 2,
    site <- s1, active <- s2, checked <- s3, health <- s4, rule <- s5,
    routed <- s6, sweep <- s7, press <- s8, failed <- s9, events <- s10,
    clashed <- s11

Drain == INSTANCE ClickQueue WITH
    Clicks <- {c1, c2}, Malformed <- {m1}, Workers <- {w0}, Links <- {l0, l3},
    Days <- {"day"}, Refs <- {r1}, NoRef <- "none", Personal <- {},
    LinkOf <- DrainLinkOf, DayOf <- DrainDayOf, RefOf <- DrainRefOf,
    Humans <- {c1}, Reserved <- {}, Excluded <- {}, Anonymised <- {c2},
    Erasable <- {c2}, Deletable <- {}, MaxClicks <- DrainMaxClicks,
    BatchSize <- 2, MaxSends <- 1, MaxFaults <- QueueFaults,
    queue <- s1, processing <- s2, dlq <- s3, wire <- s4, sends <- s5,
    arrived <- s6, urlRow <- s7, refs <- s8, events <- s9, total <- s10,
    daily <- s11, human <- s12, usage <- s13, active <- s14, pc <- s15,
    batch <- s16, prep <- s17, count <- s18, faults <- s19, persisted <- s20,
    dropped <- s21, offered <- s22

Crew == INSTANCE ClickQueue WITH
    Clicks <- {c1, c2}, Malformed <- {}, Workers <- {a1, a2}, Links <- {l0},
    Days <- {"day"}, Refs <- {}, NoRef <- "none", Personal <- {},
    LinkOf <- [c \in {c1, c2} |-> l0], DayOf <- [c \in {c1, c2} |-> "day"],
    RefOf <- [c \in {c1, c2} |-> "none"], Humans <- {c1, c2}, Reserved <- {c2},
    Excluded <- {}, Anonymised <- {}, Erasable <- {}, Deletable <- {},
    MaxClicks <- CrewMaxClicks, BatchSize <- 2, MaxSends <- 1,
    MaxFaults <- QueueFaults,
    queue <- s1, processing <- s2, dlq <- s3, wire <- s4, sends <- s5,
    arrived <- s6, urlRow <- s7, refs <- s8, events <- s9, total <- s10,
    daily <- s11, human <- s12, usage <- s13, active <- s14, pc <- s15,
    batch <- s16, prep <- s17, count <- s18, faults <- s19, persisted <- s20,
    dropped <- s21, offered <- s22

\* The variables a component with so many of its own leaves alone.
Off13 ==
    /\ s14 = Off /\ s15 = Off /\ s16 = Off /\ s17 = Off /\ s18 = Off /\ s19 = Off
    /\ s20 = Off /\ s21 = Off /\ s22 = Off
Off12 ==
    /\ s13 = Off /\ Off13
Off11 ==
    /\ s12 = Off /\ Off12
Off10 ==
    /\ s11 = Off /\ Off11
Off5 ==
    /\ s6 = Off /\ s7 = Off /\ s8 = Off /\ s9 = Off /\ s10 = Off /\ Off10
Off4 ==
    /\ s5 = Off /\ Off5

BenchInit ==
    /\ focus \in Focus
    /\ \/ focus = "cache" /\ Cache!Init /\ Off13
       \/ focus = "lossy" /\ Lossy!Init /\ Off13
       \/ focus = "paths" /\ Routes!Init /\ Off13
       \/ focus = "editing" /\ Editing!Init /\ Off12
       \/ focus = "lifecycle" /\ Lifecycle!Init /\ Off4
       \/ focus = "filing" /\ Filing!Init /\ Off5
       \/ focus = "crossing" /\ Crossing!Init /\ Off5
       \/ focus = "edge" /\ Edge!Init /\ Off10
       \/ focus = "health" /\ Health!Init /\ Off11
       \/ focus = "rules" /\ Rules!Init /\ Off11
       \/ focus = "clicks" /\ Drain!Init
       \/ focus = "crew" /\ Crew!Init

Rest4 == <<s5, s6, s7, s8, s9, s10, s11, s12, s13, s14, s15, s16, s17, s18, s19, s20, s21, s22>>
Rest5 == <<s6, s7, s8, s9, s10, s11, s12, s13, s14, s15, s16, s17, s18, s19, s20, s21, s22>>
Rest10 == <<s11, s12, s13, s14, s15, s16, s17, s18, s19, s20, s21, s22>>
Rest11 == <<s12, s13, s14, s15, s16, s17, s18, s19, s20, s21, s22>>
Rest12 == <<s13, s14, s15, s16, s17, s18, s19, s20, s21, s22>>
Rest13 == <<s14, s15, s16, s17, s18, s19, s20, s21, s22>>

BenchNext ==
    \/ focus = "cache" /\ Cache!Next /\ UNCHANGED <<focus, Rest13>>
    \/ focus = "lossy" /\ Lossy!Next /\ UNCHANGED <<focus, Rest13>>
    \/ focus = "paths" /\ Routes!Next /\ UNCHANGED <<focus, Rest13>>
    \/ focus = "editing" /\ Editing!Next /\ UNCHANGED <<focus, Rest12>>
    \/ focus = "lifecycle" /\ Lifecycle!Next /\ UNCHANGED <<focus, Rest4>>
    \/ focus = "filing" /\ Filing!Next /\ UNCHANGED <<focus, Rest5>>
    \/ focus = "crossing" /\ Crossing!Next /\ UNCHANGED <<focus, Rest5>>
    \/ focus = "edge" /\ Edge!Next /\ UNCHANGED <<focus, Rest10>>
    \/ focus = "health" /\ Health!Next /\ UNCHANGED <<focus, Rest11>>
    \/ focus = "rules" /\ Rules!Next /\ UNCHANGED <<focus, Rest11>>
    \/ focus = "clicks" /\ Drain!Next /\ UNCHANGED focus
    \/ focus = "crew" /\ Crew!Next /\ UNCHANGED focus

BenchSpec == BenchInit /\ [][BenchNext]_benchVars

BenchSymmetry == Permutations({a1, a2}) \cup Permutations({l1, l2})

ASSUME CacheParameters ==
    /\ Cache!KeysAssumption /\ Cache!BoundsAssumption
    /\ Lossy!KeysAssumption /\ Lossy!BoundsAssumption
    /\ Routes!KeysAssumption /\ Routes!BoundsAssumption

(***************************************************************************)
(* What the run checks: a property of the component in focus, stated in its *)
(* module.                                                                 *)
(***************************************************************************)
\* A short code is answered from an outdated entry no longer than an invalidation
\* takes, or the short TTL (link-cache.ts:24-29), and the cache stays within MAX_ENTRIES.
CacheSound ==
    /\ focus = "cache" => Cache!Coherent
    /\ focus = "lossy" => Lossy!Coherent
    /\ focus = "paths" => Routes!Coherent /\ Routes!CacheBounded
\* The destination the owner is shown is the one visitors get (bulk-edit.ts,
\* links/[shortCode]/route.ts).
ShownIsServed == focus = "editing" => Editing!ShownIsServed
\* No two links answer one code, the trash included (shorten/route.ts, link-trash.ts).
OneLinkPerCode == focus = "lifecycle" => Lifecycle!OneLinkPerCode
\* A mistaken delete is recoverable for as long as the window (link-trash.ts:6).
TrashKeepsItsPromise == [][focus = "lifecycle" => Lifecycle!KeepsItsPromise]_benchVars
\* A link is filed only in folders of its own workspace (link-move.ts:7).
FolderInWorkspace ==
    /\ focus = "filing" => Filing!FolderInWorkspace
    /\ focus = "crossing" => Crossing!FolderInWorkspace
\* Neither a slow publication nor a late post covers a newer one (routing-config.ts:73).
NewerIsNeverCovered == focus = "edge" => Edge!NewerIsNeverCovered
\* No check counts failures that did not happen, and visitors are routed by a rule's
\* health as it is (links/[shortCode]/health/route.ts:92).
HealthSound ==
    /\ focus = "health" => Health!HealthSound
    /\ focus = "rules" => Rules!HealthSound
\* No malformed entry is lost before it is quarantined, and the rollups are the rows
\* counted, whatever rule is deleted and whichever visitor erased meanwhile; and workers that take
\* each other's clicks lose none, charge none twice and silence no webhook (queue.ts).
ClicksAccountedFor ==
    /\ focus = "clicks" => Drain!NothingDiscarded /\ Drain!RollupsMatchEvents
    /\ focus = "crew" => /\ Crew!NoLoss /\ Crew!ChargedOnce
                         /\ Crew!FannedOutBeforeGone /\ Crew!RollupsMatchEvents

(***************************************************************************)
(* Claims the README refutes, with Focus set to the component alone.       *)
(***************************************************************************)
UndoneIsServed == Editing!UndoneIsServed
UndoSparesNewerWork == Editing!UndoSparesNewerWork
UndoneOnce == Editing!UndoneOnce
RevertSparesNewerEdits == Editing!RevertSparesNewerEdits
ExtendReactivates == Editing!ExtendReactivates
SweepSparesExtended == Editing!SweepSparesExtended
OnlyArchivedReported == Editing!OnlyArchivedReported
PatchTakesEffect == Editing!PatchTakesEffect
TagsAreServed == Editing!TagsAreServed
PurgeLeavesNothing == Lifecycle!PurgeLeavesNothing
RevertSparesNewerRename == Lifecycle!RevertSparesNewerRename
NeverMisfiled == Crossing!NeverMisfiled
NothingExposedUnasked == Crossing!NothingExposedUnasked
UndoRestores == Filing!UndoRestores
TrashedNotServed == Edge!TrashedNotServed
EdgeServesOwnLink == Edge!EdgeServesOwnLink
SupersededNeverSent == Edge!SupersededNeverSent
RetryIsAccepted == Edge!RetryIsAccepted
PathsCoherent == Routes!PathsCoherent
NeverEarly == Cache!NeverEarly
AlwaysRoutedByHealth == Rules!AlwaysRoutedByHealth
DownByThreshold == Health!DownByThreshold
LaterCheckStands == Health!LaterCheckStands

================================================================================
