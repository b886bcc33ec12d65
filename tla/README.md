# Verification of urlshort

urlshort (QuickLink) is a link shortener: a Next.js application that runs as several
stateless instances over one Postgres database, with Redis as an optional queue, cache bus
and rate-limit store, and cron routes that drain queues and sweep rows. This directory
models the parts of it in which several actors share state and anything may fail in the
middle, checks them with TLC and proves with TLAPS the main results: about the path of a
click (the caches that answer, admission on the tenant's quota, the gate of the link, the
queue, and the webhooks it ends in), the life of a link, its edits, its folders and its
publication at the edge, retried calls, the books of sales and refunds, membership, sign-in,
releases, the health of destinations, the rate limiter and the renewal of certificates.

The source is TypeScript under `src/src/`. Module names in this text are TLA+
modules; `queue.ts` and the like are files of `src/src/lib/` unless a path is
given, and a path without a prefix starts at `src/src/app/api/`. Line numbers are
those of the commit under `src/`.

Contents: [the system](#the-system) · [modules](#modules-and-what-they-correspond-to) ·
[runs](#runs) · [fairness](#fairness) · [proofs](#proofs) ·
[where the code disagrees with its own comments](#where-the-code-disagrees-with-its-own-comments) ·
[not modelled](#not-modelled) · [plan](#plan)

To repeat a run: `tlc -workers 2 -config MCClickQueue.cfg MCClickQueue`.
To repeat the proofs: `tlapm` on `ClickQueueProofs.tla`, `ClickAdmissionProofs.tla`,
`RedirectGateProofs.tla`, `WebhookDeliveryProofs.tla`, `ServiceProofs.tla`,
`StripeSalesProofs.tla`, `LinkCacheProofs.tla`, `BenchProofs.tla`.

## The system

A redirect (`[shortCode]/route.ts` of `src/src/app`) looks the link up in a
per-instance cache, passes a gate of lifetime, quota and caps, answers, and
afterwards pushes a click on a queue. A cron worker persists clicks in batches,
which moves counters, may deactivate the link (and so invalidates caches), and
fans out webhooks; another cron delivers those. Edge instances answer from a
signed snapshot of the workspace's links instead. Owners create, edit, rename,
bin, file and move links, singly and in bulk, and undo it; cron sweeps archive,
expire and purge them. Stripe calls back with sales, which are attributed to
clicks, and with refunds. API clients retry with idempotency keys. Members come
and go by invitation, SCIM and SAML; campaigns release new variants after votes
and shift traffic by themselves; sweeps mail owners once.

| Part | State it keeps | Operations | What makes it correct |
|---|---|---|---|
| Click queue (`queue.ts`, `redis.ts`, `click-ingestion.ts`) | Redis lists `click_queue`, `click_queue_processing`, `click_queue_dlq`; `click_events`, `urls.clicks`, `click_daily`, dimension rollups, `usage_buckets` | `push`, `processBatch` (recover, claim, persist, fan out, acknowledge, quarantine) | No click is lost between the lists and the table; a click delivered twice counts once; nothing unparsable is thrown away; the queue drains |
| Click admission (`click-admission.ts`, `tenant-usage.ts`) | per instance: lease, unlimited flag, acquisition in flight, waiters; `usage_buckets`, `tenant_quotas` | `admitBillableClick`, `acquire`, `returnAdmittedClick`, `sweepExpiredLeases` | The limit is never exceeded; every reserved unit is spent, held, handed back or known to be lost; every click is answered |
| Redirect gate (`[shortCode]/route.ts`, `daily-click-cap.ts`, `link-lifetime.ts`) | `clicksReserved`, daily counter, `firstClickAt` | reserve one after another, compensate on refusal, edit the limits | No cap exceeded, no unit of a refused click kept, a link that is over stays over |
| Link cache (`link-cache.ts`, `link-cache-bus.ts`) | per instance: entries, flights, indexes, whether the bus is up; messages on the bus | reads through `readThrough`; `invalidate`; connect, disconnect | An outdated entry is served only while its invalidation is on the way or was lost, and then only for a TTL |
| Link edits (`links/[shortCode]/route.ts`, `bulk-edit.ts`, `bulk-edit-undo.ts`, `link-extend.ts`, `link-revert.ts`, `auto-archive.ts`, `maintenance/sweep/route.ts`) | columns of `urls`, destination revisions, audit events | PATCH, bulk edit, undo, promote, release, extend, revert, archive, sweep | The destination shown is the one served; newer work is not overwritten |
| Link lifecycle (`shorten/route.ts`, `link-trash.ts`, `link-rename.ts`) | `urls.shortCode`, `urls.deletedAt`, audit events | shorten, clone, rename and revert, trash, restore, empty, purge | One link per code; what is in the trash can be had back for the window |
| Folders (`folders.ts`, `link-move.ts`, `authorization.ts`) | `urls.folderId`, `urls.workspaceId`, folder rows | file, bulk file, undo, move, clone, reassign, restrict, delete | A link lies in folders of its workspace; restriction is not lifted by accident |
| Edge delivery (`routing-config.ts`, `edge/[shortCode]/route.ts`) | snapshots with versions and hashes, the replica, an instance's last good answer | publish, replicate, retry, serve | Newer configurations are not covered by older ones |
| Webhooks (`webhooks.ts`, `webhook-health.ts`, `webhook-delivery-log.ts`) | `webhook_deliveries` (status, attempts, lease), `webhook_endpoints.isActive` | enqueue, cron run, claim, post, finalize, health check, disable, replay | One post per attempt, no result overwritten by a stale worker, retries used up before giving up, one notice per disabling, everything settles |
| Stripe sales (`stripe-attribution.ts`, `commissions.ts`) | receipts, conversions and daily sums, customer attributions, commissions | sale events, refunds, approve, pay, reverse | A purchase counts once; revenue is sale less refunds; commissions follow refunds |
| Idempotency (`idempotency.ts`) | `idempotency_keys` rows | claim, take over, store, release | One request at a time works for a key; a retry gets the stored response of the same call; no key stays claimed by a finished request |
| Membership (`members`, `invites`, `scim` routes, `saml.ts`) | memberships, folder grants, invitations, SCIM identities | change role, transfer, remove, leave, invite, accept, provision | Never two owners; grants end with the membership |
| Sign-in (`auth.ts`, `mfa.ts`, `totp.ts`) | password, sessions, TOTP counter, recovery codes, reset tokens | log in, verify, renew, enable, disable, change, reset | Each code is accepted once; what is superseded is dead |
| Campaigns (`campaigns.ts`, `release-approval.ts`) | version, weights, releases, votes, experiment looks | propose, vote, activate, autopilot | Versions only advance; weights keep their sum; a quorum stands behind what goes out |
| Alert sweeps (`usage-alerts.ts`, `click-milestones.ts`, `weekly-digest.ts`, `api-key-expiry-alerts.ts`) | marker columns and rows | list, claim, mail, give back | One mail per thing reached, and not none |
| Account deletion (`account/deletion/route.ts`, `cron/privacy/route.ts`) | `data_deletion_requests` and all the user owns | ask, cancel, erase | What was asked for is done in the end (it is not, below) |
| Rate limiter (`rate-limit.ts`) | Redis sorted set, in-memory buckets | `hit` | At most `limit` hits per window on either backend |
| Domains (`domain-registration.ts`, `domain-provisioning.ts`, `cron/domains/route.ts`) | `branded_domains`, `domain_provisions` | register, verify, reconcile | One run renews a certificate, a claim is given back, a lapse is noticed |
| Destination health (`health/sweep/route.ts`, `links/[shortCode]/health/route.ts`, `destination-health.ts`) | counters and check times of `urls` and `link_rules` | sweep, probe by hand | Failures counted happened, every link has its turn, redirects route by the health a rule has |

How they touch each other: the gate calls admission; the queue's transaction
measures unreserved clicks into the bucket admission reserves from, and calls
the cache's `invalidateLink` when a link reaches its cap; the queue and the
Stripe handler enqueue webhook deliveries; lifecycle operations invalidate the
cache and remove rows the queue is about to write to; edits publish snapshots
for the edge. Each module below includes the effect of its neighbours as
actions of its environment (for instance `DeleteLink` in ClickQueue, `CapReached` in
LinkCache, `Meter` in ClickAdmission, `ChangeQuietly` in EdgeRouting), and where a
neighbour has a promise of its own the module uses that: RedirectGate takes its
units from ClickQuota, which ClickAdmission is shown to implement.

The behaviours that are hard here: overlapping cron runs; a Redis or database
call that fails although it took effect; a process that dies between two
awaits; state read before an await and used after it; leases and TTLs that run
out while their holder works; events that Stripe repeats and reorders;
handlers that read a row, decide, and later write it by id alone.
`PROJECT.json` lists the main ones under `hazards`, each at its line; others are
with the disagreements below.

## Modules and what they correspond to

An action stands for what the code does between two points at which another
actor can step in: an `await` of a database or Redis call. A transaction is one
action unless two of them can interleave inside (Stripe refunds, where the row
lock taken by the first UPDATE is modelled by `locked`; the account worker; the
vote of a campaign). Time is abstracted to "has run out" where only that
matters: TTLs, leases, backoffs and month ends are actions of their own that may
happen at any moment their preconditions allow. RedirectGate, LinkLifecycle,
LinkEditing, SignIn, RateLimit and DomainProvisioning compare times and have a
clock; DestinationHealth keeps the order of its check times. Failures count
against `MaxFaults` and owner's edits against `MaxEdits`, in the guards; the run
`webhook` alone also has a CONSTRAINT, `OneTrouble`.

**ClickQueue** (`queue.ts` 57–304, `click-ingestion.ts`, the process-clicks
route). `queue` and `processing` are the two Redis lists; `wire` holds LPUSHes that
the caller may have given up and that may still land (`withRedis` retries and
times out on its own). `pc`, `batch` and `prep` are the local variables of each
call of `persistBatch`, by a worker or, when Redis refuses, by the request
itself. `Persist` is the transaction: INSERT … ON CONFLICT DO NOTHING selects the
fresh rows (`Fresh`), and totals, days, human rollup and usage move by those
only. `CommitUnseen`, `ClaimUnseen`, `AckFails` are calls that took effect but
failed. `DeleteLink`, `MoveLink`, `DeleteRef`, `EraseVisitor` are other requests.
History variables: `persisted` (ever committed), `dropped` (filtered out on
purpose), `offered` (fan-out attempted). One workspace, one accounting period.

**ClickLedger** is what ingestion promises: clicks are made, each is counted at
most once on its link's total, and a closed link's total only goes away.
`ImplementsLedger` checks that ClickQueue refines it, with `made`, `counted` and
`closed` mapped from `pc`, `persisted` and `urlRow`.

**RedisLists** defines LPUSH, LREM and the list contents the queue uses; the first
lemmas of ClickQueueProofs say what they do to the set of listed entries.

**ClickAdmission** (`click-admission.ts`, the lease transactions of
`tenant-usage.ts`, `route.ts` 189–279). `lease`, `unlimited`, `flight` are the maps of
`State`, per instance; `flight` also carries the demand and the detached lease, as
the closure of `acquire` does. `ReserveLease` is the transaction, `Settle` the
continuation, `Wake` the resumption of everyone who awaited the shared promise.
`GoThrough`, `ReturnAdmittedClick`, `Abandon` are the three ends of a click in the
gate, `Meter` its later measurement by the queue. History: `spent`, `metered`,
`stranded`, `ceiling`. `Held(p)` adds up what leases and acquisitions (`InLeases`), releases
(`OnTheWay`) and admitted requests hold of a month; `Total` is a sum written as the
size of a set with an element per unit, a form the proofs can reason about.

**ClickQuota** is what admission promises: a click is admitted on a unit of its
month only while fewer are out than the largest limit so far, a returned unit
may be used again, a lost one may not. `ImplementsQuota` checks that ClickAdmission
refines it through leases, waiters, the sweeper and crashes.

**RedirectGate** (the GET handler of `[shortCode]/route.ts`, `daily-click-cap.ts`,
`link-lifetime.ts`, the PATCH of the limits). A visit is at one of its awaits
(`pc`): `Look` reads the cached row, `Clock` starts or reads the lifetime, `AskQuota`,
`AskCap`, `AskDaily` reserve one after another, `Uncap` compensates, `Push` queues
the click after the answer. `Fail` and `FailAfter` are a statement that failed, and
one that took effect all the same. `slot`, `daySlot`, `unit` are history: what
became of each reservation. The owner reads the row (`Open`) and saves limits
later, which re-arms the clock when the lifetime changes.

**LinkCache** (`link-cache.ts`, `link-cache-bus.ts`, the mutations that call
`invalidateLink`). Keys are short codes, revisions and custom-domain paths. A
value is the link a key resolves to and the generation of its row, so an entry
is outdated when it differs from `Truth`. `flight` splits a load into query and
store; `EvictLocal` removes entries and marks flights; `wire` is each subscriber's
channel; `live` is whether Redis really delivers and `connected` what the instance
believes. Each entry remembers why it may be outdated (`missed`): a publish that
failed, a subscription that was down, or an invalidation that ran ahead of its
commit (`queue.ts` 143 invalidates inside the transaction). `fresh`, `long` and
`capped` abstract `expiresAt`.

**LinkEditing**: `job[r]` is what a request has read and plans. Every operation
reads first (`Patch`, `BulkEdit`, `Revert`, `UndoBulkEdit`, `SelectIdle`, …), stamps its
`new Date()` in `Stamp`, and writes by id (`WritePatch`, …). `row` is what management
shows, `latest` the newest revision, which the redirect prefers. `raced` marks
links whose edits were committed in another order than they were stamped.

**LinkLifecycle**: an id is absent, live, in the trash or erased, and holds its
code until it is erased. `Insert` and `WriteCode` are the statements on which the
unique index refuses a taken code, which the handlers retry or report. `today`
counts days; a job keeps the `now` it took, so it may write after the window ended.

**FolderFiling**: a request reads roles, folder and link in one step and writes
in the next; any number run side by side. `edits` is the audit of the last bulk edit,
which the undo reads, and which also says for which workspace the edit was decided.
`overtaken` is history: the links that were filed by a request, or an undo, which a move to
another workspace has overtaken, and the clones of such links.
Roles are constants; how they change is WorkspaceMembers.

**EdgeRouting** (`routing-config.ts`, the edge and edge-config routes, the PATCH and
trash that do or do not publish). A snapshot's content is the state of all
links, read under the advisory lock (`ReadState`, then `Publish`). `Replicate` posts it;
the replica, which is external, accepts what `shouldAcceptRoutingSnapshot`
accepts. `CronReads` and `CronPosts` retry. `edge` is one instance's `lastGood`.

**WebhookDelivery** (`webhooks.ts` 68–235 and 283–331, `webhook-health.ts`,
`webhook-delivery-log.ts`, the replay and endpoint routes). `job[r][d]` is the call
of `processWebhookDelivery(d)` inside run `r`: `Read`, `Vet`, `Reject`, `Claim`, `Post`,
`Finalize`, `ReadHealth`, `Disable`. `token` is the lease token, named by the attempt
that wrote it. `due` and `later` are the pending rows ordered by `nextAttemptAt`,
since the cron takes a prefix of them. A run awaits all its calls together
(`Promise.allSettled`), so they interleave. `Recent` is the `take` of `webhook-health.ts` 63,
the streak is counted within it. `posts`, `notices` and `rejected` are history.

**StripeSales** (`stripe-attribution.ts` 112–484, `commissions.ts` 61–114 and
172–200). A purchase is reported by a checkout session and by its first
invoice, a renewal by its own; both are sale keys. `Record` is the sale
transaction, `ClaimRefund` and `ApplyRefund` the two halves of the refund
transaction, `Approve`, `Pay`, `Reverse` the owner's moves. `acked` is what Stripe has
seen answered: everything else it sends again.

**Idempotency** (`idempotency.ts`, and `bulk/route.ts` as the handler). `row` is the
table row; `by` is a history component (the row names no owner in the code,
which is the point of some of its properties). `late` and `expired` record which
requests overran a claim and which keys ran out.

**WorkspaceMembers**: `seat` numbers a user's memberships, since the handlers write by the
membership's id and fail when it is gone. A request reads in one step and writes in the
next, beside others; SCIM and SAML calls that only use one statement are one step. "member"
stands for editor, analyst and viewer. History: `crossed` once a transfer of the ownership
is written while another is on its way, `late` who left while a list of grants with his name
was on its way.

**SignIn**: one account. `Login`, `ReadFactor`, `Advance` and `OpenSession` are the
statements of a login; `Manage` leads to `Disable` or, over `DeleteCodes`, to
`ReplaceCodes`. A transaction whose first statement has taken its snapshot is two steps. A
code is of the step before, of this one or of the next (`Window`, `totp.ts` 55). History:
`accepted` is the bag of second factors let through, `spared` the sessions that a sign-in
opened after a change overtook it or a change that died left behind, `twin` says that two
requests for a reset link overlapped since links were last retired.

**CampaignReleases**: the version that follows the campaign's names a release.
Transactions run at READ COMMITTED, so the statements of a vote (`Record`, `Count`,
`Settle`) are steps; a conditional update with what follows it is one, since it
holds the row. `Look`, `Decide`, `Shift` are the autopilot, whose statistics are a
free choice of a winner.

**AlertSweeps**: four sweeps of one shape; `sweep` says which. What is reached is
a level, `mark` the marker; `Claim` is the conditional update, `PutBack` its reversal
after a failed mail, where the code has one (the quota alert has none).

**AccountDeletion**: the worker's transaction in steps, with the rows it
holds and how far it has come; deleting the user deletes the request row with it
(`schema.prisma`), so that the update after it fails.

**RateLimit**: hits by time stamp, in Redis and in each instance's memory. `Ask`
hits memory and sends the script, `Answer` is the script's run at a later moment,
`Fail` an answer that never comes, after which the instance keeps to its memory.

**DomainProvisioning**: `domain` and `prov` are the two rows of a host. A run's `job`
is one call of `reconcileDomain`, an action per await: `ReadDomain`, the DNS look-up
with `RecordMissing` or `ClaimRenewal`, `AskProvider`, `ProbeTls`, `SaveState`, which is
`nextTlsState` and the transaction. A day is the renewal window of 14 days. `cert` and
`asked` are the provider's, `dns` the owner's zone. Time passes only between runs,
which end after 60 seconds. `abandoned` is history: domains whose claim was last taken
by a run that was cut off.

**DestinationHealth**: `sweep[r]` holds the links a sweep has still to save, with the
counters it read for them; `press[q]` is an owner's request, for the link (`PressFallback`,
`ReadCounters`, `WriteFallback`) or a rule (`PressRule`, `ProbeRule`, `WriteRule`, `Evict`).
`checked` keeps the order of `healthCheckedAt` and `routed` the copy of a rule that the
redirect's cache holds. History: `failed` counts the probes that found a site down,
`clashed` names the links whose rule two requests probed at once, until one that is alone
evicts it.

The `MC*` modules give TLC its constants and symmetry sets. **MCLinks** and **MCAccounts**
put several components beside each other: `focus` names the one that an execution is about,
the others do not exist in it, and `s1`, `s2`, … stand for the variables of whichever it is.
A run of them explores the sum of the state spaces, never the product; setting `Focus` in
the cfg to one name explores that component alone. **MCLive** does the same under fairness,
for three liveness properties. After a divider, the MC modules and most component modules
also hold stronger claims that the comments of the code make and the code does not keep; no
run checks those, except where a run is marked as a violation.


## Runs

| Run | Instance | Checks | States |
|---|---|---|---|
| `clickqueue` | 1 worker beside the requests' own fallback, 2 human clicks of one link (one reserved) that may be deleted or moved, a malformed entry, cap 1, batches of 2, 1 fault, fair | `TypeOK`, `NoLoss`, `ChargedOnce`, `FannedOutBeforeGone`, `RollupsMatchEvents`, `EventuallySettled`, `ImplementsLedger` | 0.25 M |
| `admission` | 2 instances, 3 clicks (2 on one instance), 2 months, quota 2 or none, grants of up to 2, one acquisition a click, 1 edit, 1 fault | `EveryUnitAccountedFor`, `ImplementsQuota` | 0.46 M |
| `admission_live` | 1 instance, 3 clicks, one month, quota 2, up to two acquisitions a click, fair, 1 fault, lost replies allowed | `LeftoversComeBack`, `EveryClickAnswered` | 0.22 M |
| `gate` | 3 visits, 2 of them human, caps none or 1, lifetime none or 1, quota 1, two moments of one day and the first of the next, 1 edit, 1 fault that may have taken effect | `ReservationsAccounted`, `CapsKept`, `ExpiredStaysExpired` | 3.6 M |
| `links` | twelve instances of seven components, below | below | 3.2 M |
| `accounts` | eleven instances of eight components, below | below | 2.4 M |
| `live` | three components, fair, below | below | 0.25 M |
| `webhook` | 2 deliveries of one endpoint whose host may be unsafe, 2 runs of one delivery each, the bulk replay button, 2 attempts, disabling after one failure, 1 switch of the endpoint or 1 fault | `EachAttemptOnce`, `OneNoticePerDisable`, `StaleNeverFinalizes` | 2.2 M |
| `webhook_success` | 1 delivery, 2 runs, no faults | violation of `SuccessIsFinal` | |
| `stripe_race` | 2 requests, 2 refunds of one purchase, no faults | violation of `RefundsConverge` | |
| `account_deletion` | 2 users, 2 runs of the worker, 2 requests | violation of `DueIsProcessed` | |
| `domains_lapse` | 1 domain, 1 run, certificates of 2 days, 3 days, fair | violation of `LapseIsNoticed` | |

`links` explores, with `Focus` naming each:

| Focus | Instance | Checks | States |
|---|---|---|---|
| `cache` | 2 instances, one short code, 2 mutations, nothing lost | `CacheSound` (`Coherent`) | 0.2 M |
| `lossy` | the same with 1 mutation and 1 fault | `CacheSound` (`Coherent`) | 41 k |
| `editing` | 3 requests or sweeps on one link, 2 destinations, cap 1, expiry in one day | `ShownIsServed` | 0.4 M |
| `lifecycle` | 2 links, 2 free codes and a reserved one, 3 requests, a window of one day | `OneLinkPerCode`, `TrashKeepsItsPromise` | 65 k |
| `filing` | 2 users (one granted the folder), 2 workspaces, a folder in one, 2 links, one request | `FolderInWorkspace` | 0.16 M |
| `crossing` | an administrator with 2 requests side by side, the same workspaces, folder and links | `FolderInWorkspace` | 0.9 M |
| `edge` | 2 links, 2 requests, 2 edits a link, 2 snapshots, 1 run of the retry job, 1 lost post | `NewerIsNeverCovered` | 54 k |
| `paths` | 1 instance with room for 2 of its 3 keys (code, revision, path), 1 mutation | `CacheSound` (`Coherent`, `CacheBounded`) | 79 k |
| `health` | 1 link with a rule, 2 sweeps, 1 owner's request, thresholds of 2, 1 event outside | `HealthSound` (`ConfirmedDown`, `RoutedByHealth`) | 0.49 M |
| `rules` | the link and its rule, 2 owner's requests side by side, no sweep, 2 events outside | `HealthSound` (`ConfirmedDown`, `RoutedByHealth`) | 0.47 M |
| `clicks` | 1 worker, 2 clicks on 2 links, a malformed entry, a rule that may be deleted, a crawler's click stored as human and erasable, 1 fault | `ClicksAccountedFor` (`NothingDiscarded`, `RollupsMatchEvents`) | 75 k |
| `crew` | 2 workers that reclaim from each other, 2 human clicks of one link (one reserved), cap 1, 1 fault | `ClicksAccountedFor` (`NoLoss`, `ChargedOnce`, `FannedOutBeforeGone`, `RollupsMatchEvents`) | 0.23 M |

and `accounts`:

| Focus | Instance | Checks | States |
|---|---|---|---|
| `stripe` | 2 requests, a purchase with checkout and invoice, refunds of 2 and 7 of 8, value cap 6, 50 % commission, quota 0 that may be raised, 1 fault | `SalesSound` (`SaleCountedOnce`, `NetOfRefunds`) | 0.11 M |
| `trial` | the same with a free checkout and two renewals, quota 1, 1 switch of the settings, no fault | `SalesSound` (`SaleCountedOnce`, `NetOfRefunds`) | 86 k |
| `keys` | 3 requests with one key, 2 calls, one slow handler, 1 fault | `RetriesAreSafe` (`OneAtWork`, `ReplayIsOwn`, `NoOrphanClaim`, `EffectOnce`) | 47 k |
| `members` | 2 users, one of them invited and provisioned, 2 requests side by side, 1 membership created | `MembershipsSound` | 0.41 M |
| `handover` | 3 users, 2 requests side by side, 2 memberships created by SAML | `MembershipsSound` | 0.28 M |
| `signin` | 2 requests, 2 sessions, 3 moments of the authenticator, 1 secret, 2 batches of codes | `SecondFactorOnce` | 0.12 M |
| `password` | 2 requests, 2 sessions, 3 reset links, 2 changes, any request cut off | `SupersededIsDead` | 0.23 M |
| `campaign` | an owner and 2 admins, 2 requests or cron runs, 3 variants, 3 versions | `ReleasesSound` (`TrafficConserved`, `PublishedHadQuorum`), `PublishedIsLive` | 0.59 M |
| `alerts` | each sweep with 2 items, 2 levels, 2 runs, 2 failed mails, 1 death | `ToldOnce` | 0.15 M |
| `rate` | 1 instance, 2 requests in flight, 2 hits in 3 moments, delay 1, 6 moments | `BudgetKept` | 0.15 M |
| `domains` | 1 domain, 2 runs, 1 registration, certificates of 2 days, 3 days, 1 run cut off | `DomainsSound` (`RenewedByOne`, `ClaimComesBack`) | 0.19 M |

and `live`:

| Focus | Instance | Checks | States |
|---|---|---|---|
| `cache` | 2 instances, one short code, 1 mutation, 1 fault | `StaleNeverLasts` | 0.06 M |
| `webhooks` | 2 deliveries, 1 run, an endpoint whose host may be unsafe, 1 fault | `EventuallySettled` | 0.1 M |
| `health` | 3 links, sweeps of 2, thresholds of 1, 1 event outside | `ProbedAgain` | 0.06 M |

`live` states what it checks of one instance, one delivery and one link: the others differ
from it in name only. Every passing run is exhaustive. Deadlock is not checked: a model
stops when its requests are answered and its bounds are used up.

Why the bounds are enough for what they are asked. The hazards are races of two
actors over one row, so two workers, instances, runs or requests are needed and
a third adds no new kind of step; the third click of `admission` is there so
that a waiter can find the lease it waited for drained (and acquire again, in
`admission_live`), the third visit of `gate`
so that two can compete for a unit a third handed back, the third request of
`editing` and `lifecycle` so that something can happen between an operation and
its undo. One fault lets every call fail at every point, and die at every point,
once. Quantities are chosen at the edges: quota 2 with grants of 2 and divisor 1
lets one instance take everything, cap 1 deactivates a link on its first click,
the refunds of 2 and 7 with cap 6 cross the clamp, `MaxEntries` is less than the
number of keys, two codes for two links make every rename collide. What two
actors cannot show is stated for any number where it is proved (below).

Conditions narrow what a run says; each is named in its property or its
constants, and without it the claim is false (see the disagreements).

- `admission`: no acquisition straddles a month end (`CalmMonthEnd`) and a
  transaction reported as failed did fail (`LostReplies = FALSE`).
- `gate`: no visit stands between its time stamp and its daily unit at midnight
  (`CalmMidnight`).
- `links`: no request straddles the end of the trash window (`CalmBoundary`);
  `FolderInWorkspace` leaves out the workspace (not the folder's existence) of links
  in `overtaken`, and `RoutedByHealth` the links in `clashed`; `ShownIsServed` leaves
  out links that were released past an edit, whose bulk edit was undone, or whose edits committed in another order than they were stamped;
  `Coherent` speaks of short codes and revisions, and of invalidations after a
  commit.
- `accounts`: `NeverTwoOwners` holds until two transfers cross, `GrantsBelongToMembers`
  leaves out who was `late`, `SupersededIsDead` the sessions in `spared` and the time of
  a `twin`; in `signin` enabling and disabling the second factor run without another
  request beside them (`Alone`); a reviewer does not
  vote twice (`MindsChange = FALSE`); `OneAtWork` and `ResponseKept` speak of runs in
  which no handler outlived its 30-second claim, `EffectOnce` of runs without
  database failure; `BudgetKept` is for a window shorter by the longest delay and
  for buckets that are not evicted while in use (`Crowded = FALSE`); `RenewedByOne` is
  for a domain registered once (`Again = FALSE`) and two overlapping runs (`Third =
  FALSE`), `ClaimComesBack` leaves out claims of a run that was cut off.
- `live`: `ProbedAgain` is about links that have been checked, and supposes that fewer
  hosts than a sweep takes fail to resolve.

## Fairness

Only where the code has something that keeps running.

- ClickQueue: the cron route is called for ever, and a worker that does not die
  runs to its end, so each worker's own steps are weakly fair. No fairness for
  requests, faults or the other writers. Faults are bounded, so the property is
  "if faults stop".
- ClickAdmission: the event loop runs ready continuations, the database answers,
  the sweeper's interval fires, leases run out. No click need arrive, no month
  need end.
- LinkCache: loads answer, TTLs run out, an operation that has committed goes on
  to invalidate, sockets report what happened. Nothing forces a read, a
  mutation or a reconnection.
- WebhookDelivery: the cron is called for ever, calls go on unless their process
  dies, leases and backoffs run out. `EventuallySettled` is for
  `Take` at least the number of deliveries (see the starvation below).
- DestinationHealth: the sweep is called every ten minutes and probes and saves what
  it took.
- DomainProvisioning: the cron is called every ten minutes, a run goes on, time passes.

The other components promise nothing that needs fairness: their handlers end
with the request, and their crons act on what is due whenever they come.

## Proofs

Proved by TLAPS for every value of the constants that satisfies the named
assumptions of each module: any number of workers, instances, visits, clicks,
links, deliveries, faults and edits, any cap, quota, batch and lease size. The
assumptions say that the sets of actors are finite where they are counted, that
the bounds are naturals, and what the validation of the inputs guarantees (a daily
cap is at least 1).

| Theorem | Statement | Condition |
|---|---|---|
| `TypeCorrect` | `ClickQueue`: `Spec => []TypeOK` | |
| `QueueInvariant` | `Spec => [](TypeOK /\ QueueInv)` | |
| `NoClickLost` | `Spec => []NoLoss` | |
| `NoEntryDiscarded` | `Spec => []NothingDiscarded` | |
| `RollupsAgree` | `Spec => []RollupsMatchEvents` | |
| `NotSilenced` | `Spec => []FannedOutBeforeGone` | |
| `NoneChargedTwice` | `Spec => []ChargedOnce` | |
| `LedgerImplemented` | `Spec => ImplementsLedger` | `Erasable = {}` |
| `QuantitiesStayTyped` | `ClickAdmission`: `Spec => []TypeOK` | |
| `UnitsAccounted` | `Spec => []EveryUnitAccountedFor` | `CalmMonthEnd`, `~LostReplies` |
| `QuotaKept` | `Spec => []NeverOverAdmits` | the same |
| `QuotaImplemented` | `Spec => ImplementsQuota` | the same |
| `ReservationsExact` | `RedirectGate`: `Spec => []ReservationsAccounted` | |
| `LinkCapNeverExceeded` | never more redirects on the link's cap than its largest value | |
| `CapsNeverExceeded` | `Spec => []CapsKept` | `CalmMidnight` |
| `LifetimeKept` | `Spec => []ExpiredStaysExpired` | |
| `AttemptsAreOnce` | `WebhookDelivery`: `Spec => []EachAttemptOnce` | |
| `StaleWorkersHarmless` | `Spec => StaleNeverFinalizes` | |
| `NoticeOncePerDisable` | `Spec => OneNoticePerDisable` | |
| `RetriesStaySafe` | `Idempotency`: `Spec => []RetriesAreSafe` | `Setting` |
| `BudgetKept` | `RateLimit`: `Spec => []BudgetKept` | `RateSetting`, `~Crowded` |
| `DenialsCostNothing` | `Spec => []DenialsCostNothing` | `RateSetting` |
| `ClaimComesBack` | `DomainProvisioning`: `Spec => []ClaimComesBack` | |
| `DomainsSound` | `Spec => []DomainsSound` | `TwoRuns` |
| `SalesStaySound` | `StripeSales`: `Spec => [](SaleCountedOnce /\ NetOfRefunds)` | `Setting` |
| `CachesCoherent` | `LinkCache`: `Spec => []Coherent` | `Setting` |
| `CachesBounded` | `Spec => []CacheBounded` | `Setting` |
| `OneLinkPerCode` | `LinkLifecycle`: `Spec => []OneLinkPerCode` | `LifeSetting` |
| `TrashKeepsItsPromise` | `Spec => TrashKeepsItsPromise` | `LifeSetting`, `CalmBoundary` |
| `FolderInWorkspace` | `FolderFiling`: `Spec => []FolderInWorkspace` | |
| `MembershipsSound` | `WorkspaceMembers`: `Spec => []MembershipsSound` | |
| `NewerIsNeverCovered` | `EdgeRouting`: `Spec => []NewerIsNeverCovered` | `EdgeSetting` |
| `PublishedIsLive` | `CampaignReleases`: `Spec => PublishedIsLive` | `CampaignSetting` |
| `PublishedHadQuorum` | `Spec => []PublishedHadQuorum` | `CampaignSetting`, `~MindsChange` |
| `TrafficConserved` | `Spec => []TrafficConserved` | `TrafficSetting` |
| `ConfirmedDown` | `DestinationHealth`: `Spec => []ConfirmedDown` | `HealthSetting` |
| `RoutedByHealth` | `Spec => []RoutedByHealth` | |
| `ShownIsServed` | `LinkEditing`: `Spec => []ShownIsServed` | `EditSetting` |
| `SecondFactorOnce` | `SignIn`: `Spec => []SecondFactorOnce` | `AccessSetting`, `FactorsAlone` |
| `SupersededIsDead` | `Spec => []SupersededIsDead` | `AccessSetting` |

A condition is a hypothesis of the theorem and a constant of its run; each holds in a kind
of deployment (no month end or midnight meets a request in flight, no reply of the database
is lost) and without it TLC refutes the claim (see the disagreements), so none can be
dropped. Where an overlap of requests breaks a claim, it is not assumed away: the property
itself says, by a history variable (`overtaken`, `crossed`, `late`, `clashed`, `spared`,
`twin`), which rows the overlap touched, and claims the rest for every interleaving. The
stronger claims without the history variables are refuted in the same instances (below). The
`Setting` of a component that is explored through an instance is not of that kind: it says
what its constants are (each request has a key, links, hosts and events have names of their
own, prices are whole cents, none has the name of "nobody" or of an answer, the bounds are
naturals, the trash's window is at least a day, members are finitely many, every variant has
a share at the start).

### The queue

`NoLoss` says that a click which Redis has taken, or whose `push` has returned, is
in one of the two lists or settled. It is not inductive: to know that an
acknowledgement removes only settled clicks one needs what the worker did
before. `QueueInv` adds: `LandedKept` and `ResolvedKept` (the two halves of `NoLoss`),
`AckAfterCommit` (a call that fans out or acknowledges has its whole batch
settled), `OwnBatch` (a request's own batch is its click, so the direct path
settles the click its `push` returns for), `UnlistAfterQuarantine` (what is about to
be unlisted is in the dead-letter list), `RowsPersisted` (a row exists only for a
click that was committed), and `NothingDiscarded`. No part says which worker holds
what: that is what makes the argument survive workers recovering each other's
entries.

The argument has three lemmas per step. `SettledGrows`: `persisted` and `dropped` only
grow. `ListedStays`: an entry that leaves the lists is settled or quarantined; RPOPLPUSH
keeps the union of the lists (`MoveSet`), LPUSH adds to it (`PushSet`), LREM removes at
most its entry (`RemoveSet`). `CallersStep`: the facts about calls in flight, where a
step of one caller leaves the others alone (`OneCaller`). `RollupsAgree` rests on
`CountGrows`: for a fresh set disjoint from the rows, the cardinality of the union
is the sum, so a counter that moves by the fresh rows stays equal to the number
of rows; each environment action either leaves the rows of an intact link alone
or makes the link not intact.

`NotSilenced` needs its own invariant, `FanOutInv`: a call commits only what it
claimed, acknowledges only what it fanned out or rejected, and what a worker holds
is still listed unless some worker has already offered or rejected it. The last part
is what remains true when a second worker recovers the entry and acknowledges it
while the first is still between its commit and its fan-out.

`NoneChargedTwice` and `LedgerImplemented` rest on `RowsStay`: where no visitor is erased,
a committed click keeps its row for as long as its link exists, so what an INSERT
reports as new was never counted (`FreshIsNew`). With an erasure it is false, and so
are both statements: a redelivered click is inserted and counted again
(`visitor-erasure.ts` 47, below); `ChargedOnce` carries that condition in its
definition. The refinement also needs `OnlyMade`: what the lists, the wire and the calls hold
was pushed by a request, hence is made before it is counted. A step then maps to
`Make`, `Count`, `Close` or a stutter (`LedgerStep`).

### Admission

`HolderInv` holds with no condition: the types; `RequestInv` (a request has a unit's
month only from its admission on); `FlightInv` (while an acquisition is under way the
instance has no lease, so the units are in the lease or in the flight and not
in both, and an unlimited answer grants nothing); `ReleaseInv` (a request whose unit
is on its way back has been returned, hence gives it back once). It needs no more
than that to show that nothing goes below zero, `QuantitiesStayTyped`, lost replies
and straddled month ends included.

`EveryUnitAccountedFor` is inductive with `HolderInv` and `Current`: an admitted
click's unit and an answered acquisition are of the current month, which is
where `CalmMonthEnd` enters, because `ReturnAdmittedClick` and `Settle` label what they
put back with the month it is then. Each step touches one instance, one release or one
request, so three lemmas carry the sums: `LeaseSum` (one instance's part of
`Total(InLeases(p))` changes), `ReleaseSum` and `ReleaseEndSum`, `RequestLeaves` and
`RequestTakes`. They rest on `TotalSplit`: a sum is one value and the sum of the rest. The
step that needs the invariant itself is a hand-back: `UPDATE … WHERE quantity >=
amount` does nothing when the bucket is too small, and it never is, since the
bucket covers what is held (`HeldCovered`). With lost replies it is, and a unit is handed
back twice.

`CeilingInv` says that a bucket exceeds the largest limit so far at most by the clicks
metered without a reservation; with the account it gives `QuotaKept`. For the
refinement `CountInv` ties the counters to the clicks: those recorded on a unit of the
month are exactly `spent`, those that failed with one at most `stranded`. Then a unit in a
lease is one that no admitted, spent or lost click has, so there is `Room` for
the click that takes it, and `Take` is `Admit`; `GoThrough`, `ReturnAdmittedClick`, `Abandon`,
`Crash` and `SetQuota` are the other steps of `ClickQuota`, everything else stutters.

### The gate

`BookInv` is the types, `HoldInv` (what a visit holds at each of its awaits: a visit past the
cap holds a slot, one turned away holds nothing) and `CountInv` (`clicksReserved` is the number
of visits whose slot is taken). A step of one visit leaves `Hold` of the others alone, so
each statement is one lemma about one visit. `CapInv` adds `KnownCaps` (every cap in
a draft, a cached row or the table is at most the largest so far) and
`ReservedInv`: the reservation compares with the cap of the cached row, which may be
outdated, but never with one that was not in force. That bounds the link's cap at any
time. For the daily cap `DayInv` relates the row's day and count to the visits that took
a unit of the day; it needs that a visit's stamp is of the day it reserves on,
which `CalmMidnight` says. `LifeInv` says that a visit past the clock came within the
lifetime of the one start every visit shares, while no PATCH changes the lifetime.

### The webhooks

`Shape` is the types, the claim that `due` and `later` list each pending delivery
exactly once between them, and that a call refuses only a host that may be unsafe.
`AttemptInv` adds `TokenIsLatest` (a lease in force is that of the latest claim),
`OnePostPerAttempt` (the posts made and the calls about to post are together at most the
attempts claimed) and `AllRetriesUsed` (a delivery fails, unless its host was refused, only
after its last attempt). No part says that a call is the only
one at work on its delivery: a call that stalled past its lease still posts the attempt
it claimed, and the token keeps it from finalizing another's.

### The keys

`RetriesAreSafe` is four promises, each with the condition it states. The invariant behind
them is about the row. `Own`: while a key never ran out, or no request overran its claim,
whoever is at work has its name in the row of its key, live, and pending until its response
is stored. Two requests at work are then the same one (`OneAtWork`), although neither the
upsert nor the release asks whose claim it is. `OneEffect`: without a death or a failure of
the database, the row of a key that never ran out tells, or is about to tell, what took
effect, so a second request finds a live row and can neither create nor take over. The
takeover is safe because of `SeenOld`: it compares with a row that had already run out when
it was read. `StoredDone` (only what took effect is stored) is what a replay needs.

### The limiter

What was let through is counted against what is still kept. `RedisHolds`: while a
script may still count a hit, the set holds all that were let through with its stamp;
a script prunes by its own stamp, which is at most `Delay` old, so this is kept in
whatever order they run. `RedisBudget` follows, for windows shorter by `Delay`
only (`ScriptBudget`): every hit of such a window is in the set when the last
of it is counted. An instance's memory is the same argument with one difference: its
answer is used only when Redis fails, later than it was counted. So `Granted` counts
promises to requests in flight with what was let through, and a failure turns one into
the other. `BudgetStep` is what both rest on: sums are sizes of sets with an element
for every hit (`EachHit`). Evicting a bucket that is in use breaks `MemoryHolds`, and TLC
refutes the claim then (`Crowded = TRUE`, below). `DenialsCostNothing` needs none of this.

### Domains

`ClaimComesBack` is nearly inductive: every write of a provision either has a
claimer, or schedules the next attempt with the status it writes. At most one of two
runs renews by `ClaimStands`: while a claim stands, the row cannot be claimed, or
the other run has written it meanwhile, found no renewal due, and has to read again, so
that nothing is due in what it carries either. `TwoRuns` is used here (a third run can
have read before), and so is its `~Again`, for a second registration rewrites the
status. `RunOK` says that no day passes while a run is at work, so what a probe found to
be good is still good when it is saved.

### The sales

Each transaction knows what it collided with, so a sale counts once by `InvoiceCovered`: a
recorded checkout has taken the key of the first invoice with it. Refunds are harder.
`CallOK` says what an open refund still knows when it writes: the row it claimed is
locked, by it alone (`LockedByOne`), so `refundedCents` is what it read, and of the
commission it read only an unpaid status can have moved since (`Since`): the owner may
approve, pay or reverse meanwhile, but nobody touches what was already paid or
reversed. Then the conversion goes from the sale less the old total to the sale
less the new one (`WorthLess`), and so does an unpaid commission (`AfterRefundRow`), whatever
the reward and the cap; the day's revenue is the sum, here the size of a set with an
element for every cent (`CentsMove`). TLC checked the invariant on small instances first. What a
*paid* commission leaves is not part of it, and is wrong (`NetPayable`, below).

### The caches

`Coherent` says that an outdated entry is served only while its invalidation is
on the way, or was lost. Its invariant speaks of flights as well as entries, because an
entry is what a flight becomes: `EntriesAwaited` and `FlightsAwaited` give the same
excuse to what an instance serves and to what it will store, provided no eviction has
marked the flight as `past` (the generation check of `readThrough`). Both also speak of
what is going to be outdated (`Doomed`): a revision loaded before a scheduled release,
whose expiry nothing has capped, is excused from the moment the release is
scheduled. `Awaited` is then what remains of an invalidation that this instance has
not run: an operation about to evict, one about to publish from elsewhere, or a message
on its wire. `LongWhileConnected` and `MissedOffBus` bound the life of what
missed a message for want of a subscription; they need that the close and the
ready event both flush. `RoomKept` is for `CachesBounded`: `setCache` makes room before it
stores, and a key that is replaced needs none.

### The life of a link

`OneLinkPerCode` is inductive with the types and with what requests carry from their read to
their write (`Jobs`), because each write asks the unique index in its own statement.
`TrashKeepsItsPromise` is not about a state: what was read as trash long past its window
must still be so when it is deleted by id. `ReadToday` says what a read of today implies
until the write: no link on the purge's list has come back (`restore_all` leaves out what is
past its window, and read today as well), and a bulk delete begun today stamps a link with
today. It is kept because whatever happens within a day keeps old links old or erases them
(`SameDay`); `CalmBoundary` makes the day the same at read and write.

### Edits

`ShownIsServed` excuses a link that was released past its row, whose destination was undone,
or whose edits committed in another order than they were stamped. `Shown` is that statement,
and beside the types it needs only what requests and audit events carry (`EditOK`,
`Audited`): what a revert or an extension writes has no destination, an undo that writes one
marks the link, and a PATCH, a bulk edit or a promotion that writes one adds it as a
revision, which is served unless a later stamp was there before (`RevisesShown`,
`KeepsShown`). It asks for no order of requests: any number of edits may each have read an
outdated row. A destination is never "no revision", hence `NoRev \notin Dests` in
`EditSetting`.

### Folders

A request checks a folder against the workspace it has read of the link, and nothing that
others do until it writes changes that (`Fits`): a folder never changes its workspace. What
a move may change is the link's workspace, and then the write adds the link to `overtaken`.
The audit of a bulk edit stays behind for an undo later; `Undoable` says that the folder
noted for each link is of the workspace noted with it (`Found`), unless the link was
overtaken before. A clone copies the workspace and the folder it has read, so it is as sound
as the original was. `Lies` is the property of one link, so that each write is about the
rows it changes (`WriteRows`), and that a folder exists is not checked but forced by the
foreign key (`Valid`).

### Members

`HandedByOwner` is what makes one transfer safe beside everything but another: whoever hands
the ownership over is the one owner, or nobody is any more (SCIM may have removed him),
until two transfers cross. The first to be written sees the second under way and sets
`crossed`. `ErrandOK` says of a list of grants on its way that whoever on it is no longer a
member has left `late` (`ListsKept`), so writing it grants to members, or to those. With
both, each write keeps `SoleOwner` and `GrantsBelongToMembers`, whatever else has happened
since its request checked.

### The edge

`PublicationOK` says what a publication holds of the lock: nobody else has it, what it
has read of the links is at least as new as what any finished request was told, and at
most as new as the table. `ToldIsNewest` follows when it appends, and
`ReplicaHolds` because the mark is set only on an answer of the replica, which refuses to
go back.

### Releases

`PublishedIsLive` rests on `Proposed`: a release is for the next version at most, and while
it is the next one, its copy is what is live. The weights change only with the version
(`Advances`), so a proposal made from an older read is, once it is inserted, for a
version that has been reached, and `NextRelease` and the compare-and-set of `Publish` leave no other
version to publish than the next (`seen < version <= campaign.version + 1`). That the
cron takes the lowest of its versions is `LowestIsLeft`.

`PublishedHadQuorum` adds the ballots (`QuorumInv`). Votes are recorded, counted and the
decision written in three steps of which others may come between, so a decision in flight
must stay right: whatever was counted as enough is still enough (`BackingStays`), because
a vote under way is its reviewer's only one (`OneVoteEach`), is recorded over a ballot still open
(`BallotOK`), and a release's ballots are handed out once. No ballot of the creator is ever
an approval (`NobodyOwn`), so leaving the creator out takes nothing away. With
`MindsChange` an approval may be taken back after it was counted, and TLC refutes the claim.

`TrafficConserved` counts: a weight is a set of so many parts, and the total the size of
their disjoint union (`EachPart`, `PartsFinite`), so that moving a part from the control to
another variant is a bijection (`MovingKeepsTotal`) and no induction over the variants is
needed. `ShiftOK` says that weights read before the transaction are the weights as they are
as long as the version is the one read, which the compare-and-set compares, and that the
control had more than one share then.

### Destination health

`ConfirmedDown` compares a counter with the failures that happened, of which several
probes under way may each hold an outdated count. `CountInv` says of every count that is
stored or has been read that it, and the failure its probe still owes it, fits into
what happened (`FitsLink`, `FitsRule`). What happened only grows, so a step leaves
what fitted fitting (`Loosens`), and a probe that finds the destination down makes the room
it will take (`TallyMakesRoom`). An owner's request reads the link's counters only after its probe,
so until then its failure must be kept free for it: `Waiting` counts those requests, and reading
takes one out. However many sweeps overlap, a save can only lose a failure, never invent one.

`RoutedByHealth` is about the eviction. Of every rule that is not `clashed`: at most one
request is at it (`OneAt`), the status it compares with is still the rule's (`ReadAsIs`),
and what the redirect holds is the rule's status or about to be evicted (`RoutedAsIs`). A
second request marks the rule; of several that end, whichever evicts it with nobody else at
it leaves nothing cached, from where on the three hold again.

### Signing in

`AccessBase` is the types and `Exclusive` (an operation in `Alone` has the account to itself).
`SecondFactorOnce` needs what an accepted code leaves behind (`Spent`): a step of the
secret in force is not ahead of the counter, a secret that is not in force never
returns, the batch of a recovery code is gone for good. A code that waits between
its check and the update must still be of that secret (`Pending`). `FactorsAlone`, a part
of the run's `Alone`, says that enabling and switching off are not
overtaken: switching off forgets the counter, and enabling writes the counter of a
code that was checked earlier. Without either TLC refutes the claim. Setting up may
be overtaken: it can only have begun while the factor is off, and nobody but an
enabling turns it on.

`SupersededIsDead` needs to know who will revoke a session of an older password: a change
that is not of that session (`Sweeping`, `SessionsInv`), for the session that asked for the
latest change counts as opened with it, while the one that asked for an earlier change,
still about to revoke the others, is itself revoked by the later. A change that dies there
leaves those sessions to `spared`, as a sign-in does which opens a session with a password
it read before the change. Of reset links, while one is on its way there is none
(`TokensInv`), unless two are, which is `twin`. Nothing is assumed of the order of requests.

### What is only model-checked

Liveness (`EventuallySettled`, `LeftoversComeBack`, `EveryClickAnswered`, `StaleNeverLasts` and the
other properties of `live`) is out of this prover's reach, as is `ENABLED`. `ToldOnce` is
true for two runs of an alert sweep only, which is no invariant for any number of
them: the attempt to prove it showed the third run that mails twice (`MailedOnce`, below).

## Where the code disagrees with its own comments

Four are runs (`PROJECT.json`, `findings`):

- `webhook_success`: the claim at `webhooks.ts` 145 compares `attempts` and the lease
  but not the status. A run that read the row after another's claim and claims
  it after that one's success delivers again (`SuccessIsFinal`), although lines
  140–142 say other workers skip "instead of double-posting".
- `stripe_race`: of two concurrent refund events, the loser of the optimistic
  guard (`stripe-attribution.ts` 444) is recorded as a duplicate and answered with
  200 even if its cumulative total is the larger one (`RefundsConverge`), although
  lines 414–416 say that refunds converge.
- `account_deletion`: deleting the user (`cron/privacy/route.ts` 25) deletes the
  request with it (`schema.prisma` 1336), so marking the request completed in the
  next statement fails and everything is rolled back; no request is ever
  processed (`DueIsProcessed`), although `docs/compliance/dpa-template.md` 19 says it
  is.
- `domains_lapse`: the domains cron (`cron/domains/route.ts` 4) does not select a domain
  whose provision is active, and only its own run would make it due for renewal; a
  certificate that runs out stays "active" (`LapseIsNoticed`), although
  `domain-registration.ts` 8–9 says "the domains cron keeps checking it".

The others are reproduced by adding the property to the named cfg with the
change given; each is stated at the end of its module or of its `MC` module. In
`MCLinks.cfg` and `MCAccounts.cfg`, `Focus` is set to the component in brackets.

Clicks, gate and cache:

| Property | Starting from | Change | What the code says |
|---|---|---|---|
| `NeverDropped` | `MCClickQueue.cfg` | `Personal = {l1}` | `queue.ts` 203 "a click is never dropped"; `click-ingestion.ts` 5 skips links without a workspace |
| `CountedOnce` | `MCClickQueue.cfg` | `Erasable = {c1}` | `queue.ts` 226–228: redelivery is safe; after an erasure (`visitor-erasure.ts` 47) the id is free again |
| `HumanRollupIsHuman` | `MCClickQueue.cfg` | `Humans = {c1}`, `Reserved = {}`, `Anonymised = {c2}` | `click-dimensions.ts` excludes crawlers; `privacy-ingestion.ts` 19 stores them as human |
| `AliveBeforeHumans` | `MCClickQueue.cfg` | `Humans = {c1}`, `Reserved = {}` | `[shortCode]/route.ts` 167–169: bots cannot exhaust a link; `queue.ts` 141 counts them |
| `BystandersDrain` | `MCClickQueue.cfg` | `Refs = {r1}`, `RefOf <- mcFirstHasRef` | the cron "drains" the queue; a click of a deleted rule fails its whole batch (`queue.ts` 103) |
| `NeverOverAdmits` | `MCClickAdmission.cfg` | `CalmMonthEnd = FALSE` | `click-admission.ts` 15 "Never over-admits"; line 80 stamps the lease with the month at settlement |
| `HeldIsReserved` | `MCClickAdmission.cfg` | `LostReplies = TRUE` | line 71 "The release rolled back": not if the COMMIT's answer was lost |
| `StrandsOneLease` | `MCClickAdmission.cfg` | `MaxGrant = 1` | line 22 "at most one lease"; line 118 adds returned units to the current lease |
| `ClockStartedByAClick` | `MCRedirectGate.cfg` | none | `docs/link-lifetime.md` 3 "The countdown starts at the first human click"; a refused visit starts it too (174) |
| `NoUnitWasted` | `MCRedirectGate.cfg` | none | `[shortCode]/route.ts` 162–163 "hard admission controls"; an exception in between keeps the units reserved so far (213) |
| `ClosedByItsCap` | `MCRedirectGate.cfg` | none | 167–169: the same, seen from the link that is closed although its cap's visits did not go through |
| `RedirectsRecorded` | `MCRedirectGate.cfg` | none | 219–221 records every redirect "in the background" (244), after the answer |
| `ClockOnlyRearmed` | `MCRedirectGate.cfg` | `Editors = {e1, e2}`, `MaxEdits = 2` | `links/[shortCode]/route.ts` 228–229 "re-saving the same value must not extend a running countdown": the value compared was read before |
| `DailyBudgetKept` | `MCRedirectGate.cfg` | `CalmMidnight = FALSE`, `MaxFaults = 0`, `MaxEdits = 0`, `Humans = {q1, q2, q3}` | `docs/daily-click-cap.md` 3; the day is that of a stamp taken before (`daily-click-cap.ts` 29), so a late visit resets the new day's count |
| `PathsCoherent` | `MCLinks.cfg` | `Focus = {"paths"}` | `link-cache.ts` 21: eviction covers paths; a path that resolved to nothing has no `urlId` (362) |
| `NeverEarly` | `MCLinks.cfg` | `Focus = {"cache"}` | line 390 "after any mutation"; `queue.ts` 143 invalidates before its commit |

Links (`MCLinks.cfg`):

| Property (component) | Change | What the code says |
|---|---|---|
| `UndoneIsServed` (editing) | none | `docs/bulk-edit.md` 90: an undo restores the values; it writes no revision, and the redirect prefers the newest |
| `UndoSparesNewerWork` (editing) | none | `bulk-edit-undo.ts` 26–27 "so an undo never clobbers newer work": it compares what it read before |
| `UndoneOnce` (editing) | `EditedLinks = {l0, l3}` | line 69 "already undone": two undos at once both look first |
| `OnlyArchivedReported` (editing) | `EditedLinks = {l0, l3}` | `auto-archive.ts` 11: the links selected are reported, those updated may be fewer |
| `RevertSparesNewerEdits` (editing) | none | `link-revert.ts` 6 "no silent clobbering of newer edits": as the undo |
| `ExtendReactivates` (editing) | none | `link-extend.ts` 4 "Extend (or reactivate)": decided on what was read before the sweep ran |
| `PatchTakesEffect` (editing) | none | `links/[shortCode]/route.ts` 236 makes a revision when the destination differs from the one read |
| `SweepSparesExtended` (editing) | `EditHorizon = 2` | `maintenance/sweep/route.ts` 129 "at their configured deadline": it writes by the ids it selected (85), whatever was extended since |
| `TagsAreServed` (editing) | `Templates = TRUE` | `shorten/route.ts` 240 fills in the UTM template; the first revision is the address without it, and the redirect prefers the revision |
| `TrashKeepsItsPromise` (lifecycle) | `CalmBoundary = FALSE` | `link-trash.ts` 6 "a mistaken delete is recoverable"; the delete that follows the purge's selection does not look whether the link was restored (72) |
| `PurgeLeavesNothing` (lifecycle) | none | line 8 "After the window a cron purges it": not a link without an owner (72) |
| `RevertSparesNewerRename` (lifecycle) | `FreeCodes = {"a", "b", "c"}` | `link-revert.ts` 7: a rename between read and write is overwritten |
| `NeverMisfiled` (crossing) | none | `link-move.ts` 7 takes the link out of the folder; a filing decided before the move, or the undo of an older bulk edit, puts it back |
| `NothingExposedUnasked` (crossing) | none | `folders/[folderId]/route.ts` 103 "would expose its links": counted before the delete, and filed into meanwhile |
| `UndoRestores` (filing) | none | `docs/bulk-edit.md` 90; the undo fails as a whole when one of the folders was deleted meanwhile |
| `TrashedNotServed` (edge) | none | `docs/link-trash.md` 3: the link stops redirecting; trashing publishes no snapshot |
| `EdgeServesOwnLink` (edge) | none | `edge/[shortCode]/route.ts` 23 and 30: `lastGood` is one variable for all codes |
| `SupersededNeverSent` (edge) | `EdgeSnapshots = 3` | `cron/edge-config/route.ts` 23–24 picks what is not marked replicated, also what has been overtaken |
| `RetryIsAccepted` (edge) | `EdgeSnapshots = 3` | `routing-config.ts` 74: the replica refuses the older version, and it stays first in line |
| `DownByThreshold` (health) | none | `README.md` 11 "circuit-breaker thresholds": below the threshold the status is the probe's own, so one failure is "down" (`health/sweep/route.ts` 32) |
| `LaterCheckStands` (health) | none | `broken-links.ts` 6 "last destination health probe": a sweep that began earlier saves its result, and its earlier time, over a later probe |
| `AlwaysRoutedByHealth` (rules) | none | `links/[shortCode]/health/route.ts` 92–93 "unchanged health needs no eviction": compared with the row read before the probe, so of two presses the second may change it unnoticed |

Health, in `MCLive.cfg` with `Focus = {"health"}`:

| Property | Change | What the code says |
|---|---|---|
| `EveryLinkProbed` | none | `README.md` 80 "probe the 50 stalest links": links never checked come last in Postgres' ascending order (`health/sweep/route.ts` 44) |
| `GoneIsNoticed` | none | `broken-link-alerts.ts` 5 "confirmed down": for a host that does not resolve the check throws before it writes (28) |
| `UnblockedByLost` | `Probed = {l1, l2}`, `Pressing = {b1}`, `Take = 1` | the same lines: such links keep the oldest check time, and enough of them are all a sweep ever takes |

Accounts (`MCAccounts.cfg`), Stripe and webhooks:

| Property (component) | Change | What the code says |
|---|---|---|
| `PaidOnce`, `NetPayable` (stripe) | none | `commissions.ts` 98–99 and 179–180; line 113 writes back the status read at 102 |
| `OneInTimeAtWork`, `ResponseKeptAlways` (keys) | none | `idempotency.ts` 22 and `docs/bulk-edit.md` 61; the release at 70 and the upsert at 54 name no owner |
| `EffectOnceAlways` (keys) | none | `bulk/route.ts` 76–78; the response is stored after the effect (247) |
| `AlwaysOneOwner` (members) | none | `members/route.ts` 40 "Owners cannot be removed": SCIM can |
| `NeverTwo` (handover) | none | line 28 "never leave two owners behind": two transfers read the same owner |
| `GrantsNeverReturn` (handover) | none | line 60 "so they don't silently return": a list of grants checked before the member left is written after |
| `InactiveIsOut`, `RefusedStaysOut` (members) | none | `scim/[workspaceId]/[userId]/route.ts` 77; an invitation or a sign-in by SAML lets a deprovisioned user in again |
| `AcceptKeepsOwner` (members) | none | the acceptance of an invitation upserts the role of who has become owner since |
| `RevokedAdmitsNobody` (members) | none | `invites/route.ts` 67: an acceptance that has read the invitation goes on |
| `SecondFactorOnce` (signin) | `Alone` without `"disable"`, or without `"enable"` | `mfa.ts` 33 "single-use": switching off forgets the counter (58), so a login that read the factor before it can have a used step accepted again |
| `NoneSpared` (password) | none | `account/password/route.ts` 12 "so stolen sessions don't survive": a sign-in that read the old password opens its session after the change; a change may die before it revokes |
| `NeverTwoTokens` (password) | none | `auth/reset/route.ts` 35 "Invalidate outstanding tokens": two requests both do, and then both issue |
| `TokenUsedOnce` (password) | none | `auth/reset/confirm/route.ts` 9: the use is not conditional |
| `SetupSparesEnabled` (signin) | `Alone = {}`, `MaxSecrets = 2` | `account/mfa/route.ts` 28 looks before it writes |
| `UnanimousIsApproved` (campaign) | `Admins = {"admin"}` | `releases/[releaseId]/approve/route.ts` 34: with an owner and one admin, a release of either can never have its quorum of two |
| `ApprovedGoesOut` (campaign) | none | `campaigns.ts` 127–129 "it can remain 'approved' forever": one that another version overtook does |
| `PublishedHadQuorum` (campaign) | `MindsChange = TRUE` | the same file, 34: a reviewer who takes an approval back while another's vote is being counted is not seen |
| `MailedOnce` (alerts) | `Third = TRUE` | `click-milestones.ts` 7 "never double-send": a run that fails puts the marker back to what it had read, below what another has mailed since, and a third run that read as early claims that again |
| `NothingEverForgotten`, `QuotaMailed` (alerts) | none | `usage-alerts.ts` 6; a run that dies, and a quota mail that fails, is not repeated |
| `FullWindowKept` (rate) | none | `rate-limit.ts` 2; scripts run in another order than their stamps, and prune by their own |
| `BudgetKept` (rate) | `Crowded = TRUE` | a bucket in use may be evicted when there are too many |
| `RenewedByOne` (domains) | `Again = TRUE`; or `Third = TRUE` | `domain-provisioning.ts` 22 claims by status and time; a registration in between, or a run that saved meanwhile, makes the row claimable again |
| `ExpiryIsCurrent` (domains) | none | `domain-alerts.ts` 36 "has not renewed yet": the expiry mailed is that of the last probe, which an active domain does not get again |
| `SurvivesDeath` (domains) | none | a claim leaves `nextRenewalAt` as it is; a run cut off after it leaves a row that `cron/domains/route.ts` 4 never selects |
| `RefundsConverge` (`MCStripeSales_race.cfg`) | `Requests = {q1}`, `InOrder = FALSE` | a refund that arrives before its sale is answered and forgotten (429) |
| `AttemptsBounded` (`MCWebhookDelivery.cfg`) | none | `WEBHOOK_MAX_RETRIES`; a delivery whose last worker died is attempted again |
| `ClaimedWhenDue` (`MCWebhookDelivery.cfg`) | none | line 141; a run with an old listing claims a delivery in backoff |
| `ReplayedOnce` (`MCWebhookDelivery.cfg`) | three deliveries, `Buttons = {b1, b2}` | `webhook-delivery-log.ts` 88–89 "doesn't double-send" |
| `DisabledOnStreak` (`MCWebhookDelivery.cfg`) | three deliveries, `Take = 3`, `MaxRetries = 1`, `MinFailures = 2`, `MaxEdits = 0`, no `Buttons`, nothing `Unsafe` | `webhook-health.ts` 9: a success resets the streak; the update at 69 does not look again |
| `EventuallySettled` (`MCWebhookDelivery.cfg`) | `SPECIFICATION FairSpec` without `SYMMETRY` and `CONSTRAINT`, `EndpointOf <- mcTwoEndpoints`, `Endpoints = {e1, e2}`, `Runs = {r1}`, `MaxRetries = 1`, `MaxFaults = 0` | the hundred oldest due rows (218–224) may all belong to a switched-off endpoint |

Two that hold and are left out of the runs for time: `ResponseKept` (keys) and
`DenialsCostNothing` (rate), which is proved.

Seen while reading, outside the models: registration creates the user and the
workspace in separate statements (`auth/register/route.ts` 29–31); the limit of
twenty API keys is counted before the insert; two requests for account deletion
can both find none; the link the edge beacon posts to (`/api/edge/click`) has no
route.

## Not modelled

Realtime events
promise nothing. `reserveUsageInTransaction` for the other metrics holds a row
lock and is one atomic step (`Quota` in StripeSales). Analytics, reports, link
safety, routing rules, URL helpers, experiment statistics and formatting are
pure functions of one request, largely floating point or strings: unit tests
reach them, TLC does not. They and the user interface are the greater part of
the lines of the repository; the state that several actors share is in the
modules above. Signatures, tokens and encryption are taken as perfect. The SDK,
the mobile client and the interface are clients.

Within the modelled parts: delivery quota, endpoint filters and secret rotation of webhooks;
reward-rule resolution (a percentage stands for it); deletion of a Stripe integration;
dimensions other than human traffic; eviction by host of domains whose verification changed;
which path of a domain serves which link; the auto-failover switch, which nothing reads, and
the mails about broken links; columns of a link that no two operations relate (titles, tags,
passwords); folder defaults; the expiry digest; e-mail verification; evaluation of rules at
the edge.

## Plan

Done: the click path from the gate over the queue to the webhooks, the caches,
the life of a link, and the accounts' parts, in the order of what loses or
double-counts data first; the ledger and the quota as abstract specifications.

Next is an at-least-once delivery that WebhookDelivery implements.
