# Formal models of the Center Management System

The repository is a multi-tenant Django application for tutoring centers: it
enrols students in groups, takes attendance by card scanner, bills a month at a
time and collects the money, and a console runs the centers as clients with
plans, limits and a life from trial to purge.  This directory holds TLA+ models
of it, TLC configurations that check them on small instances, and TLAPS proofs
that hold for every instance.

## Inventory

The environment is the same for every component.  Requests are served by
several worker processes with threads (docs/07-deployment.md) over PostgreSQL at
READ COMMITTED, `ATOMIC_REQUESTS` is off, and the API layer reads rows with
`get_object_or_404` *before* the service opens its transaction.  A service that
does not read the row again under `select_for_update` therefore decides on, and
often writes back, a stale instance.  The cache is one shared Redis, or one
LocMem per process when `REDIS_URL` is absent.  Daily commands run from cron.

| Component | State | Operations | Hard behaviour | Correct when |
|---|---|---|---|---|
| Charges and payments (`apps/payments`) | charges, ledger, receipt sequence | bill, record, refund, update, waive, cancel, drift check | stale instances against row locks, receipts in the payment's transaction, a checker that repairs without a lock | totals and statuses agree with the ledger, nobody is overcharged, receipts are gapless |
| Attendance and lessons | lesson status, its cached snapshot, one row per student and lesson, scan events | scan, manual entry, correction, check-out, cancel, approve; open, complete, cancel, generate lessons | scans racing completion, cache refills, retries with one key, an approval sent after the world changed | statuses follow the documented lifecycle, a retry applies once, approvals are on the rows that needed them |
| Offline scanner (`templates/attendance/scanner.html`) | queue in localStorage | submit, enqueue, drain | the queue is read before an await and written after it | no scan is lost |
| Cards (`apps/cards`) | cards, assignment history | mint, issue, assign, mark lost, disable, replace, delete | two rows locked by one operation, unlocked checks before unique indexes | one usable card per student, a used card never returns to stock |
| Students and assignments (`apps/students`) | students, codes, assignment rows | create, patch, change status, assign, end, transfer, monthly billing | a transfer beside an ending, billing beside an enrolment, whole-row saves | one active row per offering, everybody billed once, decisions stand |
| Academics (`apps/academics`) | groups, offerings, schedules | generic PATCH, schedules, generation of lessons | a group that moves while students enrol or lessons appear | a group that is taught keeps its offering, promised lessons are there |
| Accounts (`apps/accounts`) | users, membership of auth.Group | create, patch, login, change password | whole-row saves, a signal on every save | permissions follow the role, a center keeps its owner |
| Plans and quotas (`tenancy/quota`, `tenancy/resolver`) | limits, usage row, grants, overrides, cached answer | check, refresh, toggle, save and change plans | count then insert, fills beside invalidations | limits are passed by overlap only, one attendance method stays on |
| Subscriptions (`tenancy/models`, two commands) | status, dates, audit rows | provision, suspend, resume, archive, enforce, purge | a long transaction beside operators, stale lists, crashes | who lapsed is stopped, who was stopped is not revived, who is not due is not purged |
| Rate policies and traffic (`tenancy/resolution`, `traffic`) | policy rows, host cache, windows, buffers, counters | limit, block, resolve, gate, record, flush | signals before commits, counters that expire, a buffer written outside its lock | blocks bite, budgets hold, every request is counted once |
| Sessions and tenant context (`tenancy/middleware`, `impersonation`, `context`, `base`) | cookies, operators' entries, the context variable, lazily resolved querysets | resolve, guard, sign in and out, enter, leave, nest, save | shared cookies, path mode, exceptions, work built without a tenant | nobody acts or reads where he is not |
| Settings (`core/registry`) | overrides, one cached entry | get, set, reset, save several | reading through the cache inside a transaction | what is served is what is saved |
| Reports (`reports/queries`) | none of its own | twelve queries, two dashboards | one row counted by many filters | totals agree |

Components interact through shared rows (a lesson and its attendance, a card and
its student, an assignment and its charge), through direct calls inside one
transaction (`assign_student` bills through `ensure_charge_for_new_assignment`,
`complete_lesson` sweeps through `finalize_lesson`, `create_student` counts
through `quota.check`), through signals (saves empty caches and sync roles), and
through the caches (the scan reads the lesson's snapshot, the middleware the
host's entry, every request the features and the settings).

## Modules

| Module | Models | Composes |
|---|---|---|
| `ChargeAccounts` | what charges promise: accounts moved one payment at a time | |
| `Payments` | `payments/services.py` under concurrent handlers, with `core/sequences.py` | implements `ChargeAccounts` |
| `AttendanceLifecycle` | the state machine drawn in docs/03 | |
| `Attendance` | scans, corrections, the lesson's lifecycle and its cached snapshot | implements `AttendanceLifecycle` |
| `ScanGates` | eligibility, the gates and codes of a scan, approvals, the scanner's colours and button | |
| `ScannerQueue` | the offline queue of the scanner page | |
| `CardHolding` | what the inventory promises: one fresh card per hand | |
| `Cards` | `cards/services.py` and the scan's read of a card | implements `CardHolding` |
| `Enrollment` | assignments, transfers, and which seats a month bills | |
| `StudentRecords` | creation with its code, PATCH, change of status | |
| `Academics` | groups, offerings, schedules, generated lessons | |
| `Accounts` | users of a center and the role's group | |
| `Settings` | the registry, its cache entry, the endpoint that saves several | |
| `Reports` | the queries and dashboards, over rows that operations leave | |
| `Quota` | the limits of a plan and the usage row | |
| `Features` | plans, overrides, the resolver and its cache | |
| `Subscriptions` | `transition_to`, console, nightly command, purge | |
| `RatePolicy` | policy rows and the host cache | |
| `Traffic` | windows, buffers and minute counters | |
| `Access` | the middleware chain, sessions, impersonation | |
| `TenantScope` | the context variable, the scoped manager, the base model | |
| `Platform` | composes `Subscriptions`, `Features`, `Quota`, `RatePolicy` | |
| `Center` | composes the ten modules of the center's side | |
| other `MC*` | the symmetries and constant functions that a `.cfg` cannot write | extend what they check |
| `PaymentsProofs`, `AttendanceProofs`, `ScannerQueueProofs`, `CardsProofs` | theorems | extend what they prove about |
| `SubscriptionsProofs`, `PlatformProofs` (`Features`, `RatePolicy`, `Quota` and the composition) | theorems | extend `Platform` |
| `CenterProofs` | theorems about `Access`, `Enrollment`, `StudentRecords`, `Accounts`, `Settings`, `Academics`, `ScanGates`, `TenantScope` and the composition | extends `Center` |
| `NumbersProofs` | theorems about sums, `Traffic`, `Reports` and their scenes of the composition | extends `Center` |

The concurrent modules share one shape.  A handler stands at a step and holds
the instances it has read; one action is the code between two points where
another transaction can come in: a read, a wait for a row lock, a commit, a cache
operation.  What a transaction wrote becomes visible in the action that commits
it.  Operators marked *Mutant* are faulty forms of the definition next to them,
which no specification uses: replacing the one by the other makes the property
that guards it fail.  Variables called history (`high`, `overtaken`, `exposed`,
`broken`, `stale`, `raced`, ...) record that an instance was overtaken or a cache
filled beside a write; they guard nothing and exist so that a property can say
*which* behaviour the code does exclude.

### Payments, attendance, scanner, cards

`FetchCharge`/`FetchPayment` are the API's reads, `LockCharge` is
`select_for_update` with the checks behind it, `TakeReceiptNumber` the lock of
the sequence row, `CommitPayment` the ledger line, the `F()` update and the
derived status in one commit.  `UpdateCharge`, `WaiveCharge` and `CancelCharge`
write the instance that was fetched, with exactly the fields the code saves.
`recalculate_charges` runs outside any transaction: four actions per charge.

`Attendance` has one lesson.  A scan is `ScanReceive`, `ReadSnapshot`, `FillCache`
(filled with what was read *before*), `ScanAdmit`, one of the five outcomes of
`_write_attendance`, and `ScanLog` in a transaction of its own; `ScanRefused`
stands for the gates, which are `ScanGates`' subject.  `SaveLesson` writes the new
status without showing it and drops the snapshot, `SweepRows` and
`CommitCompletion` are `finalize_lesson`, `Checkout` and `CheckoutState` the two
saves of the check-out endpoint.

`ScanGates` has one student and one lesson, and a scan is one step: `Classified`
is `eligibility.classify`, `Gates` the list of gates in the order of `scan` with
what each needs to be open, `Shut` the places of those that are not, and the
least of these places gives the code.  `screen` is what the page then shows: the
colour of the code's severity, which answers and refusals both carry and which
goes with the sound, and whether it stands for a row.  `Button` says when it
offers the button that sends the scan again with `approve`.  Policies and the
student's situation change in between.

In `ScannerQueue` an action is what lies between two `await`s.  In `Cards`,
`LockCard` takes one row of the `SELECT ... FOR UPDATE`, in card number order, and
`AssignCard` and `ReplaceCard` commit if `IndexesAllow` does.

### Students, academics, accounts, settings

`Enrollment`: `ReadToEnd`/`ReadToMove` are the endpoint's reads; `EndOld`,
`AssignNew`, `Insert` and `Commit` are a transfer's transaction, whose rows others
do not see and wait for.  `List`, `Charge`, `Finish` are
`generate_monthly_charges`: it reads the assignments once and bills them one by
one.  `StudentRecords` and `Accounts` have the pattern read, decide, save all
fields; `Accounts.Sync` is the signal's write after the save, a step of its own.
`Academics` validates a form over the read instance and saves it later;
`NextLesson` is one transaction of a generation.  `Settings.Get` reads through the
cache within an update's transaction, `End` commits, or rolls back if an item was
refused.

### Console and platform

`Subscriptions`: a console request reads (`ReadTenant`), writes
(`SaveTransition`) and audits (`RecordTransition`) in three steps; the nightly
command selects, moves and commits in one transaction whose drafts lock their
rows; the purge deletes one tenant per transaction from a list it read first.
`Features` and `RatePolicy` keep *when* each invalidation is sent: the signals of
`update_or_create`, `delete` and `save_plan` before the commit, those of
`Tenant.save` after it.  `Quota` separates the count (`Count`), the save of the
usage row (`Refresh`, or `RefreshInside`, which holds its lock) and the insert.
`Traffic` spends its windows by `Add`/`Incr`, one cache operation each; `Record`
swaps the buffer under the lock, `WriteKey` and `Flush` write it afterwards.
`Access` runs a whole request in one step, in host mode, in path mode, and with a
cookie that several hosts share.  `TenantScope` nests blocks (`Enter`, `Exit` by
any number of levels, as an exception does), builds and uses querysets, and saves
rows with references.

### Reports

Operations are whole transactions; how they interleave is the subject of
`Attendance` and `Payments`.  Each query is an operator with the filters of its
source, and the properties equate their totals, with the exact terms by which
the code's queries differ.

## What is checked

| Run | Question | Bounds |
|---|---|---|
| `payments_collect` | Do concurrent payments, refunds, waivers and cancellations keep totals, statuses, limits and receipts, and implement the accounts? | 2 charges, 3 handlers, 4 requests |
| `payments_live` | With every operation: is a payment applied to the row it was checked against, is every request answered, does the drift check repair what lost updates broke? | 1 charge, 2 handlers, 3 requests |
| `payments_stale_update` | *violated:* `update_charge` loses a payment | 1 charge, 2 handlers, 3 requests |
| `attendance_lesson` | Do scans, retries, entries, cancellations and the completion of the lesson keep the documented lifecycle? | 2 students, 3 keys, 2 handlers, 5 requests, clock 0..2 |
| `attendance_live` | With every operation and two caches: are requests answered, do caches catch up? | 1 student, 2 handlers, 4 requests |
| `attendance_cancelled` | *violated:* a cancelled lesson admits a scan | 1 student, 2 handlers, 4 requests |
| `scan_green` | *violated:* a green card for a scan that was not recorded | 1 student by his seat, 4 policies, 1 change, clock 0..2 |
| `scanner_day` | Which scans can the page lose, and does the queue reach the server after outages? | 3 scans, 2 drains, 2 outages; days with every fault and days with outages only |
| `scanner_overwritten` | *violated:* a drain overwrites the queue | 2 scans, 1 drain, 2 outages |
| `cards_inventory` | Do holders, history and scans agree, do two-card locks deadlock, is the inventory implemented? | 3 cards, 2 students, 2 handlers, 3 requests |
| `platform` | Do the console's decisions hold, bite and show? | see below |
| `center` | Does what a center sees, keeps and decides hold? | see below |

`Platform` and `Center`, the modules of these two runs, have a variable `scene`
that says which component is at work in a behaviour; the variables of the others
rest, so that state spaces add up and are not multiplied.  `MCPlatform` and
`MCCenter` give the constants a `.cfg` cannot write and leave out initial states
that differ only in what rests.  Each property is a family, one member per scene
(*proved*: every member, for every value of the constants):

| Property | Members |
|---|---|
| `ClientsHold` | archived clients have a purge date; audit rows lead to the status (proved) |
| `AnswersHold` | a cached feature set is wrong only by an overlap; guarded toggles leave an attendance method (proved) |
| `UsageHolds` | a limit is passed by one batch per overlapping request but one, at most (proved) |
| `HostsHold` | no policy row says what no row says; a host's entry is current but for an overlap (proved) |
| `ScreensForesee` | clients about to lapse are listed; a change of plan warns of every loss; a full plan shows it (proved) |
| `DecisionsAreKept` | the commands revive, move twice or purge nobody they should not; a block is lifted by decision or by a stale row (proved) |
| `DecisionsBite` | *(liveness)* a lapsed client is stopped; a toggle reaches the answers |
| `PlacesHold` | sessions, suspensions, guards and entries (`Access`); context, reads and references (`TenantScope`) (proved) |
| `NumbersHold` | budgets, counters and charts (`Traffic`); twelve queries and two dashboards (`Reports`) (proved) |
| `SeatsHold` | seats are billed and overfull ones warned of; codes have no gap; promised lessons are held (proved) |
| `ServedHold` | permissions follow roles, policies follow settings, but for an overlap (proved) |
| `ScansHold` | approvals are recorded, the button leads on, colours tell what was written but for one policy, NORMAL is normal (proved) |
| `DecisionsStand` | no step undoes seats, accounts, student records or groups but a decision or an overtaken instance (proved) |

Bounds of `platform`: one client, two operators, two console requests (three for
policies), five days with grace, trial, notice and retention of one day, one
crash; five features, two plans, one reader; two resources, two requests at a
time, batches of 1 and 2, limits 1 and 2.  Bounds of `center`: two workers
(symmetric) in every concurrent scene; two tenants, one console, one clock step
and two entries for `Access`; one tenant, a minute of two seconds, an hour of
four, two requests, one crash and limits that refuse the second of them in one
window or another for `Traffic`; three students and two groups of one offering
for `Enrollment`, four requests without a run of the billing, three with one or
two with two; two users and three requests for `Accounts`; four codes for
`StudentRecords`; two groups, a week of two days and a horizon of three for
`Academics`; two keys, two values and two updates for `Settings`; each policy on
its own at each of its values, each reason to refuse on its own and one change of
either before, in and after the lesson's window for `ScanGates`; two tenants,
three levels and two rows for `TenantScope`; two lessons on two days, two
students, two charges and three or four operations for `Reports`, whose group
dashboard looks back no day where the code's looks back thirty (`Recent`), so
that one of the two days lies outside it.

Why these bounds are enough.  Every hazard of this code is between two requests
and one row, or two requests and two rows; the third request, row or charge is
there to act in between (a payment between the read and the save of an edit, an
assignment during a billing run).  `Max*` constants bound what is ever received,
so that ledgers and histories are finite; what is proved (below) holds without
them.  Two amounts and two fees give every order of amount, balance and net.
Clocks reach past every window, gap and expiry.  Deadlock checking is off because
a system that has received its last request stops.

Fairness.  Handlers that were started go on: gunicorn's workers are processes
with threads of their own, and PostgreSQL grants a row lock when its holder ends.
Cron starts the daily commands and days pass; a cached entry reaches its time to
live.  New requests, crashes, outages, edits and clock ticks of other kinds are
not fair.  `payments_live` also assumes that the drift check is run again and
again, as docs/04 schedules it; `scanner_day` that on its quiet days the network
comes back and the page's posts end.

## What is proved

`PaymentsProofs` proves, for any set of handlers and charges, any number of
requests, and with every operation enabled:

- `Typing`: the tables keep their types; the CHECK constraints on a charge's
  amounts fire at most in the drift check;
- `Receipts`: the receipts of a center are exactly 1..n, one ledger line each;
- `CheckedRows`: the row a payment was checked against is the row it is applied to;
- `ClosedCharges`: no ledger line is added to a waived or cancelled charge;

and, when `update_charge` and `recalculate_charges` are not among the operations
(with them it is false, as `payments_stale_update` shows):

- `Balanced`: the stored total of every charge is its ledger's total;
- `NoOverpayment`: with overpayment off, no charge collects more than its net fee.

The inductive invariant is `PaymentsInv`.  `TypeOK` alone is not inductive: that
a refund leaves `total_paid` natural needs that the checks still hold at the
commit, hence `HandlerOK`, which says what a handler owns from lock to commit
(its charge's row, unchanged since the checks, and the sequence, whose value is
its number).  `ReceiptsGapless` needs the same for the sequence.  `Balanced` adds
that the ledger's coins of a new receipt are disjoint from all others: the ledger
total is the cardinality of a set of coins, so no induction over the ledger is
needed.

- `CollectionImplements`, under the same assumption: `Payments` implements
  `ChargeAccounts`, every commit being one of its steps or a stutter;
- `Statuses`, with `recalculate_charges` alone excluded (it writes a status
  computed from a total that may be old): the stored status is the one the
  amounts imply, after overtaken edits too, because an edit recomputes the status
  from the very instance it saves.

The proofs assume only `PaymentsAssumption`.

`AttendanceProofs` proves, for any students, keys, requests and clock, with every
operation enabled:

- `EveryoneAccounted`: while a lesson shows as completed every student of its
  roster has a row;

and, when neither `manual_adjust` nor the check-out endpoint is used (both save
every field of an instance they read without a lock, services.py:596 and :723, so
what these properties say is not claimed of them):

- `RowsAgree`: state, times and outcome of a row agree, and no CHECK fires;
- `GapKept`: no check-out but the system's follows its check-in too early;
- `RetriesApplyOnce`: a retried scan changes a row once, but after the gap;
- `LessonFollowsLifecycle`: `Attendance` implements `AttendanceLifecycle`.

`AttendanceInv` adds `HandlerOK`, what a handler may rely on at each step (the rows
it edits exist, and nobody else writes those it selected for the sweep), and
`OneSweep`: the lesson's row lock admits one completion at a time.  `LessonInv` adds that a row is one a
sequence of decisions leads to (`RowMatches`) and what a key has done so far
(`KeyApplied`).

`ScannerQueueProofs` proves `QueueKeepsScans`: for any scans, drains, rate limit
and number of outages, and with every fault of a day, `QueueHolds`.  Its invariant
`QueueInv` says that a scan only the queue holds is in the hands of every drain
that is running (`Carried`): whichever of them stores its remaining scans last, it
is among them.

`CardsProofs` proves, for any cards, students, handlers and number of requests:

- `Typing`: typed tables, locks and handlers, and a holder exactly while assigned;
- `HistoryAgrees`: holders and open history rows agree, one each per card and student;
- `OneStudentPerCard`: a card has one history row in its life;
- `ReplacementSameStudent`: a card and its replacement were held by the same student;
- `DeletionStrandsNothing`, `EventsNameHolders`: the same for deletions and scans;
- `CardsImplementHolding`: `Cards` implements `CardHolding`, every commit being one
  of its steps or a stutter.

`CardsInv` adds two facts without which the properties are not inductive.
`UsedCardsLeft` (a card with a past is neither available nor deleted) makes the
locked status check of `assign_card` enough for `NeverRecycled`; `HandlerOK` (a
handler owns the rows it has locked, and the student it read on a card did hold
it) carries that check to the commit, and the scan's stale read to its event.
The proof keeps the tables' half of the invariant (`Tables`) apart from the
handlers' (`Handlers`).  The only assumption is `CardsAssumption`.

`PlatformProofs` proves `LimitsHold`: for any resources, limits, batches, number of
requests at a time and in all, and while the console changes the plan, the rows
of a resource, together with those that admitted requests have still to insert,
pass the highest limit the client has had by at most one batch for each request
but one.  With one request at a time the limit is therefore kept; with two it can
be passed, as TLC shows for a smaller bound.  `UsageHolds` is inductive once
`CapsKnown` is added: the limit a request holds from before its count is one the
client has had.  The argument counts: the promises are split into those of the
request that moves and the rest (`Parts`), the rest never exceeds the slack
because it lies in a product of the other requests and a batch, and a request
gains a share only when rows and share together are within its limit (`OneStep`).
It assumes `QuotaAssumption`.  `PressureShown` is about the console's bar:
when the usage row is right, a plan that refuses the next row shows at least a
hundred percent, for finitely many limited resources (`Largest`: a finite set of
numbers has a greatest, by a minimal subset without one).

`SubscriptionsProofs` and `PlatformProofs` prove, for any clients, operators,
readers, plans, days and requests:

- `Clients`: an archived client has its purge date, and the audit rows of a client
  lead to its status.  `SubInv` relates a tenant's trail to the requests that have
  saved and not yet recorded and to the moves of the sweep that runs: rows are
  counted, so the trail is the sum over these sets;
- `Decisions`: a run of the commands that is repeated at once moves nobody, they
  revive nobody, and purge only whom they found due (`KeptInv`: what a sweep is
  through with does not match it again and who is on the purge's list is due, but
  for clients written meanwhile);
- `Foreseen`: whoever the next run would move is on the overview, and the
  console's three pages agree with each other;
- `Hosts`, `Blocks`: a host's entry is what the tables say, unless read while a
  change was under way; a block is lifted by a decision or an overtaken instance
  (`PolInv`: whom no reader overlapped has a current entry; `BlocksInv`: two
  services that have written hold different rows);
- `Answers`: the cached feature set is what the tables say unless a read
  overlapped a change, and checked toggles leave a method.  `FeatInv` says so of
  what readers hold, and that a toggle under way still leaves a method of the
  current rows;
- `Warnings`: a change of plan takes no feature its warnings do not account for.

`FeaturesAssumption` states two facts of the catalogue that `Answers` needs
(features.py:95-190): methods depend on nothing, and nothing depends on a method
that is not built; and that an operator's form grants keys of the catalogue
(forms.py:134, 166-172).

`PlatformProofs` then proves the properties of the run `platform` of `Platform`,
for every value of its constants: `PlatformClients`, `PlatformAnswers`,
`PlatformHosts`, `PlatformForesees`, `PlatformDecisions`.  `Components` is the step
they share: in every behaviour of the platform each component does its own steps
or rests.

`CenterProofs` proves, for any number of requests, rows and keys:

- `Codes`, `RecordsDecided`: a number the sequence has passed is a code; a status
  is what was asked for or what an overtaken instance held;
- `Memberships`, `AccountsDecided`: groups follow roles, rights decide grants,
  except through overtaken instances;
- `Served`: the registry serves what is saved, unless the entry was filled while
  an update was open;
- `LessonsHeld`, `GroupsDecided`: promised lessons are there; a group that has
  lessons keeps its offering;
- `Answered`: an answer that stands for a row has one of a student who came, and
  is not red; a green one without a row is the refusal of a student of another
  group where the policy asks for an approval, which alone would let him in; the
  approval of a scan is on the row, and the button leads past the gate;
- `Scoped`: the tenant in context, in querysets and in references;
- `Entered`: only the operator's own sessions carry an operator's record, a
  suspended client's pages are shut, open entries have their audit rows;
- `Seated`, `SeatsDecided`: seats are billed and overfull ones warned of; a
  student has one seat in an offering and loses it to an ending only.

The invariants have one idea: an instance that is not marked overtaken *is* the
row (`RecordsInv`, `UsersInv`, `ClassesInv`), and an entry that is not marked
raced is what is saved while no open update has written (`PoliciesInv`);
`ClassesInv` adds that a generation has left a lesson on every day behind it.
`ScansInv` says that a row nobody made owes no approval and that the gates an
approval does not open were open when a refusal is not red (`ScansCodes`: which
gate has a code of which colour).  `ScopeInv` says
that the tokens of a thread are the tenants of the blocks around it, so that any
number of exits restores the right one, that a queryset is filtered by the tenant
that built or first used it, and that references lie inside the table.
`AccessHolds` is inductive as it stands: a suspended client's pages stay shut
because the user is looked up on the client's own row after the cached host, and
a cookie gets a record only in the step that writes its audit row, so that the
cookies that carry one (`AccessHeld`) are counted by the entries.

`EnrollmentInv` says of a transfer that it stays with its student and offering
(`EnrollmentOld`), that a row about to be committed is the only taker of its seat,
as the unique index makes the others wait (`EnrollmentSeats`), and that a billing
run has still to do, or has done, what it listed (`EnrollmentBilled`).  Capacity is
again counted: who was not warned and who will not be are together at most the
capacity and one for each request but one (`EnrollmentFits`).

`CenterScans`, `CenterServes`, `CenterPlaces`, `CenterSeats` and `CenterDecisions`
state the families `ScansHold`, `ServedHold`, `PlacesHold`, `SeatsHold` and
`DecisionsStand` of the composed `Center`: a scene lasts (`ScenesLast`), and in
its scene a component does its own steps (`GatesScene`, `AccountsScene`, ...).

`NumbersProofs` proves, for any clients, processes, threads and limits, and for any
lessons, students, charges and operations:

- `Metering`: budgets, counters and charts of `Traffic`.  `TrafficInv` follows each
  request from the thread that serves it to the minute counter: what is recorded
  is lost, in the counters, or in the memory of a process or the hands of a thread
  that writes (`TrafficCounted`).  That the chart shows no more errors than
  requests at any moment is true only because a flush writes requests before
  errors and the 4xx before the refusals; `TrafficAhead` says that the counters
  written first are ahead by what the writing threads still hold.  `TrafficSpent`
  bounds a counter by the requests received, with the threads that may still
  spend from it;
- `ReportsMatch`: every conjunct of `ReportsAgree`.  `ReportsInv` has two parts.
  `ReportsRows` says that a row nobody corrected by hand is in one of a few
  shapes, from which the columns of a report partition its rows; the totals of a
  report by any key are then those of the rows it is made of (`ReportsGrouped`),
  and two reports that list different rows differ by what one of them drops
  (`ReportsDiffer`).  `ReportsBalanced` says that the ledger adds up to what the
  charges have been paid; it is what carries the money from one screen to the
  others, since reports by charge never read the ledger and the till never reads
  a charge.  What remains is about sums over parts (`SumParts`, `SumSplit`);
- `CenterNumbers`: the family `NumbersHold` of the composed `Center`.

Sums over finite sets are the library's `MapThenSumSet`, defined by recursion on
the set.  What they do when a summand changes (`SumUpdate`), an element is taken
out (`SumTakeOut`), the set is split (`SumSplit`, `SumParts`) or two sums are
exchanged (`SumSwap`) is proved from that definition without an induction
theorem: a least counterexample among the subsets of a finite set would be bad and could not be
(`NoneIsBad`, from the well-foundedness of strict inclusion).  That the recursion
has a solution at all is `SumExists`.

The least element of a set of numbers (the first free code, the first shut gate)
exists by `WFMin`.  Assumptions are those the modules state: clients, workers,
lessons, students and charges are finitely many, the names of the console, of the
operator and of nobody are no client's, an unset filter is no number, and a
charge's group is a group.  TLC evaluates each assumption on every run of its
module.

Only model-checked: liveness under fairness, and that two-card locks do not
deadlock (both beyond the prover); the rows of `Attendance` where corrections are
in use, in as far as a run checks them; and what the four violating runs show.
Every other invariant and action property of the runs is a theorem.

## Known deviations

Four runs keep a disagreement between the code and what it says of itself:

1. `payments_stale_update`: `update_charge` saves every field of the instance the
   API read, `total_paid` included, so a payment that committed in between
   disappears from the stored total (the ledger keeps it).
2. `attendance_cancelled`: `cancel_lesson` drops the snapshot inside its
   transaction; a scan that misses the cache before the commit stores `OPEN`
   again, for five minutes.
3. `scanner_overwritten`: `drainQueue` writes back what remains of the queue it
   read before its awaits, over scans queued meanwhile.
4. `scan_green`: with `alternative_group_policy` at `REQUIRE_APPROVAL` a student of
   another group is refused with the code of his check-in, `OK_CHECK_IN_ALTERNATIVE`
   or `OK_CHECK_IN_MAKEUP`.  The refusal carries that code's colour, sound and
   message, the page draws them over its red, and offers no button: a green card
   and a beep for a row that was not written.  `ColoursTell` says that there is
   no other such case.

Others have no run of their own.  They explain the exceptions in the properties
(what an overlap or an overtaken instance excuses) and why some operations are
missing from a run.

Payments and attendance:

- `recalculate_charges` saves a ledger total it computed before a payment
  committed (the next run repairs it).  After a lost update the same money can be
  refunded twice; the ledger total is then negative, the repair is refused and
  every later drift check stops there (`AuditCrash`): hence the premise of
  `DriftHeals`.
- `cancel_charge` checks `total_paid` on the API's instance, so a charge paid
  meanwhile is cancelled with its money.
- A month in which nobody was active when it was generated counts as not
  generated: who joins later is billed by the next run only.
- A scan admitted before the lesson was completed and written after the sweep
  stays checked in.  One that was written but not yet logged, retried after the
  gap, checks the student out: hence the premise of `RetryAppliesOnce`.
- `manual_adjust` and the check-out endpoint save every field of a stale
  instance and undo a cancellation granted meanwhile; `open_lesson`,
  `complete_lesson` and `cancel_lesson` decide on one.  Hence `FollowsLifecycle`
  is checked without corrections and without cancelled lessons.
- A drain drops what is answered with the rate limit's code, and a queue left
  when the server, not the network, was away waits for the next outage.
- An approved scan of an unassigned student is recorded and still answered with
  `NEEDS_APPROVAL_*`; `approve` also opens gates set to `BLOCK`; a scan that
  corrects an absence drops its approval.

Students, academics, accounts, settings:

- A PATCH of a student or a user saves all fields and undoes what was decided
  meanwhile; a student's PATCH changes the status without a reason.
- A transfer that read its assignment before another request ended it goes on:
  the row becomes `TRANSFERRED` and the student has a seat again, in the new group.
- A creation whose five attempts all meet taken codes rolls the sequence back
  with them, and so does every later one.
- A demotion takes the last super admin, which only deactivation refuses; a login
  overtaken by a demotion gives the old role's group back.
- `GroupForm` lets a group move to another offering that has students and no lesson
  yet.  Its assignments keep the old one until they are saved, though
  `students/models.py:249` says "always", and the scan looks a seat up by the
  lesson's offering: the students count as unassigned at the gate.
  `GroupsAreDecided` says when a group can move, and so when they get out of step.
- A group saved with fee 0 takes the offering's fee, on any PATCH.
- A generation of lessons that overlaps another stops half-way.
- A settings form with one invalid item is rolled back, and the cache may serve
  its valid items for up to 300 s.

Console and platform:

- The signals of policy, feature and plan writes come before their commit, so a
  request in between keeps the old answer for up to 300 s: blocks and toggles do
  not always bite at once.
- Limits saved beside a block undo it; so do two operators' transitions.
- The last attendance method is guarded against `OFF`, not against `INHERIT`, and
  two operators at once take two methods.
- Nothing sets `expires_at` but an operator, and nothing moves `TRIAL` to
  `ACTIVE`; a resumed trial lapses again in the next run, and `grace_until` of the
  first lapse is kept.
- A client resumed after the purge listed it is purged.
- Two processes' counts overwrite each other in the usage row, and nothing
  refreshes it nightly.
- An operator's entry cannot be used on a center's own host, because the lookup
  of users is scoped there; in path mode a read-only entry also stops the
  console's own forms.  Entries that expire or are replaced leave no end row.
- A process without requests keeps the last second's counts until the next one.
- References saved by the key of a row nobody loaded, and those of
  `bulk_create`, are not compared with the tenant.

Reports:

- Dashboards count cancelled rows that are still called alternative or were
  called late by hand; `attendance_by_lesson` counts cancelled alternative rows,
  and rows of cancelled lessons are in the daily report and not by lesson.
- A status set by hand can put a row in two columns, or in none.
- Waived charges take what was collected on them out of the finance reports.
- A refund names a payment and may be larger than it, up to what was paid on the
  charge.

## What is not modelled

- PDF, exports, pages, locale, the campaign site: rendering, without state.
- The audit log, beyond the rows of status changes and operators' entries:
  append-only, and nothing decides on it.
- What each permission allows: the models assume a caller who may do what he
  asks for, except where the right is what the code decides (grants of roles,
  approvals, entries).
- Retiring a plan, taking away a host, archiving academic rows, and the edit of a
  lesson's notes and instructor: writes of one field without a protocol.
- Inserts under a plan without a limit, which are not counted; the checks of an
  import file; the paging of a long report.
- Dates inside a month, currencies and rounding do not occur in the code paths
  modelled (amounts are exact decimals, here naturals in the smallest coin).
- The reports' filters other than period, month and group.  Subject, grade, stage
  and instructor are read off the row's group as the group is; method and cashier
  narrow the payments; a student narrows rows, payments and charges but not
  `attendance_by_lesson`, whose page does not offer it.  The totals compared here
  are those of the same filter.
- A charge whose group was deleted (the column is set to NULL): no request of the
  program deletes a group, only Django's admin could, and then one without lessons
  and assignments.  The finance report has a row "—" for such charges.
- In `Features`, the host's entry, from which a request has its tenant's plan.
  `RatePolicy` has that entry and shows when it is stale (`HostsHold`): a request
  that read the row before a change of plan fills it again afterwards.  Answers
  are then resolved with the old plan, and cached, until the entry expires.
- SQLite, which the smallest deployment uses, serialises writers and has fewer
  behaviours than the PostgreSQL modelled here.
- Components of one `scene` run do not act on each other; where they share rows
  (a seat and its charge, a group and its lessons) one module has both.
