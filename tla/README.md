# Casaora: a TLA+ model of the operations backend and its agents

Casaora runs short and mid-term rentals: an operator's desk, iCal and OTA
channels, housekeeping tasks, deposits, leases, and agents that act on all of
them. The program is `apps/backend-rs` (Rust, Axum, SQLx over PostgreSQL); the
admin and web applications (`apps/admin`, `apps/web`: TypeScript, Next.js) are
clients of its HTTP API, and most of their code is pages and forms over it.
Where the admin app has a protocol of its own, with the agents, it is modelled
beside the backend.

What makes it hard is where it keeps its state. Every handler, scheduler job
and agent tool works straight on PostgreSQL through `repository/table_service.rs`:
`get_row`/`list_rows`, a decision in Rust, `update_row` by id or `create_row`.
There is almost no transaction, no row lock and no version column. Several
service processes run at once, each with its own scheduler, and cloud cron
calls the same jobs again over HTTP. Between any two statements of a handler
another one may run, and a restart may end it there. The models take this
literally: **one database statement is one step**, what a handler has read
lives in a local variable, and every handler may be cut short.

In the browser the grain is the callback: JavaScript runs one to its end, and
anything may happen before the next, an aborted fetch's rejection excepted.

All paths below are relative to the repository root; `B/` stands for
`apps/backend-rs/src/`, `A/` for `apps/admin/`.

## Inventory

| Component | State | Operations | Hard behaviour | Correct when |
|---|---|---|---|---|
| Reservations (`B/routes/reservations.rs`) | `reservations` | create (overlap query, INSERT), status transition (read, decide, UPDATE), PATCH, refund | racing requests, stale decisions | no night sold twice; statuses earned |
| Reservation table (`db/schema.sql`, `B/repository/table_service.rs`) | rows | insert, update by id, constraints | the only thing checked atomically | exclusion, uniqueness, non-empty stays |
| iCal sync (`B/services/ical.rs`) | feed, snapshot, rows with source `ical` | fetch, list, patch or insert per event, sweep | passes race with each other and with the desk, from stale snapshots; passes abandoned | table mirrors feed; withdrawn nights come back; operators' rows untouched |
| Turnover tasks (`B/routes/reservations.rs`, `B/routes/tasks.rs`) | `tasks`, `task_items` | sync at each status, cancel, find, revive, insert, fill checklist; tick, complete, PATCH | errors dropped, restarts mid-list, racing syncs | tasks fit the status; checklists whole; few duplicates |
| Deposits (`B/routes/deposits.rs`) | `deposit_status`, `escrow_events` | collect, hold, release, forfeit, refund, release at checkout | five handlers and checkout race; event written apart | nothing uncollected settled; nothing held unseen after checkout; a trail |
| Workflow engine (`B/services/workflows.rs`) | rules, `workflow_jobs`, round-robin cursors | trigger, enqueue, claim, execute, retry with backoff, mark | concurrent workers, crash while running, lost cursor updates | each job done, not twice |
| Event bus (`B/services/event_bus.rs`) | `agent_events` | publish, expire, claim, execute, batch mark | crash between claim and mark | every event delivered or expired |
| Message queue (`B/services/messaging.rs`, webhook in `B/routes/messaging.rs`) | `message_logs`, what the provider took and delivered | poll, send, mark, retry up to 3; delivery reports | no claim: double send; crash after send; reports early, late or out of order | repeated only for a reason; delivered means arrived; what is queued and can be sent gets tried |
| Notification center (`B/services/notification_center.rs`) | events, user rows | emit with dedupe key, read marks, purge | racing emission, purge against reads | one event per key |
| Scheduler (`B/services/scheduler.rs`, `B/services/cron.rs`) | in-memory timers, `agent_watchers`, `agent_schedules` | poll loops, daily gate, watcher bookmarks | several processes, restart forgets the gate | jobs once a day; no row skipped |
| Sequences (`B/services/sequences.rs`) | enrolments | enrol, advance, stop | concurrent ticks | one message per step |
| Agent approvals and runs (`B/routes/approvals.rs`, `B/services/agent_runs.rs`, `A/components/agent/approval-queue.tsx`) | `agent_approvals`, `agent_runs.status`, the page's cached list | propose; review one, a batch, or a run; execute; link the message; reconcile, complete, fail, cancel the run | reviews race; results written by id; four writers of one status | executed once and only if approved; decisions final; failed only for a cause |
| Agent chats (`A/components/agent/chat-thread.tsx`, `use-agent-chat-stream.ts`, the Next.js routes, `B/services/agent_chats.rs`) | the hook's status and abort controller, the pending message, live messages, the cached thread; `ai_chat_messages` | send, stream, stop, retry by the fallback, new thread | streams overlap, break, end late; the execution goes on unheard; the fallback repeats it | one live stream; composer always given back; one retry; what finished is shown |
| Calendar blocks (`B/routes/calendar.rs`) | `calendar_blocks` | list then insert, update, delete | no constraint against reservations | blocked nights not sold |
| Leases, collections, payments, owner statements | leases, charges, payments | renewals, cycles, webhooks, approval | repeated webhooks and cycles | charged once |
| Maintenance, vendors, portals | requests, tasks | dispatch, respond | write `tasks` too | follow the request |
| Everything else (portfolio, reports, pricing, marketplace, documents, vision, IoT, voice, ML, demo, plumbing, front ends) | their tables | CRUD, read-side sums, calls to outside services | little of it is a protocol | - |

How they interact: `transition_status` writes the reservation, then calls the
task sync, then (on checkout) the deposit release, then fires workflow
triggers and sequence enrolments, each with its error dropped; workflow
actions write `reservations` and `tasks` behind the handlers' back, without
the task sync or the deposit release; iCal passes write `reservations` and
touch nothing else; the scheduler starts passes, message polls, workflow
workers and the event bus; staff work on `tasks` while a sync is in progress.
An agent run asks for approvals, a review executes the tool, `send_message`
queues a message, a poll sends it, and the provider's report goes back through
the webhook to the message and to the approval that it is linked to.

`PROJECT.json` lists every component with its status and reason, and under
`hazards` each place where this goes wrong in a way a test would hardly reach,
with the properties that watch it.

## Modules

| Module | What it is |
|---|---|
| `ReservationTable` | The table as PostgreSQL guards it: `InsertRow`, `UpdateRow` and `Accepts`, the conjunction of CHECK, exclusion constraint and unique index. Dates are days, a stay is half-open. |
| `ICalSync` | EXTENDS it with a pass of `sync_listing_ical_reservations`: `Fetch`, `ListExisting` (the snapshot), `PatchEvent`, `CreateEvent`, `Sweep`, `Finish`; any single statement may fail and be counted (`PatchFails`, `InsertFails`, `SweepFails`), and `Abandon` comes anywhere. `Publish` is the channel. Events are handled in any order, as the code iterates a hash map. A `system` pass is refused its INSERTs, because `created_by_user_id` is a uuid. |
| `ICalTurns` | EXTENDS it: any passes of any integrations, where no second pass of one integration starts while the first is on its way, from any table. States what a repeated pass may do. |
| `ReservationBook` | EXTENDS ICalSync with the desk: `CreateCheck`/`CreateInsert` and `TransitionRead`/`TransitionWrite` (the workflow's `execute_update_status` is the same two steps), `Crash`. Composes desk, passes and channel on one table, and states the scheduler's fairness. |
| `Occupancy` | Abstract: each night of each unit is free or held by one guest; a guest takes nights only from free ones or its own. |
| `TurnoverTasks` | The tasks of a stay: `Sync` decides; `ListOpen`, `CancelTask`, `FindTask`, `Revive`, `InsertTask`, `ListItems`, `AddItem` are the statements; `CancelFails`, `ReviveFails`, `ItemFails` are the ones whose error is dropped while the handler goes on; staff `Tick`, `CompleteCheck`/`CompleteWrite`, `PatchTask`; `CutShort` anywhere for the rest. |
| `Deposits` | The five handlers as `Decide` with what each expects and writes, `WriteDeposit`, `InsertEvent`; `WriteCheckout`, `AutoRelease`; `PatchDeposit`, `CutShort`. |
| `AgentChat` | Chat threads from composer to database. Browser: `handleSend`, `ensureChatId`, `sendMessage`, `stop`, `resetToFreshThread`, `Respond`, `Read` (with `Show`, `Fail`, and `Finish` at a `[DONE]` or at the bare end of the stream), `Refetch`, `FallbackEnds`. Route and backend: `Accept`, `Answer`, `StoreReply`, `FallbackAnswers`. Faults: `Drop`, `Unreachable`, `FallbackFails`. |
| `MessageQueue` | `message_logs`, the passes of `process_queued_messages` (`ListQueued`, `ListFailed`, `Send`, `WriteRow`, `PassOver`; faults `WriteLost`, `Stop`) and the webhook (`Report`, `HookRow`, `HookOver`). A pass lists the `Oldest` rows up to its limits and passes over those without a recipient (`Unaddressed`), which stay queued. The provider is external: it takes a copy or not, answers or not, reports or not. |
| `AgentApprovals` | EXTENDS it with one agent run: `maybe_create_approval`, `AgentEnds`/`WriteRun`, `cancel_run`; the reviews `approve_approval`, `reject_approval`, `batch_review_approvals`, `approve_run` with their steps (`NextApproval`, `execute_approved_tool`, `Finalize`, `EndRun`, the four `Reconcile` steps); `Propagate` ends a webhook; `send_message` is an operator's own message, whose recipient nobody looks at. Composes runs, reviews and messages, and states the polling's fairness. |
| `ApprovalLifecycle` | Abstract: a call is filed, decided, acted upon and recorded, each once; word of a delivery reaches only an executed call that waits for it. `AgentApprovals` implements it: a row that says `approved` before and after its tool has run is two stages. |
| `ApprovalQueue` | EXTENDS `AgentApprovals` with the page that shows the pending approvals, and the routes between the two. |
| `MCBook`, `MCICal`, `MCTasks`, `MCDeposits`, `MCAgentChat`, `MCApprovals` | Instances for TLC. `MCICal` runs the passes of two channels from *every* consistent table of two rows. |
| `ReservationProofs`, `BookProofs` and `PassProofs` (EXTEND it), `DepositProofs`, `TaskProofs`, `SerialTaskProofs` (EXTENDS it), `AgentChatProofs`, `AgentApprovalsProofs` | Theorems, below. |

Where the abstraction lies: names, amounts, notes, audit rows and due dates
are left out; a refused request (validation, 404, forbidden transition) is a
request that never starts; a statement that fails for reasons outside the
table ends the handler, or, where the code drops or counts the error and goes
on, is an action of its own. `been`, `mirrored`, `touched`, `disturbed`,
`collected`, `late`, `cut`, `ran`, `excused`, `retries`, `finished`, `wiped` and
`saved` are history variables, and `lost` and `spare` history fields of a task,
which no guard reads.
Mutants (`...` definitions marked as such) are plausible bugs that the
properties must catch; nothing else uses them.

## Runs

| Run | Question | Bounds, and why they are enough |
|---|---|---|
| `book_races` | `BookTypeOK`, `NoDoubleBooking`, `EveryStatusEarned`, `KeepsOccupancy`: with two requests and a pass racing, is no night sold twice, does the book implement `Occupancy`, does a request that writes late write only what some status of the row's past led to, and do operators' rows only move by operators? | 2 rows, 1 unit, 3 nights, 1 UID, 2 requests and 1 pass of which any two are under way at once (`TwoAtOnce`), stays followed as long as they have had three statuses (`FewStatuses`, a fourth is still checked): a request writes a status it decided on before another moved the stay, and two requests insert overlapping stays after both found the nights free. The feed's event moves by a night, so that the row meets itself as well as the other, or is cancelled; an operator's row may carry the channel's code. Three at once, and more units and passes, are the business of the theorems. |
| `book_live` | `WithdrawnEventsFreeNights`, `MovedEventsFollow` under fairness, with an operator's transitions racing | 1 imported row and 1 of the operator's (`OneOfEach`), a guest in house on the night the event moves to: the pass's UPDATE is refused until that guest has left. Feeds that add, move, cancel and drop the event. |
| `ical_pass` | `CleanPassMirrorsFeed`, `SyncIdempotent`, `InHouseStaysKept`: what passes achieve that take turns on their own integration, while those of another channel write the same unit | Two integrations of one unit with a pass each, every consistent pair of rows an earlier pass or operator can have left (any status, two spans), feeds of up to two events: 6704 starting points. Two rows and two overlapping spans are enough for one channel to take the nights the other needs, one event to meet another, and a row to be swept. |
| `tasks_serial` | `TasksFollowStatus` with one request per reservation and staff interfering, `TasksTypeOK` | 3 tasks, checklists of 1; any cancellation, revival or item may fail. |
| `tasks_race` | `ChecklistsWhole`, `DuplicatesBounded` with two requests on one stay | 3 tasks, so a third duplicate is possible; checklists of 2, so that one can be seen half-made; one failed revival or item leaves its trace (`FewFailures`), the theorems are for any number. |
| `deposit_races` | `OnlyCollectedSettles`, `CheckoutReleases`, `SettlementStands`, `DepositTypeOK` | 3 workers on one reservation, any first status, PATCHes. Reservations do not interact here, so one is enough. |
| `agent_chat` | `OneLiveStream`, `LockedMeansLive`, `RetriedOnce`, `FinishedShown`, `RepliesStay`, `ComposerComesBack`, `ChatTypeOK` | 2 messages, 2 chats: two streams can overlap, one can fail while the other finishes, and after a fresh thread a message is sent while the stream of the old one is still read, which aborts it. Names are taken in order (`InOrder`); once there is a second chat, fetches of the thread succeed, streams end with `[DONE]` or break and one message at most goes to the fallback (`FewTroubles`): with one chat fetches also fail, streams also end without it, and both messages may be retried. |
| `approval_reviews` | `ExecutedOnce`, `DecisionStands`, `FailedForCause`, `KeepsReview` (`ApprovalLifecycle` implemented) | 2 approvals, 2 requests, any mix of single, batch and whole-run reviews beside the run's own writes; no messages. |
| `message_delivery` | `ApprovalsTypeOK`, `RepeatsExplained`, `DeliveredArrived`, `KeepsReview` with reports, `QueuedTried` | `DeliverySpec`: 2 messages, the older one an operator's without a recipient (`RowsInOrder`), limits of 2 queued and 1 failed row, so that such a row takes a place of the listing and still leaves one; 2 passes, 1 webhook, 2 copies (a repetition needs two), 1 approval reviewed alone; the run goes on and is not reconciled, which has no effect on messages. |
| `scheduled_import` | finding 1 | 1 event, fairness of the scheduler |
| `escrow_trail` | finding 2 | 1 deposit, no race at all |
| `review_refused` | finding 3 | 1 approval, 1 reviewer beside the page |

Bounds are named in the modules: `Ids` and `Tasks` (the ids that can still be
generated), `LastDay`, `Feeds`, `Payloads`, `Items`, `Sends`, `Chats`,
`Messages`, `MaxCopies`, `Approvals`, and the numbers of `Requests`, `Syncs`,
`Workers`, `Pollers`, `Hooks` and `Reviewers`; `QueuedLimit` and `FailedLimit`
are the code's limits of 100 and 50, made small. A CONSTRAINT of a run is a
named bound of its MC module, and also bounds the behaviours that its liveness
properties are about. Deadlock is not checked where the
configuration says so: with every id used and the feed unchanged the bounded
system may have nothing left to do.

### What holds only for one request at a time

`TasksFollowStatus` is checked with a single worker per reservation and proved
from that assumption. `CleanPassMirrorsFeed`, `SyncIdempotent` and `InHouseStaysKept` speak of passes that take turns on their
integration while operators leave its imports alone (`ICalTurns`); they may race
with passes of other integrations on the same unit. The loop of
`sync_all_ical_integrations` awaits each pass before the next and the scheduler
awaits the loop, but nothing keeps a second process, the sync button or the
re-sync after a status change from starting another. All fail with more:
racing syncs leave live tasks on a cancelled stay, a request that read
`pending` writes `confirmed` over a stay checked out since (`B/routes/reservations.rs:354`
writes by id; what still holds then is `EveryStatusEarned`), and a guest who checks in
between a pass's read and its sweep is cancelled in house. `SyncIdempotent`
speaks of the modelled columns; `notes` may be filled in one pass later.

### Fairness

`FairBookSpec` assumes what `run_scheduler` gives: for each integration a
scheduled pass starts again and again (strong fairness, because the slots of
`Syncs` are shared with passes that operators start and may be taken), a pass
that has started goes on (weak fairness of `PassStep`, a spawned task), and
eventually passes are no longer abandoned nor single statements fail that the
table would take. Without the last, a process that restarts in the middle of
every pass never sweeps. Operators and the channel
are given no fairness: nobody has to press a button or publish anything.

`FairChatSpec` lets requests arrive and be answered, and lets the browser read
what has arrived (weak fairness of `Accept` or `Answer`, and of `Respond` or
`Read`, for each message). Fetches of the thread, stored replies and fallbacks
are owed no more than broken connections are, nor does the user ever have to do
anything.
`PollingFairness` lets the scheduler start pass after pass and each go on (weak
fairness of `PassStep`), writes not fail for ever (strong fairness of
`WriteRow`, since `WriteLost` competes with it) and the process stop stopping.
Reviewers, the agent and the provider owe nothing.

### What the chat and the messages do not promise

A reply may be shown twice: `displayMessages` drops live messages by content
for the user's own messages only (`A/components/agent/chat-thread.tsx:669`),
while replies have another id on the server. And it may not be shown at all:
the end of any fallback clears all live messages (`A/components/agent/chat-thread.tsx:762`),
whether or not the thread could be fetched, so that a reply the backend stores
later, or never, is gone from the page. `RepliesStay` is about the others
(`wiped` are the cleared ones); `FinishedShown` says that the messages which
were asked are in the fetched thread whatever was cleared. After an error event the old
stream is read on beside the next one. A stopped message is sent by the
fallback when the chat of a later one cannot be created. A message may be
repeated, and a webhook's failure report leaves `retry_count` as it is, so that
the number of repetitions has no bound: `ApprovalsTypeOK` bounds the counter,
not the tries. A queued row without a recipient, which an operator's POST stores
unchecked (`B/routes/messaging.rs:241`), is passed over by every pass
(`B/services/messaging.rs:77`), stays queued for ever and keeps its place among
the 100 that are listed; the 50 oldest failed rows are taken before those past
their third retry are left out, so that enough of these keep younger ones from
being retried. `QueuedTried` is about queued messages with a recipient, as long as
the others do not fill the listing. A report that arrives before its row
says `sent` is lost, and the approval stays `pending`. An approval whose review
is cut short between claim and result stays `approved`. A run can be completed
with approvals pending, and a cancelled one completed. The properties state
what is left: `OneLiveStream`, `RetriedOnce`, `RepeatsExplained`,
`DeliveredArrived`, `ExecutedOnce`, `FailedForCause`.

### Findings

1. `scheduled_import`. The admin interface promises automatic import, but the
   scheduled pass passes the user id `"system"` to a uuid column, so each of
   its INSERTs fails and is counted as a conflict. Only a pass an operator
   starts ever imports.
2. `escrow_trail`. `escrow_events` is missing from `ALLOWED_TABLES` of the
   table service, so no event of the audit trail is ever stored, and collect,
   hold, release and forfeit report an error after having taken effect.
3. `review_refused`. The approval queue sends `org_id` in the query string, the
   route takes it from the body and answers 400; there is no route for batches.
   The page does not look at the answer: it says that the agent saved minutes
   and takes the approval off the list, until the next poll puts it back.

## Proofs

Every theorem holds for any value of the constants that satisfies the named
assumptions, so for any number of rows, stays, workers, passes, messages and
reviewers. Each rests on an inductive invariant: `Init` establishes it, every
action keeps it, and the property follows from it.

**`ReservationProofs`**, from `LastDayAssumption`, `FeedAssumption`,
`PayloadsAssumption`: `TypeCorrect` (`BookTypeOK`), `NeverDoubleBooked`
(`NoDoubleBooking`).
`NoDoubleBooking` is not inductive alone. Handlers decide on stale reads, so
nothing they checked may be used; the argument is that a single statement
preserves the table's invariant whatever row and value it is given
(`AcceptedWrite`). For this the written value must be a row, which takes the
type invariant, and the locals must be bound: a pass past its fetch has an
integration, a request past its read has a payload or a row (`LocalsBound`).
`IInv` is the conjunction of these with the non-emptiness of stays; each
action then reduces to `InsertKeepsTable` or `UpdateKeepsTable`.

**`BookProofs`**, from the same assumptions and `IInv`: `StatusesEarned`
(`EveryStatusEarned`), `BookKeepsOccupancy` (`KeepsOccupancy`, the book
implements `Occupancy`).
- For the statuses, what a request has read may no longer be true, but that the
  row once had it stays true. `HistoryInv` says so: ids without a row have no
  past and the others remember the status they have (`PastKnown`), a request
  about to write read a status the row has *been* in and which leads to the one
  it writes (`Decided`), and a pass has only rows of source `ical` in hand
  (`ImportsInHand`). Each step writes nothing or one row that is entitled to
  what it writes (`RequestWrites`, `PassWrites`).
- For the refinement, an accepted write is a `Hold` or a `Vacate`
  (`WriteHoldsOrVacates`). `NoDoubleBooking` makes the holder of a night
  unique, so the `CHOOSE` in the mapping has one candidate or none
  (`HolderKnown`, `NoHolder`).

**`PassProofs`**, from the same assumptions, at two levels.
- In the whole book: `UndisturbedPassMirrorsFeed` (`CleanPassMirrorsFeed`) and
  `UndisturbedPassSparesGuests`, for every behaviour of `BookSpec` in which each step satisfies
  `LeftAlone`: from a pass's read to its end, no other writes the imports of its
  integration. Requests may write all other rows, passes of other integrations
  theirs, and nothing is restricted while no pass is between read and end. The
  theorems then hold for any table that interleaved handlers and abandoned
  passes leave behind.
- In `ICalTurns`, without a hypothesis: `TurnsMirrorFeed`,
  `SyncingTwiceChangesNothing` (`SyncIdempotent`) and `TurnsSpareGuests`
  (`InHouseStaysKept`). That passes of different integrations leave each
  other's imports alone is proved here, from the fact that patches and sweeps
  go to ids of the pass's own snapshot.

`PassInv` follows a pass through its events: a row it knows is as it was read, or, once
its event is handled and nothing conflicted, as the event patches it
(`AsRead`, `AsPatched`); a handled event without a row was imported
(`AsImported`); what the snapshot does not know is an import of this pass
(`NewIsActive`); and a row without an event waits for the sweep or needs none
(`AsSwept`). The table never refuses the sweep, which only takes nights away; a
cancellation that fails otherwise is counted, and the pass is not clean. Since a row
waiting for it is as it was read (`LeftAsRead`), no step ends the
stay of a guest in house whose event is not cancelled.
`TurnsInv` adds to it that an integration has one pass at most (`OneEach`) and
what a mirrored feed means for the next pass (`MirroredInv`): the dates, unit
and status of each row are what its event asks for, each active event has a
row, and a row without an event is out of the sweep's reach (`Following`); a
pass that comes later has read those very rows (`Fresh`), so that each patch it
makes writes back what is there, no event is without a row and nothing is left
to sweep. `CleanPassMirrorsFeed` alone would not do, since it
speaks of the moment a pass ends: `MirroredInv` carries it through the steps of
the later pass, and through writes by passes of other integrations.

**`DepositProofs`**, from no assumption: `DepositTypeCorrect` (`DepositTypeOK`: what
handlers write is a word the other handlers know),
`NothingUncollectedSettles` (`OnlyCollectedSettles`), `HeldDepositsReleased`
(`CheckoutReleases`), `SettledForGood` (`SettlementStands`).
Here the stale decision is the invariant: a request that has decided to hold
or settle did so on a deposit that was collected, and *having been collected*
never becomes false, even though the status it read may
(`DecidedOnCollected`, `CollectedKnown`). For the checkout the strengthening is
`ReleaseUnderWay`: a deposit held after checkout, not held late, cut short or
patched, has a worker on its way to release it. For settlements, once nobody
who decided earlier is left to write the stay's deposit, no handler can decide
anything that moves it (`Standing`, `StandingStays`).

**`TaskProofs`**, from `ItemsAssumption` and `NilAssumption`:
`TasksTypeCorrect` (`TasksTypeOK`), `ChecklistsComplete` (`ChecklistsWhole`),
`DuplicatesFew` (`DuplicatesBounded`). `IInv` conjoins
- `RowsInv`: types; ids not generated have no items (`UnstoredBare`); what a
  handler has found still holds while it uses it, and the items it has passed
  in its list are in the task (`HandsOK`);
- `WholeOrInHand`: a task of an undisturbed stay has its whole checklist but for
  items whose own INSERT failed, or some worker is building it;
- `InsertsBounded`: for a stay and a type, its tasks and the workers about to
  insert one are together at most as many as the workers: who still has to
  search will find a task that is there. A worker whose revival failed inserts
  too; the tasks that come of it (`spare`) are in neither count.

`tasks_race` has no staff, to stay small; the theorems are about `TasksSpec`,
which has.

**`SerialTaskProofs`**, from the same assumptions and `[]OneAtATime` as a
hypothesis (no two requests on one stay): `TasksFitStatus`
(`TasksFollowStatus`). Now what a request
read is still true when it writes (`DecisionsCurrent`), and a handler past its
write is on its way to tasks that fit the status: it has cancelled or still
holds each open task but those it failed to cancel, each type wanted is served or left in its list
(`OnWay`). Steps on other stays, and staff, keep all that is said of a stay
(`Calm`).

**`AgentChatProofs`**, from `NilAssumption`: `StreamsDoNotOverlap`
(`OneLiveStream`), `LockIsLive` (`LockedMeansLive`), `OneRetry` (`RetriedOnce`),
`ChatTypes` (`ChatTypeOK`), `FinishedAreShown` (`FinishedShown`).
`ChatInv` adds to them the type of the hook's state, and where retries come
from: the message kept for one has been sent and, if the fallback has not tried
it, has none behind it, nor has a message not sent yet (`UntriedIsFresh`,
`UnsentIsFresh`). `WorldInv` is about what surrounds the hook. A stream is read
only when its message has arrived, so no row of a finished one is still to come
(`StreamsArrived`), and its message is in the thread shown or that thread is
being fetched (`FetchedOrStale`), whatever fallbacks clear in between.

**`AgentApprovalsProofs`**, from `QueueAssumption`: `RepeatsHaveReasons`
(`RepeatsExplained`), `ApprovalTypes` (`ApprovalsTypeOK`), `ToolRunsOnce`
(`ExecutedOnce`), `FailedHasCause` (`FailedForCause`), `DecisionsFinal`
(`DecisionStands`), `DeliveredDid` (`DeliveredArrived`), `ReviewsKeepLifecycle`
(`KeepsReview`, the reviews implement `ApprovalLifecycle`).
- The composition is large and its parts are narrow: every step is a `QueueStep`
  for the messages (`StepOnQueue`), so the message theorems are proved on the
  queue alone and hold in the composition.
- Nothing is claimed by a pass, so "one pass has the message" is no invariant.
  It is one as long as the message has no excuse for a repetition (`Orderly`):
  then at most one pass has it in hand, and sees its row as it still is.
- Approvals are claimed by a conditional UPDATE. `ReviewInv`: from claim to
  result the approval is `approved` (`ClaimsOK`), claims exclude one another,
  an approval still `approved` ran at most once (`ApprovedOnce`), and a bad
  verdict rests on a refusal (`VerdictsOK`).
- For the refinement, claims are `Decide`, the execution `Act`, the write by id
  `Record`, a report `Tell`, and whatever is cut short stutters. `Tell` is about
  one call while the webhook updates all that are linked to its message, so
  that there is one at most is an invariant of its own (`LinksOK`): a linked
  approval was executed, and its message is in no other approval and in no
  request's hand; the message a request has just queued is linked to none.

Only model-checked: liveness (`WithdrawnEventsFreeNights`, `MovedEventsFollow`,
`ComposerComesBack`, `QueuedTried`), which the prover does not reach, and
`RepliesStay`. Every other property of a passing run is the statement of a
theorem.

## Not modelled

The components with status `not_modelled` in `PROJECT.json` give the reason
each. In the modelled ones:

- Reservations: PATCHes of fields other than the deposit status; the text of
  calendar feeds, and the panic a multi-byte description can cause in a pass;
  listings beyond the 1000 rows that `list_rows` returns.
- Tasks: items that staff add or delete, assignments and SLA flags.
- Deposits: amounts and currencies.
- Agent chat: switching to another existing chat, archiving and deleting,
  preferences, feedback, tool events and attachments. That the Next.js route
  answers before the backend does is one step with it.
- Approvals: the toast about deliveries (its list holds pending approvals
  only), policies and evaluations. Batch and whole-run reviews neither link
  messages nor reconcile the run, and the model does not either.
- The workflow queue: on the repository's schema it never holds a job. Every
  enqueue has `ON CONFLICT` on a column that only a partial unique index covers
  (`db/schema.sql:1961`), which PostgreSQL refuses; chaining names a column
  that does not exist; and the default mode runs actions in place. A model of
  its claims would be of states the program cannot be in.

Public booking and the Airbnb sync fail for the like reason on their first
INSERT. `schema.sql` is the schema the models assume, with the migrations
applied after it; where an `ADD COLUMN IF NOT EXISTS` finds its column there,
its CHECK is not added. So it is with `deposit_status`: `db/schema.sql:620` has
it as text without a CHECK, and `db/migrations/2026-03-phase3-escrow.sql:6-8`,
which would restrict it, does nothing. That is as well: the CHECK written there
lacks `refunded`, which `refund_deposit` writes (`B/routes/reservations.rs:950`). On
a database where that migration had created the column every refund would be
refused. `Deposits` takes the column as the schema has it, with `"other"` for
any word the handlers do not know.

By lines, most of the repository is the two Next.js applications, and most of
those is pages, forms, charts and typed clients of the API: a form's local
state, with no second actor and nothing to go wrong between two steps. Of the
admin app the agent chat and the approval queue have a protocol and are
modelled. The share of lines under a definition is therefore small and would
stay so with everything in the plan done.

## Plan

What is left, most important first:

1. **Calendar blocks** beside the reservation book: two tables with an
   exclusion constraint each and none between them; the abstract `Occupancy`
   extended with blocked nights, and what of it survives.
2. **Event bus**: claims with SKIP LOCKED, batch marks, events stranded as
   processing by a restart; against an abstract at-most-once.
3. **Notification center** (dedupe and purge) and **scheduler** (daily gate,
   watcher bookmarks).
4. **Sequences**, then **collections and payments** (webhooks repeated).
5. **Round-robin assignment** of the workflow actions: a cursor read, used and
   written in three statements.
6. Theorems: the models above, as they are written. Those of the present ones
   are proved but for liveness.

`CalendarBlocks` would extend `ReservationBook`; the others stand alone, bounded
to two workers and two items, with the abstract module each is measured
against.
