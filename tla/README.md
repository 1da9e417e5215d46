# PILK, specified in TLA+

PILK is a personal agent daemon: one Python process (`core/`, asyncio, SQLite) that
plans work with a language model, runs tools for it, hands work to specialist agents
and asks its operator before anything risky.  This directory holds TLA+ models of the
parts of the daemon where ordering, concurrency and failure decide whether it is
correct, the TLC runs that check them on small instances, and proofs, checked by
TLAPS, that hold for every instance.

Everything in the daemon runs on one event loop.  There are no data races; a
coroutine is interrupted exactly where it awaits.  What can go wrong is what happens
*between* two awaits of a handler: a SQLite statement, a broadcast, a model call, a
lock, the wait for a decision.  So an action of these models is what one coroutine
does from one await to the next, and interleaving of actions is interleaving of
coroutines.

## 1. Inventory

| part | state | operations | what is hard | what makes it correct |
| --- | --- | --- | --- | --- |
| Policy gate: `policy/gate.py`, `financial.py`, `comms.py`, `system.py`, `risk.py` | none; reads rules and profiles | `evaluate` | overlapping lists, first match wins | tools on the never-whitelistable lists never run on a rule, a profile or a bulk decision |
| Trust store `trust.py`, profiles `agent_policy.py` | rules with a TTL; a profile per agent | add, match, purge, revoke, set | they change while a call is under way | no rule alive covers a tool that demands a fresh decision |
| Approval queue `approvals.py` | `_pending`, the `approvals` table, one future per request | request, approve, reject, cancel_plan, approve_batch | resolvers race with each other and with the request's own INSERT; statements raise; timeouts; restart | one owner per request; one verdict, never replaced; no waiter stranded but by a raising statement |
| Tool gateway `tools/gateway.py` | the step's status | execute | several awaits between the caller's checks and the handler | a handler runs at most once and only with a licence |
| Orchestrator `orchestrator/orchestrator.py` | lock, running plan, cancel event, stack of delegation frames, depth | run, agent_run, cancel_plan, queue_delegation | the busy check and the lock are far apart; frames and depth are shared; a hand-off needs the lock again; `wait_for` cancels at any await | frames and runs match; every delegation is run or dropped; a cancel hits its plan; nobody waits for ever |
| Plan store `plans.py` | `plans`, `steps` | create, finish, recover at boot | a crash, a timeout or a raising statement leaves `running` rows; `finish_plan` reads the row again behind its commit | `running` means somebody runs it, or was cut off since the boot; a finished row is rewritten by its own coroutine only, when that read raised |
| Agent registry `registry/` | `agents.state` | mark_state | two runs of one agent | `running` while the agent works, unless two requests run it |
| Workflow engine `workflows/` | `workflow_runs` (status, current_step, checkpoint), `workflow_steps` | start, resume, cancel | check-then-act on the status; crash between any two statements; gates | no step twice, no gate skipped, position and checkpoint belong together |
| Timers `timers/` | `timers` table, one loop | set, cancel, due, mark_fired, deliver | crash or cancel between claim and delivery; a raising statement ends the loop | delivered at most once, never after a cancel |
| Triggers `triggers/` | `triggers` table, fire lock, minute of the last tick | tick, on_event, fire, fire_now, set_enabled, boot | a long fire holds up the minute loop; events of a run; a busy orchestrator | one fire at a time, never from its own events; one fire a minute; the lock is freed |
| Telegram bridge `io/telegram_bridge.py` | offset, queue, the dispatch and the peek task, rolling history, a state file | poll, gather, dispatch, interrupt, kill, redispatch, save | two tasks share a queue; a follow-up cancels a plan; the file is truncated before it is written | no text is dropped unannounced but a file the bridge has no use for; nothing replayed; every text gets an outcome |
| Approval cards `io/telegram_approvals.py` | card table, what the phone shows | send, edit, callback | a resolution overtakes the card; lost answers of Telegram | a card without buttons shows the decision that was taken |
| Sentinel `sentinel/` | dedupe window, incidents, heartbeats | scan, raise, notify, announce, escalate | every announcement is an event that scans again, in a coroutine that a timeout may cancel; statements and the webhook raise | one incident per key and window; each announced unless its own coroutine is cut off; an unresolved condition raised in the end |
| Intelligence `intelligence/` | sources with their last check, items, notes | tick, fetch, store, score, write, refresh, submit | several polls at once; a statement between INSERT and note; exceptions that escape `gather` | no article is lost half way; sources are polled for ever |
| Ingestion `ingest/`, `api/routes/ingest.py` | inbox, archive and failed directories, `ingested_files`, notes | upload, scan, pipeline | files are moved and replaced under each other; the row comes first and blocks later offers | nothing lost but what a large upload replaced; one true note per content; 'done' means noted |
| Voice `voice/`, `api/routes/voice.py` | indicator, lock, the tap on the orchestrator's broadcast | listen, cancel, done, utterance | the endpoints move the indicator under a running utterance | the broadcast is put back; PILK does not show as speaking while it works |
| Alerts `alerts/` | a table of alerts sent | route | check-then-act | - |
| Governor `governor/`, ledger `ledger/` | overrides; append-only costs | check_budget, choose tier | the check and the spending are apart | the cap stops the next plan |
| Trading `trading/xauusd` | engine state in memory | tick, enter, exit | - | live orders are switched off |
| Brain `brain/`, memory, coding, chat | markdown files, rows | read, write | network, file I/O | mostly data transformation |
| API `api/`, database `db/`, identity, secrets, integrations, projects, clients, migration, configuration, UI | request plumbing, schema, files | CRUD; the hub awaits its listeners in the coroutine that broadcasts | little of its own | - |

How they interact: an endpoint, Telegram or a trigger starts a coroutine in the
orchestrator; the driver calls the gateway for every tool; the gateway asks the gate,
and opens a request in the queue when the answer is "approve"; the operator's
endpoints and buttons resolve requests; cancel_plan reaches from the orchestrator into
the queue; a plan's `delegate_to_agent` tool writes on the orchestrator's stack; a
workflow's operator resumes it through its own endpoint.  Approvals, plans and timers
announce themselves on the hub, which awaits its listeners one after the other in the
announcing coroutine: the cards, the triggers and the Sentinel act inside somebody
else's broadcast.  Telegram, voice and triggers compete with the chat for the one lock
of the orchestrator and listen for the text of its plans.  All state that survives a
restart is in SQLite; queue, rules added by the operator, lock and stack do not.

PROJECT.json lists every component with its status, and the hazards with the line
where each bites and the properties that watch it.

## 2. Modules

| module | models |
| --- | --- |
| `PolicyGate` | the gate and its sub-policies as operators: `Evaluate(call, rules, profile)` |
| `ApprovalQueue` | gateway + queue + trust store + the handlers that decide; extends `PolicyGate` |
| `ToolCallContract` | the abstract specification: what the approval layer promises of one tool call |
| `ApprovalRefinement` | the mapping from the queue to the contract, `ImplementsContract` |
| `MCApprovalQueue` | instances |
| `ApprovalQueueProofs` | theorems about `ApprovalQueue` |
| `Orchestrator`, `MCOrchestrator` | run, agent_run, _execute, _drive, the plans and agents tables |
| `OrchestratorProofs` | theorems about `Orchestrator` |
| `Workflows`, `MCWorkflows` | one workflow run and its requests |
| `WorkflowsProofs` | theorems about `Workflows` |
| `TelegramCards` | the approval cards: one Telegram message per request |
| `TelegramBridge`, `MCTelegramBridge` | the chat bridge; extends `TelegramCards` |
| `TelegramProofs` | theorems about `TelegramBridge` and `TelegramCards` |
| `Faults` | raising statements and restarts, counted; extended by the modules below |
| `Timers` | the timer table and its daemon |
| `Cron` | cron expressions: which minutes an expression matches |
| `Triggers` | scheduler, event listener, fires, toggles; extends `Cron` |
| `Background`, `MCBackground` | `Timers` and `Triggers` composed: a delivery fires triggers |
| `BackgroundProofs` | theorems about `Background` |
| `Sentinel`, `MCSentinel` | scans, dedupe window, incidents, escalation |
| `SentinelProofs` | theorems about `Sentinel` |
| `Intelligence`, `MCIntelligence` | polls, articles, submissions |
| `IntelligenceProofs` | theorems about `Intelligence` |
| `Ingest` | uploads, the scan of the inbox, the pipeline |
| `Voice` | indicator, utterances, the tap on the broadcast |
| `Intake`, `MCIntake` | `Ingest` and `Voice` over one daemon and one bound on faults |
| `IntakeProofs` | theorems about `Intake` |

Definitions headed "Faulty variant" are not part of any specification.  Each is an
action or operator with a plausible mistake in it; putting it in the place of the
definition it varies makes one property fail, which shows that the property depends
on that line of the code.

### ApprovalQueue

State: `pc` is where each call is in `Gateway.execute`; `pending`, `row`, `future` are
the manager's dictionary, its table and the asyncio future; `rules`, `profile` the two
policy stores; `armed` the cancel events; `task` what each request handler is in the
middle of; `resolvedBy` is history.  A handler pops (`Approve`, `Reject`,
`CancelPlan`, `BatchNext`), then awaits the rule's audit row (`AuditRule`), then the
UPDATE (`MarkRow`), then sets the future (`SettleFuture`).  The waiter opens the
request (`OpenRequest`), awaits its INSERT, the broadcast and the future.
`AbandonCall` is `asyncio.wait_for` around the run, `Crash` a restart, `HandlerFails`
and `StatementRaises` (a step's status, the INSERT) a raising statement.

Data: a tool call is a record of plan, agent, tool, risk class, the bindings of its
arguments and whether the orchestrator opens it itself.  The tool names are those of
the never-whitelistable lists and a few others.  A rule's TTL is a nondeterministic
expiry.  In the daemon only the orchestrator's driver calls the gateway, so one call is
in flight (`MaxInFlight = 1`); 2 models the component's own contract.

Left out: the listing endpoints, and the two trust endpoints beyond revocation.  Not
visible in a model: `POST /approvals/batch/approve` is declared after
`POST /approvals/{approval_id}/approve` in `api/routes/approvals.py`, which matches
first, so that the batch is reached from inside the program only.

### Orchestrator

A `Run` is one execution of `_execute`: a request (`Top`) or a delegation.  `pc` goes
through the budget checks (`checking`, `capped`), the wait for the lock (`queued`), the
plan (`creating`, `preflight`, `turn`, `acting`, `closing`; `failing` when a plan whose
row says completed is about to be failed), the hand-offs (`draining`, `handing`) and
agent_run's finally (`leaving`).  `stack`, `depth`, `prior`, `lock`,
`waiters`, `running`, `event` are the fields and locals of the same meaning; `job`
says who runs what for whom.  A model call, its retries and its tools are one
nondeterministic step: another turn, an end, a failure, a delegation.

`Unwind` is what an exception does that no handler of `_execute` catches: the finally
clauses free the lock and forget the running plan, but the frame is not popped and the
row is not finished.  `Expire` is such an exception from `wait_for` (the Telegram bridge
and the triggers run under one), at whatever await the run is in; `StatementRaises` one
from `create_plan`, or from `_fail` and `_cancel` when they end the plan.  `MarkRunningCut`
and `MarkReadyCut` are both, in agent_run's own UPDATEs.  `RereadRaises` is the read
behind the commit of `finish_plan` (`plans.py:79`), which lets the handler rewrite
'completed' as 'failed'.

History: `stopped` the plans somebody asked to stop; `cut` the runs that were cut off
since the boot, "framed" when their frame stayed on the stack; `crowded` the runs that
were under way, past their mark, together with a run of the same agent for another
request.

Left out: steps and costs; the prompt; what `get_plan` returns.  Bounds: `MaxTop`
requests at once, `MaxTurns` turns, `MayRaise`, `MayRestart`, and the finite sets of
requests and delegations.

### Workflows

One run of one manifest; a `Request` is a POST run or POST resume and executes inline.
`status`, `current`, `checkpoint` are the row, `idx` and `ckpt` the request's own
copies, `stepRow` the step table; `did`, `cleared`, `overlapped`, `lost` are history.
The bound is the set of requests.  `failure_behavior` is fixed by Init; 'retry' is
accepted by the manifest parser and behaves like 'stop'.

`Reachable` is the set of step kinds that reach their target.  The daemon builds the
engine with its `Gateway`, which has no method `run`, and without an orchestrator
(`api/app.py:1591`), so there it is `{"note"}`: a tool step fails with an
AttributeError turned into a failed step.  The tests build it without a gateway.  The
runs take all three kinds, so that nothing is checked only because it cannot happen.

### TelegramCards and TelegramBridge

`poll` is the poller (`_run`), `proc` the processor (`_process_queue` and
`_supervise_dispatch`), `dispatch` the dispatch task (`_dispatch`), `peeked` what the
peek task took from `queue`, `parts` the batch under way, `extra` the follow-ups to be
merged into it, `flag` is `_current_dispatch_cancelled_for_follow_up`, `disk` the state
file.  `inbox`, `confirmed` and `fetched` are Telegram's side: what `getUpdates`
returns is what lies behind the offset it was last asked with.  `plan` is the
orchestrator's lock: mine, foreign or nobody's.  `Kill` is `wait_for`'s cancellation
after fifteen seconds at whatever await the dispatch is in.  `Crash` leaves the last
write, an offset whose update was not handled, or a truncated file.

`TelegramCards` is the hub listener of the cards: a card is shown before its message id
is known, a resolution may come before either, and every call to Telegram may fail.
The approval manager is reduced to a request that the first decision pops
(`ApprovalQueue` has the rest).

A file or a voice note may be refused (`MediaRefused`): the operator is told, but not when
Telegram has no path for the file or nothing is heard in the note; such a text is `lost`.

Left out: project commands, chat logs, voice replies, formatting, the length of the
rolling history.  Bounds: the operator's `Script`, taps, `MaxFaults`, and
`MaxTraffic`, which weighs texts, faults, requests and taps so that an instance holds
three texts, or two and a fault, or a text with a card, two taps and a fault.

### Timers, Cron, Triggers, Background

A timer's `row` is the table; a tick of the daemon is `ReadDue`, then for each timer of
the snapshot `MarkFired` (the conditional UPDATE), `Broadcast` and `Pushed`.
`ClaimRaises` is an UPDATE or the read behind it that raises outside the try.

`Triggers`: `job` holds every fire, the tick's own one, those of event tasks and those
of `fire_now`; a fire takes the lock and marks the row (`Fire`), then runs its agent
(`Marked`) until `RunEnds`.  `OnEvent` makes a task for each event trigger that
matches.  `Cron` is the parser's meaning of an expression: lists of numbers, ranges and
stars with steps; all five fields have to match, day of month and day of week too.  The wall clock
is the list `Clock` of minutes; seconds and skipped minutes are nondeterministic.

`Background` puts both on the hub: `Deliver` broadcasts `timer.fired` and fires what
waits for it.  Left out: message texts and payload filters (an event trigger's filter
is part of its event).  Bounds: `Clock`, `Task`, `Click`, `MaxEvents`, `MaxEnabled`,
`Handled`, `MaxFaults`.

### Sentinel

`holds` are the conditions the rules would find; `window` the keys not yet expired;
`scans` a stack of scans per coroutine, because `_handle_finding` broadcasts and the
hub scans again before it returns.  `Raise` is everything from the dedupe test to the
next await; `CreateRaises` and `NotifyRaises` are the INSERT and the webhook; the
intelligence rule reads the database and so has an await of its own (`RulesFail`).
`Escalated` and `EscalationBegins` are the listener of `api/app.py` that hands a severe
incident to the orchestrator.  `Cancel` is a timeout of the run or dispatch that
broadcasts: CancelledError passes all handlers, so that every scan nested in that
coroutine ends, and `cut` notes which incidents were stored and not yet announced there.
In the daemon the supervisor gets no model
(`llm_call=None`), so triage is its fallback and remediation never runs; neither is
modelled.

### Intelligence

`job` holds a poll per source and tick, a request per refresh, dry run or submission.
A fetch goes fetch, then per article look-up, `Insert`, score, note, then `Record`.
`SwallowedRaise`, `CaughtRaise` and `EscapingRaise` are the three fates of a raising
statement, by the try block it is in.  An article is what `canonical_url` makes of its
address; whether its score reaches the threshold (`Hot`) is data.  Left out: topics,
digests, edits of sources, etags, intervals (a source falls due at any moment).

### Ingest, Voice, Intake

`inbox`, `archive`, `rejected` are the three directories, `row` is `ingested_files`
(one row a content, by its UNIQUE index), `notes` the vault.  An upload chooses the
first of the files tried for its name that is not there (`Tried`, `FreePath`: a.txt,
a-1.txt, and a-1.txt is a name as well, so that two names may meet), writes and runs the pipeline in one step when its body is
in memory; a `Spooled` upload is so large that `await upload.read()` suspends in
between (`UploadBegins`, `UploadStored`); nobody looks again, and `replaced` notes what it
wrote over.  `DropByHand` is the operator putting a file into the inbox, which is what
`scan-inbox` is for; he is taken not to write over one.  `Extract` reads the file again and writes the
note without an await, `Fail` and `Archive` move what then lies at the path.
`StatementRaises` covers the statement and the read behind its commit, `ArchiveFails` a
move that raises, which is logged and followed by 'done' all the same.

`Voice`: `state` is the indicator, `queue` the pipeline's lock, `tap` who receives the
orchestrator's events, `engine` who holds the orchestrator.  `Begin` and `Start` are the
two transitions in front of the transcription, with the reset's broadcast between them.
A driver answers, finds nothing or fails.  `settling` is the half second `_route` waits
for plan.completed with the tap in place and the orchestrator free; without an
orchestrator the words are echoed (`Echo`).  A plan and its delegations count as one.

The two share no state.  `Intake` takes them one at a time: Init chooses which of the
two moves, so that one run checks both without their product.

## 3. Runs

Passing runs:

| run | instance | states | shows |
| --- | --- | --- | --- |
| `queue_races` | the mails of 2 plans open at once, 2 handlers, statements may raise | 1.04M | with every resolver racing, bulk approval of both mails included: one owner per request, table and waiter never disagree, verdicts are final, a raising statement costs at most what its handler had popped and nothing else strands a waiter |
| `queue_policy` | a plan's preflight and 2 calls (one under a seeded rule, a mail as the user), 1 handler, 2 profiles, fair | 118k | rules, expiry, revocation and profiles never stand in for a fresh decision; the queue implements `ToolCallContract`; every decision reaches its call |
| `runs_overlap` | a chat and an agent request at once, a delegation, the agent request under a timeout, raising statements, restarts, fair | 386k | a cancel hits its own plan; only a run that was cut off leaves a `running` row or a frame; a finished row is rewritten in one way only; no delegation is copied or lost; the agents table is right within one request; every run returns |
| `runs_alone` | the same, one request at a time, under a timeout, 2 delegations, raising statements | 1.95M | plans drain their own delegations, and a hand-off is never refused |
| `workflow_runs` | 5 steps, 2 gates, 3 requests, fair | 322k | no step twice and no gate skipped unless requests overlap, position and checkpoint always match, a completed run is whole, a run leaves 'running' |
| `telegram` | 3 texts, one with a file, a card with 2 taps, a fault, fair | 297k | whatever is interrupted, killed or merged: no text disappears, nothing is replayed unless a write was damaged, the prompt's history holds answered texts only, cards tell the verdict, every text gets a reply or a notice |
| `background` | 1 timer, 2 cron and 2 event triggers, 2 minutes, a fault, fair | 215k | a cancelled timer is never delivered and a claimed one always, one fire at a time and one a minute, no fire from a run's own events, the lock is always freed |
| `sentinel` | 2 conditions, one severe, one found by the database, a broadcasting coroutine that may be cancelled, a fault, fair | 281k | one incident per key and window through nested scans, each announced unless just its own coroutine was cut off, each lasting condition raised in the end |
| `intelligence` | 2 sources with the same article, a request, a fault, fair | 241k | no article is stored and then passed by unscored or without its note; sources are polled for ever |
| `intake` | 2 uploads of one content for two names that meet, one of them spooled, a file dropped by hand, a scan; 2 utterances; a fault | 480k | nothing is lost but what a large upload replaced, one note per content and true unless its file was replaced; 'done' means noted; the broadcast is put back; the indicator never speaks over a running utterance |

Two calls, two handlers and two plans are enough for the races of the queue: its
properties relate a request with at most two handlers and a plan with its requests. In
`queue_races` both calls can be approved in bulk, so that one handler works through a
snapshot of two requests while the other decides or cancels them; what needs an answer
of its own is in `queue_policy`. Two delegations are what a frame needs for an order;
with overlapping requests one is left, for size. Two gates are the least for which one
can be skipped. Three texts are the least for a merge of two follow-ups into a batch
under way. Two conditions give a scan inside a scan; two uploads whose names meet, of
one content, and a file from elsewhere are the least that can collide. One fault shows
every single failure; a second one is left out for size.

Deadlock is checked in `queue_*`, `runs_overlap`, `sentinel` and `intelligence`, where
something can always happen.  The other instances have finitely many requests and
simply end.

Runs that show the code doing something else than its comments say:

| run | what happens |
| --- | --- |
| `frames_tangle` | two requests pass the busy check while both await the budget check; the running plan's delegations land on the waiting plan's frame |
| `workflow_cancel` | `_execute` never reads the status, so that a cancelled workflow goes on and its cancel is overwritten |

The same models refute more such statements.  Each is defined in its module, with the
text it stands for, and can be put into the cfg of the run named here:

- `MirrorAgrees` (`queue_races`): a decision taken while `request()` inserts the row
  finds no row to update, and the INSERT then writes 'pending' for good.
- `CancelUnblocks` (`queue_policy`): a cancel between the gateway's status update and
  `approvals.request` finds nothing to resolve; the request opens afterwards and nobody
  answers it.
- `TakesOver` with `MaxTop = 2`: a request that slips in between a plan and its
  delegation makes the hand-off raise OrchestratorBusyError, and the rest of the frame
  is dropped.
- `OneReply`, `ReplyIsOwn`, `ChatFaithful` (`telegram`): a killed dispatch may have sent
  its reply, and its text is dispatched again with the follow-up; a dispatch that waits
  for the orchestrator takes the text of the plan it waits for; a card whose answer was
  lost keeps its buttons.
- `NeverReplaces` (`intake`, with `NameOf <- MCSameName` and `DocumentOf <-
  MCTwoContents`): a large upload chose its name before it was read; meanwhile another
  one of that name is stored, and the large one writes over it, though
  `api/routes/ingest.py:112` suffixes "if a same-named file is already there".
- `BusySkips`, `DaemonLives` (`background`): `triggers/scheduler.py:12` promises to skip
  a tick when the orchestrator is busy, but only the fire lock is tested, and the fire
  is marked and fails; `timers/daemon.py:114` says an SQLite blip should not kill the
  daemon, but `mark_fired` is outside the try.
- `NextScanReraises` (`sentinel`): `api/app.py:1074` skips a busy orchestrator because
  "the next scan will re-raise", which the dedupe window prevents.
- `StoredOnce` (`intelligence`): the look-ups and the INSERT of an article are awaits
  apart, and `intel_items` has no UNIQUE index; a refresh, or with `MaxConcurrent = 2`
  another poll, stores the article a second time.
- `AudioAccepted` (`intake`): `voice/pipeline.py:74` accepts audio "even if we missed
  the LISTENING event", but resets to idle, from where the table of transitions has no
  way to transcribing: such an utterance is always refused.  `AnswersOwn` and
  `Transcribes` fail as well: a plan of others ends while the tap is in place; a busy
  orchestrator leaves the indicator at transcribing.

Three more things the code does are not refutations, because the properties exempt them
by a history variable and so say that nothing else goes wrong: a run that is cut off
leaves its row 'running' and its frame on the stack until the next boot (`cut`); a
finished plan is rewritten from completed to failed when the read behind its commit
raises (`RowFinal`); a run of an agent, refused or ended, marks the agent ready while
another request's run of it works (`crowded`).

With `DbMayFail` a raising UPDATE in `cancel_plan` strands the requests it had popped
(that is the exception `FaultContained` and `WaiterCovered` allow).

## 4. Fairness

- Queue: every coroutine that is not waiting for the operator continues (`WF` of each
  call's and each handler's own steps).  asyncio guarantees it.  Nothing obliges the
  operator, a timeout or a crash.
- Orchestrator: every run continues, and a plan does not stay in one turn for ever:
  model calls, tools and the operator's decisions end.  The first two are under
  timeouts of their clients; the third is an assumption, and `CancelUnblocks` shows a
  way to break it.
- Workflows: a request that executes goes on; requests themselves are not fair.
- Telegram: poller, processor and dispatch go on, plans end, calls to Telegram return;
  the operator need not write, nobody need start a plan.
- Background: the timer daemon, the scheduler and every fire go on.  A run of a trigger
  ends: it is under `AGENT_RUN_TIMEOUT_S`.
- Sentinel: scans go on, the periodic one begins again, a window expires.
- Intelligence: jobs go on, the daemon's sleep ends; a fetch is under the client's
  timeout.
- Intake: none; only safety is checked.

## 5. Proofs

Every safety invariant and every action property that a passing run checks is also a
theorem, for every value of the constants, and so is the type invariant of every
specification.  Where a theorem has a hypothesis the table states it; the text below
says why it is needed.

| module | obligations | theorems | hypothesis |
| --- | --- | --- | --- |
| `ApprovalQueueProofs` | 1747 | `TypeCorrect`, `FreshDecisionHolds`, `SingleOwnerHolds`, `VerdictsAgreeHolds`, `VerdictFinalHolds`, `WaiterCoveredHolds`, `FaultContainedHolds`, `NoStandingTrustHolds`, `ContractImplemented` | - |
| `OrchestratorProofs` | 4012 | `TypeCorrect`, `CancelHitsItsPlanHolds`, `RowFinalHolds`, `HeldOnceHolds`, `PhantomFreeHolds`, `FramesBalancedHolds`, `AgentRowHonestHolds` | - |
| | | `ScopedHolds`, `TakesOverHolds` | `MaxTop = 1` |
| `WorkflowsProofs` | 848 | `TypeCorrect`, `CheckpointCoversHolds`, `GateHeldHolds`, `StepOnceHolds`, `CompletedIsWholeHolds` | - |
| `TelegramProofs` | 1376 | `TypeCorrect`, `CardTellsVerdictHolds`, `NothingDroppedHolds`, `StateFileHonestHolds` | - |
| `BackgroundProofs` | 524 | `TypeCorrect`, `TimersKeptHolds`, `OneFireHolds`, `OncePerMinuteHolds` | - |
| `SentinelProofs` | 771 | `TypeCorrect`, `OncePerWindowHolds`, `IncidentAnnouncedHolds` | - |
| `IntelligenceProofs` | 725 | `TypeCorrect`, `ArticleKeptHolds` | - |
| `IntakeProofs` | 799 | `TypeCorrect`, `NothingLostHolds`, `NotesTrueHolds`, `TapPutBackHolds`, `SpeaksInTurnHolds` | - |

The proofs all go the same way.  A strengthening `IInv` is given at the head of the
module; one lemma per action, or per kind of action, shows that it is kept; `Invariance`
states it; each theorem follows from it by a few facts.  TLC checked every `IInv` on the
instances of the runs before it was proved.

**Queue.**  None of the invariants is inductive.  `IInv` says what shape a handler's
progress has (`TaskOK`), that what it holds is no longer pending and has no verdict yet
except between the UPDATE and the future (`HeldOK`), that handlers hold disjoint requests
(`Disjoint`), what having been resolved by somebody implies (`ResolvedOK`), and where a
call can be given its request (`StageOK`).  Agreement of table and waiter, for instance,
needs that only the owner writes either, which needs that owners are unique, which needs
that a popped request is never pending again, which needs that `OpenRequest` happens once.
`FaultContainedHolds` needs only that a request leaves `pending` by being resolved
(`Answerable`), which every raising statement keeps.  `NoStandingTrustHolds` follows from
where rules come from: a rule is made of a request that waited, and what waits either
went through the gate or was opened by the orchestrator itself (`GateFirst`).  It uses
`TrustAssumptions`: what the orchestrator opens itself is no registered tool, and the
rules seeded at boot name no tool that demands a fresh decision.  `ContractImplemented`
simulates the refinement action by action; the steps that need an invariant are those at
which the contract looks at a licence.

**Orchestrator.**  `IInv` relates the lock, `running` and the place of its holder
(`LockOK`), the lock's queue (`QueueOK`), a run's row and its coroutine (`RowsOK`), a
delegation and the run that awaits it (`HostOK`), the frames and everything in them
(`HeldOK`: a delegation waits in one place exactly), and the number of frames
(`FramesOK`).  An exception that `_execute` does not handle skips the code that pops the
frame and closes the row; `RowsOK` and `FramesOK` count such runs (`cut`), and no other
step leaves either behind.  So the three theorems about rows and frames hold for any
requests, timeouts, raising statements and restarts.

The agents table needs a second invariant (`TableOK`): of the runs that work for one
request only one is not awaiting another (`OneEach`), which rests on a delegation having
its host's root (`RootsBorn`), and of two runs of one agent for different requests that
are past their mark both are noted (`CrowdOK`).  Then a run that marks its agent ready
takes nobody's mark away but that of a noted run.

What a plan finds on the shared stack is its own only if nobody else pushes.  With one
request at a time (`MaxTop = 1`, any timeouts, raising statements, cancels and restarts)
the live runs are a request and a line of delegations, each awaited by the one before
it, of which only the last one moves (`Alone`).  That the line has an end is the bound
on delegation depth (`Awaited`: every hand-off goes one deeper).  With two requests both
theorems are false; `frames_tangle` and section 3 show how.

**Workflows.**  What a later request finds in the row depends on what the earlier ones
carry (`Carried`: entries and cleared gates up to their position), on where they can be
(`Placed`), on what the row says of gates (`Parked`) and, for at-most-once, on nothing at
or behind the position of the only executing request having been done (`Apart`).
`CheckpointCoversHolds` and `GateHeldHolds` need no assumption that requests do not
overlap.  For a completed run, what lies before the position of a request under way, or
of a row that may be resumed, is closed (`Closed`).

**Telegram.**  For the bridge: an update is in the inbox once and what is being read lies
just below the offset (`InboxOK`); with a state file that is whole, what was handled is
what is below the offset (`HandledOK`); which stages of processor, peek and dispatch go
together, and that a batch is let go of only once its senders were told (`StagesOK`); a
text is in one place of memory, without repetition (`PlacesOK`); every text taken is in
memory, told of or lost with a crash (`AccountedOK`).  `HistoryOK` does the same for the
prompt's history.  The cards have an invariant of their own, which every step of the
bridge leaves alone.

**Background.**  A claimed timer's row says fired and it was not delivered yet; a task
that answers a run's event is not begun before that run is over (`EchoHeld`); until a
restart no trigger was fired for a later minute than that of the last tick, nor was what
the tick has yet to fire (`StampOK`).

**Sentinel.**  A scan holds a key of the window from the incident to the end of its
announcements, and a scan inside another one is inside such an announcement (`FramesOK`);
no two scans, of whatever coroutines, hold one key (`Apart`).  Since the keys that a
stack holds are different, nesting is bounded by their number: part of
`OncePerWindowHolds`, by a pigeonhole argument.  A cancelled coroutine takes its own
scans with it and no others (`CancelKeeps`).

**Intelligence.**  Where a job stands says which of its article's writes are done
(`JobOK`); polls of one source may overlap only after a fault ended a tick (`WavesOK`).

**Intake.**  One request at a time is between the INSERT of a content's row and the end
of its work, and before its note nobody has noted the content (`OwnerOK`): that alone
gives one note per content.  That the note is true and the file not lost needs that
files stay what they were hashed as (`ContentOK`).  A path that was chosen before a large
body was read need not be free afterwards; what is written over then is noted
(`replaced`), and the theorems say that nothing else loses a file or falsifies a note,
whatever names meet and whatever the operator drops.  For speech: nobody is twice in
line, and only the first in line is at work (`LineOK`).

The proofs assume the named ASSUMEs of the modules, which TLC evaluates on every
instance: null values are not members of the sets they stand beside, constants have their
types, the sets of runs, uploads, updates and keys are finite, a manifest has a step, and
`TrustAssumptions`.  Nothing bounds the number of calls, handlers, requests, texts,
uploads or faults.

Only model-checked: what holds under fairness (`DecisionArrives`, `RunsSettle`,
`RunSettles`, `OutcomeArrives`, `BackgroundSettles`, `UnresolvedRaised`,
`SourcesPolled`).  Liveness and ENABLED are outside what the prover handles.

## 6. Plan

Done: 1 PolicyGate and ApprovalQueue with contract, 2 Orchestrator, 3 Workflows,
4 Telegram, 5 Timers, Triggers and their composition, 6 Sentinel, 7 Intelligence,
8 Ingestion and Voice; 9-12 the proofs of all their safety properties and of the
refinement.

Next:

13. Abstract specifications of further parts, and theorems that they are implemented:
    the plan runner as a lock with a queue of plans, the bridge as a mailbox in which
    every text gets one outcome.
14. Facts about `PolicyGate` for any rules and profiles: what a gate's answer depends on.
15. The refinements of section 7's list.

## 7. Not modelled, and why

Prompt building, model providers and their retries, integrations, browser, coding
engines: clients of something outside, a nondeterministic answer at most; they are the
larger part of the source.  Brain, memory, secrets, clients, projects, configuration,
migration: files and CRUD with one writer.  UI and portal: rendering.

Looked at and left out for a reason:

- Trading: `LIVE_TRADING_ENABLED` is False and the broker reports no positions, so that
  no order follows another; its tools run one at a time inside a plan.  Its states say
  less than the comments do: `trading/xauusd/state.py:101` calls DISABLED "deliberately
  sticky", but the agent's own tool may leave it, and `place_order` does not look at it.
- Alerts: the router is called by its test endpoint only.  Its dedupe and its daily cap
  are check-then-act.
- Governor: `check_budget` is one sum and one comparison at the start of a run, before
  the lock, so that queued runs see a total without each other.

What a closer model of the parts above would still have to add:

- Orchestrator: statements that raise inside `_drive` are `FailPlan` and those of
  `agent_run` are in; those of the step table and the ledger change no state of the
  model.  An agent that was running at a crash stays 'running' in the table.
- Workflows: the reload of manifests under a paused run, which is resumed by index
  (`api/routes/workflows.py:171`).
- Triggers: boot merges the manifests with the table; a toggle whose UPDATE was cut off
  is forgotten.  A restart forgets the minute of the last tick, so that one minute can
  fire twice.
- Sentinel: the goal it hands to the orchestrator.  The listener reads `agent_name`
  (`api/app.py:1095`) of a payload whose key is `agent`, and always says "unknown".
- Intelligence: a feed's etag is recorded although an article of it could not be stored,
  and the article is not offered again (`intelligence/pipeline.py:165`); an article of a
  dry run never gets a note; the backoff is capped at six hours, so that a source with a
  longer interval is polled more often after failures.
- Ingestion: nothing looks at the inbox or at unfinished rows after a restart; a file
  whose row is 'pending' or 'extracting' counts as a duplicate from then on.
