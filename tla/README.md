# Aegis Velocity: formal models of the trading desk

Aegis Velocity is a trading desk for MetaTrader 5, written in Python, with an
expert advisor (EA) inside the terminal. This directory holds TLA+ models of its
core: how one trading intent becomes at most one order, what survives a crash, the
single thread that owns the client, the ledger, the link to the EA, the risk limits
on an order's way, the arming of live trading, and a scan with its backtest. TLC
checks them on small instances; TLAPS proves the main results for every value of the
constants.

Paths below are relative to `src/src/aegis_velocity/` unless they say otherwise.

## The system

| Part | State it keeps | Operations | What makes it correct |
|---|---|---|---|
| Execution engine, `execution/engine.py` | locals of each call; OCO map | `execute_market`, `place_pending`, `cancel_pending`, `resolve_unknown`, `register_oco`, `on_fill_detected` | no key executed twice, no fill reported that is not real, no symbol released with something live, one cancel per leg |
| Intent store, `execution/idempotency.py` | SQLite table `intents`, under the ledger's lock | `try_claim`, `set_state`, queries | a key claimed once, one intent in flight per symbol |
| Startup reconciliation, `execution/reconcile.py` | three snapshots of the broker | `startup_reconcile` | the rows agree with the broker afterwards |
| Gateway, `mt5/gateway.py` | a heap of jobs, a stop event, a backoff | `call`, `apply_backoff`, `stop`; worker; tick pump | order of priorities, no job lost or run twice |
| Broker, `mt5/sim.py`, `mt5/real.py` | orders, positions, deals | `order_send`, listings | - (environment) |
| Ledger, `core/ledger.py` | table `ledger`, journal file, cached tip | `append`, `verify` | the chain verifies; no line of a returned append is lost |
| Bridge `bridge/`, EA `src/mql5/` | connection state, heartbeat times, PROTECT, OCO pairs | accept, read, heartbeat and watchdog threads; `OnTimer` | no entry while the link is lost; the EA alone ends safe |
| Risk, `risk/`, `core/anchors.py`, `execution/preflight.py` | counters and anchors in JSON files; fuse, breaker, account cache in memory | `size_position`, `evaluate`, `record_*`, `roll`, `run` | caps and halts hold over concurrent orders and restarts |
| Arming, `arming.py`, `runtime.py` | the token file | `activate-live`, `promote-live-full`, `emergency-stop` | what a human stopped, only a human starts |
| Council and cost, `consensus/`, `cost/` | spread history, news calendar | `decide`, `evaluate` | the verdicts that can come out are the ones meant |
| Runtime, `runtime.py` | window, cooldowns, counts | `_scan_loop`, `Desk.stop`, `backtest_cli` | the ledger tells what was decided |
| Backtest, `backtest/tick_engine.py` | none | `run_signal`, `run_strategy_over_ticks` | no look-ahead, one position at a time |
| Auditor, clock, strategies, promotion, dashboard, real client | - | statistics, patterns, conversions, reports | numeric, or read-only |

Engine and reconcile talk to the broker only through the gateway, whose `call`
blocks its caller for at most `call_timeout_s`; a job whose caller timed out is
still executed. The intent store and the ledger share one connection and one lock.
Commands such as `emergency-stop` are processes of their own on the same files. In
this commit `runtime.py` builds the desk's parts and runs the scan, which decides and
records; engine, bridge, preflight and the risk commander's `evaluate` and `record_*`
are driven by the tests only, and the models take the order of their calls from there
and from the docstrings. `startup_reconcile` runs from the `reconcile` command.

What is hard here: late executions of timed-out sends; acknowledgements that lie;
answers that are lost; markets that move between two queries of one decision; a
crash between any two writes; two processes on one file; a watchdog beside a reader;
limits that are checked before and counted after; verdicts that grow old on the way.
`PROJECT.json` lists each hazard at its line.

## Modules

| Module | Models | Proofs |
|---|---|---|
| `IntentProtocol` | abstract: what engine, store and broker promise about an intent | `ExecutionProofs` |
| `ExecutionEngine` | engine, store, the P1 jobs of the gateway, broker | `ExecutionProofs` |
| `Straddle` | `ExecutionEngine` plus the OCO backstop and the EA's OCO table | `StraddleProofs` |
| `Recovery` | `ExecutionEngine` plus crash, restart and `startup_reconcile` | `RecoveryProofs` |
| `Gateway` | the gateway's heap, worker, backoff and stop | `GatewayProofs` |
| `LedgerChain` | ledger and journal, several processes | `LedgerProofs` |
| `Bridge` | bridge server and EA, their link and PROTECT | `BridgeProofs` |
| `Sizing` | `size_position`, a pure function in integers | `RiskProofs` |
| `Arming` | the token and the three commands that write it | `RiskProofs` |
| `RiskDesk` | `Sizing` and `Arming` plus guards, anchors, preflight and kills | `RiskProofs` |
| `Council` | `decide`, cost gate, liquidity, sessions, news: pure functions | `DeskProofs` |
| `Backtest` | `run_signal`, a pure function | `DeskProofs` |
| `Desk` | `Council` and `Backtest` plus the scan, the pump, `Desk.stop` and the backtest's walk | `DeskProofs` |
| `MCExecution`, `MCStraddle`, `MCRecovery`, `MCRisk`, `MCDesk` | instances for TLC | |

### ExecutionEngine

A member of `Calls` is one invocation of `execute_market` or, for keys in
`PendingKeys`, `place_pending`, on its own thread; `pc` is where it is. `row` and
`ticketed` are the key's row of the `intents` table (`"NONE"`: no row). `queue` holds
the calls whose `order_send` job the worker has not executed, `canc` the
`cancel_pending` of a key. `exec` counts how often the broker executed the key's
request and `obj` is what became of it: resting, open, closed, or gone (expired or
removed). Each action is one handler of the code between two points where another
thread may act:

* `LookUp`, `TryClaim`: `_claim`. The two reads of the store are separate critical
  sections, so both calls with one key may pass the first.
* `FuseCheck`, `Send`: the fuse check, then `record_send` and the push of the job.
* `ExecuteSend`: the worker runs a job. The broker may execute it or not, answer
  truthfully, lose the answer, or give a success reply in `LyingAcks` without
  executing. The five refusals whose handling ends in a reject are one value.
* `Read...`, `RetryRefresh`, `RecomputeStops`, `RetryOnce`, `SwitchFilling`: the
  retcode loop, branch by branch. `ReadUnknown` includes the timeout, which leaves
  the job queued.
* `VerifyFill`, `VerifyPlaced`, `ResolvePositions`, `ResolveOrders`, `ResolveDeals`:
  verification and the unknown-outcome protocol, one step per query.
  `QueryFails`: a query times out; the exception is not caught and the row stays.
* `CancelSend`, `CancelExecute`, `CancelTimeout`, `CancelReturns`: `cancel_pending`.
* `Trigger`, `Expire`, `Close`: the market.

A query and its caller's use of the answer are one step. This loses no behaviour
that matters: between them only the broker and other calls move, an answer such as
"open" is written to the row of the same key whose owner is alone to write it, and
the object could as well have moved just after the step. One cancel per key at a
time: a second one can only fail at the broker, or change nothing. `QueryRuns` lets a
query run only when no P1 job is queued. `Gateway` discharges that assumption: its
`NoOvertaking` says that a P2 or P3 job pushed after a P1 job runs after it.

The ledger rows an execution writes, prices, volumes and the halt callback are left
out. `record_send` may blow the fuse at any send; `RiskDesk` counts what it counts.

### Straddle

A member of `Detections` is one call of `on_fill_detected`; two may report the same
fill, and both legs may fill. `Detect` pops the pair, `Check` reads `_oco_cancelled`,
`Mark` pops the sibling and marks it, `LooksUp` asks for the orders, `SendsRemove` and
`ExecuteRemove` are the REMOVE and its execution. The EA learns the pair (`EaLearns`)
and deletes the other leg when it sees a transaction (`EaSeesFill`), as the primary.
The row of a leg that was removed this way stays PLACED: nothing in the code writes it.

### Recovery

A crash at any step loses the calls, the heap, the fuse and the snapshots; the store
and the broker stay. `startup_reconcile` then runs alone: `PositionsGet`, `OrdersGet`,
`DealsGet`, and four loops that write one row per step, so that the process may die
again between any two writes and the market may move between any two queries. A deal
may be older than the 48 hours it asks for (`aged`), a human may have closed a position
or removed an order (`byHand`); `flagged` are the keys it reports as overridden.
`SettledByBroker` says what a completed reconcile guarantees of every row. It excepts
the row a crash left PLACED without its ticket between the resolve and the match loop.

The abstract protocol is not checked here, because it does not hold across a
reconcile: an UNKNOWN_OUTCOME row whose order triggers after `orders_get` is listed
both as an order and by its deals, so the reconcile writes FILLED and then PLACED,
which takes the symbol a second time.

### Gateway

A job is its sequence number, drawn before the heap's lock is taken; so a job may be
pushed after one with a larger number. `held` is the job between its pop and its end
or its return to the heap. `ahead` remembers what was unsettled when a job was pushed.

### LedgerChain

A process is one CLI invocation with one `Ledger` object. Its lock makes an append one
at a time within the process, and only SQLite's write lock orders processes. An append is
`Commit` (INSERT and COMMIT, durable because of `synchronous=FULL`), then, if the process
has a journal, `Write` (write and flush) and `Sync` (fsync), then `Return`. `acked` is the
history of every append that returned, in whichever process: `emergency-stop` opens the
ledger without a journal path, so its append returns after the commit. The process may die
between any two steps. `JournalFails` is an exception in the journal's part: the tip has
moved on, and half a line may be left in the file (`half`), which the next line is written
behind; such a line is there but cannot be read (`whole`). `PowerFails` ends all processes
and leaves of the lines that were not fsynced (those after `synced`) any prefix, perhaps
with half of the next. A hash is the sequence of facts it commits to (SHA-256 taken as
injective).

`JournalFollowsChain` says what the code keeps of its promise, "flushed+fsynced per fact": a
fact whose append returned in a process with a journal has its line on the disk, and the line
can be read unless half a line was ever left (`torn`); the journal has nothing the ledger
lacks. The two exceptions are in the property because the code has them: see the
disagreements below.

### Bridge

Python has the accept thread, which also reads the one connection it serves
(`Accept`, `Greet`, `ReadHello`, `ReadAck`, `ReadHeartbeat`, `ReadEnds`,
`DeclareLost`), the watchdog, whose look and whose write are two steps (`Look`,
`Declare`), and `Stop`. The EA is single-threaded: one `OnTimer` pumps the socket,
sends its heartbeat or connects again, sets or clears PROTECT and cancels resting
orders once PROTECT has lasted. Connections are numbered; the kernel accepts one before
Python does; one that broke loses what was in flight and each side notices in its own
time. Half a line left in the EA's buffer spoils the first RESYNC of the next
connection (`garbled`). Silence is counted in ticks up to one more than the grace.
Heartbeats are not messages: one refreshes the other side's silence or it does not.

### Sizing, Arming, RiskDesk

`Sizing` is `size_position` in integers: volumes in the finest unit, money in coins,
fractions in ten-thousandths. Floats divide inexactly in the code; here `\div` does not.

`Arming` has the token file and its writers, each a process whose check and write are
steps of their own. Account, server and configuration hash are one value, the setup,
which somebody may edit at any time. `clean` remembers an emergency stop that caught no
ceremony past its check.

A member of `Slots` in `RiskDesk` is a thread that takes one order through `Size`,
`Evaluate`, `Preflight`, `AccountAnswers`, `Gates`, `OrderChecked`, `Enter`,
`SendFails` or `SendFills`, `RecordGlobal`, `RecordSymbol`, `ReadCanary` and
`CountCanary`. `disk` is what the two JSON files keep, `mem` what dies with the process
(fuse, slippage breaker, account cache), `broker` the permission to trade and every fill.
A kill happens between any two steps, and between the three writes of `roll`. A position's
end is recorded in two steps (`RecordLoss`, `RecordStreak`), one close at a time. `since`
is history: since when each veto has stood. Every loss is one R. The tick, cost and key
gates of the preflight are one refusal (`Abandon`). `Limits` and `Correlations` are the
validators of `core/config.py`.

### Council, Backtest, Desk

`Council!decide` is the council with everything it asks: cost gate, reward gate, spread
cap, liquidity window, sessions, news, and the graded quality score, in tenths of a
point, minutes and ten-thousandths. Market time is one clock here: the cost engine hands
the broker's time to a calendar that is in UTC, a difference the model does not have.

`Backtest!run_signal` is a function of the ticks, the signal, the time of the decision
and the latency drawn. Prices are in quarters of a point, so that the stressed spread is
an integer.

`Desk` runs both. `Deliver`, `RunStrategy`, `SeeSignal`, `AppendSignal`, `Decide`,
`AppendDecision` and `AppendRaises` are `on_tick`, on the main thread of a simulation or
on the pump's thread at a terminal; `ReadSignals`, `ReadDecisions`, `SumUp`,
`StopGateway`, `CloseLedger` are the main thread; `Kill` ends the process. A later process
loads what was recorded (`Load`) and walks it (`Walk`). One symbol; a strategy gives any of
a small set of signals.

## Runs

| Run | Instance | Shows |
|---|---|---|
| `execution` | a market key `m` (two calls) and a pending key `n` on one symbol, with its cancel; both acks may lie | all safety, refinement and liveness of the order path; 79 000 states |
| `straddle` | pending legs `p`, `q` of one OCO group, two detections, the EA | cancels racing triggers, expiries and each other; 2.3 million states |
| `recovery` | pending key `p`, market key `m` with two calls; two crashes | restart, and a crash during the restart; 1.5 million states |
| `gateway` | two callers, three priorities, three jobs, one backoff | order, no loss, no double run, progress; 487 000 states |
| `ledger` | three processes, two with a journal, three rows | the chain and the journal over crashes, failing writes and power failures; 478 000 states |
| `bridge` | two connections, graces of one tick, one order | no entry without a resync, and what each side ends in |
| `risk` | two threads, two symbols, two ceremonies; eleven bounds | limits, vetoes, fuse, canary and token; 533 000 states |
| `desk` | two strategies, up to four ticks; three bounds | ledger against scan, verdicts, replay; 1.3 million states |
| `retries`, `stranded`, `abandoned`, `forked` | as above | the disagreements below |

Why these bounds: a violation of the engine's properties involves two calls with one key,
or two keys of one symbol, and at most one cancel; the three calls of `execution` give
both at once, and a straddle has two legs. Sends per call need no bound, the code has one.
Two crashes are the first number at which a reconcile meets its own half-finished work. In
the gateway three jobs are needed for one to be overtaken while another is held. In the
ledger a fork needs two processes and two rows; three rows and three processes let one
process reopen after the others appended, and a line follow a half line and a lost one.
The bridge needs a second connection for an answer to the first to come late, and a tick
more than the grace for a silence.

`MCRisk` and `MCDesk` do not multiply everything with everything: a behaviour starts with
a choice of what may happen in it. `CapsBound` has three fills, closes and a passing hour,
`KillBound` the same with a kill, `PairBound` two symbols, `LossBound` losses and the
pauses and cooldowns they start, over a restart, `SlipBound` slippage, `SendBound` retries
against the fuse, `HaltBound` equity that falls and recovers over a kill in `roll`,
`CanaryBound` and `LiveBound` the canary count over kills and modes, `ArmingBound` the
ceremonies beside it, `AccountBound` a withdrawn permission. Caps and windows are one or
two, so that two threads reach them. The two slots are symmetric, nothing else tells them
apart and no liveness is checked there. `scan` has two ticks and failing appends, `test`
four ticks without spread, `wide` three with one. In `desk` the series of ticks is what is
enumerated: every series is delivered, and `NoLookAhead` compares each with its extension
by any tick. Deadlock is not checked: calls end, gateways stop, clocks and ledgers fill up
to their bounds, and a system at rest is then right.

What the models take of the environment, for the properties to be read with:

* The broker executes a request before `order_send` returns, or never. A crash empties the
  gateway's heap, so a request handed to the terminal is executed or lost before the desk
  is up again.
* A REMOVE that is answered with DONE deleted the order, as `cancel_pending` takes it to
  have. It may be refused, with the order resting on, and the answer of one that deleted it
  may be lost.
* `MaxJobs` bounds the arrivals at the gateway. An endless stream of more urgent jobs would
  starve a less urgent one, by the design of the heap; `JobsSettle` shows what a finite
  number of them leaves.
* The bounds of `risk` reach some of the vetoes of `VetoesBite` (halts, storm, churn,
  permission) and, of `CapsOvershootBySlots`, only the hour's cap can be exceeded in them. For
  the other vetoes and caps the theorems of `RiskProofs` are what stands behind these
  properties.

What the properties of the components say:

* `EntriesNeedResync`: CONNECTED only if the EA answered a resync on the connection that is
  served now; the watchdog, which sets LOST from a state it read earlier, cannot break it.
* `SilenceEndsEntries`, `LinkLossIsSafe`, `LinkComesBack`: a hung EA ends the entries; an EA
  without a connection ends protected with nothing resting; a link that works is in the end
  CONNECTED, or LOST on a connection that is alive (`Stranded`), which only a reconnection
  or an answer in flight ends: heartbeats do not.
* `CancelsOnce`, `BackstopFrees`: at most one REMOVE per leg, and after a detection that got
  the pair the other leg does not rest, unless the broker refused a deletion, which the code
  ignores.
* `VetoesBite`: every halt, cap, cooldown and pause that has stood without a break for longer
  than a verdict may be old stops the order, over restarts where its state is on disk; the
  withdrawn permission within the cache's life. It compares with the time the caller gives
  `run`, as the code does: the check of the verdict's age does not count the wait for the
  account.
* `CapsOvershootBySlots`: the caps are checked before and counted after, so they do not hold;
  they are exceeded by less than the number of threads, and by fills whose record a kill lost.
* `SendsAreFused`: after the fuse blew, only what was already past its one check still sends.
* `FullSizeIsEarned`: the lost updates of the canary count only make the canary longer.
* `ReArmNeedsHuman`: see `Arming`. Without `clean` it fails: a promotion past
  `validate_token` rewrites the token an emergency stop has just invalidated.
* `LedgerTellsTheScan`: decisions follow their signals, one each; a summary is exact in a
  simulation, and at a terminal it may be ahead of the ledger by one signal and one decision
  plus what failed.
* `ScanVerdicts`: two of the four verdicts never come out of a scan, and at a terminal no
  approval does, because only the simulated walk fills the spread history.
* `FillsAreApart`: positions do not overlap, and a loss beyond the stop only happens to one
  that was entered at the last tick.

### Disagreements with the documentation

Shown by a run:

* `retries`: `MAX_TOTAL_RETRIES` bounds only the refresh retries, so a call may send six
  times (`engine.py:35,115`, `tests/test_execution.py:44`). `SendsAreBudgeted` is the true bound.
* `stranded`: the reconcile looks at UNKNOWN_OUTCOME rows only; a call that died ARMED
  with nothing at the broker locks its symbol for ever (`reconcile.py:65`).
* `abandoned`: an order that triggers between `positions_get` and `orders_get` is in
  neither; its row is released as a manual override while its position is open
  (`reconcile.py:47-54,133-149`, against line 90).
* `forked`: `emergency-stop`, documented for "any time" (`BUILDLOG.md:315`), appends from its
  own process; a running desk then appends after its stale tip, `verify()` fails from
  then on and `activate-live` refuses.

Met while modelling, in the models as the code has it, without a run of their own:

* `risk/guards.py:1` says "restart-safe"; the storm fuse and the slippage breaker are in
  memory and a restart resets them without the manual reset they ask for.
* `core/anchors.py:25` says a corrupt file makes the halts "re-derive conservatively"; the next
  `roll` takes the current equity as every anchor, and every loss is then zero.
* `runtime.py:563` announces minimal-lot sizing after an activation; the count of an earlier
  canary is not reset, so a second activation starts at full size.
* The `emergency_stop` row (`runtime.py:397`) is read by nothing: a running desk goes on.
* The same command opens the ledger without a journal path, so its append returns with the
  fact in the chain and never in the journal, "flushed+fsynced per fact" (`core/ledger.py:4`;
  `tests/test_ledger.py:68` is `test_journal_mirrors_every_fact_durably`). With `cli` in the
  run `ledger`, `JournalFollowsChain` fails without its `a.by \in Journaling`, in three steps.
* A journal write that fails (a full disk) may leave half a line; the next append of the same
  process writes its own line behind it and returns, fsynced, and its fact cannot be read from
  the journal (`core/ledger.py:114`, against the same lines). `JournalFollowsChain` fails
  without its `torn`, in one process.
* `apply_risk_tightening` (`core/config.py:381`) does not compare the loss-velocity pause, the
  micro cooldown, the slippage breaker, the spread and slippage caps and `canary_fills`.
* `drift_halt` (`core/clock.py:65`) is assigned at every tick, so a jump beyond the DST
  threshold clears it, and nothing reads it.

## Fairness

`ExecutionEngine!Fairness` asks only that a thread inside the engine takes its next step
when it can. That is the operating system's scheduling together with the timeout of
`Mt5Gateway.call`: every wait has an end that depends on nobody else (`ReadUnknown`,
`QueryFails`). Nothing is asked of the worker, the broker or the market, and a call that
was never entered need not be. `Gateway!Fairness` asks that the worker thread is scheduled
and that a client call returns (`WF_vars(Worker)`), and that a backoff, which is a point in
time, passes; at most `MaxBackoffs` new ones are applied. Callers get no fairness.
`Bridge!Fairness` asks that the reader and the watchdog are scheduled, that time passes, and
that the EA's timer fires while the terminal runs it: `FullTimer` is a timer that finds what
was sent, whose heartbeat is due and whose deletions the broker carries out, as one of them
does sooner or later. Nothing is asked of the network, of the terminal's hanging, of the
heartbeats' arrival or of people; what a property needs of them is its premise.

## Proofs

Every safety invariant and every action property of the passing runs is stated by a
theorem. Assumptions: those each module states of its constants. `EngineAssumption` (every
call has a key; `PendingKeys` are keys; lying acks are success replies), `StraddleAssumption`
(there are legs, and each has exactly one sibling), `RecoveryAssumption` (a number of
crashes), `GatewayAssumption`, `LedgerAssumption` and `BridgeAssumption` type their
constants; `RiskConfig`, `ArmingConfig`, `RiskDeskConfig`, `CouncilConfig`, `BacktestConfig`
and `DeskConfig` are what the configuration's validators let through, and say of the bounds
that they are well formed (quotes are requests, an order is sent once at least, windows and
strides are positive, ideas are lists of signals). Keys, calls, symbols and groups are
arbitrary, also infinite, sets; the threads of `RiskDesk` are finitely many and at least one.
One theorem has a hypothesis of its own: `ApprovalsAreSimulated`, below.

* **ExecutionProofs.** None of the safety properties is inductive: that a request may
  be sent again depends on what the broker did before. `Core` adds, per key, who owns
  it and what that owner knows: one call at most owns a key (`OneOwner`); while it does,
  the row says how far it got (`OwnedRow`); a queued send is the only one of its key and
  nothing of it is executed (`QueuedSend`); a call about to send knows the key is unexecuted
  and not on its way (`BeforeSend`); a refusal means no execution (`Answered`); once a
  later query was answered the send is over (`SendIsOver`); a placement that is recorded
  exists (`PlacedIsReal`). `IInv` is `Core` with `ReleasedIsDead`; they are apart because a
  reconcile keeps the first and not the second. One lemma per action shows them preserved.
  From them follow `TypeOK`, `NoDuplicateExecution`, `FilledIsReal`, `ReleasedIsDead` and, with
  a lemma that only `Send` raises `attempt`, `ResendOnlyIfAbsent`. Under `IInv` every step is a
  claim, an execution or a release of the abstract protocol, or a stutter (`Refines`); so
  `OneInFlightPerSymbol` is the abstract theorem `Exclusion` carried over. `SendsAreBudgeted`
  follows from a count per place in the loop.
* **StraddleProofs.** Nothing that the backstop or the EA does to an order is more than what
  the market may do, an expiry: so every behaviour of the composition is one of the engine
  (`StraddleIsEngine`), and the engine's theorems hold of it as they are. The backstop's
  own two rest on `OcoInv`: an entry popped from the map does not come back and one
  detection has it, a REMOVE was sent by a detection that is past sending it, and what is
  ticketed is settled, so that an order that no longer rests never will again
  (`TicketSettles`). Two detections that removed the same leg would have popped the same
  entry.
* **RecoveryProofs.** A crash and a reconcile preserve `Core`: nothing is queued once the
  process is down, so a write to a row only has to be true of the broker. `RInv` says why it is,
  for snapshots taken one after another of a moving market: what one listed was there
  (`SnapshotsTrue`); what is live is in one of them, though not in each
  (`SnapshotsComplete`); a resting order holds its symbol (`RestsHeld`), and so does a row that
  the reconcile is about to make PLACED (`HoldersApart`); and each loop has done
  what it has visited (`LoopsDone`). The last gives `SettledByBroker`, a property of the step
  that ends the reconcile; the second-last gives one intent in flight per symbol although the
  reconcile may put a settled row back in flight.
* **GatewayProofs.** `NoOvertaking` speaks of jobs that ran; the invariant says it of the
  held job too (`InOrder`): a job leaves the heap only when the more urgent ones that were
  ahead of it are answered. It also ties the held job to the worker's place (`Holding`) and
  job numbers to what was pushed (`Fresh`); `AnswersAreTrue` is a conjunct.
* **LedgerProofs.** Unless the ledger was shared, one process at most has it open and its
  tip is the hash of the last row; so each append extends the chain. `Journaled` follows
  an append through its steps (`JInv`): the fact of a line that was written is in the file
  (`InFile`) and can be read unless half a line was left (`Readable`), after the fsync
  among the lines on the disk (`OnDisk`), and from the return on it stays there (`Kept`),
  because nothing takes a line that was fsynced and an fsync takes the other processes'
  lines along. Facts are numbered in the order of the rows and no line is without a row
  (`Numbered`, `Rowed`). Unless the ledger was shared, a line that is about to be written
  is that of the last row (`PendingIsLast`, from the chain itself) and later than all
  there are (`Behind`), although writes fail and are skipped.
* **BridgeProofs.** a state that allows entries belongs to a served connection that the EA
  answered, with the reader still in its loop or just out of it; an acknowledgement in
  flight on a connection means the EA answered there (`ResyncInv`).
* **RiskProofs.** `SizesAreSound` goes through the branches of `size_position`: rounding down
  never raises the loss, and the cap's volume is below the wanted one. `ReArming`: while
  `clean`, the token on disk is not live, no activation types and no promotion is past its
  check (`ArmInv`). `FullSizes` counts: the canary count on disk, with what the threads are about to
  add to it, is at most the number of canary-sized fills there really were; a lost update
  makes it smaller. `RiskTyped` needs that what is on disk is of fills there were
  (`Related`). `FusedSends` gives each thread past the fuse the sends it has left (`Budget`, a
  set that is counted): a send after the fuse blew takes one of them, and no thread joins.
  `CapsOvershoot` counts the positions open together with the orders approved and still in a
  thread's hands (`Committed`): every step approves one more, which the cap checked against what
  was open, or fills one, or only lowers the counts (`OrderCaps`); the hour's cap has the
  threads about to record in place of those on disk, and the sum of the open risk needs that a
  sum over a finite set does not depend on the order, which is proved by well-founded
  induction on its subsets. `VetoesBiteInTime`: a check that rejects at some time rejects an order
  of an earlier time; an anchor that moves moves to the equity, which ends the halt; so an order
  sized before a veto began and not rejected since is already older than a verdict may be
  (`VetoInv`).
* **DeskProofs.** `LaterTicksDoNotMatter`: the ticks a signal may enter at and the ticks that
  end a position only gain members after those there are, so the first of them stays.
  `OnePositionAtATime` walks the windows with `openUntil`: it is never before the last exit, and
  an entry is never before its decision (`Walked`). `NothingBetween` and `CostGateCoversRR` are
  arithmetic over the gates. `ApprovalsAreSimulated` carries the first to every state of the scan;
  its hypothesis is that every quote costs something (`EveryTradeCosts`), as those of the `desk` run do: a trade that costs nothing
  passes the cost gate with no headroom, which is scored zero, and may be approved with a
  reduced size. It also needs that
  at a terminal no spread was ever recorded, so that the liquidity window is shut.
  `TheLedgerTells` numbers the rows: ids are given once, to a signal and then to its decision
  (`Ids`); the rows are as many as what was counted, less the appends that failed and the one in
  hand (`Numbers`); what the main thread has read of the counts is not more than they are now
  (`Readings`), and a summary tells what was read (`Summaries`).

Only model-checked: liveness (`CallsReturn`, `JobsSettle`, `SilenceEndsEntries`,
`LinkLossIsSafe`, `LinkComesBack`), which is out of the prover's reach, and the four runs that
expect a violation, whose counterexample is the result. Out of reach too: ENABLED, and
induction over data. The provers know nothing of `SelectSeq`; the sends of the last minute and
the samples of the same hour are therefore sets in the models, with a send told apart
by its number, and the folds are those of the community modules.

## Plan

Done: all modules above and the theorems about their safety. What is left, in this order: what a
refused deletion and an order that triggered during a reconcile mean for the abstract protocol,
as a weaker protocol that `Recovery` does implement; the refinement of `LedgerChain` by an
append-only log of facts; the percentile and the
quality score of `Council` as lemmas (a percentile is one of its samples and grows with its
rank); the monotonicity of `size_position` in the equity and in the stop; the stop-loss
enforcement of the reconcile together with the EA's own stops.

## Not modelled

* The real client (`mt5/real.py`, `mt5/symbols.py`) converts data to and from a package that
  is not in the repository.
* The auditor (`audit/`) is never given a fact under `src/`; its statistics, and those of
  `pipeline/promotion.py`, are floating-point formulas over finished data.
* The strategies are patterns over floating-point ticks: whatever they give, `Desk` may be
  given.
* The EA's break-even, trailing, time stop and spread exit act on prices; its mailbox repeats
  what the socket carries.
* The clock's offset, the event bus, masking, the doctor, the dashboard and the report commands
  change nothing that the modelled parts read.
* `core/state.py`'s transition table is called by its tests only.
