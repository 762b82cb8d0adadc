# A TLA+ model of the Swapica indexer

The indexer reads the events of one Swapica contract from one EVM network and
writes the orders and matches they tell of to the order aggregator, which the
code calls the *collector*.  Its promise is small and easy to break: **every
event reaches the collector, in the order of the chain, whatever fails on the
way**.  This directory holds a TLA+ model of the service, TLC runs on small
instances of it, and TLAPS proofs about it for every instance.

Paths below are relative to the repository.

## 1. The system

| Part | Where | State | Operations |
|---|---|---|---|
| Command line | `internal/cli/main.go` | none | parse, run the service, log a panic and end |
| Configuration | `internal/config/` | values read once (`comfig.Once`) | `Network` (checks the file, dials the nodes), `Collector` |
| Contract bindings | `internal/gobind/Swapica.go` | per call: a channel, a producer goroutine | event types and ABI (used by the service); iterators and watches (not used by it) |
| Service start | `internal/service/main.go` | none | `getLastBlock`, choose `run` or `runWithoutWs`, hand it to `running.WithBackOff` |
| Indexer loop | `internal/service/indexer.go` | `lastBlock` | `run`, `runWithoutWs`, `handleUnprocessedEvents`, `waitForEvents`, `handleEvent` |
| Event handlers | `internal/service/events_handlers.go` | none | one per event: unpack, ask whether the row exists, write |
| Collector helpers | `internal/service/helpers.go` | none | `addOrder`, `updateOrder`, `orderExists`, their twins for matches, `updateLastBlock`, `filters` |
| Request bodies | `internal/service/requests/` | none | one constructor per body |
| Retry loop | `vendor/.../running/incremental.go` | current pause | `WithBackOff`, `RunSafely` |
| Log subscription | `vendor/.../go-ethereum/rpc/subscription.go` | buffer, channel, error channel | a forwarding goroutine between the client's dispatcher and the indexer |
| Collector client | `vendor/.../json-api-connector`, `vendor/.../signed` | token bucket | status to error, one request a second after a burst |
| EVM network | outside | blocks and logs | `BlockNumber`, `FilterLogs`, `SubscribeFilterLogs` |
| Order aggregator | outside | rows, the reported block | GET, POST, PATCH |

How they interact.  `cli.Run` calls `service.Run`, which asks the collector for
the block it was told last, or takes `override_last_block` if the collector
answers 404.  The indexer then runs in one goroutine.  With a websocket, `run`
reads the block number, subscribes, backfills up to that number, and handles
pushed events for ever.  Without, `runWithoutWs` backfills, then asks for new
logs on every tick.  Each log goes to the handler of its event: creations ask
first whether the row is there and are POSTed (409 counts as success), updates
are PATCHed (404 is an error).  After each log its block is reported to the
collector.  Any error, and any panic, ends the run; `WithBackOff` calls it again
on the same indexer value, so `lastBlock` survives errors but not restarts.

What is hard here:

* two sources of events (backfill and subscription, or backfill and ticks) that
  must neither leave a gap nor rely on an overlap that is not there;
* three notions of progress: `lastBlock` in memory, the block in the collector,
  and what has really been written;
* failure between any two calls, with the write performed, not performed, or
  performed *later*;
* a crash, after which only the collector's block is left;
* a log that is lost does not stay a local loss: a later update of that order is
  answered 404, and the indexer stops at it;
* a provider whose nodes do not all know the latest block;
* three goroutines behind a log subscription that wait for one another;
* numbers that the contract counts in uint256 and the service in int64;
* a start that ends the process on any error, and a loop that never does.

`PROJECT.json` lists the hazards one by one, at the line where each bites, with
the properties that would catch it.

## 2. The modules

| Module | What it is |
|---|---|
| `Chain` | the network: a script of logs, blocks mined at any time with any of the next logs in them, `eth_getLogs`, nodes that lag |
| `Collector` | the aggregator's rows and reported block, what each write does, the existence check; *late* writes |
| `Indexer` | the service: both modes, every call a step of its own, with failures, crashes, restarts |
| `IndexerProps` | what it promises: type, safety, action and liveness properties |
| `OrderFeed` | the service with every mechanism left out: logs are delivered one by one, in order, none forgotten |
| `EventQueue` | a log subscription with every mechanism left out: logs in order and without a gap, up to a point where it may break |
| `LogSubscription` | the subscription of go-ethereum: dispatcher, forwarding loop and indexer, buffer and channels |
| `Process` | from the command line to the indexer's loop: configuration, dialling, start, exit, restart; extends `BackOff` |
| `BackOff` | `WithBackOff` and its timer: how long the pauses between two runs are |
| `Requests` | what becomes of the contract's numbers in request bodies and rows |
| `Bindings` | the generated iterators and watches of the contract's events |
| `Chunks` | the chunk loop of the backfill in uint64 arithmetic |
| `MCIndexer`, `MCProcess`, `MCRequests`, `MCBindings` | scripts, configuration files, statuses and logs for TLC |
| `IndexerInv` | the inductive invariants of `Indexer`, in named parts, and the conditions they need |
| `IndexerProofs` | types; the indexer uses its subscription as an `EventQueue` |
| `LossProofs` | both modes lose only what no node showed; the polling mode skips nothing, keeps the order, reports soundly, implements `OrderFeed` |
| `RowProofs` | both modes never go back, and leave the contract's own rows; the polling mode finds its rows and sends nothing twice |
| `ChunksProofs`, `ProcessProofs` | the safety properties of `Chunks`; of `Process` and `BackOff`, with the induction that the doubling of the pauses takes |
| `SubscriptionProofs` | `LogSubscription` implements `EventQueue` |
| `RequestsProofs`, `BindingsProofs` | the safety properties of `Requests` and `Bindings` |

`Indexer` extends `Collector`, which extends `Chain`.  The others look closer at
one mechanism each.  Two of them are tied to `Indexer` by a specification in
between: `LogSubscription` implements `EventQueue`, and `Indexer` uses its
`sub` and `queue` as one (`SubscriptionAsQueue`).  `Process` runs `BackOff` as
its last stage.  `Requests` handles one log after the other and leaves failures
to `Indexer`, which in turn has ids that always fit.

### How state and actions correspond to the code

| Model | Code |
|---|---|
| `lastBlock` | `indexer.lastBlock` |
| `chainHead`, `start`, `batch`, `cur` | the locals `lastChainBlock`, `start`, `logs` (what is left of it) and `log` |
| `phase` | the loop the code is in: `handleUnprocessedEvents`, the ticker loop, `waitForEvents` |
| `sub`, `queue` | the subscription and the logs it holds (buffer and channel) |
| `pc` | the call that comes next |
| `saved`, `orders`, `matches` | the collector's block and rows of this network |
| `late` | requests the client gave up on that the collector may still perform |
| `applied`, `unseen` | history only: logs whose effect the collector has taken; logs that no node showed the indexer when it asked (mined between `BlockNumber` and the subscription, or in a block the answering node did not know) |

| Action | Code |
|---|---|
| `GetLastBlock` | `service.getLastBlock`; its failure is the panic of `service.Run` |
| `BlockNumber`, `Subscribe` | the first calls of `run` and `runWithoutWs` |
| `Backfill`, `BackfillDone`, `EndOfBatch` | `handleUnprocessedEvents`: one `FilterLogs`, the end of the chunk loop, the end of the range over logs |
| `RangeRefused` | a node that takes a range ending before it starts for an error |
| `HandleEvent`, `AskExists`, `SendWrite`, `UpdateLastBlock` | `handleEvent` and the handlers; `Send` is a POST or PATCH with all its outcomes |
| `Tick`, `Poll` | the ticker loop of `runWithoutWs` |
| `Listen`, `SubscriptionFailed` | the select of `waitForEvents`; with both ready either may happen |
| `CallFails`, `Retry` | any other call fails; `WithBackOff` calls the runner again |
| `Mine`, `SubscriptionBreaks`, `PerformLate`, `Crash`, `Restart` | the surroundings |
| `Chunks`: `Ask`, `Handle`, `Finish` | the call, the body and the end of the chunk loop |
| `LogSubscription`: `DispatchLog`, `DispatchError`, `DispatcherReleased` | `handleSubscriptionResult`, `cancelAllRequests`, and how `deliver` and `close` end |
| `LogSubscription`: `Receive`, `Forward`, `QuitByDispatcher`, `QuitByIndexer` | the cases of the select in `ClientSubscription.forward` |
| `LogSubscription`: `CloseForwardDone`, `RequestUnsubscribe`, `SendError`, `CloseUnsubDone` | `ClientSubscription.run` after `forward` returned, in its order |
| `LogSubscription`: `Work`, `TakeLog`, `TakeError`, `Unsubscribed` | `indexer.run`: its work, the select of `waitForEvents`, the deferred `Unsubscribe` |
| `Process`: `Parse`, `OpenNetwork`, `DialWs`, `GetLastBlock`, `StartLoop` | `cli.Run`, `config.Network`, `service.getLastBlock` with `config.Collector`, `newIndexer` and the ticker of `WithBackOff` |
| `Process`: `Works`, `Fails`, `Ends`, `Again`, `Kill`, `Restart` | `BackOff`'s actions with what the file allows; the process ends and is started again |
| `Requests`: `HandleOrderCreated` and its three siblings | the handlers, with the conversions of the bodies |
| `Bindings`: `FilterSends`; `WatchTakes`, `WatchForwards`, `WatchEnds`; `Quits` | the producer of a filter; of a watch; the `quit` case of both |
| `Bindings`: `Unsubscribes`, `Unsubscribed` | the `defer sub.Unsubscribe()` of a watch, and its return |
| `Bindings`: `Breaks`, `Stops` | `ClientSubscription.run` below a watch: it ends by itself, with an error or with the nil of a closed client; it ends because it was unsubscribed |
| `Bindings`: `Returns`, `ClosesErr`, `Close`, `Closed` | `event.NewSubscription`, `Unsubscribe` |
| `Bindings`: `NextLog`, `NextDone`, `NextFalse` | `Next` of an iterator |
| `BackOff`: `RunnerWorks`, `RunnerFails`, `RunnerEnds`, `RunAgain` | a run reaches its loop, ends with an error or without; the timer or ticker fires |

A step is what happens between two calls to the outside, so blocks, crashes and
late writes come between any two calls.  A log is a position in the script; its
amounts, tokens and addresses are left out because nothing reads them back.

## 3. What the runs check

| Run | Instance | Shows |
|---|---|---|
| `poll_ranged` | polling, `block_range` 1, `override_last_block` 1, rows of another network under the same ids | types; nothing is skipped, checkpoints are sound, order is kept, replays only after failures, `lastBlock` never goes back, an update is refused only for a row created before the override: two faults of any kind and a crash, one log per block |
| `poll_whole` | polling, no `block_range`, empty ranges refused, flat replies | nothing skipped with two logs in a block; refinement of `OrderFeed` with its fairness: every due log is delivered, in order |
| `ws_ranged` | websocket, `block_range` 1 | logs are lost only in the window between block number and subscription; `lastBlock` never goes back; every due log is applied in the end unless it or an earlier one fell into the window; the subscription is used as an `EventQueue` |
| `ws_whole` | websocket, no `block_range`, two logs in a block, a node one block behind, an order that is updated twice | only what no node showed is lost, also when half a block was handled before an error; otherwise the order's last state and match are in the database, though retries write the older update over the newer one on the way |
| `ws_window` | websocket, no failures | **violation**: a log in the window is lost |
| `half_block` | polling, `block_range`, two logs in a block | **violation**: a crash between them loses the second |
| `replay_crash` | polling, `block_range` 3, an order that is updated twice | **violation**: killed after the older update of a replay is written, with the newer one's block already reported, the indexer leaves the older one |
| `chunks` | `Chunks` | every missed block is asked for exactly once, in calls of at most `block_range`, and the loop ends |
| `process` | `Process` | only a usable file gets to the indexer's loop, and always gets there again; the k-th pause in a row is `index_period` doubled k-1 times, at most ten minutes but for the first |
| `subscription` | `LogSubscription` | the subscription is an `EventQueue`; `Unsubscribe` returns, an end or a lost connection is noticed, a pushed log is taken |
| `requests` | `Requests` | rows and updates belong to their order; what stops the indexer; rows are faithful where int64 allows it; a row's match id and match contract are of one event |
| `bindings` | `Bindings` | iterators and watches lose nothing, tell a failure from an end, and leave no goroutine behind, their own or of the subscription below |

The properties, and where a reader might argue:

* `NothingSkipped`: the blocks the next fetch leaves out are indexed.  With
  `block_range` 0 the next fetch includes `lastBlock` itself, hence `Settled`.
* `CheckpointSound`: the same of the block in the collector, which is all that a
  crash leaves.
* `InOrder`: what the collector has taken is a prefix of the due logs.
* `ReplayOnlyAfterFailure`: chunks and ticks overlap nowhere by themselves.  An
  update that is refused for a creation hidden by `override_last_block` makes the
  retry send its chunk again without a failed call, hence the `Orphan` in it.
* `RowBeforeUpdate`: the 404 that stops the indexer has only one cause.
* `RowsCurrent`: replays do not leave an old state behind.  A retry handles the
  logs of a chunk or tick again and writes what each says, so a row that is updated
  twice goes *back* to the older update until the newer one is handled again.  It
  gets there (`ws_whole`), unless the process is killed in between: the newer
  update's block is already reported and the next process starts behind it
  (`replay_crash`).  It is *not* checked with late writes either: an update performed
  after a newer one sets the row back, and the code has no defence.
* `LossOnlyIfUnseen` bounds what the two ways of losing a log can cost: with
  `block_range` 0 a block is asked for again, so only logs up to `Settled` count.
* `EventuallyIndexedIfSeen` must except logs *after* an unseen one: the update of
  an order lost in the window stops the indexer for ever.  It is also what a 409
  taken for an error would break: an indexer that is stuck skips nothing.
* `SubscriptionAsQueue` and `QueueSpec` are the two halves of one argument.  The
  forwarding loop may be stopped by an overflow, a log that does not decode, the
  connection or the indexer; each time the indexer must have a prefix.
* `UnsubscribeReturns` is about a circle: the indexer waits for the loop, the loop
  for the answer to `eth_unsubscribe`, which the dispatcher reads, and the
  dispatcher may wait for the loop to take a log.
* `OwnRow`, `StuckOnlyBeyondInt64`, `RowFaithful`: `Int64` of a creation wraps and
  `ParseInt` of an update does not, and the existence check compares with an id
  that is always 0.  The exceptions in these properties are what that costs: ids
  of 2^63 and more and id 0 stop the indexer at their first update, ids beyond
  2^64 may take the row of a small one, and chains beyond int64 are cut.
* `PairFromOneEvent`: the two halves of an order's match are left out of the body
  independently, so the row could have the id of one match and the contract of
  another.  It does exactly when the match named last has an id that is zero, or
  that `Int64` cuts to zero, which is all the property excepts.
* `WorksOnlyIfUsable` and `EventuallyWorks` say together what a file must hold:
  `ws` even when it is not used, and an `index_period` above zero when polling
  (the code accepts zero, and then every run panics after its backfill).
* `PauseDoubles` counts all errors since a run ended without one.  The two runners
  end only with errors, so in this service that is since the process started,
  though hours of work may lie between them; `WithBackOff` is made for runners
  that do one job and return.
* `PauseAtMostMax`: the cap is on the doubled period only.  The first pause after an
  error is `index_period` itself, however long.
* `EndIsNoticed` is about a subscription that ended by itself and about one whose
  connection is lost, whatever the loop holds then.
* `IteratorComplete`: the end of the producer may be seen before the logs it sent.
* `WatchTellsWhy`: a watch returns what the error channel below gives, and that is
  nil when the client was closed.  So a watch may end without an error and without
  an `Unsubscribe`, but only then; an error is never lost and never made up.
* `WatchReleases`, `CloseEnds`: a watch may end while the subscription below is
  live, so it has to stop it, and a close has to wait for that as well.
* `LastBlockNeverRegresses`: see the comment in `IndexerProps`.
* `CallsApart`, `CoversAll`, `LoopEnds`: together, the chunks partition the missed
  blocks.  They hold for sums that fit (`FitsWidth`); a `block_range` next to
  2^64 would make the loop ask for the same block for ever.

### Bounds

Three to four logs (an order and a match, both created and updated) are enough
for a gap, a swap and an update without its creation; four or five blocks give
two chunks and two ticks with `block_range` 1, and blocks without logs (the
runs without `block_range` need three: there is one call for all of them); two logs in a block make half-handled blocks;
an order with two updates is the shortest script in which a replay sets a row back,
and `block_range` 3 puts both into one call.  `MaxFaults` (1 or 2) and
`MaxCrashes` (1) bound how often things go wrong, not when: a failed retry of a
failed call, and a crash during a replay, are covered.  A late write stays
pending as long as it likes.  `NodeLag` is 0 except in `ws_whole`, where any
call may be answered by a node one block behind.  `ws_*` runs may stop (a websocket
indexer waits for events that the bound keeps from coming), so deadlock is not
checked there, nor in the runs of the modules below, each of which ends.
No run uses symmetry.

`chunks` tries every `lastBlock`, `block_range` and head of a 4-bit width.
`process` has an `index_period` that divides the longest pause, one that does not,
one equal to it, one above it and zero, enough errors for each to reach it, and one file for
each flaw; six faults leave room for a failed start between failed runs.
`subscription` has four logs, one of which does not decode, and buffer and channel
of one log: a third log in flight overflows them.  `requests` puts 2^63 at 4; ids
lie at 0, below, at and above it, at and above 2^64, with chains and
origin orders on both sides of it, and four logs make two orders that share a row and
an update of each, or one order and three updates.  These name two matches of
different contracts, a match id that is cut to a negative number, one that is cut to
zero, match 0 with a contract, or no match.
`bindings` has logs of all nine events, of which a filter selects up to four, every
rule over their indexed arguments, and a channel of one.

### Fairness

`FairSpec` assumes weak fairness of the goroutine's steps and of the restart.
The code justifies the first as long as calls to the outside end: the collector
client has a timeout, the tickers and timers fire.  Calls to the *node* have
none (`network.request_timeout` is read and never used), so a node that never
answers is outside the assumption.  The second is the container's restart
policy.  Nothing is assumed of blocks, of late writes, or of failures, except
that the bounds make failures finite.  In `Chunks`, fairness says that the calls
of the loop are answered.

`LogSubscription` has one weak fairness for each goroutine: a step that stays
possible is taken, while which case of a select is taken is left open.  For the
loop this includes that `eth_unsubscribe` is answered or finds the connection
broken.  `PushedIsTaken` needs no more than that, because a bounded node stops
pushing.  `Process` assumes that dials and requests end, one way or the other,
and that the orchestrator restarts.  `Bindings` assumes that goroutines run, and that
the subscription below ends when it is unsubscribed (`Stops`), which is what
`UnsubscribeReturns` says of `LogSubscription`; a user may stop reading at any time.

## 4. What is proved

| Theorem | Module | Statement |
|---|---|---|
| `TypeCorrect` | `IndexerProofs` | `Spec => []TypeOK`, both modes |
| `IndexerUsesQueue` | `IndexerProofs` | `Spec => SubscriptionAsQueue`, both modes |
| `LosesOnlyUnseen` | `LossProofs` | `SafeResume`, `ForeignHarmless` give `Spec => []LossOnlyIfUnseen`, both modes |
| `LastBlockAdvances` | `RowProofs` | `NodeLag = 0` gives `Spec => LastBlockNeverRegresses`, both modes |
| `RowsEndCurrent` | `RowProofs` | `RowSafe` gives `Spec => []RowsCurrent`, both modes, every `NodeLag` |
| `PollingSkipsNothing` | `LossProofs` | `Safe` gives `Spec => []NothingSkipped` |
| `PollingKeepsOrder` | `LossProofs` | `Safe` gives `Spec => []InOrder` |
| `PollingCheckpointSound` | `LossProofs` | `Safe` gives `Spec => []CheckpointSound` |
| `PollingImplementsFeed` | `LossProofs` | `Safe` gives `Spec => Feed!Spec` |
| `PollingUpdatesFindRows` | `RowProofs` | `Safe` and `ScriptOrdered` give `Spec => []RowBeforeUpdate` |
| `PollingSendsOnce` | `RowProofs` | `Safe` and `ScriptOrdered` give `Spec => []ReplayOnlyAfterFailure` |
| `ChunksApart`, `ChunksCoverAll` | `ChunksProofs` | `Spec => []CallsApart`, `Spec => []CoversAll` |
| `ProcessTypeCorrect` | `ProcessProofs` | `ProcessSpec => []ProcessTypeOK` |
| `WorksWithUsableFile` | `ProcessProofs` | `ProcessSpec => []WorksOnlyIfUsable` |
| `PausesWithinMax` | `ProcessProofs` | `ProcessSpec => []PauseAtMostMax` |
| `PausesDouble` | `ProcessProofs` | `ProcessSpec => []PauseDoubles` |
| `SubscriptionTypeCorrect` | `SubscriptionProofs` | `Spec => []TypeOK` |
| `SubscriptionIsQueue` | `SubscriptionProofs` | `Spec => QueueSpec` |
| `RequestsTypeCorrect` | `RequestsProofs` | `Spec => []TypeOK` |
| `RowsKeepOwner` | `RequestsProofs` | `Spec => []OwnRow` |
| `RowsSayContract` | `RequestsProofs` | `Spec => []RowFaithful` |
| `StopsOnlyBeyondInt64` | `RequestsProofs` | `Spec => []StuckOnlyBeyondInt64` |
| `PairsAreWhole` | `RequestsProofs` | `MatchNamedWhole` gives `Spec => []PairFromOneEvent` |
| `BindingsTypeCorrect` | `BindingsProofs` | `Spec => []TypeOK` |
| `UserGetsPrefix` | `BindingsProofs` | `Spec => []NoGap` |
| `IteratorGivesAll` | `BindingsProofs` | `Spec => []IteratorComplete` |
| `WatchReportsEnd` | `BindingsProofs` | `Spec => []WatchTellsWhy` |
| `WatchLeavesNothing` | `BindingsProofs` | `Spec => []WatchReleases` |

All of them hold for every script, contract, size, bound and set of failure
kinds.  What some of them assume of the configuration, and why:

* `SafeResume`: `block_range` is 0, or no block holds two logs; `half_block` shows
  it is needed.
* `ForeignHarmless`: a GET answer does not decode into the row's id (as it is with
  the aggregator's own reply types), or no other network uses the ids.
* `Safe`: both, in the polling mode, over nodes that do not lag.
* `ScriptOrdered`: the contract updates only what it created.
* `RowSafe`: `SafeResume` and `ForeignHarmless`; the contract creates a row at most
  once and before its updates (`CreatedOnce`); no write is performed late; and
  either the process is never killed (`MaxCrashes = 0`) or the contract updates a
  row once at most (`UpdatedOnce`); `replay_crash` shows that this is needed.
* `NodeLag = 0` of `LastBlockAdvances`: a node that lags answers `BlockNumber` with
  an earlier block, and the code goes back to it.
* `MatchNamedWhole`: no event names a match without its contract.  One that did would
  leave the contract of an older match in the row.

### The indexer

*Loses only what was unseen* (`AccountInv`).  A log is accounted for when the
collector has taken it or no node showed it.  Up to the last log taken, every due
log is accounted for (`AccountedInOrder`).  What the indexer has fetched and not
yet applied continues that without a gap (`PendingContinues`, `CurFirst`) and
reaches as far as the block it will note down (`TargetCovered`, `ChunksDone`);
what the subscription holds continues what was fetched, except for the blocks the
backfill has yet to ask for (`QueueContinues`).  Blocks noted in memory
(`ResumePoint`, `AtRest`) or at the collector (`SavedApplied`) lie inside, and a
write that is performed late reports such a block or applies a log whose turn had
come (`LateReady`), so it never leaves a gap.  None of the properties is
inductive: `InOrder` says nothing of the log a late write applies, and
`LossOnlyIfUnseen` and `NothingSkipped` nothing of the logs in hand when
`lastBlock` is about to move.

*The polling mode* adds that nothing is ever unseen (`PollInv`), which turns
*accounted for* into *applied*: its first three theorems and the refinement of
`OrderFeed` follow.  `RowBeforeUpdate` needs also that the collector has a row for
every creation it took (`RowsPresent`, in both modes): the update in hand is
ready, so its creation is applied unless it is not due.  `ReplayOnlyAfterFailure`
needs that what is applied lies behind the blocks asked for next, as long as
nothing failed (`OnceOnly`).

The coverage part of `AccountInv` is `Covers(done)`, with `done` the logs accounted
for (`Accounted`): what is fetched, noted down and queued continues *done* without
a gap.  It is used a second time, with another meaning of done, for the rows.

*Never goes back* (`AheadInv`) is an invariant of its own, without `SafeResume`:
the head read for a range is not behind `lastBlock` if nodes do not lag
(`HeadAhead`), nor are the logs pushed with nodes that lag (`QueueAhead`,
`LiveAhead`), and the backfill asks for nothing that the subscription holds.  With
one log in a block, what the subscription holds is even beyond `lastBlock`
(`Beyond`).

*Rows end current* (`RowInv`).  No log that is applied stays applied in its row: a
replay writes older logs again, so the invariant cannot say that a row has what
its last applied log says.  What holds is that a row *shows* a log (`Shows`): its
state, and its match, come from logs of the row that are not older than it.  A
write of an older log ends that, and only for newer logs of the same row; but
then the older log is in hand, and the newer ones come after it, in hand or still
to be fetched.  So let a log be done when it is shown and no log in hand is before
it, or when it is unseen (`Standing`); this is again covered without a gap
(`Covers(Standing)`): at rest, everything up to `lastBlock` is done.  With
`RowsFromLogs` (a row has its values from logs of its own), the last log of a row
being shown says that the row is as on the chain.  Three steps need more:
an event pushed live is later than every log that is covered at rest
(`QueueAhead`), so writing it sets none of them back; a creation that
finds its row writes nothing (`AsksCreation`), and is shown by whatever the row has
(`CreatedOnce`); and a restart believes the reported block, so what was applied
must be shown whenever the process is killed: with one update for a row a replay
changes no row (`AppliedShown`), otherwise there must be no crash
(`NeverCrashed`).

*Uses a queue* needs, besides the types, that there is no subscription before `run`
makes one or after it returned (`SubOff`).

### The other components

* `Chunks`: the blocks asked for are those from the old `lastBlock` up to the start
  of the next chunk.
* `Process`: each stage knows what the stages before it ruled out in the file
  (`Passed`) and which clients are dialled (`DialledInOrder`).  The timer's period
  is within its limit, and only the first pause, which is not taken from it, may be
  longer (`PauseInv`); it is `index_period` doubled once for each error
  since the timer was made (`DoublingInv`).  That 2^k is what its recursive
  definition says (`TwofoldIs`) is proved from the definition: such a function
  exists up to every k, by a least counterexample (`LeastNatural`, from the
  library's well-foundedness of the natural numbers), and the pieces agree.
* `LogSubscription`: what the indexer took, its channel, the loop's buffer, the
  dispatcher's log and the wire are the pushed logs in order (`Line`,
  `LineOfForward`), and nothing of them is missing while the connection is up
  (`WireOfConnection`).  When the loop stops, the line is cut behind the channel,
  which is `EventQueue`'s break.  With `IndexerUsesQueue` this closes the argument
  from the wire to the indexer.
* `Requests`: a row's id is the low bits of the number it was made for (`Owned`), so
  a number that fits and that no other is cut to finds no row but its own; while a
  log is handled it says what the contract does (`Pending`), and the row is one
  event behind (`Current`).  Whether or not others are cut to its
  number, an order or match that int64 holds has *a* row once its creation is handled
  (`HasRows`), which is why its updates never stop the indexer.  For
  `PairFromOneEvent` no number needs to be plain: whatever order a row is of, the
  pair in it is of the last event that named a match, unless that had an id of zero
  (`CurrentPair`), and a row that was made for a number cut to another has no match
  until that other order has one (`Named`).  The lemmas `Int64Range`, `Int64Keeps`,
  `Int64Cuts` and `ParseIntGives` say what the conversions do.
* `Bindings`: what the user got, the channel, the log in the producer's hand and
  what it has not taken carry on from each other through the wanted logs
  (`Carried`); how far the producer is tells how the call ends (`FilterEnd`,
  `WatchEnd`), an error has its source (`ErrorSource`), and the producer of a watch
  gets beyond its return only with the subscription below gone (`ReleasedFirst`).

Every invariant that a passing run checks is proved, and so are the action property
and the safety part of each refinement.  Only model-checked is liveness (`FeedSpec`'s fairness,
`EventuallyIndexedIfSeen`, `EventuallyWorks`, `UnsubscribeReturns`,
`EndIsNoticed`, `PushedIsTaken`, `CloseEnds`, `LoopEnds`), which is beyond the
prover.  For the same reason `StuckOnlyBeyondInt64` speaks of what the handlers'
guard finds (`Stuck`) and not of `ENABLED`.

## 5. What is not modelled, and the plan

Not modelled, and why:

* *How much a tick asks for*: `config.yaml` calls `block_range` the largest
  difference between the blocks of a call, and only the backfill keeps to it
  (`Tick` and `Poll` show what a tick asks for).  A node that refuses is a failed
  call.
* *Reorganisations*: the code does not look at `Removed`, so there is nothing of
  it to check, and what the contract emits on the other branch is not in the
  repository.  Blocks are final.
* *Two indexers of one network*: nothing in the code expects a second one.  `late`
  covers requests of a process that was killed.
* *The throttle* (`vendor/.../signed/client.go`): it changes when requests are
  sent, never which; time is not modelled.
* *ABI unpacking* and the decoding of notifications in go-ethereum: a log is decoded
  or it is not (`Malformed`).  A notification whose envelope does not decode is
  dropped by `rpc/handler.go` without a trace; the node is taken to send none.
* `ErrClientQuit` at the indexer: nothing in the service closes the client.  A user of
  the bindings may, and `Bindings` has it.
* *The rest of the bindings*: the contract's methods are wrappers around one
  call each, and the `ParseX` functions unpack one log.  The service uses none of
  them.
* `migrate up`, which `README.md` tells the user to run, is no command of
  `internal/cli/main.go` and ends with status 1; `Process` has it as a flaw.

Plan, in order:

1. *(done)* `Chain`, `Collector`, `Indexer`, `IndexerProps`, `OrderFeed`, the runs above.
2. *(done)* The polling mode's proofs, `Chunks` and `BackOff` with theirs.
3. *(done)* `EventQueue` and `LogSubscription`, `Process`, `Requests`, `Bindings`,
   nodes that lag.
4. *(done)* `LossOnlyIfUnseen` for both modes and every `NodeLag`, with the polling
   theorems as its case `unseen = {}`; `LastBlockNeverRegresses` for both modes;
   `ReplayOnlyAfterFailure`.
5. *(done)* `LogSubscription` implements `EventQueue`; the safety properties of
   `Process`, `Requests` and `Bindings`.
6. *(done)* `RowsCurrent` in both modes, without late writes; `PauseDoubles` and
   `StuckOnlyBeyondInt64`.  Looking for the invariant behind `RowsCurrent` is what
   showed that a crash in the middle of a replay leaves an older state behind
   (`replay_crash`).
7. What holds without `SafeResume`: with `block_range`, a crash loses at most logs
   of the block that was reported last.
