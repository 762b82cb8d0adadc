------------------------------ MODULE Indexer ------------------------------
(***************************************************************************)
(* The indexer of internal/service/indexer.go: one goroutine that takes    *)
(* the contract's logs from the network (Chain) and writes them to the     *)
(* order aggregator (Collector), started by service.run and restarted by   *)
(* running.WithBackOff whenever it returns an error.                       *)
(*                                                                         *)
(* Both modes are here: UseWs is the branch of service.run between run     *)
(* (backfill, then a websocket log subscription) and runWithoutWs          *)
(* (backfill, then eth_getLogs on every tick).  A step is what happens     *)
(* between two calls to the outside, so that blocks, crashes and late      *)
(* writes come between any two calls.                                      *)
(***************************************************************************)
EXTENDS Collector

CONSTANTS
    UseWs,             \* use_websocket
    BlockRange,        \* block_range, 0 when the field is left out
    OverrideLastBlock, \* override_last_block
    EmptyRangeFails,   \* TRUE: the node refuses eth_getLogs with from > to
    Failures,          \* the ways a request to the collector may fail
    MaxFaults,         \* bound: how many calls fail
    MaxCrashes         \* bound: how often the process is killed

VARIABLES
    pc,        \* what the process does next
    phase,     \* which loop it handles events in
    lastBlock, \* indexer.lastBlock
    chainHead, \* lastChainBlock
    start,     \* start of the next chunk of handleUnprocessedEvents
    batch,     \* the logs fetched and not yet taken up
    cur,       \* the log being handled, or NoLog
    sub,       \* the log subscription
    queue,     \* logs the subscription holds for the indexer
    faults,    \* how many calls have failed
    crashes,   \* how often the process was killed
    unseen     \* history: logs that no node showed the indexer when it asked

loopVars == <<pc, phase, lastBlock, chainHead, start, batch, cur>>
subVars == <<sub, queue>>
boundVars == <<faults, crashes>>
vars == <<chainVars, collectorVars, loopVars, subVars, boundVars, unseen>>

PCs == {"boot", "blockNumber", "subscribe", "backfill", "events", "exists",
        "write", "checkpoint", "idle", "poll", "backoff", "down"}
NoLog == 0

ASSUME IndexerAssumption ==
    /\ UseWs \in BOOLEAN
    /\ BlockRange \in Nat
    /\ OverrideLastBlock \in Nat
    /\ EmptyRangeFails \in BOOLEAN
    /\ Failures \subseteq {"refused", "lost", "late"}
    /\ MaxFaults \in Nat
    /\ MaxCrashes \in Nat

-----------------------------------------------------------------------------

IndexerInit ==
    /\ pc = "boot"
    /\ phase = "none"
    /\ lastBlock = 0
    /\ chainHead = 0
    /\ start = 0
    /\ batch = {}
    /\ cur = NoLog
    /\ sub = "off"
    /\ queue = {}
    /\ faults = 0
    /\ crashes = 0
    /\ unseen = {}

Init == ChainInit /\ CollectorInit /\ IndexerInit

(* A call fails; the bound keeps failures from lasting for ever.           *)
Fault == faults < MaxFaults /\ faults' = faults + 1

(* The locals of run, runWithoutWs and handleUnprocessedEvents go, and the *)
(* deferred Unsubscribe drops what the subscription still held.            *)
DropLocals ==
    /\ phase' = "none"
    /\ chainHead' = 0
    /\ start' = 0
    /\ batch' = {}
    /\ cur' = NoLog
    /\ sub' = "off"
    /\ queue' = {}

(* Mutant of Return: the indexer takes up from what was reported last.     *)
ReturnToSaved ==
    /\ pc' = "backoff"
    /\ lastBlock' = IF saved = NoBlock THEN OverrideLastBlock ELSE saved
    /\ DropLocals

(* run or runWithoutWs returns to WithBackOff, with an error or with a     *)
(* panic that RunSafely recovers; the indexer value keeps its lastBlock.   *)
Return == pc' = "backoff" /\ DropLocals /\ UNCHANGED lastBlock

-----------------------------------------------------------------------------
(* Starting.                                                               *)

(* service.getLastBlock: a 404 means that no block was reported yet.       *)
(* Any other failure is returned by service.run and Run panics.            *)
GetLastBlock ==
    /\ pc = "boot"
    /\ \/ /\ lastBlock' = IF saved = NoBlock THEN OverrideLastBlock ELSE saved
          /\ pc' = "blockNumber"
          /\ UNCHANGED faults
       \/ /\ Fault
          /\ pc' = "down"
          /\ UNCHANGED lastBlock
    /\ UNCHANGED <<chainVars, collectorVars, phase, chainHead, start, batch,
                   cur, subVars, crashes, unseen>>

(* Mutant of BlockNumber: the block that is not mined yet is taken too.    *)
BlockNumberPending ==
    /\ pc = "blockNumber"
    /\ chainHead' = head + 1
    /\ pc' = IF UseWs THEN "subscribe" ELSE "backfill"
    /\ phase' = "backfill"
    /\ start' = lastBlock + 1
    /\ UNCHANGED <<chainVars, collectorVars, lastBlock, batch, cur, subVars,
                   boundVars, unseen>>

(* The first call of run and of runWithoutWs.                              *)
BlockNumber ==
    /\ pc = "blockNumber"
    /\ chainHead' \in NodeHeads
    /\ pc' = IF UseWs THEN "subscribe" ELSE "backfill"
    /\ phase' = "backfill"
    /\ start' = lastBlock + 1
    /\ UNCHANGED <<chainVars, collectorVars, lastBlock, batch, cur, subVars,
                   boundVars, unseen>>

(* The last block the backfill asks for.                                   *)
BackfillEnd == IF BlockRange = 0 THEN chainHead + 1 ELSE chainHead

(* run, SubscribeFilterLogs: only logs mined from here on are pushed.      *)
Subscribe ==
    /\ pc = "subscribe"
    /\ sub' = "live"
    /\ pc' = "backfill"
    /\ unseen' = unseen \cup {i \in 1..mined : blockOf[i] > BackfillEnd}
    /\ UNCHANGED <<chainVars, collectorVars, phase, lastBlock, chainHead,
                   start, batch, cur, queue, boundVars>>

-----------------------------------------------------------------------------
(* handleUnprocessedEvents.                                                *)

Smaller(a, b) == IF a <= b THEN a ELSE b

(* Mutants of Query: a chunk that ends a block early, one that ends a      *)
(* block late, and a whole backfill that leaves the starting block out.    *)
QueryShort ==
    IF phase = "poll" THEN [from |-> lastBlock + 1, to |-> chainHead]
    ELSE IF BlockRange = 0 THEN [from |-> lastBlock, to |-> chainHead + 1]
    ELSE [from |-> start, to |-> Smaller(start + BlockRange - 1, chainHead)]
QueryLong ==
    IF phase = "poll" THEN [from |-> lastBlock + 1, to |-> chainHead]
    ELSE IF BlockRange = 0 THEN [from |-> lastBlock, to |-> chainHead + 1]
    ELSE [from |-> start, to |-> Smaller(start + BlockRange + 1, chainHead)]
QueryAfterStart ==
    IF phase = "poll" THEN [from |-> lastBlock + 1, to |-> chainHead]
    ELSE IF BlockRange = 0 THEN [from |-> lastBlock + 1, to |-> chainHead + 1]
    ELSE [from |-> start, to |-> Smaller(start + BlockRange, chainHead)]

(* The blocks the next eth_getLogs call asks for.                          *)
Query ==
    IF phase = "poll" THEN [from |-> lastBlock + 1, to |-> chainHead]
    ELSE IF BlockRange = 0 THEN [from |-> lastBlock, to |-> chainHead + 1]
    ELSE [from |-> start, to |-> Smaller(start + BlockRange, chainHead)]

Fetch == FilterLogs(Query.from, Query.to)

(* The answer of one of the nodes.                                         *)
Fetched ==
    \E h \in NodeHeads :
        /\ batch' = KnownTo(h, Fetch)
        /\ unseen' = unseen \cup (Fetch \ batch')

(* One call of FilterLogs, with a chunk of the missed blocks or with all.  *)
Backfill ==
    /\ pc = "backfill"
    /\ BlockRange # 0 => start <= chainHead
    /\ EmptyRangeFails => Query.from <= Query.to
    /\ Fetched
    /\ pc' = "events"
    /\ UNCHANGED <<chainVars, collectorVars, phase, lastBlock, chainHead,
                   start, cur, subVars, boundVars>>

(* The node takes a range that ends before it starts for an error.         *)
RangeRefused ==
    /\ pc = "poll" \/ (pc = "backfill" /\ BlockRange = 0)
    /\ EmptyRangeFails
    /\ Query.from > Query.to
    /\ Return
    /\ UNCHANGED <<chainVars, collectorVars, boundVars, unseen>>

(* The chunk loop ends.                                                    *)
BackfillDone ==
    /\ pc = "backfill"
    /\ BlockRange # 0
    /\ start > chainHead
    /\ lastBlock' = chainHead
    /\ pc' = "idle"
    /\ UNCHANGED <<chainVars, collectorVars, phase, chainHead, start, batch,
                   cur, subVars, boundVars, unseen>>

(* All the logs of a call are handled.                                     *)
EndOfBatch ==
    /\ pc = "events"
    /\ batch = {}
    /\ \/ /\ phase = "backfill"
          /\ BlockRange # 0
          /\ start' = start + BlockRange + 1
          /\ pc' = "backfill"
          /\ UNCHANGED lastBlock
       \/ /\ phase = "poll" \/ (phase = "backfill" /\ BlockRange = 0)
          /\ lastBlock' = chainHead
          /\ pc' = "idle"
          /\ UNCHANGED start
       \/ /\ phase = "live"
          /\ lastBlock' = blockOf[cur]
          /\ pc' = "idle"
          /\ UNCHANGED start
    /\ cur' = NoLog
    /\ UNCHANGED <<chainVars, collectorVars, phase, chainHead, batch, subVars,
                   boundVars, unseen>>

-----------------------------------------------------------------------------
(* handleEvent and the four handlers.                                      *)

Creations == {"OrderCreated", "MatchCreated"}

(* The next log goes to the handler of its event name.                     *)
HandleEvent ==
    /\ pc = "events"
    /\ batch # {}
    /\ cur' = Earliest(batch)
    /\ batch' = batch \ {cur'}
    /\ pc' = IF Script[cur'].name \in Creations THEN "exists" ELSE "write"
    /\ UNCHANGED <<chainVars, collectorVars, phase, lastBlock, chainHead,
                   start, subVars, boundVars, unseen>>

(* handleOrderCreated and handleMatchCreated ask first whether the row is  *)
(* there; the log counts as applied if it is this network's row.           *)
AskExists ==
    /\ pc = "exists"
    /\ LET id == Script[cur].id
           isOrder == Script[cur].name = "OrderCreated"
           exists == IF isOrder THEN orderExists(id) ELSE matchExists(id)
           own == IF isOrder THEN orders[id] # NoRow ELSE matches[id] # NoRow
       IN  /\ pc' = IF exists THEN "checkpoint" ELSE "write"
           /\ applied' = IF exists /\ own THEN applied \cup {cur} ELSE applied
    /\ UNCHANGED <<chainVars, orders, matches, saved, late, phase, lastBlock,
                   chainHead, start, batch, cur, subVars, boundVars,
                   unseen>>

(* Mutant of WriteFor: creations go to the handlers of updates.            *)
WriteForUpdates(name) ==
    IF name \in {"OrderCreated", "OrderUpdated"} THEN "updateOrder"
                                                 ELSE "updateMatch"

(* The write that the handler of an event sends.                           *)
WriteFor(name) ==
    CASE name = "OrderCreated" -> "addOrder"
      [] name = "OrderUpdated" -> "updateOrder"
      [] name = "MatchCreated" -> "addMatch"
      [] name = "MatchUpdated" -> "updateMatch"

(* A write is sent and answered with success.                              *)
Answered(write) ==
    /\ Accepts(write, cur)
    /\ Perform(write, cur)
    /\ UNCHANGED <<late, faults>>

(* A write fails: the collector has no row for it, or refuses it, or       *)
(* performs it and its answer is lost, or will perform it after the        *)
(* client's timeout.                                                       *)
Failed(write) ==
    \/ /\ ~Accepts(write, cur)
       /\ UNCHANGED <<collectorVars, faults>>
    \/ /\ "refused" \in Failures
       /\ Fault
       /\ UNCHANGED collectorVars
    \/ /\ "lost" \in Failures
       /\ Fault
       /\ Perform(write, cur)
       /\ UNCHANGED late
    \/ /\ "late" \in Failures
       /\ Fault
       /\ late' = late \cup {[write |-> write, log |-> cur, no |-> faults]}
       /\ UNCHANGED <<orders, matches, saved, applied>>

(* Mutant of Send: a failed request is taken for a finished one.           *)
SendIgnoringErrors(write, next) ==
    /\ Answered(write) \/ Failed(write)
    /\ pc' = next
    /\ UNCHANGED <<phase, lastBlock, chainHead, start, batch, cur, subVars>>
    /\ UNCHANGED <<chainVars, crashes, unseen>>

Send(write, next) ==
    /\ \/ /\ Answered(write)
          /\ pc' = next
          /\ UNCHANGED <<phase, lastBlock, chainHead, start, batch, cur,
                         subVars>>
       \/ Failed(write) /\ Return
    /\ UNCHANGED <<chainVars, crashes, unseen>>

SendWrite == pc = "write" /\ Send(WriteFor(Script[cur].name), "checkpoint")

UpdateLastBlock == pc = "checkpoint" /\ Send("updateLastBlock", "events")

-----------------------------------------------------------------------------
(* After the backfill: the ticker loop of runWithoutWs.                    *)

Tick ==
    /\ pc = "idle"
    /\ ~UseWs
    /\ phase' = "poll"
    /\ chainHead' \in NodeHeads
    /\ pc' = "poll"
    /\ UNCHANGED <<chainVars, collectorVars, lastBlock, start, batch, cur,
                   subVars, boundVars, unseen>>

Poll ==
    /\ pc = "poll"
    /\ EmptyRangeFails => Query.from <= Query.to
    /\ Fetched
    /\ pc' = "events"
    /\ UNCHANGED <<chainVars, collectorVars, phase, lastBlock, chainHead,
                   start, cur, subVars, boundVars>>

-----------------------------------------------------------------------------
(* After the backfill: the select loop of waitForEvents.                   *)

Listen ==
    /\ pc = "idle"
    /\ UseWs
    /\ queue # {}
    /\ phase' = "live"
    /\ batch' = {Earliest(queue)}
    /\ queue' = queue \ {Earliest(queue)}
    /\ pc' = "events"
    /\ UNCHANGED <<chainVars, collectorVars, lastBlock, chainHead, start, cur,
                   sub, boundVars, unseen>>

(* sub.Err() is ready; a select takes it or, while there are any, an event.*)
SubscriptionFailed ==
    /\ pc = "idle"
    /\ sub = "broken"
    /\ Return
    /\ UNCHANGED <<chainVars, collectorVars, boundVars, unseen>>

(* WithBackOff calls the runner again.                                     *)
Retry ==
    /\ pc = "backoff"
    /\ pc' = "blockNumber"
    /\ UNCHANGED <<chainVars, collectorVars, phase, lastBlock, chainHead,
                   start, batch, cur, subVars, boundVars, unseen>>

(* A call to the network, or a GET to the collector, fails.                *)
CallFails ==
    /\ \/ pc \in {"blockNumber", "subscribe", "exists", "poll"}
       \/ pc = "backfill" /\ (BlockRange # 0 => start <= chainHead)
       \/ pc = "idle" /\ ~UseWs
    /\ Fault
    /\ Return
    /\ UNCHANGED <<chainVars, collectorVars, crashes, unseen>>

IndexerStep ==
    \/ GetLastBlock \/ BlockNumber \/ Subscribe
    \/ Backfill \/ RangeRefused \/ BackfillDone \/ EndOfBatch
    \/ HandleEvent \/ AskExists \/ SendWrite \/ UpdateLastBlock
    \/ Tick \/ Poll
    \/ Listen \/ SubscriptionFailed
    \/ Retry \/ CallFails

-----------------------------------------------------------------------------
(* The surroundings.                                                       *)

(* A block is mined; a live subscription is pushed its logs.               *)
Mine ==
    \E n \in 0..MaxLogsPerBlock :
        /\ MineBlock(n)
        /\ queue' = IF sub = "live" THEN queue \cup ((mined + 1)..(mined + n))
                                    ELSE queue
        /\ UNCHANGED <<collectorVars, loopVars, sub, boundVars, unseen>>

(* The connection breaks, or the subscription's buffer overflows: logs     *)
(* that had reached the channel stay there, later ones are gone.           *)
SubscriptionBreaks ==
    /\ sub = "live"
    /\ Fault
    /\ sub' = "broken"
    /\ \E kept \in 0..mined : queue' = {i \in queue : i <= kept}
    /\ UNCHANGED <<chainVars, collectorVars, loopVars, crashes, unseen>>

PerformLate ==
    /\ LateWrite
    /\ UNCHANGED <<chainVars, loopVars, subVars, boundVars, unseen>>

(* The process is killed; what it had in memory is gone.                   *)
Crash ==
    /\ pc \notin {"boot", "down"}
    /\ crashes < MaxCrashes
    /\ crashes' = crashes + 1
    /\ pc' = "down"
    /\ lastBlock' = 0
    /\ DropLocals
    /\ UNCHANGED <<chainVars, collectorVars, faults, unseen>>

(* The container is started again.                                         *)
Restart ==
    /\ pc = "down"
    /\ pc' = "boot"
    /\ UNCHANGED <<chainVars, collectorVars, phase, lastBlock, chainHead,
                   start, batch, cur, subVars, boundVars, unseen>>

Next ==
    \/ IndexerStep
    \/ Mine \/ SubscriptionBreaks \/ PerformLate \/ Crash \/ Restart

Spec == Init /\ [][Next]_vars

(* The goroutine is scheduled, its tickers and back-off timers fire, and   *)
(* the orchestrator restarts a dead process.                               *)
FairSpec == Spec /\ WF_vars(IndexerStep) /\ WF_vars(Restart)

=============================================================================
