---------------------------- MODULE IndexerProps ----------------------------
(***************************************************************************)
(* What the indexer promises: every log of the contract that is past the   *)
(* configured starting block reaches the collector, in chain order, and no *)
(* crash or failed call makes the indexer pass one by.                     *)
(***************************************************************************)
EXTENDS Indexer

LateWrites == [write : Writes, log : LogIds, no : Nat]

(* Every variable has its type; the indexer holds only logs of the chain,  *)
(* and knows no block beyond the head.                                     *)
TypeOK ==
    /\ head \in 0..MaxBlock
    /\ mined \in 0..Len(Script)
    /\ blockOf \in [LogIds -> 0..MaxBlock]
    /\ orders \in [OrderIds -> Row \cup {NoRow}]
    /\ matches \in [MatchIds -> Row \cup {NoRow}]
    /\ saved \in 0..MaxBlock \cup {NoBlock}
    /\ applied \subseteq 1..mined
    /\ late \subseteq LateWrites
    /\ pc \in PCs
    /\ phase \in {"none", "backfill", "poll", "live"}
    /\ lastBlock \in Nat
    /\ chainHead \in 0..head
    /\ start \in Nat
    /\ batch \subseteq 1..mined
    /\ cur \in 0..mined
    /\ sub \in {"off", "live", "broken"}
    /\ queue \subseteq 1..mined
    /\ faults \in 0..MaxFaults
    /\ crashes \in 0..MaxCrashes
    /\ unseen \subseteq 1..mined

-----------------------------------------------------------------------------

(* A log the indexer must hand on: it is in the chain, past the block that *)
(* override_last_block tells a new deployment to start after.              *)
Due(i) == i \in 1..mined /\ blockOf[i] > OverrideLastBlock

DoneThrough(b) == \A i \in LogIds : Due(i) /\ blockOf[i] <= b => i \in applied

(* The last block of which a checkpoint of block b promises every log.     *)
(* handleEvent reports a block after each of its logs, so block b itself   *)
(* may be half handled; the call that starts at lastBlock fetches it again.*)
Settled(b) == IF BlockRange = 0 THEN b - 1 ELSE b

Running == pc \notin {"boot", "down"}

(* The indexer never moves past a log it has not handed on: whatever       *)
(* lastBlock holds, the blocks it will not ask for again are indexed, and  *)
(* an indexer that waits for the next tick has indexed lastBlock too.      *)
(* (run, runWithoutWs and handleUnprocessedEvents all start from lastBlock)*)
NothingSkipped ==
    /\ Running => DoneThrough(Settled(lastBlock))
    /\ pc = "idle" /\ ~UseWs => DoneThrough(lastBlock)

(* What the collector was told survives a crash at any point: the block it *)
(* would answer to getLastBlock is one up to which every log is indexed.   *)
CheckpointSound ==
    saved # NoBlock => DoneThrough(Settled(saved))

(* Logs are applied in chain order: no log reaches the collector before a  *)
(* due log that the contract emitted earlier.                              *)
InOrder ==
    \A i \in applied : \A j \in 1..i : Due(j) => j \in applied

CreationOf(name) ==
    IF name = "OrderUpdated" THEN "OrderCreated" ELSE "MatchCreated"

Updates == {"OrderUpdated", "MatchUpdated"}

(* Log i updates an order or match that was created before                 *)
(* override_last_block.                                                    *)
Orphan(i) ==
    /\ Script[i].name \in Updates
    /\ \E j \in 1..(i - 1) :
       /\ Script[j].name = CreationOf(Script[i].name)
       /\ Script[j].id = Script[i].id
       /\ ~Due(j)

(* An update is sent for an order or a match that is not there, and then   *)
(* refused with the 404 that stops the indexer at that log for ever, only  *)
(* when the creation lies before override_last_block.                      *)
RowBeforeUpdate ==
    pc = "write" /\ ~Accepts(WriteFor(Script[cur].name), cur)
    => Orphan(cur)

(* A log that is applied is sent again only after a failure, a crash or an *)
(* update that is refused: chunks, ticks and the subscription overlap      *)
(* nowhere (a starting block asked for again because block_range is 0 is   *)
(* the exception).                                                         *)
ReplayOnlyAfterFailure ==
    pc = "write" /\ cur \in applied =>
        \/ faults + crashes > 0
        \/ BlockRange = 0
        \/ \E i \in 1..mined : Orphan(i)

(* The logs of an order and of a match, and those that name a match: the   *)
(* body of an update leaves a match of 0 out.                              *)
OrderLogs(o) == {i \in 1..mined :
    Script[i].id = o /\ Script[i].name \in {"OrderCreated", "OrderUpdated"}}
MatchLogs(m) == {i \in 1..mined :
    Script[i].id = m /\ Script[i].name \in {"MatchCreated", "MatchUpdated"}}
Names(i) == Script[i].name = "OrderUpdated" /\ Script[i].match # 0

Last(logs) == CHOOSE i \in logs : \A j \in logs : j <= i

(* A row is as these logs leave it: the state is that of the last, and the *)
(* match the one that was named last.                                      *)
OnChain(logs, row) ==
    IF logs = {} THEN row = NoRow
    ELSE LET naming == {i \in logs : Names(i)}
         IN  row = [state |-> Script[Last(logs)].state,
                    match |-> IF naming = {} THEN 0
                              ELSE Script[Last(naming)].match]

(* An indexer that waits with every log behind it, none of them unseen, has*)
(* left the collector with the contract's own state of every order and     *)
(* match all of whose logs are due, whatever was sent twice, answered with *)
(* an error or replayed by a retry on the way.                             *)
(* (handleOrderUpdated and updateOrder write what an event says, without a *)
(* look at what the row has)                                               *)
RowsCurrent ==
    /\ pc = "idle" /\ queue = {} /\ sub # "broken" /\ unseen = {}
    /\ \A i \in 1..mined : blockOf[i] <= lastBlock
    => /\ \A o \in OrderIds : (\A i \in OrderLogs(o) : Due(i))
                            => OnChain(OrderLogs(o), orders[o])
       /\ \A m \in MatchIds : (\A i \in MatchLogs(m) : Due(i))
                             => OnChain(MatchLogs(m), matches[m])

(* While the process lives, lastBlock only moves forward: no retry and no  *)
(* event pushed late makes the indexer go back.  (An override_last_block   *)
(* beyond the head is given up for the head at the first backfill.)        *)
LastBlockNeverRegresses ==
    [][Running /\ Running' /\ lastBlock > OverrideLastBlock
       => lastBlock' >= lastBlock]_vars

(* A log is lost only if no node showed it to the indexer when it asked:   *)
(* with a websocket, one mined between the call that reads the block number*)
(* and the subscription, and in both modes one in a block that the node    *)
(* that answered did not know yet.                                         *)
LossOnlyIfUnseen ==
    Running => \A i \in LogIds :
        Due(i) /\ blockOf[i] <= Settled(lastBlock) => i \in applied \cup unseen

(* With a websocket, a due log is handed on in the end unless it, or a log *)
(* before it, was not seen: the update of an order lost there is refused   *)
(* for ever, and stops the rest.                                           *)
EventuallyIndexedIfSeen ==
    \A i \in LogIds :
        Due(i) ~> i \in applied \/ \E j \in 1..i : j \in unseen

(* The log subscription is an EventQueue to the indexer, as LogSubscription*)
(* shows it is one behind the client.                                      *)
SubQueue == INSTANCE EventQueue WITH emitted <- mined

SubscriptionAsQueue == SubQueue!Spec

(* The polling indexer is an OrderFeed of the due logs: each is delivered  *)
(* in the order of the chain, one by one, and none is forgotten.           *)
Feed == INSTANCE OrderFeed WITH
            Logs <- LogIds,
            emitted <- {i \in LogIds : Due(i)},
            delivered <- {i \in applied : Due(i)}

FeedSpec == Feed!FairSpec

=============================================================================
