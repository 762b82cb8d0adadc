----------------------------- MODULE IndexerInv -----------------------------
(***************************************************************************)
(* Why the indexer loses only what no node showed it: the inductive        *)
(* invariant behind LossOnlyIfUnseen in both modes, and, when nothing is   *)
(* unseen, behind NothingSkipped, InOrder and CheckpointSound; and the     *)
(* conditions on the configuration it needs.                               *)
(*                                                                         *)
(* A log is accounted for when the collector has taken it or no node       *)
(* showed it.  Up to the last log that was taken, every due log is         *)
(* accounted for; whatever the indexer fetches or is pushed continues      *)
(* that; and every block it notes down, in memory or in the collector,     *)
(* lies inside it.                                                         *)
(***************************************************************************)
EXTENDS IndexerProps

(* The resuming call either asks for the checkpoint's block again, or that *)
(* block cannot be half handled.                                           *)
SafeResume == BlockRange = 0 \/ MaxLogsPerBlock = 1

(* No row of another network can pass for one of this network.             *)
ForeignHarmless == FlatReply => ForeignOrders = {} /\ ForeignMatches = {}

-----------------------------------------------------------------------------
(* History: what the collector was sent.                                   *)

Accounted == applied \cup unseen

(* The script's order is the order of the blocks.                          *)
ChainSorted ==
    /\ \A i \in 1..mined : blockOf[i] \in 1..head
    /\ \A i, j \in 1..mined : i < j => blockOf[i] <= blockOf[j]
    /\ MaxLogsPerBlock = 1 =>
          \A i, j \in 1..mined : i < j => blockOf[i] < blockOf[j]

AccountedInOrder ==
    \A i \in applied : \A j \in 1..i : Due(j) => j \in Accounted

(* Log i may be applied: every due log before it is accounted for.         *)
Ready(i) == \A j \in 1..(i - 1) : Due(j) => j \in Accounted

(* A reported block is the block of an applied log; writes still in flight *)
(* report such blocks, or apply a log whose turn has come.                 *)
SavedApplied == saved # NoBlock => \E i \in applied : saved = blockOf[i]
LateReady ==
    \A w \in late :
        IF w.write = "updateLastBlock" THEN w.log \in applied ELSE Ready(w.log)

HistoryInv == ChainSorted /\ AccountedInOrder /\ SavedApplied /\ LateReady

-----------------------------------------------------------------------------
(* The loop and the subscription: what the indexer holds.                  *)

(* Either mode leaves the other's parts alone.                             *)
OwnMode ==
    IF UseWs THEN pc # "poll" /\ phase # "poll"
             ELSE pc # "subscribe" /\ phase # "live" /\ sub = "off"

(* The logs fetched whose effect is still to come.                         *)
Pending == batch \cup (IF pc \in {"exists", "write"} THEN {cur} ELSE {})

InHand == pc \in {"events", "exists", "write", "checkpoint"}
NothingLeft == ~InHand => batch = {} /\ cur = NoLog

(* The log in hand comes first; one that was pushed is handled by itself.  *)
CurFirst == pc \in {"exists", "write"} => \A k \in batch : cur < k
LiveOne ==
    InHand /\ phase = "live" =>
        IF pc = "events" THEN \A i, j \in batch : i = j ELSE batch = {}

(* lastBlock is in the past, or is the configured one; a backfill starts   *)
(* beyond it.                                                              *)
NotStarted == pc \in {"boot", "down"} => phase = "none"
LastBlockKnown == Running => lastBlock <= head \/ lastBlock <= OverrideLastBlock
StartAhead == phase = "backfill" /\ pc # "idle" => start > lastBlock

(* There is a subscription from when run makes it until run returns.       *)
SubOff == pc \in {"boot", "blockNumber", "subscribe", "backoff", "down"}
          => sub = "off"
SubOn == UseWs /\ (pc \in {"backfill", "idle"} \/ InHand) => sub # "off"
NothingQueued == sub = "off" => queue = {}

(* The last block of the logs fetched, as far as the indexer relies on it. *)
Target ==
    IF phase = "backfill" /\ BlockRange # 0
    THEN Smaller(start + BlockRange, chainHead) ELSE chainHead

(* The backfill has yet to ask for log j.                                  *)
Awaited(j) ==
    /\ blockOf[j] <= BackfillEnd
    /\ pc = "backfill" \/ (InHand /\ phase = "backfill" /\ BlockRange # 0)

(* The subscription holds log j, or was open or is broken past it.         *)
Reached(j) == sub = "live" \/ \E k \in queue : j < k

(* A log that it reached is in it, from its first log on and from the      *)
(* last block that the backfill asks for.                                  *)
QueueWhole ==
    \A j \in 1..mined :
        /\ Reached(j)
        /\ \/ \E k \in queue : k < j
           \/ phase = "backfill" /\ blockOf[j] > BackfillEnd
        => j \in queue \cup unseen

LoopInv ==
    /\ OwnMode
    /\ NothingLeft
    /\ CurFirst
    /\ LiveOne
    /\ NotStarted
    /\ LastBlockKnown
    /\ StartAhead
    /\ SubOff
    /\ SubOn
    /\ NothingQueued
    /\ QueueWhole

-----------------------------------------------------------------------------
(* What is done, whatever that is taken to mean: the set "done" is that of *)
(* the logs accounted for in one argument, and of those whose effect the   *)
(* collector's rows still show in another.                                 *)

DoneBy(done, b) == \A i \in LogIds : Due(i) /\ blockOf[i] <= b => i \in done

(* What is fetched continues what is done without a gap.                   *)
PendingContinues(done) ==
    \A k \in Pending : \A j \in 1..(k - 1) : Due(j) => j \in done \cup Pending

(* So does the log that was handled last.                                  *)
CurDone(done) ==
    pc \in {"events", "checkpoint"} => \A j \in 1..cur : Due(j) => j \in done

(* Nothing up to the target is missing; and nothing before the next chunk. *)
TargetCovered(done) ==
    InHand /\ phase # "live" =>
        \A i \in LogIds : Due(i) /\ blockOf[i] <= Target
                          => i \in done \cup Pending
ChunksDone(done) ==
    pc \in {"subscribe", "backfill"} /\ BlockRange # 0 =>
        DoneBy(done, Smaller(start - 1, chainHead))

(* What will not be asked for again is done.                               *)
ResumePoint(done) == Running => DoneBy(done, Settled(lastBlock))
AtRest(done) == pc \in {"idle", "poll"} /\ ~UseWs => DoneBy(done, lastBlock)

(* What the subscription holds continues what was fetched.                 *)
QueueContinues(done) ==
    \A j \in 1..mined :
        Due(j) /\ Reached(j) => j \in done \cup Pending \cup queue \/ Awaited(j)

Covers(done) ==
    /\ PendingContinues(done)
    /\ CurDone(done)
    /\ TargetCovered(done)
    /\ ChunksDone(done)
    /\ ResumePoint(done)
    /\ AtRest(done)
    /\ QueueContinues(done)

CheckpointApplied == pc = "checkpoint" => cur \in applied

AccountInv == HistoryInv /\ LoopInv /\ CheckpointApplied /\ Covers(Accounted)

-----------------------------------------------------------------------------
(* Where lastBlock lies; and why it never goes back, as long as no node    *)
(* lags, whatever block_range is.                                          *)

(* Block b is not before lastBlock (override_last_block may lie ahead);    *)
(* it is after it, if a block holds one log.                               *)
Ahead(b) == lastBlock > OverrideLastBlock => lastBlock <= b
Beyond(b) == /\ Ahead(b)
             /\ lastBlock > OverrideLastBlock /\ MaxLogsPerBlock = 1
                => lastBlock < b

InPast == saved <= head /\ (Running => Ahead(head))
HeadAhead == NodeLag = 0 /\ phase \in {"backfill", "poll"} => Ahead(chainHead)

(* What the subscription holds is not before lastBlock, nor within what    *)
(* the backfill asks for.                                                  *)
QueueAhead ==
    \A k \in queue : /\ Beyond(blockOf[k])
                     /\ phase = "backfill" => chainHead < blockOf[k]

(* Nor is a log that was pushed while it is handled, and it is before all  *)
(* that are still to come.                                                 *)
Live == batch \cup (IF pc = "events" /\ batch # {} THEN {} ELSE {cur})
LiveAhead ==
    InHand /\ phase = "live" =>
        \A i \in Live : Ahead(blockOf[i]) /\ \A k \in queue : i < k

AheadInv ==
    /\ ChainSorted
    /\ OwnMode
    /\ SubOff
    /\ NothingQueued
    /\ InPast
    /\ NotStarted
    /\ HeadAhead
    /\ QueueAhead
    /\ LiveAhead

-----------------------------------------------------------------------------
(* Why an indexer that polls in chunks sends no log twice as long as       *)
(* nothing fails.                                                          *)

Undisturbed ==
    /\ faults = 0 /\ crashes = 0
    /\ BlockRange # 0
    /\ \A i \in 1..mined : ~Orphan(i)

AppliedUpTo(b) == \A i \in applied : blockOf[i] <= b

(* What is applied lies behind the blocks that are asked for next, and no  *)
(* log fetched is among it.                                                *)
OnceOnly ==
    /\ late = {} /\ pc # "down"
    /\ pc = "boot" => applied = {}
    /\ pc \in {"blockNumber", "backoff", "idle", "poll"} => AppliedUpTo(lastBlock)
    /\ pc = "poll" => AppliedUpTo(chainHead)
    /\ pc = "backfill" => AppliedUpTo(Smaller(start - 1, chainHead))
    /\ InHand => /\ AppliedUpTo(Target)
                 /\ \A i \in Pending : blockOf[i] <= Target
    /\ Pending \cap applied = {}

NoneTwice == Undisturbed => OnceOnly

-----------------------------------------------------------------------------
(* Why the rows are current in the end: a retry sets a row back to an older*)
(* state, but only while the newer logs of the row are still to be handled *)
(* again.                                                                  *)

(* The contract creates an order or a match once, before it updates it; it *)
(* updates it once at most.                                                *)
Same(i, j) ==
    /\ Script[i].id = Script[j].id
    /\ Script[i].name \in {"OrderCreated", "OrderUpdated"}
       <=> Script[j].name \in {"OrderCreated", "OrderUpdated"}
CreatedOnce ==
    \A i, j \in LogIds : i < j /\ Same(i, j) => Script[j].name \in Updates
UpdatedOnce ==
    \A i, j \in LogIds : i < j /\ Same(i, j) => Script[i].name \in Creations

RowOf(j) ==
    IF Script[j].name \in {"OrderCreated", "OrderUpdated"}
    THEN orders[Script[j].id] ELSE matches[Script[j].id]

(* The row of log j is as a log of the row left it that is not older, and  *)
(* so is its match if j names one.                                         *)
Shows(j) ==
    /\ RowOf(j) # NoRow
    /\ \E p \in j..mined : Same(p, j) /\ RowOf(j).state = Script[p].state
    /\ Names(j) => \E q \in j..mined :
          Same(q, j) /\ Names(q) /\ RowOf(j).match = Script[q].match

(* What is shown, and will not be set back by a log that is in hand.       *)
Standing ==
    {j \in 1..mined : Shows(j) /\ \A i \in Pending : j < i} \cup unseen

(* A row has its values from logs of its own.                              *)
RowsFromLogs ==
    /\ \A o \in OrderIds : orders[o] # NoRow =>
          /\ \E p \in OrderLogs(o) : orders[o].state = Script[p].state
          /\ orders[o].match = 0 \/ \E q \in OrderLogs(o) :
                Names(q) /\ orders[o].match = Script[q].match
    /\ \A m \in MatchIds : matches[m] # NoRow =>
          /\ \E p \in MatchLogs(m) : matches[m].state = Script[p].state
          /\ matches[m].match = 0

(* Only the log of a creation asks for its row.                            *)
AsksCreation == pc = "exists" => Script[cur].name \in Creations

(* A process starts from a reported block only after a crash; and then the *)
(* rows must not have been in the middle of a replay.                      *)
NeverCrashed == MaxCrashes = 0 /\ pc \in {"boot", "down"} => saved = NoBlock
AppliedShown == UpdatedOnce => \A i \in applied : Shows(i)

RowInv ==
    /\ late = {}
    /\ RowsFromLogs
    /\ AsksCreation
    /\ NeverCrashed
    /\ AppliedShown
    /\ Covers(Standing)

=============================================================================
