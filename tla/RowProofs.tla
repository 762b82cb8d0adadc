----------------------------- MODULE RowProofs -----------------------------
(***************************************************************************)
(* What the collector's rows show of the logs: lastBlock never goes back   *)
(* (LastBlockNeverRegresses); an update finds its row (RowBeforeUpdate) and*)
(* no log is sent twice without a failure (ReplayOnlyAfterFailure) when    *)
(* polling; and in both modes the rows of an indexer that is through with  *)
(* the chain are those of the contract (RowsCurrent).                      *)
(***************************************************************************)
EXTENDS LossProofs

-----------------------------------------------------------------------------
(* Where lastBlock lies, with nodes that lag or not.                       *)

AheadTypes ==
    /\ lastBlock \in Nat /\ chainHead \in 0..head /\ head \in Nat /\ saved \in Int
    /\ OverrideLastBlock \in Nat
    /\ \A i \in 1..mined : blockOf[i] \in 1..head
    /\ queue \subseteq 1..mined /\ batch \subseteq 1..mined /\ mined \in Nat

LEMMA AheadNumbers == TypeInv /\ ChainSorted => AheadTypes
<1>. SUFFICES ASSUME TypeInv, ChainSorted PROVE AheadTypes
  OBVIOUS
<1>1. saved \in Int
  BY ChainBoundsAssumption DEF TypeInv, TypeOK, NoBlock
<1>. QED
  BY <1>1, Numbers DEF AheadTypes

(* The collector is told of no block beyond the head.                      *)
LEMMA SavedInPast ==
    ASSUME TypeInv, AheadInv, NEW i \in 1..mined, NEW write,
           Perform(write, i) \/ UNCHANGED saved
    PROVE  saved' <= head
BY AheadNumbers DEF AheadInv, AheadTypes, InPast, Perform, NewUpdateBlock

(* A step that leaves lastBlock and the head that was read alone, and adds *)
(* no log to those the indexer is to handle.                               *)
LEMMA AheadKept ==
    ASSUME AheadInv, UNCHANGED chainVars, UNCHANGED <<phase, lastBlock, chainHead>>,
           saved' <= head, Running' => Running,
           pc' \in {"boot", "down"} => pc \in {"boot", "down"},
           queue' \subseteq queue,
           phase = "live" => (InHand' => InHand /\ Live' \subseteq Live)
    PROVE  InPast' /\ NotStarted' /\ HeadAhead' /\ QueueAhead' /\ LiveAhead'
<1>1. /\ UNCHANGED <<head, blockOf>>
      /\ \A b : (Ahead(b)' <=> Ahead(b)) /\ (Beyond(b)' <=> Beyond(b))
  BY DEF chainVars, Ahead, Beyond
<1>2. InPast' /\ NotStarted' /\ HeadAhead'
  BY <1>1 DEF AheadInv, InPast, NotStarted, HeadAhead
<1>3. QueueAhead' /\ LiveAhead'
  BY <1>1 DEF AheadInv, QueueAhead, LiveAhead
<1>. QED
  BY <1>2, <1>3

(* The runner returns, or the process is killed.                           *)
LEMMA AheadLeft ==
    ASSUME AheadInv, UNCHANGED chainVars, saved' <= head, DropLocals,
           (UNCHANGED lastBlock /\ Running) \/ ~Running'
    PROVE  InPast' /\ NotStarted' /\ HeadAhead' /\ QueueAhead' /\ LiveAhead'
<1>1. phase' = "none" /\ queue' = {} /\ head' = head
  BY DEF DropLocals, chainVars
<1>2. InPast'
  BY <1>1 DEF AheadInv, InPast, Ahead
<1>. QED
  BY <1>1, <1>2 DEF NotStarted, HeadAhead, QueueAhead, LiveAhead

LEMMA AheadSend ==
    ASSUME TypeInv, AheadInv, SendWrite \/ UpdateLastBlock
    PROVE  InPast' /\ NotStarted' /\ HeadAhead' /\ QueueAhead' /\ LiveAhead'
<1>0. \E write : \E next \in {"checkpoint", "events"} : Send(write, next)
  <2>1. CASE SendWrite
    BY <2>1 DEF SendWrite
  <2>2. CASE UpdateLastBlock
    BY <2>2 DEF UpdateLastBlock
  <2>. QED
    BY <2>1, <2>2
<1>1. PICK write : \E n \in {"checkpoint", "events"} : Send(write, n)
  BY <1>0
<1>. PICK next \in {"checkpoint", "events"} : Send(write, next)
  BY <1>1
<1>2. pc \in {"write", "checkpoint"} /\ cur \in 1..mined
  BY DEF SendWrite, UpdateLastBlock, TypeInv, TypeOK, Handling, NoLog
<1>3. saved' <= head
  <2>1. Perform(write, cur) \/ UNCHANGED saved
    BY DEF Send, Answered, Failed, collectorVars
  <2>. QED
    BY <2>1, <1>2, SavedInPast
<1>4. UNCHANGED chainVars
  BY DEF Send
<1>5. CASE Return
  BY <1>2, <1>3, <1>4, <1>5, AheadLeft DEF Return, Running
<1>6. CASE pc' = next
           /\ UNCHANGED <<phase, lastBlock, chainHead, start, batch, cur, subVars>>
  <2>1. InHand /\ Running /\ Live' \subseteq Live /\ queue' = queue
    BY <1>2, <1>6 DEF InHand, Running, Live, subVars
  <2>. QED
    BY <2>1, <1>3, <1>4, <1>6, AheadKept
<1>. QED
  BY <1>5, <1>6 DEF Send

(* All that was asked for, or the log that was pushed, is handled.         *)
LEMMA AheadEnd ==
    ASSUME TypeInv, AheadInv, EndOfBatch \/ BackfillDone
    PROVE  /\ InPast' /\ NotStarted' /\ HeadAhead' /\ QueueAhead' /\ LiveAhead'
           /\ NodeLag = 0 => Ahead(lastBlock')
<1>1. AheadTypes
  BY AheadNumbers DEF AheadInv
<1>2. /\ UNCHANGED chainVars /\ UNCHANGED <<saved, phase, chainHead, batch>>
      /\ UNCHANGED subVars /\ Running /\ pc' \in {"idle", "backfill"}
  BY DEF EndOfBatch, BackfillDone, collectorVars, Running
<1>3. CASE UNCHANGED lastBlock
  <2>1. saved' <= head /\ ~InHand' /\ queue' = queue
    BY <1>2 DEF AheadInv, InPast, InHand, subVars
  <2>2. lastBlock' <= lastBlock
    BY <1>1, <1>3 DEF AheadTypes
  <2>. QED
    BY <2>1, <2>2, <1>2, <1>3, AheadKept DEF Ahead, Running
<1>4. CASE lastBlock' = chainHead /\ phase \in {"backfill", "poll"}
  <2>1. (NodeLag = 0 => Ahead(chainHead)) /\ (phase = "poll" => queue = {})
    BY <1>4 DEF AheadInv, HeadAhead, OwnMode, NothingQueued
  <2>2. \A k \in queue : chainHead < blockOf[k]
    BY <1>1, <1>4, <2>1 DEF AheadInv, QueueAhead, AheadTypes
  <2>3. InPast' /\ HeadAhead'
    BY <1>1, <1>2, <1>4 DEF AheadInv, InPast, HeadAhead, Ahead, AheadTypes, chainVars
  <2>4. QueueAhead'
    <3>1. \A k \in queue : chainHead <= blockOf[k]
      BY <1>1, <2>2 DEF AheadTypes
    <3>. QED
      BY <1>2, <1>4, <2>2, <3>1 DEF QueueAhead, Ahead, Beyond, chainVars, subVars
  <2>. QED
    BY <1>2, <1>4, <2>1, <2>3, <2>4 DEF NotStarted, LiveAhead
<1>5. CASE lastBlock' = blockOf[cur] /\ phase = "live" /\ EndOfBatch
  <2>1. cur \in Live /\ InHand /\ cur \in 1..mined
    BY <1>5 DEF EndOfBatch, Live, InHand, TypeInv, TypeOK, NoLog
  <2>2. Ahead(blockOf[cur]) /\ \A k \in queue : cur < k
    BY <1>5, <2>1 DEF AheadInv, LiveAhead
  <2>3. \A k \in queue : /\ blockOf[cur] <= blockOf[k]
                         /\ MaxLogsPerBlock = 1 => blockOf[cur] < blockOf[k]
    BY <1>1, <2>1, <2>2 DEF AheadInv, ChainSorted, AheadTypes
  <2>4. InPast'
    BY <1>1, <1>2, <1>5, <2>1 DEF AheadInv, InPast, Ahead, AheadTypes, chainVars
  <2>5. HeadAhead' /\ phase' = "live" /\ queue' = queue /\ blockOf' = blockOf
    BY <1>2, <1>5 DEF HeadAhead, chainVars, subVars
  <2>6. QueueAhead'
    <3>. SUFFICES ASSUME NEW k \in queue PROVE Beyond(blockOf[k])'
      BY <2>5 DEF QueueAhead, Beyond, Ahead
    <3>1. /\ blockOf[cur] <= blockOf[k]
          /\ MaxLogsPerBlock = 1 => blockOf[cur] < blockOf[k]
      BY <2>3
    <3>2. lastBlock' = blockOf[cur] /\ blockOf'[k] = blockOf[k]
      BY <1>5, <2>5
    <3>. QED
      BY <3>1, <3>2, <2>5 DEF Beyond, Ahead
  <2>. QED
    BY <1>2, <1>5, <2>2, <2>4, <2>5, <2>6 DEF NotStarted, LiveAhead, InHand
<1>. QED
  BY <1>3, <1>4, <1>5 DEF EndOfBatch, BackfillDone, TypeInv

(* A block is mined: its logs are beyond whatever the indexer holds.       *)
LEMMA AheadMine ==
    ASSUME TypeInv, AheadInv, Mine
    PROVE  InPast' /\ NotStarted' /\ HeadAhead' /\ QueueAhead' /\ LiveAhead'
<1>1. AheadTypes
  BY AheadNumbers DEF AheadInv
<1>2. UNCHANGED <<saved, pc, phase, lastBlock, chainHead, batch, cur, sub>>
  BY DEF Mine, collectorVars, loopVars
<1>3. /\ head' = head + 1 /\ mined' \in Nat
      /\ \A i \in 1..mined : blockOf'[i] = blockOf[i]
      /\ \A k \in queue' : k \in queue \/ (k > mined /\ k \in 1..mined' /\ sub = "live")
      /\ ChainSorted'
  BY <1>1, MineFacts DEF AheadInv, AheadTypes
<1>4. \A k \in 1..mined' : k > mined => blockOf'[k] = head + 1
  <2>1. PICK n \in 0..MaxLogsPerBlock : MineBlock(n)
    BY DEF Mine
  <2>2. mined' = mined + n /\ 1..mined' \subseteq LogIds
    BY <2>1, <1>1, ScriptType, ChainBoundsAssumption DEF MineBlock, AheadTypes
  <2>. QED
    BY <2>1, <2>2, <1>1 DEF MineBlock, AheadTypes
<1>5. InPast' /\ NotStarted' /\ HeadAhead'
  BY <1>1, <1>2, <1>3
     DEF AheadInv, InPast, NotStarted, HeadAhead, Ahead, Running, AheadTypes
<1>6. QueueAhead'
  <2>. SUFFICES ASSUME NEW k \in queue'
                PROVE  /\ Beyond(blockOf'[k])
                       /\ phase = "backfill" => chainHead < blockOf'[k]
    BY <1>2 DEF QueueAhead, Ahead, Beyond
  <2>1. CASE k \in queue
    <3>1. blockOf'[k] = blockOf[k]
      BY <2>1, <1>1, <1>3 DEF AheadTypes
    <3>. QED
      BY <2>1, <3>1 DEF AheadInv, QueueAhead
  <2>2. CASE k > mined /\ k \in 1..mined' /\ sub = "live"
    <3>1. blockOf'[k] = head + 1 /\ Ahead(head)
      BY <2>2, <1>4 DEF AheadInv, SubOff, InPast, Running
    <3>. QED
      BY <3>1, <1>1 DEF Ahead, Beyond, AheadTypes
  <2>. QED
    BY <1>3, <2>1, <2>2
<1>7. LiveAhead'
  <2>. SUFFICES ASSUME InHand, phase = "live", NEW i \in Live
                PROVE  Ahead(blockOf'[i]) /\ \A k \in queue' : i < k
    BY <1>2 DEF LiveAhead, InHand, Live, Ahead
  <2>1. i \in 1..mined
    BY <1>1 DEF Live, TypeInv, TypeOK, InHand, Handling, NoLog, AheadTypes
  <2>2. Ahead(blockOf[i]) /\ \A k \in queue : i < k
    BY DEF AheadInv, LiveAhead
  <2>3. ASSUME NEW k \in queue' PROVE i < k
    <3>1. CASE k \in queue
      BY <3>1, <2>2
    <3>2. CASE k > mined /\ k \in 1..mined'
      BY <3>2, <2>1, <1>1, <1>3 DEF AheadTypes
    <3>. QED
      BY <3>1, <3>2, <1>3
  <2>. QED
    BY <2>1, <2>2, <2>3, <1>3
<1>. QED
  BY <1>5, <1>6, <1>7


LEMMA AheadStep ==
    ASSUME TypeInv, AheadInv, [Next]_vars PROVE  AheadInv'
<1>1. SubOff' /\ NothingQueued'
  BY SubOffStep, NothingQueuedStep DEF AheadInv, SubInv
<1>2. OwnMode' /\ ChainSorted'
  <2>1. ChainSorted'
    <3>1. CASE Mine
      BY <3>1, MineFacts DEF AheadInv
    <3>2. CASE UNCHANGED chainVars
      BY <3>2 DEF AheadInv, ChainSorted, chainVars
    <3>. QED
      BY <3>1, <3>2, ChainKept
  <2>. QED
    BY <2>1, OwnModeStep DEF AheadInv
<1>. SUFFICES InPast' /\ NotStarted' /\ HeadAhead' /\ QueueAhead' /\ LiveAhead'
  BY <1>1, <1>2 DEF AheadInv
<1>3. AheadTypes /\ saved <= head
  BY AheadNumbers DEF AheadInv, InPast
<1>4. CASE GetLastBlock
  <2>1. /\ UNCHANGED chainVars /\ UNCHANGED <<saved, phase>> /\ UNCHANGED subVars
        /\ pc = "boot" /\ pc' \in {"blockNumber", "down"}
        /\ \/ pc' = "down"
           \/ lastBlock' = OverrideLastBlock \/ lastBlock' = saved
    BY <1>4 DEF GetLastBlock, collectorVars
  <2>2. phase' = "none" /\ queue' = {}
    BY <2>1 DEF AheadInv, NotStarted, SubOff, NothingQueued, subVars
  <2>3. InPast'
    BY <2>1, <1>3 DEF InPast, Ahead, Running, AheadTypes, chainVars
  <2>. QED
    BY <2>2, <2>3 DEF NotStarted, HeadAhead, QueueAhead, LiveAhead
<1>5. CASE BlockNumber
  <2>1. /\ UNCHANGED chainVars /\ UNCHANGED <<saved, lastBlock>>
        /\ UNCHANGED subVars /\ pc = "blockNumber" /\ phase' = "backfill"
        /\ (NodeLag = 0 => chainHead' = head) /\ pc' \in {"subscribe", "backfill"}
    BY <1>5, NoLag DEF BlockNumber, collectorVars, AheadInv
  <2>2. queue' = {} /\ Ahead(head)
    BY <2>1 DEF AheadInv, SubOff, NothingQueued, InPast, Running, subVars
  <2>. QED
    BY <2>1, <2>2, <1>3
       DEF InPast, NotStarted, HeadAhead, QueueAhead, LiveAhead, Ahead, chainVars
<1>6. CASE Tick
  <2>1. /\ UNCHANGED chainVars /\ UNCHANGED <<saved, lastBlock>>
        /\ UNCHANGED subVars /\ pc = "idle" /\ ~UseWs /\ phase' = "poll"
        /\ (NodeLag = 0 => chainHead' = head) /\ pc' = "poll"
    BY <1>6, NoLag DEF Tick, collectorVars, AheadInv
  <2>2. queue' = {} /\ Ahead(head)
    BY <2>1 DEF AheadInv, OwnMode, NothingQueued, InPast, Running, subVars
  <2>. QED
    BY <2>1, <2>2, <1>3
       DEF InPast, NotStarted, HeadAhead, QueueAhead, LiveAhead, Ahead, chainVars
<1>7. CASE Listen
  <2>1. /\ UNCHANGED chainVars /\ UNCHANGED <<saved, lastBlock, cur>>
        /\ pc = "idle" /\ pc' = "events" /\ phase' = "live" /\ queue # {}
        /\ batch' = {Earliest(queue)} /\ queue' = queue \ {Earliest(queue)}
    BY <1>7 DEF Listen, collectorVars
  <2>2. Earliest(queue) \in queue /\ \A j \in queue : Earliest(queue) <= j
    <3>1. queue \in SUBSET Nat
      BY <1>3 DEF AheadTypes
    <3>. QED
      BY <2>1, <3>1, EarliestProperties
  <2>3. /\ Live' = {Earliest(queue)}
        /\ \A b : (Ahead(b)' <=> Ahead(b)) /\ (Beyond(b)' <=> Beyond(b))
    BY <2>1 DEF Live, Ahead, Beyond
  <2>4. \A k \in queue' : Earliest(queue) < k
    <3>1. PICK e : e = Earliest(queue)
      OBVIOUS
    <3>2. e \in queue /\ (\A j \in queue : e <= j) /\ queue' = queue \ {e}
      BY <2>1, <2>2, <3>1
    <3>3. \A k \in queue' : e < k
      BY <3>2, <1>3 DEF AheadTypes
    <3>. QED
      BY <3>1, <3>3
  <2>5. QueueAhead'
    BY <2>1, <2>3 DEF AheadInv, QueueAhead, chainVars
  <2>6. LiveAhead'
    BY <2>1, <2>2, <2>3, <2>4 DEF AheadInv, QueueAhead, LiveAhead, Beyond, chainVars
  <2>. QED
    BY <2>1, <2>3, <2>5, <2>6, <1>3
       DEF AheadInv, InPast, NotStarted, HeadAhead, Running, chainVars
<1>8. CASE BackfillDone \/ EndOfBatch
  BY <1>8, AheadEnd
<1>9. CASE SendWrite \/ UpdateLastBlock
  BY <1>9, AheadSend
<1>10. CASE RangeRefused \/ SubscriptionFailed \/ CallFails \/ Crash
  <2>1. UNCHANGED chainVars /\ UNCHANGED saved /\ DropLocals
        /\ ((UNCHANGED lastBlock /\ Running) \/ ~Running')
    BY <1>10 DEF RangeRefused, SubscriptionFailed, CallFails, Crash, Return,
       Running, collectorVars
  <2>. QED
    BY <2>1, <1>3, AheadLeft
<1>11. CASE Mine
  BY <1>11, AheadMine
<1>12. CASE HandleEvent
  <2>1. /\ UNCHANGED chainVars /\ UNCHANGED <<phase, lastBlock, chainHead, saved>>
        /\ queue' = queue /\ pc = "events" /\ pc' \in {"exists", "write"}
        /\ batch # {} /\ cur' = Earliest(batch) /\ batch' = batch \ {cur'}
    BY <1>12 DEF HandleEvent, subVars, collectorVars
  <2>2. cur' \in batch
    <3>1. batch \in SUBSET Nat
      BY <1>3 DEF AheadTypes
    <3>. QED
      BY <2>1, <3>1, EarliestProperties
  <2>3. Live' \subseteq Live /\ InHand
    BY <2>1, <2>2 DEF Live, InHand
  <2>. QED
    BY <2>1, <2>3, <1>3, AheadKept DEF Running
<1>13. CASE Subscribe \/ Backfill \/ Poll \/ AskExists \/ Retry \/ Restart
  <2>1. /\ UNCHANGED chainVars /\ UNCHANGED <<phase, lastBlock, chainHead, saved>>
        /\ queue' = queue
        /\ pc' \in {"boot", "down"} => pc \in {"boot", "down"}
        /\ Running' => Running
    BY <1>13 DEF Subscribe, Backfill, Poll, AskExists, Retry, Restart, subVars,
       collectorVars, Running
  <2>2. phase = "live" => (InHand' => InHand /\ Live' \subseteq Live)
    BY <1>13 DEF Subscribe, Backfill, Poll, AskExists, Retry, Restart, InHand,
       Live, TypeInv
  <2>. QED
    BY <2>1, <2>2, <1>3, AheadKept
<1>14. CASE SubscriptionBreaks \/ UNCHANGED vars
  <2>1. UNCHANGED chainVars /\ UNCHANGED loopVars /\ UNCHANGED saved
        /\ queue' \subseteq queue
    BY <1>14 DEF SubscriptionBreaks, vars, subVars, collectorVars
  <2>2. UNCHANGED <<pc, phase, lastBlock, chainHead>> /\ InHand' = InHand
        /\ Live' = Live /\ Running' = Running
    BY <2>1 DEF loopVars, InHand, Live, Running
  <2>. QED
    BY <2>1, <2>2, <1>3, AheadKept
<1>15. CASE PerformLate
  <2>1. PICK w \in late : Perform(w.write, w.log)
    BY <1>15 DEF PerformLate, LateWrite
  <2>2. w.log \in 1..mined
    BY ScriptType DEF TypeInv, TypeOK, LateWrites
  <2>3. UNCHANGED chainVars /\ UNCHANGED loopVars /\ queue' = queue
    BY <1>15 DEF PerformLate, subVars
  <2>4. UNCHANGED <<pc, phase, lastBlock, chainHead>> /\ InHand' = InHand
        /\ Live' = Live /\ Running' = Running
    BY <2>3 DEF loopVars, InHand, Live, Running
  <2>5. saved' <= head
    BY <2>1, <2>2, SavedInPast
  <2>. QED
    BY <2>3, <2>4, <2>5, AheadKept
<1>. QED
  BY <1>4, <1>5, <1>6, <1>7, <1>8, <1>9, <1>10, <1>11, <1>12, <1>13, <1>14, <1>15
     DEF Next, IndexerStep

(* No step of a live process but the end of a range, or of a log that was  *)
(* pushed, moves lastBlock.                                                *)
LEMMA LastBlockMoves ==
    ASSUME NodeLag = 0, TypeInv, AheadInv, [Next]_vars, Running, Running',
           lastBlock > OverrideLastBlock
    PROVE  lastBlock' >= lastBlock
<1>1. lastBlock \in Nat /\ chainHead \in Nat /\ ~GetLastBlock /\ ~Crash
  BY DEF TypeInv, TypeOK, GetLastBlock, Crash, Running
<1>2. CASE UNCHANGED lastBlock
  BY <1>1, <1>2
<1>3. CASE BackfillDone \/ EndOfBatch
  BY <1>3, AheadEnd DEF Ahead
<1>4. CASE \/ BlockNumber \/ Subscribe \/ Backfill \/ HandleEvent \/ AskExists
           \/ Tick \/ Poll \/ Listen \/ Retry \/ Restart
  BY <1>2, <1>4 DEF BlockNumber, Subscribe, Backfill, HandleEvent, AskExists,
     Tick, Poll, Listen, Retry, Restart
<1>5. CASE SendWrite \/ UpdateLastBlock \/ RangeRefused \/ CallFails
           \/ SubscriptionFailed
  BY <1>2, <1>5 DEF SendWrite, UpdateLastBlock, Send, RangeRefused, CallFails,
     SubscriptionFailed, Return
<1>6. CASE Mine \/ SubscriptionBreaks \/ PerformLate \/ UNCHANGED vars
  BY <1>2, <1>6 DEF Mine, SubscriptionBreaks, PerformLate, vars, loopVars
<1>. QED
  BY <1>1, <1>3, <1>4, <1>5, <1>6 DEF Next, IndexerStep

LEMMA AheadInitial == Init => AheadInv
BY DEF Init, ChainInit, CollectorInit, IndexerInit, AheadInv, ChainSorted,
   OwnMode, SubOff, NothingQueued, InPast, NotStarted, HeadAhead, QueueAhead,
   LiveAhead, Running, NoBlock

(* As long as no node lags, a process that lives never goes back to an     *)
(* earlier block, once it is past override_last_block, whether it polls or *)
(* is pushed its logs (LastBlockNeverRegresses).                           *)
THEOREM LastBlockAdvances ==
    ASSUME NodeLag = 0 PROVE Spec => LastBlockNeverRegresses
<1>. DEFINE Forward == Running /\ Running' /\ lastBlock > OverrideLastBlock
                       => lastBlock' >= lastBlock
<1>1. Init => TypeInv /\ AheadInv
  BY TypeInitial, AheadInitial
<1>2. TypeInv /\ AheadInv /\ [Next]_vars => (TypeInv /\ AheadInv)'
  BY TypeStep, AheadStep
<1>3. TypeInv /\ AheadInv /\ [Next]_vars => Forward
  BY LastBlockMoves
<1>. QED
  BY <1>1, <1>2, <1>3, PTL DEF Spec, LastBlockNeverRegresses

-----------------------------------------------------------------------------
(* The rows: what a write makes of them.                                   *)

(* The row of a log, and the logs of its row.                              *)
RowLogs(j) == {p \in 1..mined : Same(p, j)}

LEMMA RowOfLog ==
    ASSUME TypeInv, NEW j \in 1..mined
    PROVE  LET id == Script[j].id
           IN  \/ /\ Script[j].name \in {"OrderCreated", "OrderUpdated"}
                  /\ id \in OrderIds /\ RowOf(j) = orders[id]
                  /\ RowOf(j)' = orders'[id] /\ RowLogs(j) = OrderLogs(id)
               \/ /\ Script[j].name \in {"MatchCreated", "MatchUpdated"}
                  /\ id \in MatchIds /\ RowOf(j) = matches[id]
                  /\ RowOf(j)' = matches'[id] /\ RowLogs(j) = MatchLogs(id)
<1>1. 1..mined \subseteq LogIds
  BY ScriptType DEF TypeInv, TypeOK
<1>2. \A p \in 1..mined : Script[p].name \in EventNames
  BY <1>1, ScriptType DEF Event
<1>. DEFINE id == Script[j].id
<1>3. CASE Script[j].name \in {"OrderCreated", "OrderUpdated"}
  <2>1. id \in OrderIds
    BY <1>1, <1>3 DEF OrderIds
  <2>2. RowLogs(j) = OrderLogs(id)
    BY <1>3 DEF RowLogs, OrderLogs, Same
  <2>. QED
    BY <1>3, <2>1, <2>2 DEF RowOf
<1>4. CASE Script[j].name \in {"MatchCreated", "MatchUpdated"}
  <2>1. id \in MatchIds
    BY <1>1, <1>4 DEF MatchIds
  <2>2. RowLogs(j) = MatchLogs(id)
    BY <1>2, <1>4 DEF RowLogs, MatchLogs, Same, EventNames
  <2>. QED
    BY <1>4, <2>1, <2>2 DEF RowOf
<1>. QED
  BY <1>2, <1>3, <1>4 DEF EventNames

(* Log i leaves the row of these logs alone, creates it, or updates it.    *)
Effect(i, logs, row, new) ==
    \/ new = row
    \/ /\ i \in logs /\ Script[i].name \in Creations /\ row = NoRow
       /\ new # NoRow /\ new.state = Script[i].state /\ new.match = 0
    \/ /\ i \in logs /\ Script[i].name \in Updates /\ row # NoRow
       /\ new # NoRow /\ new.state = Script[i].state
       /\ new.match = IF Names(i) THEN Script[i].match ELSE row.match

LEMMA PerformEffect ==
    ASSUME TypeInv, NEW i \in 1..mined, NEW write \in WritesFor(i),
           Perform(write, i)
    PROVE  /\ \A o \in OrderIds :
                 Effect(i, OrderLogs(o), orders[o], orders'[o])
           /\ \A m \in MatchIds :
                 Effect(i, MatchLogs(m), matches[m], matches'[m])
           /\ write # "updateLastBlock" /\ Accepts(write, i) =>
                 \/ /\ Script[i].name \in Creations
                    /\ RowOf(i) # NoRow /\ RowOf(i)' = RowOf(i)
                 \/ /\ RowOf(i)' # NoRow /\ RowOf(i)'.state = Script[i].state
                    /\ Names(i) => RowOf(i)'.match = Script[i].match
<1>. DEFINE e == Script[i]
<1>0. e \in Event /\ e.name \in EventNames /\ e.state \in Nat /\ e.match \in Nat
  <2>1. i \in LogIds
    BY ScriptType DEF TypeInv, TypeOK
  <2>. QED
    BY <2>1, ScriptType DEF Event
<1>1. /\ orders \in [OrderIds -> Row \cup {NoRow}]
      /\ matches \in [MatchIds -> Row \cup {NoRow}]
  BY DEF TypeInv, TypeOK
<1>2. CASE write = "addOrder"
  <2>1. e.name = "OrderCreated" /\ ~Names(i) /\ i \in OrderLogs(e.id)
    BY <1>0, <1>2 DEF WritesFor, WriteFor, EventNames, Names, OrderLogs
  <2>2. e.id \in OrderIds /\ RowOf(i) = orders[e.id] /\ RowOf(i)' = orders'[e.id]
    BY <2>1, RowOfLog
  <2>3. matches' = matches
    BY <1>2 DEF Perform
  <2>4. orders' = IF orders[e.id] = NoRow
                  THEN [orders EXCEPT ![e.id] = NewAddOrder(e)] ELSE orders
    BY <1>2 DEF Perform, OrderWrites
  <2>5. /\ NewAddOrder(e) # NoRow
        /\ NewAddOrder(e).state = e.state /\ NewAddOrder(e).match = 0
    <3>1. NewAddOrder(e) \in Row
      BY <1>0 DEF NewAddOrder, Row
    <3>. QED
      BY <3>1, NoRowIsNoRow DEF NewAddOrder
  <2>6. ASSUME NEW o \in OrderIds
        PROVE  Effect(i, OrderLogs(o), orders[o], orders'[o])
    BY <1>1, <2>1, <2>2, <2>4, <2>5 DEF Effect, Creations
  <2>7. \A m \in MatchIds : Effect(i, MatchLogs(m), matches[m], matches'[m])
    BY <2>3 DEF Effect
  <2>8. \/ RowOf(i) # NoRow /\ RowOf(i)' = RowOf(i)
        \/ RowOf(i)' # NoRow /\ RowOf(i)'.state = e.state
    BY <1>1, <2>2, <2>4, <2>5
  <2>. QED
    BY <2>1, <2>6, <2>7, <2>8 DEF Creations
<1>3. CASE write = "addMatch"
  <2>1. e.name = "MatchCreated" /\ ~Names(i) /\ i \in MatchLogs(e.id)
    BY <1>0, <1>3 DEF WritesFor, WriteFor, EventNames, Names, MatchLogs
  <2>2. e.id \in MatchIds /\ RowOf(i) = matches[e.id] /\ RowOf(i)' = matches'[e.id]
    BY <2>1, RowOfLog
  <2>3. orders' = orders
    BY <1>3 DEF Perform
  <2>4. matches' = IF matches[e.id] = NoRow
                   THEN [matches EXCEPT ![e.id] = NewAddMatch(e)] ELSE matches
    BY <1>3 DEF Perform, OrderWrites
  <2>5. /\ NewAddMatch(e) # NoRow
        /\ NewAddMatch(e).state = e.state /\ NewAddMatch(e).match = 0
    <3>1. NewAddMatch(e) \in Row
      BY <1>0 DEF NewAddMatch, Row
    <3>. QED
      BY <3>1, NoRowIsNoRow DEF NewAddMatch
  <2>6. ASSUME NEW m \in MatchIds
        PROVE  Effect(i, MatchLogs(m), matches[m], matches'[m])
    BY <1>1, <2>1, <2>2, <2>4, <2>5 DEF Effect, Creations
  <2>7. \A o \in OrderIds : Effect(i, OrderLogs(o), orders[o], orders'[o])
    BY <2>3 DEF Effect
  <2>8. \/ RowOf(i) # NoRow /\ RowOf(i)' = RowOf(i)
        \/ RowOf(i)' # NoRow /\ RowOf(i)'.state = e.state
    BY <1>1, <2>2, <2>4, <2>5
  <2>. QED
    BY <2>1, <2>6, <2>7, <2>8 DEF Creations
<1>4. CASE write = "updateOrder"
  <2>1. e.name = "OrderUpdated" /\ i \in OrderLogs(e.id)
    BY <1>0, <1>4 DEF WritesFor, WriteFor, EventNames, OrderLogs
  <2>2. e.id \in OrderIds /\ RowOf(i) = orders[e.id] /\ RowOf(i)' = orders'[e.id]
    BY <2>1, RowOfLog
  <2>3. matches' = matches
    BY <1>4 DEF Perform
  <2>. DEFINE new == NewUpdateOrder(orders[e.id], e)
  <2>4. orders' = IF orders[e.id] # NoRow
                  THEN [orders EXCEPT ![e.id] = new] ELSE orders
    BY <1>4 DEF Perform, OrderWrites
  <2>5. orders[e.id] # NoRow =>
           /\ new # NoRow /\ new.state = e.state
           /\ new.match = IF Names(i) THEN e.match ELSE orders[e.id].match
    <3>. SUFFICES ASSUME orders[e.id] # NoRow
                  PROVE  /\ new # NoRow /\ new.state = e.state
                         /\ new.match = IF Names(i) THEN e.match
                                        ELSE orders[e.id].match
      OBVIOUS
    <3>1. orders[e.id] \in Row
      BY <1>1, <2>2
    <3>2. new \in Row
      BY <1>0, <3>1 DEF NewUpdateOrder, Row
    <3>3. new # NoRow
      BY <3>2, NoRowIsNoRow
    <3>. QED
      BY <2>1, <3>3 DEF NewUpdateOrder, Names
  <2>. HIDE DEF new
  <2>6. ASSUME NEW o \in OrderIds
        PROVE  Effect(i, OrderLogs(o), orders[o], orders'[o])
    BY <1>1, <2>1, <2>2, <2>4, <2>5 DEF Effect, Updates
  <2>7. \A m \in MatchIds : Effect(i, MatchLogs(m), matches[m], matches'[m])
    BY <2>3 DEF Effect
  <2>8. Accepts(write, i) =>
           /\ RowOf(i)' # NoRow /\ RowOf(i)'.state = e.state
           /\ Names(i) => RowOf(i)'.match = e.match
    BY <1>1, <1>4, <2>2, <2>4, <2>5 DEF Accepts
  <2>. QED
    BY <2>6, <2>7, <2>8
<1>5. CASE write = "updateMatch"
  <2>1. e.name = "MatchUpdated" /\ ~Names(i) /\ i \in MatchLogs(e.id)
    BY <1>0, <1>5 DEF WritesFor, WriteFor, EventNames, Names, MatchLogs
  <2>2. e.id \in MatchIds /\ RowOf(i) = matches[e.id] /\ RowOf(i)' = matches'[e.id]
    BY <2>1, RowOfLog
  <2>3. orders' = orders
    BY <1>5 DEF Perform
  <2>. DEFINE new == NewUpdateMatch(matches[e.id], e)
  <2>4. matches' = IF matches[e.id] # NoRow
                   THEN [matches EXCEPT ![e.id] = new] ELSE matches
    BY <1>5 DEF Perform, OrderWrites
  <2>5. matches[e.id] # NoRow =>
           /\ new # NoRow /\ new.state = e.state
           /\ new.match = matches[e.id].match
    <3>. SUFFICES ASSUME matches[e.id] # NoRow
                  PROVE  /\ new # NoRow /\ new.state = e.state
                         /\ new.match = matches[e.id].match
      OBVIOUS
    <3>1. matches[e.id] \in Row
      BY <1>1, <2>2
    <3>2. new \in Row
      BY <1>0, <3>1 DEF NewUpdateMatch, Row
    <3>3. new # NoRow
      BY <3>2, NoRowIsNoRow
    <3>. QED
      BY <3>1, <3>3 DEF NewUpdateMatch, Row
  <2>. HIDE DEF new
  <2>6. ASSUME NEW m \in MatchIds
        PROVE  Effect(i, MatchLogs(m), matches[m], matches'[m])
    BY <1>1, <2>1, <2>2, <2>4, <2>5 DEF Effect, Updates
  <2>7. \A o \in OrderIds : Effect(i, OrderLogs(o), orders[o], orders'[o])
    BY <2>3 DEF Effect
  <2>8. Accepts(write, i) => RowOf(i)' # NoRow /\ RowOf(i)'.state = e.state
    BY <1>1, <1>5, <2>2, <2>4, <2>5 DEF Accepts
  <2>. QED
    BY <2>1, <2>6, <2>7, <2>8
<1>6. CASE write = "updateLastBlock"
  BY <1>6 DEF Perform, Effect
<1>. QED
  BY <1>0, <1>2, <1>3, <1>4, <1>5, <1>6 DEF WritesFor, WriteFor, EventNames


-----------------------------------------------------------------------------
(* The polling indexer is not stopped by an update that the collector has  *)
(* no row for, unless override_last_block hides the creation.              *)

(* The contract updates only what it created before.                       *)
ScriptOrdered ==
    \A i \in LogIds : Script[i].name \in Updates =>
        \E j \in 1..(i - 1) : /\ Script[j].name = CreationOf(Script[i].name)
                              /\ Script[j].id = Script[i].id

(* The collector has a row for every creation it has taken.                *)
RowsPresent ==
    \A i \in applied :
        /\ Script[i].name = "OrderCreated" => orders[Script[i].id] # NoRow
        /\ Script[i].name = "MatchCreated" => matches[Script[i].id] # NoRow

(* A write deletes no row, and the write of a creation makes one.          *)
LEMMA PerformKeepsRows ==
    ASSUME TypeInv, NEW i \in 1..mined, NEW write \in WritesFor(i),
           Perform(write, i)
    PROVE  /\ \A o \in OrderIds : orders[o] # NoRow => orders'[o] # NoRow
           /\ \A m \in MatchIds : matches[m] # NoRow => matches'[m] # NoRow
           /\ write = "addOrder" => orders'[Script[i].id] # NoRow
           /\ write = "addMatch" => matches'[Script[i].id] # NoRow
<1>1. /\ \A o \in OrderIds : orders[o] # NoRow => orders'[o] # NoRow
      /\ \A m \in MatchIds : matches[m] # NoRow => matches'[m] # NoRow
  BY PerformEffect DEF Effect
<1>2. CASE write \in {"addOrder", "addMatch"}
  <2>1. RowOf(i)' # NoRow /\ Script[i].name \in Creations
        /\ (write = "addOrder" <=> Script[i].name = "OrderCreated")
    <3>1. Script[i].name \in EventNames
      BY ScriptType DEF Event, TypeInv, TypeOK
    <3>. QED
      BY <1>2, <3>1, PerformEffect
         DEF Accepts, WritesFor, WriteFor, EventNames, Creations
  <2>. QED
    BY <1>1, <1>2, <2>1 DEF RowOf, Creations
<1>. QED
  BY <1>1, <1>2

(* Hence performing the write of a log keeps the rows of what is applied.  *)
LEMMA PerformRowsPresent ==
    ASSUME TypeInv, RowsPresent, NEW i \in 1..mined, NEW write \in WritesFor(i),
           Perform(write, i)
    PROVE  RowsPresent'
<1>0. applied \subseteq 1..mined /\ 1..mined \subseteq LogIds
  BY ScriptType DEF TypeInv, TypeOK
<1>1. \A k \in 1..mined :
         /\ Script[k].name = "OrderCreated" => Script[k].id \in OrderIds
         /\ Script[k].name = "MatchCreated" => Script[k].id \in MatchIds
  BY <1>0 DEF OrderIds, MatchIds
<1>2. ASSUME NEW k \in applied PROVE
         /\ Script[k].name = "OrderCreated" => orders'[Script[k].id] # NoRow
         /\ Script[k].name = "MatchCreated" => matches'[Script[k].id] # NoRow
  BY <1>0, <1>1, <1>2, PerformKeepsRows DEF RowsPresent, TypeInv
<1>3. write # "updateLastBlock" =>
         /\ Script[i].name = "OrderCreated" => orders'[Script[i].id] # NoRow
         /\ Script[i].name = "MatchCreated" => matches'[Script[i].id] # NoRow
  BY <1>1, PerformKeepsRows DEF WritesFor, WriteFor, TypeInv
<1>4. \/ applied' = applied
      \/ write # "updateLastBlock" /\ applied' = applied \cup {i}
  <2>1. applied' = IF write # "updateLastBlock" /\ Accepts(write, i)
                   THEN applied \cup {i} ELSE applied
    BY DEF Perform
  <2>. QED
    BY <2>1
<1>. QED
  BY <1>2, <1>3, <1>4 DEF RowsPresent

LEMMA RowsStep == TypeInv /\ RowsPresent /\ [Next]_vars => RowsPresent'
<1>. SUFFICES ASSUME TypeInv, RowsPresent, [Next]_vars PROVE RowsPresent'
  OBVIOUS
<1>1. CASE UNCHANGED <<orders, matches, applied>>
  BY <1>1 DEF RowsPresent
<1>2. CASE AskExists
  BY <1>2 DEF AskExists, RowsPresent
<1>3. ASSUME NEW write \in WritesFor(cur), cur \in 1..mined, NEW next,
             Send(write, next)
      PROVE  RowsPresent'
  <2>1. UNCHANGED <<orders, matches, applied>> \/ Perform(write, cur)
    BY <1>3 DEF Send, Answered, Failed, collectorVars
  <2>. QED
    BY <1>1, <1>3, <2>1, PerformRowsPresent
<1>4. Handling => cur \in 1..mined
  BY DEF TypeInv, TypeOK, NoLog
<1>5. CASE SendWrite
  BY <1>3, <1>4, <1>5 DEF SendWrite, Handling, WritesFor
<1>6. CASE UpdateLastBlock
  BY <1>3, <1>4, <1>6 DEF UpdateLastBlock, Handling, WritesFor
<1>7. CASE PerformLate
  <2>1. PICK w \in late : Perform(w.write, w.log)
    BY <1>7 DEF PerformLate, LateWrite
  <2>2. w.log \in 1..mined /\ w.write \in WritesFor(w.log)
    BY ScriptType DEF TypeInv, TypeOK, LateWrites
  <2>. QED
    BY <2>1, <2>2, PerformRowsPresent
<1>8. CASE GetLastBlock \/ BlockNumber \/ Subscribe \/ Backfill \/ RangeRefused
           \/ BackfillDone \/ EndOfBatch \/ HandleEvent
  BY <1>1, <1>8 DEF GetLastBlock, BlockNumber, Subscribe, Backfill,
     RangeRefused, BackfillDone, EndOfBatch, HandleEvent, collectorVars
<1>9. CASE Tick \/ Poll \/ Listen \/ SubscriptionFailed \/ Retry \/ CallFails
           \/ Mine \/ SubscriptionBreaks \/ Crash \/ Restart \/ UNCHANGED vars
  BY <1>1, <1>9 DEF Tick, Poll, Listen, SubscriptionFailed, Retry, CallFails,
     Mine, SubscriptionBreaks, Crash, Restart, vars, collectorVars
<1>. QED
  BY <1>2, <1>5, <1>6, <1>7, <1>8, <1>9 DEF Next, IndexerStep

LEMMA RowsInvariant == Spec => []RowsPresent
<1>1. Init => RowsPresent
  BY DEF Init, CollectorInit, RowsPresent
<1>2. TypeInv /\ RowsPresent /\ [Next]_vars => RowsPresent'
  BY RowsStep
<1>. QED
  BY <1>1, <1>2, TypeInitial, TypeStep, PTL DEF Spec

-----------------------------------------------------------------------------

(* An update is refused only if its creation is not due.                   *)
LEMMA RefusedIsOrphan ==
    ASSUME ScriptOrdered, PollInv, RowsPresent PROVE RowBeforeUpdate
<1>. SUFFICES ASSUME pc = "write", ~Accepts(WriteFor(Script[cur].name), cur)
              PROVE  Orphan(cur)
  BY DEF RowBeforeUpdate
<1>1. cur \in 1..mined /\ cur \in LogIds /\ Ready(cur)
  BY CurReady, ScriptType DEF PollInv, Inv, TypeInv, TypeOK
<1>2. Script[cur].name \in EventNames
  BY <1>1, ScriptType DEF Event
<1>3. \/ Script[cur].name = "OrderUpdated" /\ orders[Script[cur].id] = NoRow
      \/ Script[cur].name = "MatchUpdated" /\ matches[Script[cur].id] = NoRow
  BY <1>2 DEF Accepts, WriteFor, EventNames
<1>4. PICK j \in 1..(cur - 1) :
         /\ Script[j].name = CreationOf(Script[cur].name)
         /\ Script[j].id = Script[cur].id
  BY <1>1, <1>3 DEF ScriptOrdered, Updates
<1>5. j \notin applied
  BY <1>3, <1>4 DEF RowsPresent, CreationOf
<1>6. ~Due(j)
  BY <1>1, <1>5 DEF Ready, Accounted, PollInv
<1>. QED
  BY <1>3, <1>4, <1>6 DEF Orphan, Updates

(* The 404 that stops the indexer at an update for good (updateOrder,      *)
(* updateMatch) happens only when the order or match was created at or     *)
(* before override_last_block.                                             *)
THEOREM PollingUpdatesFindRows ==
    ASSUME Safe, ScriptOrdered PROVE Spec => []RowBeforeUpdate
<1>1. PollInv /\ RowsPresent => RowBeforeUpdate
  BY RefusedIsOrphan
<1>. QED
  BY <1>1, PollingInvariant, RowsInvariant, PTL

-----------------------------------------------------------------------------
(* The polling indexer sends no log twice as long as nothing fails.        *)

(* What disturbs a run is not undone.                                      *)
LEMMA UndisturbedBefore ==
    ASSUME TypeInv, ChainSorted, [Next]_vars, Undisturbed'
    PROVE  Undisturbed /\ faults' = faults /\ crashes' = crashes
<1>1. faults \in Nat /\ crashes \in Nat /\ faults' = 0 /\ crashes' = 0
  BY IndexerAssumption DEF TypeInv, TypeOK, Undisturbed
<1>2. faults = 0 /\ crashes = 0
  <2>1. \/ faults' = faults
        \/ faults' = faults + 1
    BY DEF Next, IndexerStep, GetLastBlock, BlockNumber, Subscribe, Backfill,
       RangeRefused, BackfillDone, EndOfBatch, HandleEvent, AskExists, SendWrite,
       UpdateLastBlock, Send, Answered, Failed, Fault, Tick, Poll, Listen,
       SubscriptionFailed, Retry, CallFails, Mine, SubscriptionBreaks,
       PerformLate, Crash, Restart, vars, boundVars
  <2>2. \/ crashes' = crashes
        \/ crashes' = crashes + 1
    BY DEF Next, IndexerStep, GetLastBlock, BlockNumber, Subscribe, Backfill,
       RangeRefused, BackfillDone, EndOfBatch, HandleEvent, AskExists, SendWrite,
       UpdateLastBlock, Send, Tick, Poll, Listen, SubscriptionFailed, Retry,
       CallFails, Mine, SubscriptionBreaks, PerformLate, Crash, Restart, vars,
       boundVars
  <2>. QED
    BY <1>1, <2>1, <2>2
<1>3. ASSUME NEW i \in 1..mined, Orphan(i) PROVE i \in 1..mined' /\ Orphan(i)'
  <2>1. CASE Mine
    <3>1. /\ i \in 1..mined' /\ mined \in Nat
          /\ \A j \in 1..mined : Due(j)' <=> Due(j)
      BY <2>1, MineFacts
    <3>2. \A j \in 1..(i - 1) : j \in 1..mined
      BY <3>1
    <3>. QED
      BY <1>3, <3>1, <3>2 DEF Orphan
  <2>2. CASE UNCHANGED chainVars
    BY <1>3, <2>2 DEF Orphan, Due, chainVars
  <2>. QED
    BY <2>1, <2>2, ChainKept
<1>. QED
  BY <1>1, <1>2, <1>3 DEF Undisturbed

(* A step from an undisturbed state is a step of the loop or of the chain. *)
LEMMA NoFault ==
    ASSUME TypeInv, faults' = faults, crashes' = crashes
    PROVE  ~Fault /\ ~Crash
<1>1. faults \in Nat /\ crashes \in Nat
  BY IndexerAssumption DEF TypeInv, TypeOK
<1>. QED
  BY <1>1 DEF Fault, Crash

(* A write is answered, or refused for want of its row.                    *)
LEMMA OnceSend ==
    ASSUME Safe, ScriptOrdered, PollInv, RowsPresent, OnceOnly, Undisturbed,
           ~Fault, SendWrite \/ UpdateLastBlock
    PROVE  OnceOnly'
<1>. USE DEF PollInv, Inv, AccountInv
<1>1. UNCHANGED chainVars /\ cur \in 1..mined /\ pc \in {"write", "checkpoint"}
  BY DEF SendWrite, UpdateLastBlock, Send, TypeInv, TypeOK, Handling, NoLog
<1>2. CASE SendWrite
  <2>1. /\ pc = "write" /\ Send(WriteFor(Script[cur].name), "checkpoint")
    BY <1>2 DEF SendWrite
  <2>2. Accepts(WriteFor(Script[cur].name), cur)
    BY <2>1, <1>1, RefusedIsOrphan DEF RowBeforeUpdate, Undisturbed
  <2>3. /\ Perform(WriteFor(Script[cur].name), cur) /\ UNCHANGED late
        /\ pc' = "checkpoint"
        /\ UNCHANGED <<phase, lastBlock, chainHead, start, batch, cur>>
    BY <2>1, <2>2 DEF Send, Answered, Failed
  <2>4. applied' \subseteq applied \cup {cur}
    BY <2>3 DEF Perform
  <2>5. Pending = batch \cup {cur} /\ Pending' = batch /\ cur \notin batch
        /\ Target' = Target /\ InHand
    <3>1. \A k \in batch : cur < k
      BY <2>1 DEF LoopInv, CurFirst
    <3>2. cur \notin batch
      BY <3>1, <1>1 DEF TypeInv, TypeOK
    <3>. QED
      BY <3>2, <2>1, <2>3 DEF Pending, Target, InHand
  <2>. QED
    BY <2>3, <2>4, <2>5, <1>1 DEF OnceOnly, AppliedUpTo, chainVars
<1>3. CASE UpdateLastBlock
  <2>1. /\ pc = "checkpoint" /\ Send("updateLastBlock", "events")
    BY <1>3 DEF UpdateLastBlock
  <2>2. /\ Perform("updateLastBlock", cur) /\ UNCHANGED late
        /\ pc' = "events"
        /\ UNCHANGED <<phase, lastBlock, chainHead, start, batch, cur>>
    BY <2>1 DEF Send, Answered, Failed, Accepts
  <2>3. applied' = applied
    BY <2>2 DEF Perform
  <2>4. Pending = batch /\ Pending' = batch /\ Target' = Target /\ InHand
    BY <2>1, <2>2 DEF Pending, Target, InHand
  <2>. QED
    BY <2>2, <2>3, <2>4, <1>1 DEF OnceOnly, AppliedUpTo, chainVars
<1>. QED
  BY <1>2, <1>3

(* What is fetched lies beyond what is applied.                            *)
LEMMA OnceFetch ==
    ASSUME Safe, PollInv, OnceOnly, Undisturbed, Backfill \/ Poll
    PROVE  OnceOnly'
<1>. USE DEF PollInv, Inv, AccountInv
<1>1. /\ UNCHANGED chainVars /\ UNCHANGED <<applied, late>>
      /\ UNCHANGED <<phase, lastBlock, chainHead, start, cur>>
      /\ pc \in {"backfill", "poll"} /\ pc' = "events" /\ batch' = Fetch
  BY NoLag DEF Backfill, Poll, collectorVars, Safe, HistoryInv
<1>2. /\ lastBlock \in Nat /\ chainHead \in Nat /\ start \in Nat
      /\ BlockRange \in Nat \ {0}
      /\ \A i \in 1..mined : blockOf[i] \in Int
      /\ applied \subseteq 1..mined
      /\ pc = "backfill" => phase = "backfill" /\ start <= chainHead
      /\ pc = "poll" => phase = "poll"
  <2>1. \A i \in 1..mined : blockOf[i] \in Int
    BY Numbers DEF HistoryInv
  <2>2. pc = "backfill" => start <= chainHead
    BY <1>1 DEF Backfill, Poll, Undisturbed
  <2>. QED
    BY <2>1, <2>2, Numbers DEF HistoryInv, Undisturbed, TypeInv
<1>3. Query.from \in Int /\ Query.to \in Int
  BY <1>1, <1>2 DEF Query, Smaller
<1>4. Query.to = Target /\ Target' = Target
  BY <1>1, <1>2 DEF Query, Target, Smaller
<1>5. \A i \in applied : blockOf[i] < Query.from
  <2>1. CASE pc = "poll"
    BY <2>1, <1>2 DEF OnceOnly, AppliedUpTo, Query
  <2>2. CASE pc = "backfill"
    BY <2>2, <1>2 DEF OnceOnly, AppliedUpTo, Query, Smaller
  <2>. QED
    BY <1>1, <2>1, <2>2
<1>6. AppliedUpTo(Target)
  <2>1. CASE pc = "poll"
    BY <2>1, <1>2 DEF OnceOnly, Target
  <2>2. CASE pc = "backfill"
    <3>1. start - 1 <= Target /\ Target \in Int
      BY <2>2, <1>2 DEF Target, Smaller
    <3>2. AppliedUpTo(start - 1)
      BY <2>2, <1>2 DEF OnceOnly, Smaller
    <3>. QED
      BY <3>1, <3>2, <1>2 DEF AppliedUpTo
  <2>. QED
    BY <1>1, <2>1, <2>2
<1>7. Pending' = Fetch
  BY <1>1 DEF Pending
<1>8. \A i \in Fetch : i \in 1..mined /\ Query.from <= blockOf[i]
                       /\ blockOf[i] <= Target
  BY <1>3, <1>4, <1>2 DEF Fetch, FilterLogs
<1>9. Fetch \cap applied = {}
  BY <1>2, <1>3, <1>5, <1>8
<1>. QED
  BY <1>1, <1>4, <1>6, <1>7, <1>8, <1>9 DEF OnceOnly, AppliedUpTo, chainVars

(* All of a range is applied, and nothing beyond.                          *)
LEMMA OnceEnd ==
    ASSUME Safe, PollInv, OnceOnly, Undisturbed, EndOfBatch \/ BackfillDone
    PROVE  OnceOnly'
<1>. USE DEF PollInv, Inv, AccountInv
<1>1. /\ UNCHANGED chainVars /\ UNCHANGED <<applied, late>>
      /\ UNCHANGED <<phase, chainHead, batch>> /\ phase # "live"
  BY DEF EndOfBatch, BackfillDone, collectorVars, Safe, LoopInv, OwnMode
<1>2. /\ chainHead \in Nat /\ start \in Nat /\ BlockRange \in Nat /\ BlockRange # 0
  BY Numbers DEF HistoryInv, Undisturbed
<1>3. CASE EndOfBatch /\ phase = "backfill"
  <2>1. pc = "events" /\ pc' = "backfill" /\ start' = start + BlockRange + 1
        /\ batch = {}
    BY <1>2, <1>3 DEF EndOfBatch
  <2>2. AppliedUpTo(Smaller(start + BlockRange, chainHead))
    BY <1>2, <1>3, <2>1 DEF OnceOnly, InHand, Target
  <2>3. start' - 1 = start + BlockRange
    BY <1>2, <2>1
  <2>4. Pending' = {}
    BY <2>1, <1>1 DEF Pending
  <2>. QED
    BY <2>1, <2>2, <2>3, <2>4, <1>1
       DEF OnceOnly, AppliedUpTo, InHand, chainVars
<1>4. CASE EndOfBatch /\ phase # "backfill"
  <2>1. pc = "events" /\ pc' = "idle" /\ lastBlock' = chainHead /\ batch = {}
    BY <1>1, <1>4 DEF EndOfBatch
  <2>2. AppliedUpTo(chainHead)
    BY <1>4, <2>1 DEF OnceOnly, InHand, Target
  <2>3. Pending' = {}
    BY <2>1, <1>1 DEF Pending
  <2>. QED
    BY <2>1, <2>2, <2>3, <1>1 DEF OnceOnly, AppliedUpTo, InHand, chainVars
<1>5. CASE BackfillDone
  <2>1. pc = "backfill" /\ pc' = "idle" /\ lastBlock' = chainHead
        /\ start > chainHead
    BY <1>5 DEF BackfillDone
  <2>2. AppliedUpTo(chainHead)
    BY <1>2, <2>1 DEF OnceOnly, Smaller
  <2>3. Pending' = {}
    BY <2>1, <1>1 DEF Pending, LoopInv, NothingLeft, InHand
  <2>. QED
    BY <2>1, <2>2, <2>3, <1>1 DEF OnceOnly, AppliedUpTo, InHand, chainVars
<1>. QED
  BY <1>3, <1>4, <1>5


(* Steps that only move on.                                                *)
LEMMA OnceQuiet ==
    ASSUME Safe, PollInv, OnceOnly, Undisturbed, ~Fault, ~Crash,
           \/ GetLastBlock \/ BlockNumber \/ RangeRefused \/ HandleEvent
           \/ AskExists \/ Tick \/ Retry \/ Restart \/ CallFails
           \/ SubscriptionFailed \/ PerformLate \/ UNCHANGED vars
    PROVE  OnceOnly'
<1>. USE DEF PollInv, Inv, AccountInv
<1>1. ~CallFails /\ ~PerformLate /\ ~Restart /\ ~SubscriptionFailed
  <2>1. sub = "off"
    BY DEF Safe, LoopInv, OwnMode
  <2>. QED
    BY <2>1 DEF CallFails, PerformLate, LateWrite, Restart, SubscriptionFailed,
       OnceOnly
<1>2. /\ lastBlock \in Nat /\ chainHead \in Nat /\ head \in Nat
      /\ \A i \in 1..mined : blockOf[i] \in 1..head
      /\ applied \subseteq 1..mined /\ BlockRange # 0
  BY Numbers DEF HistoryInv, Undisturbed
<1>3. AppliedUpTo(head)
  BY <1>2 DEF AppliedUpTo
<1>4. CASE GetLastBlock
  <2>1. /\ pc = "boot" /\ pc' = "blockNumber" /\ UNCHANGED chainVars
        /\ UNCHANGED <<applied, late, batch>>
    BY <1>4 DEF GetLastBlock, collectorVars
  <2>2. applied = {} /\ late = {} /\ Pending' = {}
    BY <2>1 DEF OnceOnly, Pending, LoopInv, NothingLeft, InHand
  <2>. QED
    BY <2>1, <2>2 DEF OnceOnly, AppliedUpTo, InHand
<1>5. CASE BlockNumber
  <2>1. /\ pc = "blockNumber" /\ pc' = "backfill" /\ UNCHANGED chainVars
        /\ UNCHANGED <<applied, late, batch, lastBlock>>
        /\ start' = lastBlock + 1 /\ chainHead' = head
    BY <1>5, NoLag DEF BlockNumber, collectorVars, Safe, HistoryInv
  <2>2. AppliedUpTo(lastBlock) /\ late = {} /\ Pending' = {}
    BY <2>1 DEF OnceOnly, Pending, LoopInv, NothingLeft, InHand
  <2>3. AppliedUpTo(Smaller(start' - 1, head))
    BY <2>1, <2>2, <1>2, <1>3 DEF Smaller
  <2>. QED
    BY <2>1, <2>2, <2>3 DEF OnceOnly, AppliedUpTo, InHand, chainVars
<1>6. CASE RangeRefused
  <2>1. /\ pc = "poll" /\ Return /\ UNCHANGED chainVars
        /\ UNCHANGED <<applied, late>>
    BY <1>2, <1>6 DEF RangeRefused, collectorVars
  <2>2. /\ pc' = "backoff" /\ UNCHANGED lastBlock /\ Pending' = {}
    BY <2>1 DEF Return, DropLocals, Pending
  <2>. QED
    BY <2>1, <2>2 DEF OnceOnly, AppliedUpTo, InHand, chainVars
<1>7. CASE HandleEvent
  <2>1. /\ pc = "events" /\ pc' \in {"exists", "write"} /\ UNCHANGED chainVars
        /\ UNCHANGED <<applied, late, phase, start, chainHead>> /\ batch # {}
        /\ cur' = Earliest(batch) /\ batch' = batch \ {cur'}
    BY <1>7 DEF HandleEvent, collectorVars
  <2>2. cur' \in batch
    <3>1. batch \in SUBSET Nat
      BY DEF TypeInv, TypeOK
    <3>. QED
      BY <2>1, <3>1, EarliestProperties
  <2>3. Pending' = Pending /\ Target' = Target /\ InHand
    BY <2>1, <2>2 DEF Pending, Target, InHand
  <2>. QED
    BY <2>1, <2>3 DEF OnceOnly, AppliedUpTo, chainVars
<1>8. CASE AskExists
  <2>1. /\ pc = "exists" /\ UNCHANGED chainVars
        /\ UNCHANGED <<late, phase, start, chainHead, cur, batch>>
        /\ \/ pc' = "write" /\ applied' = applied
           \/ pc' = "checkpoint" /\ applied' \subseteq applied \cup {cur}
    BY <1>8 DEF AskExists
  <2>2. cur \notin batch
    <3>1. (\A k \in batch : cur < k) /\ cur \in Int
      BY <2>1 DEF LoopInv, CurFirst, TypeInv, TypeOK
    <3>. QED
      BY <3>1
  <2>3. Pending = batch \cup {cur} /\ Target' = Target /\ InHand
        /\ Pending' = IF pc' = "write" THEN Pending ELSE batch
    BY <2>1 DEF Pending, Target, InHand
  <2>. QED
    BY <2>1, <2>2, <2>3 DEF OnceOnly, AppliedUpTo, chainVars
<1>9. CASE Tick
  <2>1. /\ pc = "idle" /\ pc' = "poll" /\ UNCHANGED chainVars
        /\ UNCHANGED <<applied, late, lastBlock, batch>> /\ chainHead' = head
    BY <1>9, NoLag DEF Tick, collectorVars, Safe, HistoryInv
  <2>2. Pending' = {}
    BY <2>1 DEF Pending, LoopInv, NothingLeft, InHand
  <2>. QED
    BY <2>1, <2>2, <1>3 DEF OnceOnly, AppliedUpTo, InHand, chainVars
<1>10. CASE Retry
  <2>1. /\ pc = "backoff" /\ pc' = "blockNumber" /\ UNCHANGED chainVars
        /\ UNCHANGED <<applied, late, lastBlock, batch>>
    BY <1>10 DEF Retry, collectorVars
  <2>2. Pending' = {}
    BY <2>1 DEF Pending, LoopInv, NothingLeft, InHand
  <2>. QED
    BY <2>1, <2>2 DEF OnceOnly, AppliedUpTo, InHand, chainVars
<1>11. CASE UNCHANGED vars
  <2>1. UNCHANGED <<applied, late, pc, phase, lastBlock, chainHead, start, batch,
                    cur, blockOf>>
    BY <1>11 DEF vars, chainVars, collectorVars, loopVars
  <2>. QED
    BY <2>1 DEF OnceOnly, AppliedUpTo, Pending, Target, InHand
<1>. QED
  BY <1>1, <1>4, <1>5, <1>6, <1>7, <1>8, <1>9, <1>10, <1>11

LEMMA OnceMine ==
    ASSUME PollInv, OnceOnly, Mine PROVE OnceOnly'
<1>. USE DEF PollInv, Inv, AccountInv
<1>1. /\ UNCHANGED <<applied, late, pc, phase, lastBlock, chainHead, start, batch,
                     cur>>
      /\ \A i \in 1..mined : blockOf'[i] = blockOf[i]
  BY MineFacts DEF Mine, collectorVars, loopVars, HistoryInv
<1>2. applied \subseteq 1..mined /\ Pending \subseteq 1..mined
  BY DEF TypeInv, TypeOK, Pending, Handling, NoLog
<1>3. Pending' = Pending /\ Target' = Target
  BY <1>1 DEF Pending, Target
<1>4. \A b : AppliedUpTo(b) => AppliedUpTo(b)'
  BY <1>1, <1>2 DEF AppliedUpTo
<1>5. InHand' = InHand
      /\ Smaller(start - 1, chainHead)' = Smaller(start - 1, chainHead)
  BY <1>1 DEF InHand, Smaller
<1>6. InHand => \A i \in Pending : blockOf'[i] <= Target
  BY <1>1, <1>2 DEF OnceOnly
<1>. QED
  BY <1>1, <1>3, <1>4, <1>5, <1>6 DEF OnceOnly, AppliedUpTo

LEMMA NoneTwiceStep ==
    ASSUME Safe, ScriptOrdered
    PROVE  PollInv /\ RowsPresent /\ NoneTwice /\ [Next]_vars => NoneTwice'
<1>. SUFFICES ASSUME PollInv, RowsPresent, NoneTwice, [Next]_vars, Undisturbed'
              PROVE  OnceOnly'
  BY DEF NoneTwice
<1>1. Undisturbed /\ OnceOnly /\ ~Fault /\ ~Crash
  BY UndisturbedBefore, NoFault
     DEF NoneTwice, PollInv, Inv, AccountInv, HistoryInv
<1>2. ~Subscribe /\ ~Listen /\ ~SubscriptionBreaks
  BY <1>1 DEF Subscribe, Listen, SubscriptionBreaks, Safe, PollInv, Inv,
     AccountInv, LoopInv, OwnMode
<1>3. CASE SendWrite \/ UpdateLastBlock
  BY <1>1, <1>3, OnceSend
<1>4. CASE Backfill \/ Poll
  BY <1>1, <1>4, OnceFetch
<1>5. CASE EndOfBatch \/ BackfillDone
  BY <1>1, <1>5, OnceEnd
<1>6. CASE Mine
  BY <1>1, <1>6, OnceMine
<1>7. CASE \/ GetLastBlock \/ BlockNumber \/ RangeRefused \/ HandleEvent
           \/ AskExists \/ Tick \/ Retry \/ Restart \/ CallFails
           \/ SubscriptionFailed \/ PerformLate \/ UNCHANGED vars
  BY <1>1, <1>7, OnceQuiet
<1>. QED
  BY <1>1, <1>2, <1>3, <1>4, <1>5, <1>6, <1>7 DEF Next, IndexerStep

(* Chunks and ticks overlap nowhere: an applied log is sent again only     *)
(* after a failed call, a crash or an update refused for a creation hidden *)
(* by override_last_block, or with block_range unset                       *)
(* (ReplayOnlyAfterFailure).                                               *)
THEOREM PollingSendsOnce ==
    ASSUME Safe, ScriptOrdered PROVE Spec => []ReplayOnlyAfterFailure
<1>1. Init => NoneTwice
  BY DEF Init, CollectorInit, IndexerInit, NoneTwice, OnceOnly, Pending, InHand
<1>2. PollInv /\ RowsPresent /\ NoneTwice /\ [Next]_vars => NoneTwice'
  BY NoneTwiceStep
<1>3. PollInv /\ NoneTwice => ReplayOnlyAfterFailure
  <2>. SUFFICES ASSUME PollInv, NoneTwice, pc = "write", cur \in applied,
                       ~(faults + crashes > 0), BlockRange # 0,
                       \A i \in 1..mined : ~Orphan(i)
                PROVE  FALSE
    BY DEF ReplayOnlyAfterFailure
  <2>1. faults \in Nat /\ crashes \in Nat
    BY IndexerAssumption DEF PollInv, Inv, TypeInv, TypeOK
  <2>2. Undisturbed
    BY <2>1 DEF Undisturbed
  <2>3. cur \in Pending
    BY DEF Pending
  <2>. QED
    BY <2>2, <2>3 DEF NoneTwice, OnceOnly
<1>. QED
  BY <1>1, <1>2, <1>3, PollingInvariant, RowsInvariant, PTL DEF Spec

-----------------------------------------------------------------------------
(* The rows of an indexer that is through with the chain are those of the  *)
(* contract.                                                               *)

(* What the script and the configuration must be for it.                   *)
RowSafe ==
    /\ SafeResume /\ ForeignHarmless
    /\ "late" \notin Failures
    /\ CreatedOnce
    /\ MaxCrashes = 0 \/ UpdatedOnce

(* A creation whose row is there is shown: what the row has, it has from   *)
(* the logs of the row, and they are not older.                            *)
LEMMA CreationShown ==
    ASSUME TypeInv, RowsFromLogs, CreatedOnce, NEW i \in 1..mined,
           Script[i].name \in Creations, RowOf(i) # NoRow
    PROVE  Shows(i)
<1>1. ~Names(i) /\ 1..mined \subseteq LogIds /\ mined \in Nat
  BY ScriptType DEF Names, Creations, TypeInv, TypeOK
<1>2. PICK p \in RowLogs(i) : RowOf(i).state = Script[p].state
  BY RowOfLog DEF RowsFromLogs
<1>3. p \in 1..mined /\ Same(p, i)
  BY <1>2 DEF RowLogs
<1>4. p >= i
  BY <1>1, <1>3 DEF CreatedOnce, Creations, Updates
<1>5. p \in i..mined
  BY <1>1, <1>3, <1>4
<1>. QED
  BY <1>1, <1>2, <1>3, <1>5 DEF Shows

(* A row shows a log as long as no older one of the row is written; and it *)
(* shows the log that was written last.                                    *)
LEMMA EffectShows ==
    ASSUME TypeInv, CreatedOnce, UNCHANGED chainVars,
           NEW i \in 1..mined, NEW j \in 1..mined, Shows(j),
           Effect(i, RowLogs(j), RowOf(j), RowOf(j)'),
           j < i \/ Script[i].name \in Creations \/ ~Same(i, j)
    PROVE  Shows(j)'
<1>1. mined' = mined /\ mined \in Nat
  BY ScriptType DEF chainVars, TypeInv, TypeOK
<1>2. RowOf(j) # NoRow
  BY DEF Shows
<1>3. CASE RowOf(j)' = RowOf(j)
  BY <1>1, <1>3 DEF Shows
<1>4. CASE RowOf(j)' # RowOf(j)
  <2>1. /\ i \in RowLogs(j) /\ Script[i].name \in Updates
        /\ RowOf(j)' # NoRow /\ RowOf(j)'.state = Script[i].state
        /\ RowOf(j)'.match = IF Names(i) THEN Script[i].match ELSE RowOf(j).match
    BY <1>2, <1>4 DEF Effect
  <2>2. Same(i, j) /\ i \in j..mined
    BY <2>1, <1>1 DEF RowLogs, Updates, Creations
  <2>3. \E p \in j..mined : Same(p, j) /\ RowOf(j)'.state = Script[p].state
    BY <2>1, <2>2
  <2>4. Names(j) => \E q \in j..mined :
           Same(q, j) /\ Names(q) /\ RowOf(j)'.match = Script[q].match
    BY <2>1, <2>2 DEF Shows
  <2>. QED
    BY <1>1, <2>1, <2>3, <2>4 DEF Shows
<1>. QED
  BY <1>3, <1>4

LEMMA PerformShows ==
    ASSUME TypeInv, RowsFromLogs, CreatedOnce, UNCHANGED chainVars,
           NEW i \in 1..mined, NEW write \in WritesFor(i), Perform(write, i)
    PROVE  /\ RowsFromLogs'
           /\ \A j \in 1..mined :
                 /\ Shows(j)
                 /\ j < i \/ Script[i].name \in Creations \/ ~Same(i, j)
                 => Shows(j)'
           /\ write # "updateLastBlock" /\ Accepts(write, i) => Shows(i)'
<1>1. /\ mined' = mined /\ mined \in Nat
      /\ \A o : OrderLogs(o)' = OrderLogs(o)
      /\ \A m : MatchLogs(m)' = MatchLogs(m)
  BY ScriptType DEF chainVars, TypeInv, TypeOK, OrderLogs, MatchLogs
<1>2. RowsFromLogs'
  <2>1. ASSUME NEW o \in OrderIds, orders'[o] # NoRow
        PROVE  /\ \E p \in OrderLogs(o) : orders'[o].state = Script[p].state
               /\ orders'[o].match = 0 \/ \E q \in OrderLogs(o) :
                     Names(q) /\ orders'[o].match = Script[q].match
    <3>1. Effect(i, OrderLogs(o), orders[o], orders'[o])
      BY PerformEffect
    <3>. QED
      BY <2>1, <3>1 DEF Effect, RowsFromLogs
  <2>2. ASSUME NEW m \in MatchIds, matches'[m] # NoRow
        PROVE  /\ \E p \in MatchLogs(m) : matches'[m].state = Script[p].state
               /\ matches'[m].match = 0
    <3>1. Effect(i, MatchLogs(m), matches[m], matches'[m])
      BY PerformEffect
    <3>2. i \in MatchLogs(m) => ~Names(i)
      BY DEF MatchLogs, Names
    <3>. QED
      BY <2>2, <3>1, <3>2 DEF Effect, RowsFromLogs
  <2>. QED
    BY <1>1, <2>1, <2>2 DEF RowsFromLogs
<1>3. ASSUME NEW j \in 1..mined
      PROVE  Effect(i, RowLogs(j), RowOf(j), RowOf(j)')
  BY RowOfLog, PerformEffect
<1>4. ASSUME write # "updateLastBlock", Accepts(write, i) PROVE Shows(i)'
  <2>1. CASE Script[i].name \in Creations /\ RowOf(i) # NoRow
             /\ RowOf(i)' = RowOf(i)
    <3>1. Shows(i)
      BY <2>1, CreationShown
    <3>. QED
      BY <1>1, <2>1, <3>1 DEF Shows
  <2>2. CASE /\ RowOf(i)' # NoRow /\ RowOf(i)'.state = Script[i].state
             /\ Names(i) => RowOf(i)'.match = Script[i].match
    <3>1. i \in i..mined /\ Same(i, i)
      BY <1>1 DEF Same
    <3>. QED
      BY <1>1, <2>2, <3>1 DEF Shows
  <2>. QED
    BY <1>4, <2>1, <2>2, PerformEffect
<1>. QED
  BY <1>2, <1>3, <1>4, EffectShows


(* Rows change only by the write of the log in hand, and what is applied   *)
(* grows only by that log.                                                 *)
LEMMA RowsChange ==
    ASSUME TypeInv, late = {}, "late" \notin Failures, [Next]_vars
    PROVE  /\ late' = {}
           /\ \/ /\ UNCHANGED <<orders, matches>>
                 /\ applied' = applied \/ AskExists
              \/ /\ UNCHANGED chainVars /\ pc = "write" /\ cur \in 1..mined
                 /\ Perform(WriteFor(Script[cur].name), cur)
                 /\ WriteFor(Script[cur].name) \in WritesFor(cur)
                 /\ WriteFor(Script[cur].name) # "updateLastBlock"
                 /\ SendWrite
<1>1. CASE SendWrite
  <2>1. pc = "write" /\ Send(WriteFor(Script[cur].name), "checkpoint")
    BY <1>1 DEF SendWrite
  <2>2. \/ UNCHANGED collectorVars
        \/ Perform(WriteFor(Script[cur].name), cur) /\ UNCHANGED late
    BY <2>1 DEF Send, Answered, Failed
  <2>3. UNCHANGED chainVars
    BY <2>1 DEF Send
  <2>. QED
    BY <1>1, <2>1, <2>2, <2>3, CurHandled DEF collectorVars
<1>2. CASE UpdateLastBlock
  <2>1. \/ UNCHANGED collectorVars
        \/ Perform("updateLastBlock", cur) /\ UNCHANGED late
    BY <1>2 DEF UpdateLastBlock, Send, Answered, Failed
  <2>. QED
    BY <2>1 DEF Perform, collectorVars
<1>3. CASE AskExists
  BY <1>3 DEF AskExists
<1>4. CASE \/ GetLastBlock \/ BlockNumber \/ Subscribe \/ Backfill
           \/ RangeRefused \/ BackfillDone \/ EndOfBatch \/ HandleEvent
  BY <1>4 DEF GetLastBlock, BlockNumber, Subscribe, Backfill, RangeRefused,
     BackfillDone, EndOfBatch, HandleEvent, collectorVars
<1>5. CASE \/ Tick \/ Poll \/ Listen \/ SubscriptionFailed \/ Retry \/ CallFails
           \/ Mine \/ SubscriptionBreaks \/ Crash \/ Restart \/ UNCHANGED vars
  BY <1>5 DEF Tick, Poll, Listen, SubscriptionFailed, Retry, CallFails, Mine,
     SubscriptionBreaks, Crash, Restart, vars, collectorVars
<1>6. ~PerformLate
  BY DEF PerformLate, LateWrite
<1>. QED
  BY <1>1, <1>2, <1>3, <1>4, <1>5, <1>6 DEF Next, IndexerStep

(* Nothing comes in hand but by a fetch or a push.                         *)
LEMMA PendingShrinks ==
    ASSUME TypeInv, [Next]_vars, ~(Backfill \/ Poll \/ Listen)
    PROVE  Pending' \subseteq Pending
<1>1. CASE HandleEvent
  BY <1>1, HandleEventFacts DEF Pending
<1>2. CASE SendWrite \/ UpdateLastBlock
  BY <1>2, SendFacts DEF Return, DropLocals, Pending
<1>3. CASE RangeRefused \/ SubscriptionFailed \/ CallFails \/ Crash
  BY <1>3, LeaveFacts DEF Return, DropLocals, Pending
<1>4. CASE Mine \/ SubscriptionBreaks \/ PerformLate \/ UNCHANGED vars
  BY <1>4, OutsideFacts DEF Pending
<1>5. CASE \/ GetLastBlock \/ BlockNumber \/ Subscribe \/ BackfillDone
           \/ EndOfBatch
  BY <1>5 DEF GetLastBlock, BlockNumber, Subscribe, BackfillDone, EndOfBatch,
     Pending
<1>6. CASE AskExists \/ Tick \/ Retry \/ Restart
  BY <1>6 DEF AskExists, Tick, Retry, Restart, Pending
<1>. QED
  BY <1>1, <1>2, <1>3, <1>4, <1>5, <1>6 DEF Next, IndexerStep

(* A log stays shown that no log in hand is older than.                    *)
LEMMA ShownStep ==
    ASSUME TypeInv, ChainSorted, RowInv, RowSafe, [Next]_vars, NEW j \in 1..mined,
           Shows(j), \A i \in Pending : j < i
    PROVE  Shows(j)'
<1>1. CASE UNCHANGED <<orders, matches>>
  <2>1. mined \in Nat /\ mined' \in Nat /\ mined <= mined'
    BY ChainKept, MineFacts, Numbers DEF chainVars
  <2>2. j..mined \subseteq j..mined'
    BY <2>1
  <2>3. RowOf(j)' = RowOf(j)
    BY <1>1 DEF RowOf
  <2>. QED
    BY <2>2, <2>3 DEF Shows
<1>2. CASE /\ UNCHANGED chainVars /\ pc = "write" /\ cur \in 1..mined
           /\ Perform(WriteFor(Script[cur].name), cur)
           /\ WriteFor(Script[cur].name) \in WritesFor(cur)
  <2>1. j < cur
    BY <1>2 DEF Pending
  <2>. QED
    BY <1>2, <2>1, PerformShows DEF RowInv, RowSafe
<1>. QED
  BY <1>1, <1>2, RowsChange DEF RowInv, RowSafe

LEMMA RowsFromLogsStep ==
    ASSUME TypeInv, ChainSorted, RowInv, RowSafe, [Next]_vars
    PROVE  RowsFromLogs'
<1>1. CASE UNCHANGED <<orders, matches>>
  <2>1. mined \in Nat /\ mined' \in Nat /\ mined <= mined'
    BY ChainKept, MineFacts, Numbers DEF chainVars
  <2>2. 1..mined \subseteq 1..mined'
    BY <2>1
  <2>3. /\ \A o : OrderLogs(o) \subseteq OrderLogs(o)'
        /\ \A m : MatchLogs(m) \subseteq MatchLogs(m)'
    BY <2>2 DEF OrderLogs, MatchLogs
  <2>. QED
    BY <1>1, <2>3 DEF RowInv, RowsFromLogs
<1>2. CASE /\ UNCHANGED chainVars /\ pc = "write" /\ cur \in 1..mined
           /\ Perform(WriteFor(Script[cur].name), cur)
           /\ WriteFor(Script[cur].name) \in WritesFor(cur)
  BY <1>2, PerformShows DEF RowInv, RowSafe
<1>. QED
  BY <1>1, <1>2, RowsChange DEF RowInv, RowSafe

LEMMA AsksCreationStep ==
    ASSUME TypeInv, AsksCreation, [Next]_vars PROVE AsksCreation'
<1>. SUFFICES ASSUME pc' = "exists" PROVE Script[cur'].name \in Creations
  BY DEF AsksCreation
<1>1. CASE HandleEvent
  BY <1>1 DEF HandleEvent
<1>2. CASE Mine \/ SubscriptionBreaks \/ PerformLate \/ UNCHANGED vars
  BY <1>2, OutsideFacts DEF AsksCreation
<1>3. ~(SendWrite \/ UpdateLastBlock \/ RangeRefused \/ SubscriptionFailed
        \/ CallFails \/ Crash)
  BY SendFacts, LeaveFacts DEF Return
<1>4. ~(GetLastBlock \/ BlockNumber \/ Subscribe \/ Backfill \/ BackfillDone
        \/ EndOfBatch \/ AskExists)
  BY DEF GetLastBlock, BlockNumber, Subscribe, Backfill, BackfillDone,
     EndOfBatch, AskExists
<1>5. ~(Tick \/ Poll \/ Listen \/ Retry \/ Restart)
  BY DEF Tick, Poll, Listen, Retry, Restart
<1>. QED
  BY <1>1, <1>2, <1>3, <1>4, <1>5 DEF Next, IndexerStep

(* The process is down without a crash only if it never came up.           *)
LEMMA NeverCrashedStep ==
    ASSUME TypeInv, late = {}, NeverCrashed, [Next]_vars PROVE NeverCrashed'
<1>. SUFFICES ASSUME MaxCrashes = 0, pc' \in {"boot", "down"}
              PROVE  saved' = NoBlock
  BY DEF NeverCrashed
<1>1. CASE GetLastBlock \/ Restart
  BY <1>1 DEF GetLastBlock, Restart, collectorVars, NeverCrashed
<1>2. CASE Mine \/ SubscriptionBreaks \/ UNCHANGED vars
  BY <1>2, OutsideFacts
     DEF Mine, SubscriptionBreaks, vars, collectorVars, NeverCrashed
<1>3. ~PerformLate
  BY DEF PerformLate, LateWrite
<1>4. ~Crash
  BY IndexerAssumption DEF Crash, TypeInv, TypeOK
<1>5. ~(SendWrite \/ UpdateLastBlock \/ RangeRefused \/ SubscriptionFailed
        \/ CallFails)
  BY <1>4, SendFacts DEF Return, RangeRefused, SubscriptionFailed, CallFails
<1>6. ~(BlockNumber \/ Subscribe \/ Backfill \/ BackfillDone \/ EndOfBatch
        \/ HandleEvent \/ AskExists)
  BY DEF BlockNumber, Subscribe, Backfill, BackfillDone, EndOfBatch, HandleEvent,
     AskExists
<1>7. ~(Tick \/ Poll \/ Listen \/ Retry)
  BY DEF Tick, Poll, Listen, Retry
<1>. QED
  BY <1>1, <1>2, <1>3, <1>4, <1>5, <1>6, <1>7 DEF Next, IndexerStep

(* The handler is through with a log when the log's row shows it.          *)
LEMMA CurShown ==
    ASSUME Inv, RowInv, RowSafe, [Next]_vars,
           pc \in {"exists", "write"}, pc' = "checkpoint"
    PROVE  cur \in 1..mined /\ Shows(cur)'
<1>0. /\ TypeInv /\ cur \in 1..mined /\ RowsFromLogs /\ CreatedOnce
      /\ ForeignHarmless
  BY CurHandled DEF Inv, RowInv, RowSafe
<1>. PICK i \in 1..mined : i = cur
  BY <1>0
<1>. SUFFICES Shows(i)'
  BY CurStays
<1>1. CASE AskExists
  <2>1. /\ UNCHANGED chainVars /\ UNCHANGED <<orders, matches>>
        /\ pc = "exists" /\ Script[cur].name \in Creations
        /\ IF Script[cur].name = "OrderCreated"
           THEN orderExists(Script[cur].id) ELSE matchExists(Script[cur].id)
    BY <1>1 DEF AskExists, RowInv, AsksCreation
  <2>2. Script[cur].id \in Nat \ {0}
    BY <1>0, ScriptType DEF Event, TypeInv, TypeOK
  <2>3. RowOf(cur) # NoRow
    BY <1>0, <2>1, <2>2, ExistsIsOwn DEF RowOf, Creations
  <2>4. Shows(i)
    BY <1>0, <2>1, <2>3, CreationShown
  <2>5. RowOf(i)' = RowOf(i) /\ mined' = mined
    BY <2>1 DEF RowOf, chainVars
  <2>. QED
    BY <2>4, <2>5 DEF Shows
<1>2. CASE SendWrite
  <2>1. /\ Answered(WriteFor(Script[i].name)) /\ UNCHANGED chainVars
    BY <1>2 DEF SendWrite, Send, Return
  <2>2. WriteFor(Script[i].name) \in WritesFor(i) \ {"updateLastBlock"}
    BY <1>0, CurHandled
  <2>3. Perform(WriteFor(Script[i].name), i) /\ Accepts(WriteFor(Script[i].name), i)
    BY <2>1 DEF Answered
  <2>. QED
    BY <1>0, <2>1, <2>2, <2>3, PerformShows
<1>3. ~(Mine \/ SubscriptionBreaks \/ PerformLate \/ UNCHANGED vars)
  BY OutsideFacts
<1>4. ~(\/ GetLastBlock \/ BlockNumber \/ Subscribe \/ Backfill \/ RangeRefused
        \/ BackfillDone \/ EndOfBatch \/ HandleEvent)
  BY DEF GetLastBlock, BlockNumber, Subscribe, Backfill, RangeRefused,
     BackfillDone, EndOfBatch, HandleEvent, Return
<1>5. ~(\/ UpdateLastBlock \/ Tick \/ Poll \/ Listen \/ SubscriptionFailed
        \/ Retry \/ CallFails \/ Crash \/ Restart)
  BY DEF UpdateLastBlock, Tick, Poll, Listen, SubscriptionFailed, Retry,
     CallFails, Return, Crash, Restart
<1>. QED
  BY <1>1, <1>2, <1>3, <1>4, <1>5 DEF Next, IndexerStep


(* When rows are updated once at most, what is applied stays shown even    *)
(* while it is replayed: then only the creation is before the update, and  *)
(* that leaves the row alone.                                              *)
LEMMA AppliedShownStep ==
    ASSUME Inv, RowInv, RowSafe, [Next]_vars PROVE AppliedShown'
<1>. SUFFICES ASSUME UpdatedOnce, NEW j \in applied' PROVE Shows(j)'
  BY DEF AppliedShown
<1>0. /\ TypeInv /\ RowsFromLogs /\ CreatedOnce /\ ForeignHarmless
      /\ applied \subseteq 1..mined /\ mined \in Nat /\ 1..mined \subseteq LogIds
      /\ \A i \in applied : Shows(i)
  BY Numbers DEF Inv, AccountInv, HistoryInv, RowInv, RowSafe, AppliedShown
<1>1. CASE UNCHANGED <<orders, matches>> /\ j \in applied
  <2>1. mined' \in Nat /\ mined <= mined'
    BY <1>0, ChainKept, MineFacts
       DEF chainVars, Inv, AccountInv, HistoryInv
  <2>2. j..mined \subseteq j..mined'
    BY <1>0, <1>1, <2>1
  <2>3. RowOf(j)' = RowOf(j) /\ Shows(j)
    BY <1>0, <1>1 DEF RowOf
  <2>. QED
    BY <2>2, <2>3 DEF Shows
<1>2. CASE AskExists /\ j \notin applied
  <2>1. pc = "exists" /\ pc' = "checkpoint" /\ j = cur
    BY <1>2, AskExistsHistory DEF AskExists, RowSafe
  <2>2. cur' = cur
    BY <2>1, CurStays
  <2>. QED
    BY <2>1, <2>2, CurShown
<1>3. CASE /\ UNCHANGED chainVars /\ pc = "write" /\ cur \in 1..mined
           /\ Perform(WriteFor(Script[cur].name), cur)
           /\ WriteFor(Script[cur].name) \in WritesFor(cur)
           /\ WriteFor(Script[cur].name) # "updateLastBlock"
  <2>. PICK i \in 1..mined : i = cur
    BY <1>3
  <2>. DEFINE write == WriteFor(Script[i].name)
  <2>1. /\ write \in WritesFor(i) /\ write # "updateLastBlock"
        /\ Perform(write, i) /\ UNCHANGED chainVars
    BY <1>3
  <2>2. applied' = IF Accepts(write, i) THEN applied \cup {i} ELSE applied
    BY <2>1 DEF Perform
  <2>. HIDE DEF write
  <2>3. CASE j = i /\ Accepts(write, i)
    BY <1>0, <2>1, <2>3, PerformShows
  <2>4. CASE j \in applied /\ ~(j = i /\ Accepts(write, i))
    <3>1. j \in 1..mined /\ Shows(j)
      BY <1>0, <2>4
    <3>2. j # i
      <4>1. ASSUME j = i PROVE Accepts(write, i)
        <5>1. RowOf(i) # NoRow
          BY <3>1, <4>1 DEF Shows
        <5>. QED
          BY <5>1, <1>0, RowOfLog DEF Accepts, write, WriteFor
      <4>. QED
        BY <2>4, <4>1
    <3>3. j < i \/ Script[i].name \in Creations \/ ~Same(i, j)
      <4>1. i < j => Script[i].name \in Creations \/ ~Same(i, j)
        BY <1>0, <3>1 DEF UpdatedOnce
      <4>. QED
        BY <1>0, <3>1, <3>2, <4>1
    <3>. QED
      BY <1>0, <2>1, <3>1, <3>3, PerformShows
  <2>. QED
    BY <2>2, <2>3, <2>4
<1>. QED
  BY <1>0, <1>1, <1>2, <1>3, RowsChange DEF RowInv, RowSafe

(* What stands lies before the log that is pushed next, if the indexer will*)
(* not ask for its block again.                                            *)
LEMMA StandingListen ==
    ASSUME Inv, AheadInv, RowInv, RowSafe, Listen, NEW j \in Standing,
           Due(j), j < Earliest(queue) \/ blockOf[j] <= Settled(lastBlock)
    PROVE  j \in Standing'
<1>. PICK e : e = Earliest(queue)
  OBVIOUS
<1>1. /\ UNCHANGED chainVars /\ UNCHANGED collectorVars /\ UNCHANGED unseen
      /\ e \in queue /\ e \in 1..mined
      /\ pc' = "events" /\ batch' = {e}
  BY ListenFacts DEF Inv
<1>2. Pending' = {e}
  BY <1>1 DEF Pending
<1>3. /\ lastBlock \in Nat /\ OverrideLastBlock \in Nat /\ BlockRange \in Nat
      /\ j \in 1..mined /\ blockOf[j] \in Int /\ blockOf[e] \in Int /\ mined \in Nat
  BY <1>1, Numbers DEF Inv, AccountInv, HistoryInv, Due
<1>4. j < e
  <2>1. ASSUME blockOf[j] <= Settled(lastBlock) PROVE j < e
    <3>1. lastBlock > OverrideLastBlock
      BY <2>1, <1>3 DEF Due, Settled
    <3>2. /\ lastBlock <= blockOf[e]
          /\ MaxLogsPerBlock = 1 => lastBlock < blockOf[e]
      BY <1>1, <3>1 DEF AheadInv, QueueAhead, Beyond, Ahead
    <3>3. blockOf[j] < blockOf[e]
      BY <2>1, <3>2, <1>3 DEF Settled, RowSafe, SafeResume
    <3>. QED
      BY <3>3, <1>1, <1>3 DEF AheadInv, ChainSorted
  <2>. QED
    BY <2>1
<1>5. Shows(j) => Shows(j)'
  BY <1>1 DEF Shows, RowOf, chainVars, collectorVars
<1>. QED
  BY <1>1, <1>2, <1>3, <1>4, <1>5 DEF Standing, chainVars

(* What is fetched leaves standing what lies before the blocks asked for.  *)
LEMMA StandingFetch ==
    ASSUME Inv, Backfill \/ Poll, NEW j \in Standing,
           j \in 1..mined, blockOf[j] < Query.from
    PROVE  j \in Standing'
<1>1. /\ UNCHANGED chainVars /\ UNCHANGED collectorVars
      /\ unseen \subseteq unseen' /\ pc' = "events" /\ batch' \subseteq Fetch
  BY DEF Backfill, Poll, Fetched, KnownTo
<1>2. /\ mined \in Nat /\ lastBlock \in Nat /\ start \in Nat
      /\ \A i \in 1..mined : blockOf[i] \in Int
  BY Numbers DEF Inv, AccountInv, HistoryInv
<1>3. Query.from \in Int
  BY <1>2 DEF Query
<1>4. ASSUME NEW i \in Pending' PROVE j < i
  <2>1. i \in 1..mined /\ blockOf[i] >= Query.from
    BY <1>1, <1>3 DEF Pending, Fetch, FilterLogs
  <2>2. blockOf[j] < blockOf[i]
    BY <2>1, <1>2, <1>3
  <2>. QED
    BY <2>1, <2>2, <1>2 DEF Inv, AccountInv, HistoryInv, ChainSorted
<1>5. Shows(j) => Shows(j)'
  BY <1>1 DEF Shows, RowOf, chainVars, collectorVars
<1>. QED
  BY <1>1, <1>4, <1>5 DEF Standing, chainVars


LEMMA RowStep ==
    ASSUME RowSafe PROVE Inv /\ AheadInv /\ RowInv /\ [Next]_vars => RowInv'
<1>. SUFFICES ASSUME Inv, AheadInv, RowInv, [Next]_vars PROVE RowInv'
  OBVIOUS
<1>1. Shape /\ TypeInv /\ ChainSorted /\ SafeResume
  BY DEF Shape, Inv, AccountInv, HistoryInv, RowSafe
<1>2. late' = {} /\ RowsFromLogs' /\ AsksCreation' /\ NeverCrashed'
      /\ AppliedShown'
  BY <1>1, RowsChange, RowsFromLogsStep, AsksCreationStep, NeverCrashedStep,
     AppliedShownStep DEF RowInv, RowSafe
<1>3. unseen \subseteq unseen' /\ unseen' \subseteq Standing'
  BY HistoryStep DEF Standing, RowSafe
<1>4. mined \in Nat /\ mined' \in Nat /\ mined <= mined'
  BY <1>1, ChainKept, MineFacts, Numbers DEF chainVars
<1>5. ~(Backfill \/ Poll \/ Listen) => Standing \subseteq Standing'
  <2>. SUFFICES ASSUME ~(Backfill \/ Poll \/ Listen), NEW j \in 1..mined,
                       Shows(j), \A i \in Pending : j < i
                PROVE  j \in Standing'
    BY <1>3 DEF Standing
  <2>1. \A i \in Pending' : j < i
    BY <1>1, PendingShrinks
  <2>2. Shows(j)'
    BY <1>1, ShownStep
  <2>. QED
    BY <1>4, <2>1, <2>2 DEF Standing
<1>6. GetLastBlock /\ saved # NoBlock => DoneBy(Standing, Settled(saved))
  <2>. SUFFICES ASSUME GetLastBlock, saved # NoBlock,
                       NEW i \in LogIds, Due(i), blockOf[i] <= Settled(saved)
                PROVE  i \in Standing
    BY DEF DoneBy
  <2>1. pc = "boot" /\ Pending = {}
    BY <1>1 DEF GetLastBlock, Pending, Shape, LoopInv, NothingLeft, InHand
  <2>2. UpdatedOnce
    BY <2>1, IndexerAssumption DEF RowInv, NeverCrashed, RowSafe
  <2>3. i \in applied \cup unseen
    BY <1>1, SavedBlockSettled DEF Shape, DoneBy, Accounted
  <2>4. i \in applied => i \in 1..mined /\ Shows(i)
    BY <1>1, <2>2, Numbers DEF RowInv, AppliedShown
  <2>. QED
    BY <2>1, <2>3, <2>4 DEF Standing
<1>7. pc \in {"exists", "write"} /\ pc' = "checkpoint" => cur \in Standing'
  <2>. SUFFICES ASSUME pc \in {"exists", "write"}, pc' = "checkpoint"
                PROVE  cur \in Standing'
    OBVIOUS
  <2>1. cur \in 1..mined /\ Shows(cur)' /\ cur' = cur
    BY CurShown, CurStays
  <2>2. Pending' = batch /\ \A i \in batch : cur < i
    BY <1>1, CurStays DEF Pending, Shape, LoopInv, CurFirst
  <2>. QED
    BY <1>4, <2>1, <2>2 DEF Standing
<1>8. Covers(Standing)'
  <2>1. Backfill \/ Poll =>
           \A j \in Standing : j \in 1..mined /\ blockOf[j] < Query.from
                               => j \in Standing'
    BY StandingFetch
  <2>2. Listen =>
           \A j \in Standing : Due(j)
               /\ (j < Earliest(queue) \/ blockOf[j] <= Settled(lastBlock))
               => j \in Standing'
    BY StandingListen
  <2>3. Covers(Standing)
    BY DEF RowInv
  <2>. HIDE DEF Standing
  <2>. QED
    BY <1>1, <1>3, <1>5, <1>6, <1>7, <2>1, <2>2, <2>3, CoversStep
<1>. QED
  BY <1>2, <1>8 DEF RowInv


LEMMA RowInitial == Init => RowInv
<1>. SUFFICES ASSUME Init PROVE RowInv
  OBVIOUS
<1>1. late = {} /\ applied = {} /\ saved = NoBlock /\ pc = "boot"
  BY DEF Init, CollectorInit, IndexerInit
<1>2. RowsFromLogs
  BY DEF Init, CollectorInit, RowsFromLogs
<1>. QED
  BY <1>1, <1>2, CoversInitial DEF RowInv, AsksCreation, NeverCrashed, AppliedShown

(* The latest of the logs there are.                                       *)
LEMMA LastProperties ==
    ASSUME NEW n \in Nat, NEW logs \in SUBSET (1..n), logs # {}
    PROVE  Last(logs) \in logs /\ \A j \in logs : j <= Last(logs)
<1>. DEFINE before == {n - i : i \in logs}
<1>0. \A i \in logs : i \in 1..n /\ n - i \in Nat
  OBVIOUS
<1>1. before \in SUBSET Nat /\ before # {}
  BY <1>0
<1>2. PICK k \in before : \A l \in before : k <= l
  BY <1>1, EarliestProperties
<1>3. PICK i \in logs : k = n - i
  OBVIOUS
<1>4. ASSUME NEW j \in logs PROVE j <= i
  <2>1. n - i <= n - j
    BY <1>2, <1>3
  <2>. QED
    BY <2>1, <1>0
<1>. QED
  BY <1>4 DEF Last

(* A row that shows each of its logs is as the last of them left it.       *)
LEMMA ShownIsOnChain ==
    ASSUME NEW n \in Nat, NEW logs \in SUBSET (1..n), logs # {},
           NEW row \in Row,
           \A j \in logs : \E p \in logs : p >= j /\ row.state = Script[p].state,
           \A j \in logs : Names(j) => \E q \in logs :
              q >= j /\ Names(q) /\ row.match = Script[q].match,
           row.match = 0 \/ \E q \in logs : Names(q)
    PROVE  OnChain(logs, row)
<1>. DEFINE naming == {i \in logs : Names(i)}
<1>1. row = [state |-> row.state, match |-> row.match]
  BY DEF Row
<1>2. row.state = Script[Last(logs)].state
  <2>1. PICK i : i = Last(logs)
    OBVIOUS
  <2>2. i \in logs /\ \A j \in logs : j <= i
    BY <2>1, LastProperties
  <2>3. PICK p \in logs : p >= i /\ row.state = Script[p].state
    BY <2>2
  <2>4. p = i
    BY <2>2, <2>3
  <2>. QED
    BY <2>1, <2>3, <2>4
<1>3. row.match = IF naming = {} THEN 0 ELSE Script[Last(naming)].match
  <2>1. CASE naming = {}
    BY <2>1
  <2>2. CASE naming # {}
    <3>1. PICK i : i = Last(naming)
      OBVIOUS
    <3>2. i \in naming /\ \A j \in naming : j <= i
      BY <2>2, <3>1, LastProperties
    <3>3. PICK q \in naming : q >= i /\ row.match = Script[q].match
      BY <3>2
    <3>4. q = i
      BY <3>2, <3>3
    <3>. QED
      BY <2>2, <3>1, <3>3, <3>4
  <2>. QED
    BY <2>1, <2>2
<1>. QED
  BY <1>1, <1>2, <1>3 DEF OnChain

(* An indexer that waits with all behind it has every due log shown.       *)
LEMMA AllShown ==
    ASSUME Inv, RowInv, pc = "idle", queue = {}, sub # "broken", unseen = {},
           \A i \in 1..mined : blockOf[i] <= lastBlock
    PROVE  \A j \in 1..mined : Due(j) => Shows(j)
<1>. SUFFICES ASSUME NEW j \in 1..mined, Due(j) PROVE j \in Standing
  BY DEF Standing
<1>1. j \in LogIds
  BY Numbers DEF Inv, AccountInv, HistoryInv
<1>2. CASE ~UseWs
  BY <1>1, <1>2 DEF RowInv, Covers, AtRest, DoneBy
<1>3. CASE UseWs
  <2>1. sub = "live"
    BY <1>3 DEF Inv, AccountInv, LoopInv, SubOn, TypeInv, TypeOK
  <2>2. Pending = {} /\ ~Awaited(j) /\ Reached(j)
    BY <2>1 DEF Inv, AccountInv, LoopInv, NothingLeft, InHand, Pending, Awaited,
       Reached
  <2>. QED
    BY <2>2 DEF RowInv, Covers, QueueContinues
<1>. QED
  BY <1>2, <1>3

LEMMA ShownAreCurrent == ASSUME Inv, RowInv PROVE RowsCurrent
<1>. SUFFICES ASSUME pc = "idle", queue = {}, sub # "broken", unseen = {},
                     \A i \in 1..mined : blockOf[i] <= lastBlock
              PROVE  /\ \A o \in OrderIds : (\A i \in OrderLogs(o) : Due(i))
                            => OnChain(OrderLogs(o), orders[o])
                     /\ \A m \in MatchIds : (\A i \in MatchLogs(m) : Due(i))
                            => OnChain(MatchLogs(m), matches[m])
  BY DEF RowsCurrent
<1>1. /\ TypeInv /\ RowsFromLogs /\ mined \in Nat
      /\ \A j \in 1..mined : Due(j) => Shows(j)
      /\ orders \in [OrderIds -> Row \cup {NoRow}]
      /\ matches \in [MatchIds -> Row \cup {NoRow}]
  BY AllShown, Numbers DEF Inv, AccountInv, HistoryInv, RowInv, TypeInv, TypeOK
<1>2. ASSUME NEW o \in OrderIds, \A i \in OrderLogs(o) : Due(i)
      PROVE  OnChain(OrderLogs(o), orders[o])
  <2>. DEFINE logs == OrderLogs(o)
  <2>1. logs \in SUBSET (1..mined)
    BY DEF OrderLogs
  <2>2. CASE logs = {}
    BY <1>1, <2>2 DEF RowsFromLogs, OnChain
  <2>3. CASE logs # {}
    <3>1. ASSUME NEW j \in logs
          PROVE  Shows(j) /\ RowOf(j) = orders[o] /\ RowLogs(j) = logs
      BY <1>1, <1>2, <2>1, RowOfLog DEF OrderLogs
    <3>2. orders[o] \in Row
      BY <1>1, <2>3, <3>1 DEF Shows
    <3>3. ASSUME NEW j \in logs
          PROVE  /\ \E p \in logs : p >= j /\ orders[o].state = Script[p].state
                 /\ Names(j) => \E q \in logs :
                       q >= j /\ Names(q) /\ orders[o].match = Script[q].match
      <4>1. \A p \in j..mined : Same(p, j) => p \in logs /\ p >= j
        BY <2>1, <3>1 DEF RowLogs
      <4>. QED
        BY <3>1, <4>1 DEF Shows
    <3>4. orders[o].match = 0 \/ \E q \in logs : Names(q)
      BY <1>1, <3>2, NoRowIsNoRow DEF RowsFromLogs
    <3>. HIDE DEF logs
    <3>. QED
      BY <1>1, <2>1, <2>3, <3>2, <3>3, <3>4, ShownIsOnChain DEF logs
  <2>. QED
    BY <2>2, <2>3
<1>3. ASSUME NEW m \in MatchIds, \A i \in MatchLogs(m) : Due(i)
      PROVE  OnChain(MatchLogs(m), matches[m])
  <2>. DEFINE logs == MatchLogs(m)
  <2>1. logs \in SUBSET (1..mined) /\ \A j \in logs : ~Names(j)
    BY DEF MatchLogs, Names
  <2>2. CASE logs = {}
    BY <1>1, <2>2 DEF RowsFromLogs, OnChain
  <2>3. CASE logs # {}
    <3>1. ASSUME NEW j \in logs
          PROVE  Shows(j) /\ RowOf(j) = matches[m] /\ RowLogs(j) = logs
      BY <1>1, <1>3, <2>1, RowOfLog DEF MatchLogs
    <3>2. matches[m] \in Row
      BY <1>1, <2>3, <3>1 DEF Shows
    <3>3. ASSUME NEW j \in logs
          PROVE  \E p \in logs : p >= j /\ matches[m].state = Script[p].state
      <4>1. \A p \in j..mined : Same(p, j) => p \in logs /\ p >= j
        BY <2>1, <3>1 DEF RowLogs
      <4>. QED
        BY <3>1, <4>1 DEF Shows
    <3>4. matches[m].match = 0
      BY <1>1, <3>2, NoRowIsNoRow DEF RowsFromLogs
    <3>. HIDE DEF logs
    <3>. QED
      BY <1>1, <2>1, <2>3, <3>2, <3>3, <3>4, ShownIsOnChain DEF logs
  <2>. QED
    BY <2>2, <2>3
<1>. QED
  BY <1>2, <1>3

(* In both modes, with nodes that lag or not, an indexer that waits with   *)
(* all behind it has left the collector with the contract's own state of   *)
(* every order and match (RowsCurrent), whatever failed and was retried,   *)
(* and however often rows are updated, if the process is never killed; or  *)
(* however often it is killed, if the contract updates an order or a match *)
(* once at most.  No write may be performed after its answer was given up. *)
THEOREM RowsEndCurrent == ASSUME RowSafe PROVE Spec => []RowsCurrent
<1>1. Init => AheadInv
  BY AheadInitial
<1>2. Inv /\ AheadInv /\ [Next]_vars => AheadInv'
  BY AheadStep DEF Inv
<1>3. Inv /\ AheadInv /\ RowInv /\ [Next]_vars => RowInv'
  BY RowStep
<1>4. Inv /\ RowInv => RowsCurrent
  BY ShownAreCurrent
<1>5. Spec => []Inv
  BY Invariant DEF RowSafe
<1>. QED
  BY <1>1, <1>2, <1>3, <1>4, <1>5, RowInitial, PTL DEF Spec


=============================================================================
