--------------------------- MODULE IndexerProofs ---------------------------
(***************************************************************************)
(* Theorems about Indexer for every value of its constants.                *)
(***************************************************************************)
EXTENDS IndexerInv, FiniteSetTheorems, WellFoundedInduction, TLAPS

-----------------------------------------------------------------------------
(* Facts about the constants and the helpers.                              *)

(* The script is numbered from 1 and holds an event at every position.     *)
LEMMA ScriptType ==
    /\ Len(Script) \in Nat
    /\ LogIds = 1..Len(Script)
    /\ \A i \in LogIds : Script[i] \in Event
BY ScriptAssumption DEF LogIds

(* A row is never NoRow.                                                   *)
LEMMA NoRowIsNoRow == NoRow \notin Row
BY DEF NoRow, Row

(* A non-empty set of logs has an earliest one.                            *)
LEMMA EarliestProperties ==
    ASSUME NEW logs \in SUBSET Nat, logs # {}
    PROVE  /\ Earliest(logs) \in logs
           /\ \A j \in logs : Earliest(logs) <= j
<1>. DEFINE upTo == {0..k : k \in logs}
           R == StrictSubsetOrdering(Nat)
<1>1. upTo \subseteq FiniteSubsetsOf(Nat)
  <2>1. \A k \in logs : IsFiniteSet(0..k) /\ 0..k \in SUBSET Nat
    BY FS_Interval
  <2>. QED
    BY <2>1 DEF FiniteSubsetsOf
<1>2. PICK x \in upTo : \A y \in upTo : <<y, x>> \notin R
  <2>1. IsWellFoundedOn(R, FiniteSubsetsOf(Nat))
    BY FS_StrictSubsetOrderingWellFounded
  <2>2. upTo # {}
    OBVIOUS
  <2>. HIDE DEF upTo, R
  <2>. QED
    BY <1>1, <2>1, <2>2, WFMin
<1>3. PICK k \in logs : x = 0..k
  BY <1>2
<1>4. \A j \in logs : k <= j
  <2>. SUFFICES ASSUME NEW j \in logs, j < k PROVE FALSE
    OBVIOUS
  <2>1. 0..j \in upTo
    OBVIOUS
  <2>2. 0..j \subseteq 0..k /\ 0..j # 0..k
    <3>1. k \in 0..k /\ k \notin 0..j
      OBVIOUS
    <3>. QED
      BY <3>1
  <2>3. 0..j \in SUBSET Nat /\ 0..k \in SUBSET Nat
    OBVIOUS
  <2>4. <<0..j, 0..k>> \in R
    BY <2>2, <2>3 DEF StrictSubsetOrdering
  <2>. HIDE DEF R, upTo
  <2>. QED
    BY <2>1, <2>4, <1>2, <1>3
<1>. QED
  BY <1>4 DEF Earliest

-----------------------------------------------------------------------------
(* Type correctness.                                                       *)

(* A write is in flight only for the log whose handler sends it.           *)
WritesFor(i) == {WriteFor(Script[i].name), "updateLastBlock"}

Handling == pc \in {"exists", "write", "checkpoint"}

(* What the types rest on: a log is in hand whenever its event or its row  *)
(* is looked at.                                                           *)
TypeInv ==
    /\ TypeOK
    /\ Handling => cur # NoLog
    /\ pc = "events" /\ batch = {} /\ phase = "live" => cur # NoLog
    /\ pc \in {"subscribe", "backfill"} => phase = "backfill"
    /\ pc = "poll" => phase = "poll"
    /\ \A w \in late : w.log <= mined /\ w.write \in WritesFor(w.log)

(* Performing a write leaves the collector with rows, a block number and   *)
(* logs of the chain.                                                      *)
LEMMA PerformType ==
    ASSUME TypeOK, NEW i \in 1..mined, NEW write \in WritesFor(i),
           Perform(write, i)
    PROVE  /\ orders' \in [OrderIds -> Row \cup {NoRow}]
           /\ matches' \in [MatchIds -> Row \cup {NoRow}]
           /\ saved' \in 0..MaxBlock \cup {NoBlock}
           /\ applied' \subseteq 1..mined
<1>. DEFINE e == Script[i]
<1>0. i \in LogIds /\ e \in Event
  BY ScriptType DEF TypeOK
<1>1. e.name \in EventNames /\ e.state \in Nat /\ e.match \in Nat
  BY <1>0 DEF Event
<1>2. orders' \in [OrderIds -> Row \cup {NoRow}]
  <2>1. CASE write = "addOrder" /\ orders[e.id] = NoRow
    <3>1. NewAddOrder(e) \in Row
      BY <1>1 DEF NewAddOrder, Row
    <3>. QED
      BY <2>1, <3>1 DEF Perform, TypeOK, OrderWrites
  <2>2. CASE write = "updateOrder" /\ orders[e.id] # NoRow
    <3>1. e.name = "OrderUpdated"
      BY <2>2, <1>1 DEF WritesFor, WriteFor, EventNames
    <3>2. e.id \in OrderIds
      BY <3>1, <1>0 DEF OrderIds
    <3>3. orders[e.id] \in Row
      BY <3>2, <2>2 DEF TypeOK
    <3>4. NewUpdateOrder(orders[e.id], e) \in Row
      BY <3>3, <1>1 DEF NewUpdateOrder, Row
    <3>. QED
      BY <2>2, <3>4 DEF Perform, TypeOK, OrderWrites
  <2>3. CASE ~(write = "addOrder" /\ orders[e.id] = NoRow)
             /\ ~(write = "updateOrder" /\ orders[e.id] # NoRow)
    BY <2>3 DEF Perform, TypeOK, OrderWrites
  <2>. QED
    BY <2>1, <2>2, <2>3
<1>3. matches' \in [MatchIds -> Row \cup {NoRow}]
  <2>1. CASE write = "addMatch" /\ matches[e.id] = NoRow
    <3>1. NewAddMatch(e) \in Row
      BY <1>1 DEF NewAddMatch, Row
    <3>. QED
      BY <2>1, <3>1 DEF Perform, TypeOK, OrderWrites
  <2>2. CASE write = "updateMatch" /\ matches[e.id] # NoRow
    <3>1. e.name = "MatchUpdated"
      BY <2>2, <1>1 DEF WritesFor, WriteFor, EventNames
    <3>2. e.id \in MatchIds
      BY <3>1, <1>0 DEF MatchIds
    <3>3. matches[e.id] \in Row
      BY <3>2, <2>2 DEF TypeOK
    <3>4. NewUpdateMatch(matches[e.id], e) \in Row
      BY <3>3, <1>1 DEF NewUpdateMatch, Row
    <3>. QED
      BY <2>2, <3>4 DEF Perform, TypeOK, OrderWrites
  <2>3. CASE ~(write = "addMatch" /\ matches[e.id] = NoRow)
             /\ ~(write = "updateMatch" /\ matches[e.id] # NoRow)
    BY <2>3 DEF Perform, TypeOK, OrderWrites
  <2>. QED
    BY <2>1, <2>2, <2>3
<1>4. saved' \in 0..MaxBlock \cup {NoBlock}
  <2>1. blockOf[i] \in 0..MaxBlock
    BY <1>0 DEF TypeOK
  <2>. QED
    BY <2>1 DEF Perform, NewUpdateBlock, TypeOK
<1>5. applied' \subseteq 1..mined
  BY DEF Perform, TypeOK
<1>. QED
  BY <1>2, <1>3, <1>4, <1>5

(* The failures of a request are counted up to the bound.                  *)
LEMMA FaultType ==
    ASSUME TypeOK, Fault \/ UNCHANGED faults
    PROVE  faults' \in 0..MaxFaults
BY IndexerAssumption DEF TypeOK, Fault

(* What a node answers are logs of the chain.                              *)
LEMMA FetchedType ==
    ASSUME TypeOK, Fetched
    PROVE  batch' \subseteq 1..mined /\ unseen' \subseteq 1..mined
BY DEF Fetched, KnownTo, Fetch, FilterLogs, TypeOK

(* The runner's return forgets what it held.                               *)
LEMMA ReturnType ==
    ASSUME TypeOK, Return
    PROVE  /\ pc' = "backoff" /\ phase' = "none" /\ lastBlock' \in Nat
           /\ chainHead' = 0 /\ start' = 0 /\ batch' = {} /\ cur' = NoLog
           /\ sub' = "off" /\ queue' = {}
BY DEF Return, DropLocals, TypeOK

LEMMA ReturnKeepsType ==
    ASSUME TypeInv, Return, faults' \in 0..MaxFaults,
           UNCHANGED <<chainVars, collectorVars, crashes, unseen>>
    PROVE  TypeInv'
<1>1. /\ pc' = "backoff" /\ phase' = "none" /\ lastBlock' \in Nat
      /\ chainHead' = 0 /\ start' = 0 /\ batch' = {} /\ cur' = NoLog
      /\ sub' = "off" /\ queue' = {}
  BY ReturnType DEF TypeInv
<1>2. TypeOK'
  BY <1>1 DEF TypeInv, TypeOK, PCs, NoLog, chainVars, collectorVars
<1>. QED
  BY <1>1, <1>2
     DEF TypeInv, Handling, WritesFor, NoLog, chainVars, collectorVars

(* A request, answered or not, preserves the types.                        *)
LEMMA SendType ==
    ASSUME TypeInv, cur # NoLog, NEW write \in WritesFor(cur),
           NEW next \in {"checkpoint", "events"}, Send(write, next)
    PROVE  TypeInv'
<1>1. cur \in 1..mined /\ cur \in LogIds /\ Script[cur] \in Event
  BY ScriptType DEF TypeInv, TypeOK, NoLog
<1>2. UNCHANGED <<chainVars, crashes, unseen>>
  BY DEF Send
<1>3. faults' \in 0..MaxFaults
  BY FaultType DEF Send, Answered, Failed, TypeInv
<1>4. /\ orders' \in [OrderIds -> Row \cup {NoRow}]
      /\ matches' \in [MatchIds -> Row \cup {NoRow}]
      /\ saved' \in 0..MaxBlock \cup {NoBlock}
      /\ applied' \subseteq 1..mined
  <2>1. CASE Perform(write, cur)
    BY <2>1, <1>1, PerformType DEF TypeInv
  <2>2. CASE UNCHANGED <<orders, matches, saved, applied>>
    BY <2>2 DEF TypeInv, TypeOK
  <2>. QED
    BY <2>1, <2>2 DEF Send, Answered, Failed, collectorVars
<1>5. late' \subseteq LateWrites
      /\ \A w \in late' : w.log <= mined /\ w.write \in WritesFor(w.log)
  <2>1. CASE UNCHANGED late
    BY <2>1 DEF TypeInv, TypeOK
  <2>2. CASE late' = late \cup {[write |-> write, log |-> cur, no |-> faults]}
    <3>. DEFINE new == [write |-> write, log |-> cur, no |-> faults]
    <3>1. write \in Writes
      BY <1>1 DEF WritesFor, WriteFor, Writes, OrderWrites, MatchWrites, Event,
                  EventNames
    <3>2. faults \in Nat
      BY IndexerAssumption DEF TypeInv, TypeOK
    <3>3. new \in LateWrites
      BY <3>1, <3>2, <1>1 DEF LateWrites
    <3>4. new.log <= mined /\ new.write \in WritesFor(new.log)
      BY <1>1 DEF TypeInv, TypeOK
    <3>. QED
      BY <2>2, <3>3, <3>4 DEF TypeInv, TypeOK
  <2>. QED
    BY <2>1, <2>2 DEF Send, Answered, Failed, collectorVars
<1>6. CASE Return
  <2>1. /\ pc' = "backoff" /\ phase' = "none" /\ lastBlock' \in Nat
        /\ chainHead' = 0 /\ start' = 0 /\ batch' = {} /\ cur' = NoLog
        /\ sub' = "off" /\ queue' = {}
    BY <1>6, ReturnType DEF TypeInv
  <2>. QED
    BY <1>2, <1>3, <1>4, <1>5, <2>1
       DEF TypeInv, TypeOK, chainVars, PCs, Handling, NoLog, WritesFor
<1>7. CASE /\ pc' = next
           /\ UNCHANGED <<phase, lastBlock, chainHead, start, batch, cur,
                          subVars>>
  BY <1>2, <1>3, <1>4, <1>5, <1>7
     DEF TypeInv, TypeOK, chainVars, subVars, PCs, Handling, WritesFor
<1>. QED
  BY <1>6, <1>7 DEF Send

(* The types hold at first and every step keeps them.                      *)
LEMMA TypeInitial == Init => TypeInv
BY ScriptType, ChainBoundsAssumption, IndexerAssumption
   DEF Init, ChainInit, CollectorInit, IndexerInit, TypeInv, TypeOK, PCs,
       Handling, NoLog

LEMMA TypeStep == TypeInv /\ [Next]_vars => TypeInv'
<1>. SUFFICES ASSUME TypeInv, [Next]_vars PROVE TypeInv'
  OBVIOUS
<1>. USE DEF TypeInv, TypeOK, Handling, PCs, NoLog, chainVars, collectorVars,
             subVars, boundVars, loopVars, WritesFor
<1>1. CASE GetLastBlock
  <2>1. lastBlock' \in Nat
    BY <1>1, IndexerAssumption, ChainBoundsAssumption DEF GetLastBlock
  <2>2. faults' \in 0..MaxFaults
    BY <1>1, FaultType DEF GetLastBlock
  <2>. QED
    BY <1>1, <2>1, <2>2 DEF GetLastBlock
<1>2. CASE BlockNumber
  BY <1>2 DEF BlockNumber, NodeHeads
<1>3. CASE Subscribe
  BY <1>3 DEF Subscribe
<1>4. CASE Backfill
  <2>1. batch' \subseteq 1..mined /\ unseen' \subseteq 1..mined
    BY <1>4, FetchedType DEF Backfill
  <2>2. pc' = "events" /\ phase # "live"
        /\ UNCHANGED <<chainVars, collectorVars, phase, lastBlock, chainHead,
                       start, cur, subVars, boundVars>>
    BY <1>4 DEF Backfill
  <2>. QED
    BY <2>1, <2>2
<1>5. CASE RangeRefused
  <2>1. Return /\ UNCHANGED <<chainVars, collectorVars, boundVars, unseen>>
    BY <1>5 DEF RangeRefused
  <2>2. faults' \in 0..MaxFaults
    BY <2>1
  <2>. QED
    BY <2>1, <2>2, ReturnKeepsType
<1>6. CASE BackfillDone
  BY <1>6 DEF BackfillDone
<1>7. CASE EndOfBatch
  <2>1. start' \in Nat
    <3>1. start' = start + BlockRange + 1 \/ start' = start
      BY <1>7 DEF EndOfBatch
    <3>2. start \in Nat /\ BlockRange \in Nat
      BY IndexerAssumption
    <3>. QED
      BY <3>1, <3>2
  <2>2. lastBlock' \in Nat
    <3>1. \/ lastBlock' \in {lastBlock, chainHead}
          \/ lastBlock' = blockOf[cur] /\ pc = "events" /\ phase = "live"
             /\ batch = {}
      BY <1>7 DEF EndOfBatch
    <3>2. lastBlock \in Nat /\ chainHead \in Nat
      OBVIOUS
    <3>3. cur # NoLog => blockOf[cur] \in Nat
      BY ScriptType
    <3>. QED
      BY <3>1, <3>2, <3>3
  <2>3. /\ pc' \in {"backfill", "idle"} /\ cur' = NoLog
        /\ pc' = "backfill" => phase = "backfill"
        /\ UNCHANGED <<chainVars, collectorVars, phase, chainHead, batch,
                       subVars, boundVars, unseen>>
    BY <1>7 DEF EndOfBatch
  <2>. QED
    BY <2>1, <2>2, <2>3
<1>8. CASE HandleEvent
  <2>1. cur' \in batch
    BY <1>8, EarliestProperties DEF HandleEvent
  <2>2. cur' \in 1..mined /\ batch' \subseteq 1..mined
    BY <1>8, <2>1 DEF HandleEvent
  <2>3. pc' \in {"exists", "write"}
    BY <1>8 DEF HandleEvent
  <2>. HIDE DEF HandleEvent
  <2>4. UNCHANGED <<chainVars, collectorVars, phase, lastBlock, chainHead,
                    start, subVars, boundVars, unseen>>
    BY <1>8 DEF HandleEvent
  <2>. QED
    BY <2>2, <2>3, <2>4
<1>9. CASE AskExists
  <2>1. applied' \subseteq 1..mined
    BY <1>9 DEF AskExists
  <2>2. pc' \in {"checkpoint", "write"} /\ pc = "exists"
        /\ UNCHANGED <<chainVars, orders, matches, saved, late, phase,
                       lastBlock, chainHead, start, batch, cur, subVars,
                       boundVars, unseen>>
    BY <1>9 DEF AskExists
  <2>. QED
    BY <2>1, <2>2
<1>10. CASE SendWrite
  BY <1>10, SendType DEF SendWrite
<1>11. CASE UpdateLastBlock
  BY <1>11, SendType DEF UpdateLastBlock
<1>12. CASE Tick
  BY <1>12 DEF Tick, NodeHeads
<1>13. CASE Poll
  <2>1. batch' \subseteq 1..mined /\ unseen' \subseteq 1..mined
    BY <1>13, FetchedType DEF Poll
  <2>2. pc' = "events" /\ phase # "live"
        /\ UNCHANGED <<chainVars, collectorVars, phase, lastBlock, chainHead,
                       start, cur, subVars, boundVars>>
    BY <1>13 DEF Poll
  <2>. QED
    BY <2>1, <2>2
<1>14. CASE Listen
  <2>1. Earliest(queue) \in queue
    BY <1>14, EarliestProperties DEF Listen
  <2>. QED
    BY <1>14, <2>1 DEF Listen
<1>15. CASE SubscriptionFailed
  <2>1. Return /\ UNCHANGED <<chainVars, collectorVars, boundVars, unseen>>
    BY <1>15 DEF SubscriptionFailed
  <2>2. faults' \in 0..MaxFaults
    BY <2>1
  <2>. QED
    BY <2>1, <2>2, ReturnKeepsType
<1>16. CASE Retry
  BY <1>16 DEF Retry
<1>17. CASE CallFails
  <2>1. faults' \in 0..MaxFaults
    BY <1>17, FaultType DEF CallFails
  <2>2. Return /\ UNCHANGED <<chainVars, collectorVars, crashes, unseen>>
    BY <1>17 DEF CallFails
  <2>. QED
    BY <2>1, <2>2, ReturnKeepsType
<1>18. CASE Mine
  <2>1. PICK n \in 0..MaxLogsPerBlock : MineBlock(n)
    BY <1>18 DEF Mine
  <2>2. head' \in 0..MaxBlock /\ mined' \in 0..Len(Script)
        /\ head' = head + 1 /\ mined' = mined + n
    BY <2>1, ChainBoundsAssumption, ScriptType DEF MineBlock
  <2>3. blockOf' \in [LogIds -> 0..MaxBlock]
    BY <2>1, <2>2, ChainBoundsAssumption DEF MineBlock
  <2>4. 1..mined \subseteq 1..mined'
    BY <2>2, ChainBoundsAssumption
  <2>5. queue' \subseteq 1..mined'
    <3>1. PICK m \in 0..MaxLogsPerBlock :
             /\ mined' = mined + m
             /\ queue' \subseteq queue \cup ((mined + 1)..(mined + m))
      BY <1>18 DEF Mine, MineBlock
    <3>2. /\ 1..mined \subseteq 1..mined'
          /\ (mined + 1)..(mined + m) \subseteq 1..mined'
      BY <2>2, <3>1, ChainBoundsAssumption
    <3>. QED
      BY <3>1, <3>2
  <2>6. UNCHANGED <<collectorVars, loopVars, sub, boundVars, unseen>>
    BY <1>18 DEF Mine
  <2>7. \A w \in late' : w.log <= mined' /\ w.write \in WritesFor(w.log)
    <3>1. \A w \in late : w.log \in Nat
      BY ScriptType DEF LateWrites
    <3>. QED
      BY <2>2, <2>6, <3>1, ChainBoundsAssumption
  <2>8. /\ applied' \subseteq 1..mined' /\ batch' \subseteq 1..mined'
        /\ cur' \in 0..mined' /\ chainHead' \in 0..head'
        /\ unseen' \subseteq 1..mined'
    BY <2>2, <2>4, <2>6, ChainBoundsAssumption
  <2>9. /\ orders' \in [OrderIds -> Row \cup {NoRow}]
        /\ matches' \in [MatchIds -> Row \cup {NoRow}]
        /\ saved' \in 0..MaxBlock \cup {NoBlock}
        /\ late' \subseteq LateWrites
    BY <2>6
  <2>. QED
    BY <2>2, <2>3, <2>5, <2>6, <2>7, <2>8, <2>9
<1>19. CASE SubscriptionBreaks
  <2>1. faults' \in 0..MaxFaults
    BY <1>19, FaultType DEF SubscriptionBreaks
  <2>. QED
    BY <1>19, <2>1 DEF SubscriptionBreaks
<1>20. CASE PerformLate
  <2>1. PICK w \in late : Perform(w.write, w.log) /\ late' = late \ {w}
    BY <1>20 DEF PerformLate, LateWrite
  <2>2. w.log \in 1..mined /\ w.write \in WritesFor(w.log)
    BY <2>1, ScriptType DEF LateWrites
  <2>3. TypeOK
    OBVIOUS
  <2>4. /\ orders' \in [OrderIds -> Row \cup {NoRow}]
        /\ matches' \in [MatchIds -> Row \cup {NoRow}]
        /\ saved' \in 0..MaxBlock \cup {NoBlock}
        /\ applied' \subseteq 1..mined
    BY <2>1, <2>2, <2>3, PerformType
  <2>. QED
    BY <1>20, <2>1, <2>4 DEF PerformLate
<1>21. CASE Crash
  BY <1>21, IndexerAssumption DEF Crash, DropLocals
<1>22. CASE Restart
  BY <1>22 DEF Restart
<1>23. CASE UNCHANGED vars
  BY <1>23 DEF vars
<1>. QED
  BY <1>1, <1>2, <1>3, <1>4, <1>5, <1>6, <1>7, <1>8, <1>9, <1>10, <1>11, <1>12,
     <1>13, <1>14, <1>15, <1>16, <1>17, <1>18, <1>19, <1>20, <1>21, <1>22, <1>23
     DEF Next, IndexerStep

(* Every variable keeps its type (TypeOK), in both modes and with any      *)
(* script, bounds and failures.                                            *)
THEOREM TypeCorrect == Spec => []TypeOK
<1>1. TypeInv => TypeOK
  BY DEF TypeInv
<1>. QED
  BY TypeInitial, TypeStep, <1>1, PTL DEF Spec

-----------------------------------------------------------------------------
(* The indexer uses its log subscription as an EventQueue: each of its     *)
(* steps opens the queue, takes the first log, closes it or leaves it      *)
(* alone, and the surroundings only add the logs that are mined or break   *)
(* it.                                                                     *)

SubInv == TypeInv /\ SubOff

QVars == <<mined, sub, queue>>

(* The steps of a run between two calls leave the subscription alone.      *)
LEMMA QuietForSub ==
    ASSUME \/ GetLastBlock \/ BlockNumber \/ Backfill \/ BackfillDone
           \/ EndOfBatch \/ HandleEvent \/ AskExists \/ Tick \/ Poll
           \/ Retry \/ PerformLate \/ Restart \/ UNCHANGED vars
    PROVE  UNCHANGED QVars
BY DEF GetLastBlock, BlockNumber, Backfill, BackfillDone, EndOfBatch,
   HandleEvent, AskExists, Tick, Poll, Retry, PerformLate, Restart, vars,
   chainVars, subVars, QVars

(* A run that returns, and a process that is killed, close it.             *)
LEMMA CloseForSub ==
    ASSUME RangeRefused \/ SubscriptionFailed \/ CallFails \/ Crash
    PROVE  SubQueue!Close /\ sub' = "off"
BY DEF RangeRefused, SubscriptionFailed, CallFails, Crash, Return, DropLocals,
   SubQueue!Close, chainVars

(* A write that is answered leaves it alone, a write that fails ends the   *)
(* run.                                                                    *)
LEMMA SendForSub ==
    ASSUME NEW write, NEW next, Send(write, next)
    PROVE  \/ UNCHANGED QVars /\ pc' = next
           \/ SubQueue!Close /\ sub' = "off"
BY DEF Send, Return, DropLocals, SubQueue!Close, chainVars, subVars, QVars

LEMMA SubOffInitial == Init => SubOff
BY DEF Init, IndexerInit, SubOff

LEMMA SubOffStep == SubInv /\ [Next]_vars => SubOff'
<1>. SUFFICES ASSUME SubInv, [Next]_vars PROVE SubOff'
  OBVIOUS
<1>. USE DEF SubInv, SubOff
<1>1. CASE RangeRefused \/ SubscriptionFailed \/ CallFails \/ Crash
  BY <1>1, CloseForSub
<1>2. CASE SendWrite
  <2>1. Send(WriteFor(Script[cur].name), "checkpoint")
    BY <1>2 DEF SendWrite
  <2>. QED
    BY <2>1, SendForSub
<1>3. CASE UpdateLastBlock
  <2>1. Send("updateLastBlock", "events")
    BY <1>3 DEF UpdateLastBlock
  <2>. QED
    BY <2>1, SendForSub
<1>4. CASE GetLastBlock \/ BlockNumber \/ Subscribe
  BY <1>4 DEF GetLastBlock, BlockNumber, Subscribe, subVars
<1>5. CASE Backfill \/ BackfillDone \/ EndOfBatch \/ HandleEvent \/ AskExists
           \/ Tick \/ Poll \/ Listen
  BY <1>5 DEF Backfill, BackfillDone, EndOfBatch, HandleEvent, AskExists, Tick,
     Poll, Listen
<1>6. CASE Retry \/ Restart \/ Mine \/ PerformLate \/ UNCHANGED vars
  BY <1>6 DEF Retry, Restart, Mine, PerformLate, vars, loopVars, subVars
<1>7. CASE SubscriptionBreaks
  BY <1>7 DEF SubscriptionBreaks, loopVars
<1>. QED
  BY <1>1, <1>2, <1>3, <1>4, <1>5, <1>6, <1>7 DEF Next, IndexerStep

-----------------------------------------------------------------------------

LEMMA QueueInitial == Init => SubQueue!Init
BY DEF Init, ChainInit, IndexerInit, SubQueue!Init

LEMMA QueueStep ==
    ASSUME SubInv, [Next]_vars
    PROVE  [SubQueue!Next]_QVars
<1>. USE DEF SubQueue!Next
<1>0. queue \subseteq 1..mined /\ mined \in Nat
  BY DEF SubInv, TypeInv, TypeOK
<1>1. CASE RangeRefused \/ SubscriptionFailed \/ CallFails \/ Crash
  BY <1>1, CloseForSub
<1>2. CASE SendWrite \/ UpdateLastBlock
  BY <1>2, SendForSub DEF SendWrite, UpdateLastBlock
<1>3. CASE Subscribe
  BY <1>3 DEF Subscribe, SubInv, SubOff, SubQueue!Open, chainVars
<1>4. CASE Listen
  <2>1. /\ Earliest(queue) \in queue
        /\ \A j \in queue : Earliest(queue) <= j
    BY <1>0, <1>4, EarliestProperties DEF Listen
  <2>. QED
    BY <1>4, <2>1 DEF Listen, SubQueue!Take, chainVars
<1>5. CASE Mine
  <2>1. PICK n \in 0..MaxLogsPerBlock :
           /\ MineBlock(n)
           /\ queue' = IF sub = "live"
                       THEN queue \cup ((mined + 1)..(mined + n)) ELSE queue
           /\ UNCHANGED sub
    BY <1>5 DEF Mine
  <2>2. n \in Nat /\ mined' = mined + n
    BY <2>1, ChainBoundsAssumption DEF MineBlock
  <2>3. CASE n = 0
    <3>1. mined' = mined /\ (mined + 1)..(mined + n) = {}
      BY <1>0, <2>2, <2>3
    <3>. QED
      BY <2>1, <3>1 DEF QVars
  <2>4. CASE n > 0
    BY <1>0, <2>1, <2>2, <2>4 DEF SubQueue!Emit
  <2>. QED
    BY <2>2, <2>3, <2>4
<1>6. CASE SubscriptionBreaks
  BY <1>6 DEF SubscriptionBreaks, SubQueue!Break, chainVars
<1>7. CASE \/ GetLastBlock \/ BlockNumber \/ Backfill \/ BackfillDone
           \/ EndOfBatch \/ HandleEvent \/ AskExists \/ Tick \/ Poll
           \/ Retry \/ PerformLate \/ Restart \/ UNCHANGED vars
  BY <1>7, QuietForSub
<1>. QED
  BY <1>1, <1>2, <1>3, <1>4, <1>5, <1>6, <1>7 DEF Next, IndexerStep

(* The indexer implements EventQueue: it subscribes only when it has no    *)
(* subscription, takes logs in the order of the chain, and gives up what a *)
(* subscription holds whenever a run ends (SubscriptionAsQueue).           *)
THEOREM IndexerUsesQueue == Spec => SubscriptionAsQueue
<1>1. Init => SubInv
  BY TypeInitial, SubOffInitial DEF SubInv
<1>2. SubInv /\ [Next]_vars => SubInv'
  BY TypeStep, SubOffStep DEF SubInv
<1>3. SubInv /\ [Next]_vars => [SubQueue!Next]_(SubQueue!queueVars)
  BY QueueStep DEF QVars, SubQueue!queueVars
<1>. QED
  BY QueueInitial, <1>1, <1>2, <1>3, PTL
     DEF Spec, SubscriptionAsQueue, SubQueue!Spec

=============================================================================
