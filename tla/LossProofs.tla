----------------------------- MODULE LossProofs -----------------------------
(***************************************************************************)
(* In both modes and with nodes that lag, the indexer loses no log but     *)
(* those that no node showed it (LossOnlyIfUnseen): for every script,      *)
(* placement of its logs in blocks, number of failures, crashes, broken    *)
(* subscriptions and late writes.  When it polls, behind nodes that do not *)
(* lag, it therefore skips no log, applies the logs in order, reports only *)
(* blocks it is through with, and implements OrderFeed.                    *)
(*                                                                         *)
(* How a step moves the indexer on (Covers) is proved for any set of logs  *)
(* that is taken to be done: here it is that of the logs accounted for,    *)
(* and RowProofs has another.                                              *)
(***************************************************************************)
EXTENDS IndexerInv, IndexerProofs

Inv == TypeInv /\ AccountInv

-----------------------------------------------------------------------------
(* Facts about single states.                                              *)

(* Numbers are numbers.                                                    *)
LEMMA Numbers ==
    ASSUME TypeInv, ChainSorted
    PROVE  /\ mined \in Nat /\ head \in Nat /\ 1..mined \subseteq LogIds
           /\ lastBlock \in Nat /\ chainHead \in 0..head /\ start \in Nat
           /\ BlockRange \in Nat /\ OverrideLastBlock \in Nat
           /\ BackfillEnd \in Nat
           /\ applied \subseteq 1..mined /\ unseen \subseteq 1..mined
           /\ batch \subseteq 1..mined /\ queue \subseteq 1..mined
           /\ cur \in 0..mined
           /\ \A i \in LogIds : Due(i) => i \in 1..mined /\ blockOf[i] \in Int
           /\ \A i \in 1..mined : blockOf[i] \in 1..head
<1>1. /\ mined \in Nat /\ head \in Nat /\ 1..mined \subseteq LogIds
      /\ chainHead \in 0..head /\ BlockRange \in Nat
  BY ScriptType, ChainBoundsAssumption, IndexerAssumption DEF TypeInv, TypeOK
<1>2. BackfillEnd \in Nat
  BY <1>1 DEF BackfillEnd
<1>. QED
  BY <1>1, <1>2, IndexerAssumption DEF TypeInv, TypeOK, Due, ChainSorted

(* When all logs up to one are done, the block of that one is settled: the *)
(* blocks that a resumption from it leaves out are done.                   *)
LEMMA HandledBlockSettled ==
    ASSUME TypeInv, ChainSorted, SafeResume, NEW done, NEW i \in 1..mined,
           \A j \in 1..i : Due(j) => j \in done
    PROVE  DoneBy(done, Settled(blockOf[i]))
<1>. SUFFICES ASSUME NEW k \in LogIds, Due(k), blockOf[k] <= Settled(blockOf[i])
              PROVE  k \in done
  BY DEF DoneBy
<1>1. i \in 1..mined /\ k \in 1..mined /\ mined \in Nat
      /\ blockOf[i] \in Int /\ blockOf[k] \in Int
  BY Numbers
<1>2. k <= i
  <2>1. CASE BlockRange = 0
    BY <2>1, <1>1 DEF Settled, ChainSorted
  <2>2. CASE BlockRange # 0
    BY <2>2, <1>1 DEF Settled, ChainSorted, SafeResume
  <2>. QED
    BY <2>1, <2>2
<1>. QED
  BY <1>1, <1>2

(* So is the block that was reported last.                                 *)
LEMMA SavedBlockSettled ==
    ASSUME TypeInv, HistoryInv, SafeResume, saved # NoBlock
    PROVE  DoneBy(Accounted, Settled(saved)) /\ saved \in 1..head
<1>1. PICK i \in applied : saved = blockOf[i]
  BY DEF HistoryInv, SavedApplied
<1>2. i \in 1..mined /\ \A j \in 1..i : Due(j) => j \in Accounted
  BY Numbers DEF HistoryInv, AccountedInOrder
<1>. QED
  BY <1>1, <1>2, Numbers, HandledBlockSettled DEF HistoryInv

(* Nothing before the log in hand is pending.                              *)
LEMMA CurTurn ==
    ASSUME TypeInv, LoopInv, pc \in {"exists", "write"}, NEW done,
           PendingContinues(done)
    PROVE  /\ cur \in 1..mined /\ cur \in Pending
           /\ \A j \in 1..(cur - 1) : Due(j) => j \in done
<1>1. cur \in 1..mined /\ batch \subseteq 1..mined /\ mined \in Nat
  BY DEF TypeInv, TypeOK, Handling, NoLog
<1>2. cur \in Pending
  BY DEF Pending
<1>3. ASSUME NEW j \in 1..(cur - 1), j \in Pending PROVE FALSE
  BY <1>1, <1>3 DEF LoopInv, CurFirst, Pending
<1>. QED
  BY <1>1, <1>2, <1>3 DEF PendingContinues

(* The turn of the log in hand has come.                                   *)
LEMMA CurReady ==
    ASSUME Inv, pc \in {"exists", "write"}
    PROVE  cur \in 1..mined /\ Ready(cur)
BY CurTurn DEF Inv, AccountInv, Covers, Ready

(* The logs of a range of blocks whose start is reached continue what is   *)
(* done, and cover the range.                                              *)
LEMMA FetchContinues ==
    ASSUME TypeInv, ChainSorted, NEW from \in Int, NEW to \in Int,
           NEW covered, FilterLogs(from, to) \subseteq covered,
           \A i \in LogIds : Due(i) /\ blockOf[i] < from => i \in covered
    PROVE  /\ \A k \in FilterLogs(from, to) : \A j \in 1..(k - 1) :
                 Due(j) => j \in covered
           /\ \A i \in LogIds : Due(i) /\ blockOf[i] <= to => i \in covered
<1>1. ASSUME NEW i \in LogIds, Due(i), blockOf[i] <= to
      PROVE  i \in covered
  <2>1. i \in 1..mined /\ blockOf[i] \in Int
    BY <1>1, Numbers
  <2>2. CASE blockOf[i] < from
    BY <2>2, <1>1
  <2>3. CASE blockOf[i] >= from
    BY <2>1, <2>3, <1>1 DEF FilterLogs
  <2>. QED
    BY <2>1, <2>2, <2>3
<1>2. ASSUME NEW k \in FilterLogs(from, to), NEW j \in 1..(k - 1), Due(j)
      PROVE  j \in covered
  <2>1. k \in 1..mined /\ blockOf[k] \in from..to
    BY DEF FilterLogs
  <2>2. j \in 1..mined /\ j \in LogIds /\ j < k
    BY <2>1, Numbers
  <2>3. blockOf[j] <= blockOf[k] /\ blockOf[j] \in Int /\ blockOf[k] \in Int
    BY <2>1, <2>2 DEF ChainSorted
  <2>. QED
    BY <1>1, <1>2, <2>1, <2>2, <2>3
<1>. QED
  BY <1>1, <1>2

(* Only mining changes the chain.                                          *)
LEMMA ChainKept == [Next]_vars => Mine \/ UNCHANGED chainVars
BY DEF Next, IndexerStep, GetLastBlock, BlockNumber, Subscribe, Backfill,
   RangeRefused, BackfillDone, EndOfBatch, HandleEvent, AskExists, SendWrite,
   UpdateLastBlock, Send, Tick, Poll, Listen, SubscriptionFailed, Retry,
   CallFails, SubscriptionBreaks, PerformLate, Crash, Restart, vars

(* What is done stays done while the chain is the same.                    *)
LEMMA DoneGrows ==
    ASSUME UNCHANGED chainVars, NEW A, NEW B, A \subseteq B
    PROVE  /\ \A i : Due(i)' <=> Due(i)
           /\ \A b : DoneBy(A, b) => DoneBy(B, b)'
           /\ blockOf' = blockOf /\ mined' = mined /\ head' = head
BY DEF chainVars, Due, DoneBy

-----------------------------------------------------------------------------
(* What the collector was sent.                                            *)

(* What is accounted for stays so, and what is ready stays ready.          *)
LEMMA Stable ==
    ASSUME UNCHANGED chainVars, applied \subseteq applied',
           unseen \subseteq unseen'
    PROVE  /\ \A i : Due(i)' <=> Due(i)
           /\ Accounted \subseteq Accounted'
           /\ \A i : Ready(i) => Ready(i)'
BY DEF chainVars, Due, Accounted, Ready

(* The history is untouched.                                               *)
LEMMA SameHistory ==
    ASSUME HistoryInv, UNCHANGED chainVars, UNCHANGED collectorVars,
           unseen \subseteq unseen'
    PROVE  HistoryInv'
BY DEF HistoryInv, ChainSorted, AccountedInOrder, SavedApplied, LateReady,
       Ready, Due, Accounted, chainVars, collectorVars

(* A write whose turn has come is performed.                               *)
LEMMA PerformHistory ==
    ASSUME TypeInv, HistoryInv, UNCHANGED chainVars, UNCHANGED unseen,
           late' \subseteq late,
           NEW i \in 1..mined, NEW write \in WritesFor(i), Perform(write, i),
           IF write = "updateLastBlock" THEN i \in applied ELSE Ready(i)
    PROVE  HistoryInv' /\ applied \subseteq applied'
<1>1. applied \subseteq applied' /\ applied' \subseteq applied \cup {i}
  BY DEF Perform
<1>2. ChainSorted'
  BY DEF HistoryInv, ChainSorted, chainVars
<1>3. AccountedInOrder'
  <2>. SUFFICES ASSUME NEW k \in applied', NEW j \in 1..k, Due(j)'
                PROVE  j \in Accounted'
    BY DEF AccountedInOrder
  <2>1. Due(j) /\ Accounted \subseteq Accounted' /\ applied' \subseteq Accounted'
    BY <1>1, Stable DEF Accounted
  <2>2. CASE k \in applied
    BY <2>1, <2>2 DEF HistoryInv, AccountedInOrder
  <2>3. CASE k \notin applied
    <3>1. k = i /\ write # "updateLastBlock"
      BY <2>3, <1>1 DEF Perform
    <3>2. i \in Nat
      BY DEF TypeInv, TypeOK
    <3>3. CASE j = i
      BY <2>1, <3>1, <3>3
    <3>4. CASE j # i
      BY <3>1, <3>2, <3>4, <2>1 DEF Ready
    <3>. QED
      BY <3>3, <3>4
  <2>. QED
    BY <2>2, <2>3
<1>4. SavedApplied'
  <2>1. CASE write = "updateLastBlock"
    BY <2>1, <1>1 DEF Perform, NewUpdateBlock, SavedApplied, chainVars
  <2>2. CASE write # "updateLastBlock"
    BY <2>2, <1>1 DEF Perform, SavedApplied, HistoryInv, chainVars
  <2>. QED
    BY <2>1, <2>2
<1>5. LateReady'
  BY <1>1, Stable DEF HistoryInv, LateReady
<1>. QED
  BY <1>1, <1>2, <1>3, <1>4, <1>5 DEF HistoryInv

(* A request is sent for the log in hand.                                  *)
LEMMA SendHistory ==
    ASSUME Inv, cur # NoLog, NEW write \in WritesFor(cur), NEW next,
           Send(write, next),
           IF write = "updateLastBlock" THEN cur \in applied ELSE Ready(cur)
    PROVE  HistoryInv' /\ applied \subseteq applied'
<1>. USE DEF Inv, AccountInv
<1>1. cur \in 1..mined /\ UNCHANGED chainVars /\ UNCHANGED unseen
  BY DEF TypeInv, TypeOK, NoLog, Send
<1>2. CASE Perform(write, cur) /\ UNCHANGED late
  BY <1>1, <1>2, PerformHistory
<1>3. CASE UNCHANGED collectorVars
  BY <1>1, <1>3, SameHistory DEF collectorVars
<1>4. CASE /\ late' = late \cup {[write |-> write, log |-> cur, no |-> faults]}
           /\ UNCHANGED <<orders, matches, saved, applied>>
  <2>1. LateReady'
    <3>. SUFFICES ASSUME NEW w \in late'
                  PROVE  IF w.write = "updateLastBlock" THEN w.log \in applied
                                                        ELSE Ready(w.log)'
      BY <1>4 DEF LateReady
    <3>1. \A i : Ready(i) => Ready(i)'
      BY <1>1, <1>4, Stable
    <3>2. CASE w \in late
      BY <3>1, <3>2 DEF HistoryInv, LateReady
    <3>3. CASE w = [write |-> write, log |-> cur, no |-> faults]
      BY <3>1, <3>3
    <3>. QED
      BY <1>4, <3>2, <3>3
  <2>. QED
    BY <1>1, <1>4, <2>1
       DEF HistoryInv, ChainSorted, AccountedInOrder, Accounted, SavedApplied,
           Due, chainVars
<1>. QED
  BY <1>2, <1>3, <1>4 DEF Send, Answered, Failed

(* A row that answers for the log in hand is this network's.               *)
LEMMA ExistsIsOwn ==
    ASSUME ForeignHarmless, NEW id \in Nat \ {0}
    PROVE  /\ orderExists(id) => orders[id] # NoRow
           /\ matchExists(id) => matches[id] # NoRow
BY DEF ForeignHarmless, orderExists, matchExists, DecodedId

LEMMA MineFacts ==
    ASSUME TypeInv, ChainSorted, Mine
    PROVE  /\ head \in Nat /\ head' = head + 1
           /\ mined \in Nat /\ mined' \in Nat /\ mined <= mined'
           /\ \A i \in 1..mined :
                 i \in 1..mined' /\ blockOf'[i] = blockOf[i] /\ (Due(i)' <=> Due(i))
           /\ \A i : Due(i)' /\ i \notin 1..mined =>
                 i \in 1..mined' /\ i > mined /\ blockOf'[i] = head + 1
           /\ queue' = IF sub = "live" THEN queue \cup ((mined + 1)..mined')
                                       ELSE queue
           /\ ChainSorted'
<1>1. PICK n \in 0..MaxLogsPerBlock :
         /\ MineBlock(n)
         /\ queue' = IF sub = "live"
                     THEN queue \cup ((mined + 1)..(mined + n)) ELSE queue
  BY DEF Mine
<1>2. /\ head \in Nat /\ head' = head + 1
      /\ mined \in Nat /\ mined' = mined + n /\ n \in Nat
      /\ mined' \in 0..Len(Script) /\ 1..mined' \subseteq LogIds
  BY <1>1, ChainBoundsAssumption, ScriptType DEF MineBlock, TypeInv, TypeOK
<1>3. /\ \A i \in 1..mined : i \in 1..mined' /\ blockOf'[i] = blockOf[i]
      /\ \A i \in 1..mined' : i \notin 1..mined => blockOf'[i] = head + 1
  BY <1>1, <1>2 DEF MineBlock
<1>4. \A i \in 1..mined : Due(i)' <=> Due(i)
  BY <1>3 DEF Due
<1>5. ASSUME NEW i, Due(i)', i \notin 1..mined
      PROVE  i \in 1..mined' /\ i > mined /\ blockOf'[i] = head + 1
  <2>1. i \in 1..mined'
    BY <1>5 DEF Due
  <2>. QED
    BY <2>1, <1>5, <1>2, <1>3
<1>6. ChainSorted'
  <2>1. \A i \in 1..mined : blockOf[i] \in 1..head
    BY DEF ChainSorted
  <2>2. \A i \in 1..mined' : blockOf'[i] \in 1..head'
    BY <2>1, <1>2, <1>3
  <2>3. ASSUME NEW i \in 1..mined', NEW j \in 1..mined', i < j
        PROVE  /\ blockOf'[i] <= blockOf'[j]
               /\ MaxLogsPerBlock = 1 => blockOf'[i] < blockOf'[j]
    <3>1. CASE j \in 1..mined
      <4>1. i \in 1..mined
        BY <3>1, <2>3, <1>2
      <4>. QED
        BY <4>1, <3>1, <2>3, <1>3 DEF ChainSorted
    <3>2. CASE j \notin 1..mined /\ i \in 1..mined
      BY <3>2, <2>1, <1>2, <1>3
    <3>3. CASE j \notin 1..mined /\ i \notin 1..mined
      <4>1. MaxLogsPerBlock # 1
        BY <3>3, <2>3, <1>2
      <4>. QED
        BY <4>1, <3>3, <1>2, <1>3
    <3>. QED
      BY <3>1, <3>2, <3>3
  <2>. QED
    BY <2>2, <2>3 DEF ChainSorted
<1>. QED
  BY <1>1, <1>2, <1>3, <1>4, <1>5, <1>6

LEMMA MineHistory == ASSUME TypeInv, HistoryInv, Mine PROVE HistoryInv'
<1>1. UNCHANGED collectorVars /\ UNCHANGED unseen
  BY DEF Mine
<1>2. applied \subseteq 1..mined /\ mined \in Nat
      /\ \A w \in late : w.log \in 1..mined
  BY ScriptType DEF TypeInv, TypeOK, LateWrites
<1>3. \A i \in 1..mined : blockOf'[i] = blockOf[i] /\ (Due(i)' <=> Due(i))
  BY MineFacts DEF HistoryInv
<1>4. AccountedInOrder'
  BY <1>1, <1>2, <1>3
     DEF HistoryInv, AccountedInOrder, Accounted, collectorVars
<1>5. SavedApplied'
  BY <1>1, <1>2, <1>3 DEF HistoryInv, SavedApplied, collectorVars
<1>6. \A i \in 1..mined : Ready(i) => Ready(i)'
  BY <1>1, <1>2, <1>3 DEF Ready, Accounted, collectorVars
<1>7. LateReady'
  BY <1>1, <1>2, <1>6 DEF HistoryInv, LateReady, collectorVars
<1>. QED
  BY <1>4, <1>5, <1>7, MineFacts DEF HistoryInv

(* The row is asked for before it is created.                              *)
LEMMA AskExistsHistory ==
    ASSUME Inv, ForeignHarmless, AskExists
    PROVE  /\ HistoryInv'
           /\ \/ pc' = "write" /\ applied' = applied
              \/ pc' = "checkpoint" /\ applied' = applied \cup {cur}
<1>. USE DEF Inv, AccountInv
<1>1. /\ UNCHANGED chainVars /\ UNCHANGED <<orders, matches, saved, late, unseen>>
      /\ pc = "exists" /\ pc' \in {"checkpoint", "write"}
  BY DEF AskExists
<1>2. cur \in 1..mined /\ mined \in Nat /\ Script[cur].id \in Nat \ {0}
  <2>1. cur \in 1..mined /\ cur \in LogIds
    BY <1>1, ScriptType DEF TypeInv, TypeOK, Handling, NoLog
  <2>. QED
    BY <2>1, ScriptType DEF Event, TypeInv, TypeOK
<1>3. \/ pc' = "write" /\ applied' = applied
      \/ pc' = "checkpoint" /\ applied' = applied \cup {cur}
  BY <1>2, ExistsIsOwn DEF AskExists
<1>4. Ready(cur)
  BY <1>1, CurReady
<1>5. applied \subseteq applied'
  BY <1>3
<1>6. /\ \A i : Due(i)' <=> Due(i)
      /\ Accounted \subseteq Accounted'
      /\ \A i : Ready(i) => Ready(i)'
  BY <1>1, <1>5, Stable
<1>7. AccountedInOrder'
  <2>. SUFFICES ASSUME NEW k \in applied', NEW j \in 1..k, Due(j)
                PROVE  j \in Accounted'
    BY <1>6 DEF AccountedInOrder
  <2>1. CASE k \in applied
    BY <2>1, <1>6 DEF HistoryInv, AccountedInOrder
  <2>2. CASE k \notin applied
    <3>1. k = cur /\ cur \in applied'
      BY <2>2, <1>3
    <3>2. CASE j = cur
      BY <3>1, <3>2 DEF Accounted
    <3>3. CASE j # cur
      BY <3>1, <3>3, <1>2, <1>4, <1>6 DEF Ready
    <3>. QED
      BY <3>2, <3>3
  <2>. QED
    BY <2>1, <2>2
<1>8. SavedApplied' /\ ChainSorted'
  BY <1>1, <1>5 DEF HistoryInv, SavedApplied, ChainSorted, chainVars
<1>9. LateReady'
  BY <1>1, <1>5, <1>6 DEF HistoryInv, LateReady
<1>. QED
  BY <1>3, <1>7, <1>8, <1>9 DEF HistoryInv

(* The log in hand is a log of the chain, and its handler's write is one   *)
(* of those that may be in flight for it.                                  *)
LEMMA CurHandled ==
    ASSUME TypeInv, pc \in {"exists", "write", "checkpoint"}
    PROVE  /\ cur # NoLog /\ cur \in 1..mined
           /\ WriteFor(Script[cur].name) \in WritesFor(cur)
           /\ WriteFor(Script[cur].name) # "updateLastBlock"
<1>1. cur # NoLog /\ cur \in 1..mined /\ cur \in LogIds
  BY ScriptType DEF TypeInv, TypeOK, Handling, NoLog
<1>2. Script[cur] \in Event
  BY <1>1, ScriptType
<1>. QED
  BY <1>1, <1>2 DEF WritesFor, WriteFor, Event, EventNames

(* No step disturbs the history: what is applied stays, and nothing is     *)
(* applied or reported before its turn.                                    *)
LEMMA HistoryStep ==
    ASSUME Inv, ForeignHarmless, [Next]_vars
    PROVE  HistoryInv' /\ applied \subseteq applied' /\ unseen \subseteq unseen'
<1>. USE DEF Inv, AccountInv
<1>1. CASE Mine
  BY <1>1, MineHistory DEF Mine, collectorVars
<1>2. CASE PerformLate
  <2>1. PICK w \in late : Perform(w.write, w.log) /\ late' = late \ {w}
    BY <1>2 DEF PerformLate, LateWrite
  <2>2. w.log \in 1..mined /\ w.write \in WritesFor(w.log)
    BY ScriptType DEF TypeInv, TypeOK, LateWrites
  <2>3. IF w.write = "updateLastBlock" THEN w.log \in applied ELSE Ready(w.log)
    BY DEF HistoryInv, LateReady
  <2>4. UNCHANGED chainVars /\ UNCHANGED unseen
    BY <1>2 DEF PerformLate
  <2>. QED
    BY <2>1, <2>2, <2>3, <2>4, PerformHistory
<1>3. CASE SendWrite
  <2>1. pc = "write" /\ Send(WriteFor(Script[cur].name), "checkpoint")
    BY <1>3 DEF SendWrite
  <2>2. Ready(cur)
    BY <2>1, CurReady
  <2>3. UNCHANGED unseen
    BY <2>1 DEF Send
  <2>. QED
    BY <2>1, <2>2, <2>3, CurHandled, SendHistory
<1>4. CASE UpdateLastBlock
  <2>1. pc = "checkpoint" /\ cur \in applied /\ Send("updateLastBlock", "events")
    BY <1>4 DEF UpdateLastBlock, CheckpointApplied
  <2>2. UNCHANGED unseen
    BY <2>1 DEF Send
  <2>. QED
    BY <2>1, <2>2, CurHandled, SendHistory DEF WritesFor
<1>5. CASE AskExists
  BY <1>5, AskExistsHistory DEF AskExists
<1>6. CASE \/ GetLastBlock \/ BlockNumber \/ Subscribe \/ Backfill
           \/ RangeRefused \/ BackfillDone \/ EndOfBatch \/ HandleEvent
  <2>1. UNCHANGED chainVars /\ UNCHANGED collectorVars /\ unseen \subseteq unseen'
    BY <1>6 DEF GetLastBlock, BlockNumber, Subscribe, Backfill, RangeRefused,
       BackfillDone, EndOfBatch, HandleEvent, Fetched
  <2>. QED
    BY <2>1, SameHistory DEF collectorVars
<1>7. CASE \/ Tick \/ Poll \/ Listen \/ SubscriptionFailed \/ Retry \/ CallFails
           \/ SubscriptionBreaks \/ Crash \/ Restart \/ UNCHANGED vars
  <2>1. UNCHANGED chainVars /\ UNCHANGED collectorVars /\ unseen \subseteq unseen'
    BY <1>7 DEF Tick, Poll, Listen, SubscriptionFailed, Retry, CallFails,
       SubscriptionBreaks, Crash, Restart, vars, Fetched
  <2>. QED
    BY <2>1, SameHistory DEF collectorVars
<1>. QED
  BY <1>1, <1>2, <1>3, <1>4, <1>5, <1>6, <1>7 DEF Next, IndexerStep

(* A log whose block is reported next was applied.                         *)
LEMMA CheckpointAppliedStep ==
    ASSUME Inv, ForeignHarmless, [Next]_vars PROVE CheckpointApplied'
<1>. SUFFICES ASSUME pc' = "checkpoint" PROVE cur' \in applied'
  BY DEF CheckpointApplied
<1>1. CASE SendWrite
  <2>1. Send(WriteFor(Script[cur].name), "checkpoint") /\ pc = "write"
    BY <1>1 DEF SendWrite
  <2>2. Answered(WriteFor(Script[cur].name)) /\ cur' = cur
    BY <2>1 DEF Send, Return
  <2>. QED
    BY <2>1, <2>2, CurHandled DEF Answered, Perform, Inv
<1>2. CASE AskExists
  BY <1>2, AskExistsHistory DEF AskExists
<1>3. CASE Mine \/ SubscriptionBreaks \/ PerformLate \/ UNCHANGED vars
  <2>1. UNCHANGED loopVars
    BY <1>3 DEF Mine, SubscriptionBreaks, PerformLate, vars
  <2>. QED
    BY <2>1, HistoryStep DEF loopVars, Inv, AccountInv, CheckpointApplied
<1>4. ~(HandleEvent \/ UpdateLastBlock \/ Crash \/ Restart)
  BY DEF HandleEvent, UpdateLastBlock, Send, Return, Crash, Restart
<1>5. ~(\/ GetLastBlock \/ BlockNumber \/ Subscribe \/ Backfill \/ RangeRefused
        \/ BackfillDone \/ EndOfBatch)
  BY DEF GetLastBlock, BlockNumber, Subscribe, Backfill, RangeRefused,
     BackfillDone, EndOfBatch, Return
<1>6. ~(Tick \/ Poll \/ Listen \/ SubscriptionFailed \/ Retry \/ CallFails)
  BY DEF Tick, Poll, Listen, SubscriptionFailed, Retry, CallFails, Return
<1>. QED
  BY <1>1, <1>2, <1>3, <1>4, <1>5, <1>6 DEF Next, IndexerStep


-----------------------------------------------------------------------------
(* The shape of the loop: what the indexer holds at each of its steps.     *)

(* The requests to the collector, whatever they are for.                   *)
LEMMA SendFacts ==
    ASSUME SendWrite \/ UpdateLastBlock
    PROVE  /\ UNCHANGED chainVars /\ UNCHANGED unseen
           /\ \/ Return /\ pc \in {"write", "checkpoint"}
              \/ /\ UNCHANGED <<phase, lastBlock, chainHead, start, batch, cur>>
                 /\ UNCHANGED subVars
                 /\ \/ SendWrite /\ pc = "write" /\ pc' = "checkpoint"
                    \/ UpdateLastBlock /\ pc = "checkpoint" /\ pc' = "events"
BY DEF SendWrite, UpdateLastBlock, Send

(* A run that ends, in whatever way.                                       *)
LEMMA LeaveFacts ==
    ASSUME RangeRefused \/ SubscriptionFailed \/ CallFails \/ Crash
    PROVE  /\ DropLocals /\ UNCHANGED chainVars /\ UNCHANGED collectorVars
           /\ UNCHANGED unseen
           /\ \/ Return /\ Running
              \/ pc' = "down"
BY DEF RangeRefused, SubscriptionFailed, CallFails, Crash, Return, Running

(* What only the surroundings do.                                          *)
LEMMA OutsideFacts ==
    ASSUME Mine \/ SubscriptionBreaks \/ PerformLate \/ UNCHANGED vars
    PROVE  UNCHANGED <<pc, phase, lastBlock, chainHead, start, batch, cur>>
BY DEF Mine, SubscriptionBreaks, PerformLate, vars, loopVars

(* The log in hand stays there until its handler is through with it.       *)
LEMMA CurStays ==
    ASSUME [Next]_vars, pc \in {"exists", "write"},
           pc' \in {"exists", "write", "checkpoint"}
    PROVE  UNCHANGED <<cur, batch>>
<1>1. CASE SendWrite \/ AskExists
  BY <1>1, SendFacts DEF AskExists, Return
<1>2. CASE Mine \/ SubscriptionBreaks \/ PerformLate \/ UNCHANGED vars
  BY <1>2, OutsideFacts
<1>3. CASE \/ GetLastBlock \/ BlockNumber \/ Subscribe \/ Backfill
           \/ RangeRefused \/ BackfillDone \/ EndOfBatch \/ HandleEvent
  BY <1>3 DEF GetLastBlock, BlockNumber, Subscribe, Backfill, RangeRefused,
     BackfillDone, EndOfBatch, HandleEvent
<1>4. CASE \/ UpdateLastBlock \/ Tick \/ Poll \/ Listen
           \/ SubscriptionFailed \/ Retry \/ CallFails \/ Crash \/ Restart
  BY <1>4 DEF UpdateLastBlock, Tick, Poll, Listen, SubscriptionFailed, Retry,
     CallFails, Return, Crash, Restart
<1>. QED
  BY <1>1, <1>2, <1>3, <1>4 DEF Next, IndexerStep

LEMMA OwnModeStep == ASSUME TypeInv, OwnMode, [Next]_vars PROVE OwnMode'
<1>. USE DEF OwnMode, TypeInv, subVars
<1>1. CASE GetLastBlock \/ BlockNumber \/ Subscribe \/ Backfill
  BY <1>1 DEF GetLastBlock, BlockNumber, Subscribe, Backfill
<1>2. CASE BackfillDone \/ EndOfBatch \/ HandleEvent \/ AskExists
  BY <1>2 DEF BackfillDone, EndOfBatch, HandleEvent, AskExists
<1>3. CASE SendWrite \/ UpdateLastBlock
  BY <1>3, SendFacts DEF Return, DropLocals
<1>4. CASE RangeRefused \/ SubscriptionFailed \/ CallFails \/ Crash
  BY <1>4, LeaveFacts DEF Return, DropLocals
<1>5. CASE Tick \/ Poll \/ Listen \/ Retry \/ Restart
  BY <1>5 DEF Tick, Poll, Listen, Retry, Restart
<1>6. CASE Mine \/ SubscriptionBreaks \/ PerformLate \/ UNCHANGED vars
  BY <1>6, OutsideFacts DEF Mine, SubscriptionBreaks, PerformLate, vars
<1>. QED
  BY <1>1, <1>2, <1>3, <1>4, <1>5, <1>6 DEF Next, IndexerStep

LEMMA NothingLeftStep ==
    ASSUME TypeInv, NothingLeft, [Next]_vars PROVE NothingLeft'
<1>. USE DEF NothingLeft, InHand
<1>1. CASE GetLastBlock \/ BlockNumber \/ Subscribe \/ Backfill
  BY <1>1 DEF GetLastBlock, BlockNumber, Subscribe, Backfill
<1>2. CASE BackfillDone \/ EndOfBatch \/ HandleEvent \/ AskExists
  BY <1>2 DEF BackfillDone, EndOfBatch, HandleEvent, AskExists
<1>3. CASE SendWrite \/ UpdateLastBlock
  BY <1>3, SendFacts DEF Return, DropLocals
<1>4. CASE RangeRefused \/ SubscriptionFailed \/ CallFails \/ Crash
  BY <1>4, LeaveFacts DEF DropLocals
<1>5. CASE Tick \/ Poll \/ Listen \/ Retry \/ Restart
  BY <1>5 DEF Tick, Poll, Listen, Retry, Restart
<1>6. CASE Mine \/ SubscriptionBreaks \/ PerformLate \/ UNCHANGED vars
  BY <1>6, OutsideFacts
<1>. QED
  BY <1>1, <1>2, <1>3, <1>4, <1>5, <1>6 DEF Next, IndexerStep

LEMMA NotStartedStep ==
    ASSUME TypeInv, NotStarted, [Next]_vars PROVE NotStarted'
<1>. USE DEF NotStarted
<1>1. CASE GetLastBlock \/ BlockNumber \/ Subscribe \/ Backfill
  BY <1>1 DEF GetLastBlock, BlockNumber, Subscribe, Backfill
<1>2. CASE BackfillDone \/ EndOfBatch \/ HandleEvent \/ AskExists
  BY <1>2 DEF BackfillDone, EndOfBatch, HandleEvent, AskExists
<1>3. CASE SendWrite \/ UpdateLastBlock
  BY <1>3, SendFacts DEF Return, DropLocals
<1>4. CASE RangeRefused \/ SubscriptionFailed \/ CallFails \/ Crash
  BY <1>4, LeaveFacts DEF DropLocals
<1>5. CASE Tick \/ Poll \/ Listen \/ Retry \/ Restart
  BY <1>5 DEF Tick, Poll, Listen, Retry, Restart
<1>6. CASE Mine \/ SubscriptionBreaks \/ PerformLate \/ UNCHANGED vars
  BY <1>6, OutsideFacts
<1>. QED
  BY <1>1, <1>2, <1>3, <1>4, <1>5, <1>6 DEF Next, IndexerStep

(* The earliest log is taken in hand.                                      *)
LEMMA HandleEventFacts ==
    ASSUME TypeInv, HandleEvent
    PROVE  /\ UNCHANGED chainVars /\ UNCHANGED collectorVars /\ UNCHANGED subVars
           /\ UNCHANGED <<phase, lastBlock, chainHead, start, unseen>>
           /\ pc = "events" /\ pc' \in {"exists", "write"}
           /\ cur' \in batch /\ batch' = batch \ {cur'}
           /\ \A k \in batch' : cur' < k
<1>1. /\ batch # {} /\ cur' = Earliest(batch) /\ batch' = batch \ {cur'}
  BY DEF HandleEvent
<1>2. batch \in SUBSET Nat
  BY DEF TypeInv, TypeOK
<1>3. cur' \in batch /\ \A j \in batch : cur' <= j
  BY <1>1, <1>2, EarliestProperties
<1>4. \A k \in batch' : cur' < k
  BY <1>1, <1>2, <1>3
<1>. QED
  BY <1>1, <1>3, <1>4 DEF HandleEvent

(* So is the first log of the subscription.                                *)
LEMMA ListenFacts ==
    ASSUME TypeInv, Listen, NEW e, e = Earliest(queue)
    PROVE  /\ UNCHANGED chainVars /\ UNCHANGED collectorVars
           /\ UNCHANGED <<lastBlock, chainHead, start, cur, sub, unseen>>
           /\ pc = "idle" /\ pc' = "events" /\ phase' = "live" /\ UseWs
           /\ e \in queue /\ e \in 1..mined
           /\ batch' = {e} /\ queue' = queue \ {e}
           /\ \A j \in queue' : e < j
<1>1. queue # {} /\ batch' = {e} /\ queue' = queue \ {e}
  BY DEF Listen
<1>2. queue \in SUBSET Nat /\ queue \subseteq 1..mined
  BY DEF TypeInv, TypeOK
<1>3. e \in queue /\ \A j \in queue : e <= j
  BY <1>1, <1>2, EarliestProperties
<1>4. \A j \in queue' : e < j
  BY <1>1, <1>2, <1>3
<1>. QED
  BY <1>1, <1>2, <1>3, <1>4 DEF Listen

LEMMA CurFirstStep ==
    ASSUME TypeInv, CurFirst, [Next]_vars PROVE CurFirst'
<1>. USE DEF CurFirst
<1>1. CASE GetLastBlock \/ BlockNumber \/ Subscribe \/ Backfill \/ BackfillDone
           \/ EndOfBatch
  BY <1>1 DEF GetLastBlock, BlockNumber, Subscribe, Backfill, BackfillDone,
     EndOfBatch
<1>2. CASE HandleEvent
  BY <1>2, HandleEventFacts
<1>3. CASE AskExists
  BY <1>3 DEF AskExists
<1>4. CASE SendWrite \/ UpdateLastBlock
  BY <1>4, SendFacts DEF Return
<1>5. CASE RangeRefused \/ SubscriptionFailed \/ CallFails \/ Crash
  BY <1>5, LeaveFacts DEF Return
<1>6. CASE Tick \/ Poll \/ Listen \/ Retry \/ Restart
  BY <1>6 DEF Tick, Poll, Listen, Retry, Restart
<1>7. CASE Mine \/ SubscriptionBreaks \/ PerformLate \/ UNCHANGED vars
  BY <1>7, OutsideFacts
<1>. QED
  BY <1>1, <1>2, <1>3, <1>4, <1>5, <1>6, <1>7 DEF Next, IndexerStep

LEMMA LiveOneStep ==
    ASSUME TypeInv, OwnMode, LiveOne, [Next]_vars PROVE LiveOne'
<1>. USE DEF LiveOne, InHand
<1>1. CASE GetLastBlock \/ BlockNumber \/ Subscribe \/ BackfillDone \/ EndOfBatch
  BY <1>1 DEF GetLastBlock, BlockNumber, Subscribe, BackfillDone, EndOfBatch
<1>2. CASE Backfill \/ Poll
  BY <1>2 DEF Backfill, Poll, TypeInv
<1>3. CASE HandleEvent
  BY <1>3, HandleEventFacts
<1>4. CASE AskExists
  BY <1>4 DEF AskExists
<1>5. CASE SendWrite \/ UpdateLastBlock
  BY <1>5, SendFacts DEF Return
<1>6. CASE RangeRefused \/ SubscriptionFailed \/ CallFails \/ Crash
  BY <1>6, LeaveFacts DEF Return
<1>7. CASE Tick \/ Listen \/ Retry \/ Restart
  BY <1>7 DEF Tick, Listen, Retry, Restart
<1>8. CASE Mine \/ SubscriptionBreaks \/ PerformLate \/ UNCHANGED vars
  BY <1>8, OutsideFacts
<1>. QED
  BY <1>1, <1>2, <1>3, <1>4, <1>5, <1>6, <1>7, <1>8 DEF Next, IndexerStep


LEMMA LastBlockKnownStep ==
    ASSUME TypeInv, HistoryInv, LastBlockKnown, [Next]_vars PROVE LastBlockKnown'
<1>. USE DEF LastBlockKnown
<1>1. /\ lastBlock \in Nat /\ head \in Nat /\ chainHead \in 0..head
      /\ OverrideLastBlock \in Nat
      /\ saved # NoBlock => saved <= head
  <2>1. saved # NoBlock => \E i \in applied : saved = blockOf[i]
    BY DEF HistoryInv, SavedApplied
  <2>. QED
    BY <2>1, Numbers DEF HistoryInv
<1>2. CASE Mine
  BY <1>1, <1>2, MineFacts, OutsideFacts DEF HistoryInv, Running
<1>3. CASE ~Mine
  <2>1. head' = head
    BY <1>3, ChainKept DEF chainVars
  <2>2. CASE GetLastBlock
    <3>1. \/ saved = NoBlock /\ lastBlock' = OverrideLastBlock
          \/ saved # NoBlock /\ lastBlock' = saved
          \/ pc' = "down"
      BY <2>2 DEF GetLastBlock
    <3>. QED
      BY <1>1, <2>1, <3>1 DEF Running
  <2>3. CASE EndOfBatch \/ BackfillDone
    <3>1. UNCHANGED lastBlock \/ lastBlock' = chainHead
          \/ (lastBlock' = blockOf[cur] /\ cur \in 1..mined)
      <4>1. EndOfBatch /\ phase = "live" => cur \in 1..mined
        BY DEF EndOfBatch, TypeInv, TypeOK, NoLog
      <4>. QED
        BY <2>3, <4>1 DEF EndOfBatch, BackfillDone
    <3>2. \A i \in 1..mined : blockOf[i] \in 1..head
      BY Numbers DEF HistoryInv
    <3>3. Running
      BY <2>3 DEF EndOfBatch, BackfillDone, Running
    <3>. QED
      BY <1>1, <2>1, <3>1, <3>2, <3>3
  <2>4. CASE UNCHANGED lastBlock /\ (Running' => Running)
    BY <2>1, <2>4
  <2>5. CASE BlockNumber \/ Subscribe \/ Backfill \/ HandleEvent \/ AskExists
    BY <2>4, <2>5 DEF BlockNumber, Subscribe, Backfill, HandleEvent, AskExists,
       Running
  <2>6. CASE SendWrite \/ UpdateLastBlock
    BY <2>4, <2>6, SendFacts DEF Return, Running
  <2>7. CASE RangeRefused \/ SubscriptionFailed \/ CallFails \/ Crash
    BY <2>4, <2>7, LeaveFacts DEF Return, Running
  <2>8. CASE Tick \/ Poll \/ Listen \/ Retry \/ Restart
    BY <2>4, <2>8 DEF Tick, Poll, Listen, Retry, Restart, Running
  <2>9. CASE SubscriptionBreaks \/ PerformLate \/ UNCHANGED vars
    BY <2>4, <2>9, OutsideFacts DEF Running
  <2>. QED
    BY <1>3, <2>2, <2>3, <2>5, <2>6, <2>7, <2>8, <2>9 DEF Next, IndexerStep
<1>. QED
  BY <1>2, <1>3

LEMMA StartAheadStep ==
    ASSUME TypeInv, NotStarted, StartAhead, [Next]_vars PROVE StartAhead'
<1>. USE DEF StartAhead
<1>1. lastBlock \in Nat /\ start \in Nat /\ BlockRange \in Nat
  BY IndexerAssumption DEF TypeInv, TypeOK
<1>2. CASE GetLastBlock
  BY <1>2 DEF GetLastBlock, NotStarted
<1>3. CASE BlockNumber \/ Subscribe \/ Backfill
  BY <1>1, <1>3 DEF BlockNumber, Subscribe, Backfill, TypeInv
<1>4. CASE BackfillDone \/ EndOfBatch
  BY <1>1, <1>4 DEF BackfillDone, EndOfBatch
<1>5. CASE HandleEvent \/ AskExists
  BY <1>5 DEF HandleEvent, AskExists
<1>6. CASE SendWrite \/ UpdateLastBlock
  BY <1>6, SendFacts DEF Return, DropLocals
<1>7. CASE RangeRefused \/ SubscriptionFailed \/ CallFails \/ Crash
  BY <1>7, LeaveFacts DEF DropLocals
<1>8. CASE Tick \/ Poll \/ Listen \/ Retry \/ Restart
  BY <1>8 DEF Tick, Poll, Listen, Retry, Restart, TypeInv
<1>9. CASE Mine \/ SubscriptionBreaks \/ PerformLate \/ UNCHANGED vars
  BY <1>9, OutsideFacts
<1>. QED
  BY <1>2, <1>3, <1>4, <1>5, <1>6, <1>7, <1>8, <1>9 DEF Next, IndexerStep

LEMMA SubOnStep ==
    ASSUME TypeInv, OwnMode, SubOn, [Next]_vars PROVE SubOn'
<1>. USE DEF SubOn, InHand
<1>1. CASE GetLastBlock \/ BlockNumber \/ Subscribe
  BY <1>1 DEF GetLastBlock, BlockNumber, Subscribe
<1>2. CASE Backfill \/ BackfillDone \/ EndOfBatch \/ HandleEvent \/ AskExists
  BY <1>2 DEF Backfill, BackfillDone, EndOfBatch, HandleEvent, AskExists, subVars
<1>3. CASE SendWrite \/ UpdateLastBlock
  BY <1>3, SendFacts DEF Return, subVars
<1>4. CASE RangeRefused \/ SubscriptionFailed \/ CallFails \/ Crash
  BY <1>4, LeaveFacts DEF Return
<1>5. CASE Tick \/ Poll \/ Listen \/ Retry \/ Restart
  BY <1>5 DEF Tick, Poll, Listen, Retry, Restart, OwnMode
<1>6. CASE Mine \/ SubscriptionBreaks \/ PerformLate \/ UNCHANGED vars
  BY <1>6, OutsideFacts DEF Mine, SubscriptionBreaks, PerformLate, vars, subVars
<1>. QED
  BY <1>1, <1>2, <1>3, <1>4, <1>5, <1>6 DEF Next, IndexerStep

(* A closed subscription has reached nothing.                              *)
LEMMA ClosedReached ==
    ASSUME sub = "off", NothingQueued, NEW j PROVE ~Reached(j)
BY DEF NothingQueued, Reached

LEMMA QueueWholeStep ==
    ASSUME TypeInv, ChainSorted, LoopInv, NothingQueued', [Next]_vars
    PROVE  QueueWhole'
<1>. USE DEF LoopInv
<1>0. mined \in Nat /\ queue \subseteq 1..mined /\ BackfillEnd \in Nat
      /\ \A i \in 1..mined : blockOf[i] \in 1..head
  BY Numbers
<1>1. CASE Mine
  <2>1. /\ mined' \in Nat /\ \A i \in 1..mined : blockOf'[i] = blockOf[i]
        /\ queue' = IF sub = "live" THEN queue \cup ((mined + 1)..mined') ELSE queue
        /\ UNCHANGED <<sub, phase, chainHead, unseen>>
    BY <1>1, MineFacts, OutsideFacts DEF Mine
  <2>. SUFFICES ASSUME NEW j \in 1..mined', Reached(j)',
                       \/ \E k \in queue' : k < j
                       \/ phase = "backfill" /\ blockOf'[j] > BackfillEnd
                PROVE  j \in queue' \cup unseen
    BY <2>1 DEF QueueWhole, BackfillEnd
  <2>2. CASE j > mined
    BY <1>0, <2>1, <2>2 DEF Reached
  <2>3. CASE j <= mined
    <3>1. j \in 1..mined /\ Reached(j)
      BY <1>0, <2>1, <2>3 DEF Reached
    <3>2. \/ \E k \in queue : k < j
          \/ phase = "backfill" /\ blockOf[j] > BackfillEnd
      BY <1>0, <2>1, <2>3, <3>1
    <3>. QED
      BY <2>1, <3>1, <3>2 DEF QueueWhole
  <2>. QED
    BY <1>0, <2>1, <2>2, <2>3
<1>2. CASE ~Mine
  <2>0. UNCHANGED <<blockOf, mined>>
    BY <1>2, ChainKept DEF chainVars
  <2>1. CASE sub' = "off"
    BY <2>1, ClosedReached DEF QueueWhole, NothingQueued, Reached
  <2>2. CASE /\ UNCHANGED subVars /\ unseen \subseteq unseen'
             /\ UNCHANGED <<phase, chainHead>>
    <3>1. BackfillEnd' = BackfillEnd /\ \A j : Reached(j)' <=> Reached(j)
      BY <2>2 DEF BackfillEnd, Reached, subVars
    <3>. QED
      BY <2>0, <2>2, <3>1 DEF QueueWhole, subVars
  <2>3. CASE GetLastBlock \/ BlockNumber \/ Tick
    BY <2>1, <2>3 DEF GetLastBlock, BlockNumber, Tick, subVars, SubOff, OwnMode
  <2>4. CASE Subscribe
    <3>1. /\ queue' = {} /\ BackfillEnd' = BackfillEnd
          /\ unseen' = unseen \cup {i \in 1..mined : blockOf[i] > BackfillEnd}
      BY <2>4 DEF Subscribe, BackfillEnd, SubOff, NothingQueued
    <3>. QED
      BY <2>0, <3>1 DEF QueueWhole
  <2>5. CASE Listen
    <3>1. PICK e : e = Earliest(queue)
      OBVIOUS
    <3>2. /\ queue' = queue \ {e} /\ (\A k \in queue' : e < k) /\ phase' = "live"
          /\ UNCHANGED <<sub, unseen>> /\ e \in 1..mined
      BY <2>5, <3>1, ListenFacts
    <3>. SUFFICES ASSUME NEW j \in 1..mined, Reached(j)', NEW k \in queue', k < j
                  PROVE  j \in queue' \cup unseen
      BY <2>0, <3>2 DEF QueueWhole
    <3>3. Reached(j) /\ j \in queue \cup unseen
      BY <3>2 DEF Reached, QueueWhole
    <3>4. j # e
      BY <1>0, <3>2
    <3>. QED
      BY <3>2, <3>3, <3>4
  <2>6. CASE SubscriptionBreaks
    <3>1. UNCHANGED <<phase, chainHead, unseen>> /\ sub = "live" /\ sub' = "broken"
      BY <2>6, OutsideFacts DEF SubscriptionBreaks
    <3>2. PICK kept \in 0..mined : queue' = {i \in queue : i <= kept}
      BY <2>6 DEF SubscriptionBreaks
    <3>. SUFFICES ASSUME NEW j \in 1..mined, NEW k \in queue', j < k,
                         \/ \E i \in queue' : i < j
                         \/ phase = "backfill" /\ blockOf[j] > BackfillEnd
                  PROVE  j \in queue' \cup unseen
      BY <2>0, <3>1 DEF QueueWhole, Reached, BackfillEnd
    <3>3. j \in queue \cup unseen
      BY <3>1, <3>2 DEF QueueWhole, Reached
    <3>. QED
      BY <1>0, <3>2, <3>3
  <2>7. CASE Backfill \/ Poll \/ BackfillDone \/ EndOfBatch \/ HandleEvent
             \/ AskExists
    BY <2>2, <2>7 DEF Backfill, Poll, BackfillDone, EndOfBatch, HandleEvent,
       AskExists, Fetched
  <2>8. CASE Retry \/ Restart \/ PerformLate \/ UNCHANGED vars
    BY <2>2, <2>8, OutsideFacts DEF Retry, Restart, PerformLate, vars
  <2>9. CASE SendWrite \/ UpdateLastBlock
    BY <2>1, <2>2, <2>9, SendFacts DEF Return, DropLocals
  <2>10. CASE RangeRefused \/ SubscriptionFailed \/ CallFails \/ Crash
    BY <2>1, <2>10, LeaveFacts DEF DropLocals
  <2>. QED
    BY <1>2, <2>3, <2>4, <2>5, <2>6, <2>7, <2>8, <2>9, <2>10
       DEF Next, IndexerStep
<1>. QED
  BY <1>1, <1>2

(* Only a subscription that is made holds anything.                        *)
LEMMA NothingQueuedStep ==
    ASSUME TypeInv, SubOff, NothingQueued, [Next]_vars
    PROVE  NothingQueued'
<1>. USE DEF NothingQueued
<1>1. CASE RangeRefused \/ SubscriptionFailed \/ CallFails \/ Crash
  BY <1>1 DEF RangeRefused, SubscriptionFailed, CallFails, Crash, Return,
     DropLocals
<1>2. CASE SendWrite \/ UpdateLastBlock
  BY <1>2 DEF SendWrite, UpdateLastBlock, Send, Return, DropLocals, subVars
<1>3. CASE Subscribe \/ SubscriptionBreaks
  BY <1>3 DEF Subscribe, SubscriptionBreaks
<1>4. CASE Listen
  BY <1>4 DEF Listen
<1>5. CASE Mine
  BY <1>5 DEF Mine
<1>6. CASE \/ GetLastBlock \/ BlockNumber \/ Backfill \/ BackfillDone
           \/ EndOfBatch \/ HandleEvent \/ AskExists \/ Tick \/ Poll
           \/ Retry \/ PerformLate \/ Restart \/ UNCHANGED vars
  BY <1>6, QuietForSub DEF QVars
<1>. QED
  BY <1>1, <1>2, <1>3, <1>4, <1>5, <1>6 DEF Next, IndexerStep

LEMMA LoopStep ==
    ASSUME TypeInv, HistoryInv, LoopInv, [Next]_vars PROVE LoopInv'
<1>1. SubOff' /\ NothingQueued'
  BY SubOffStep, NothingQueuedStep DEF LoopInv, SubInv
<1>2. OwnMode' /\ NothingLeft' /\ CurFirst' /\ LiveOne' /\ NotStarted'
  BY OwnModeStep, NothingLeftStep, CurFirstStep, LiveOneStep, NotStartedStep
     DEF LoopInv
<1>3. LastBlockKnown' /\ StartAhead' /\ SubOn'
  BY LastBlockKnownStep, StartAheadStep, SubOnStep DEF LoopInv
<1>4. QueueWhole'
  BY <1>1, QueueWholeStep DEF HistoryInv
<1>. QED
  BY <1>1, <1>2, <1>3, <1>4 DEF LoopInv


-----------------------------------------------------------------------------
(* What is done, and what is to be done next (Covers): how each step       *)
(* carries it over from the logs A done before it to the logs B done after *)
(* it.  A step that takes logs up again may drop them from B.              *)

Shape == TypeInv /\ HistoryInv /\ LoopInv

LEMMA ShapeNumbers ==
    ASSUME Shape
    PROVE  /\ mined \in Nat /\ head \in Nat /\ 1..mined \subseteq LogIds
           /\ lastBlock \in Nat /\ chainHead \in 0..head /\ start \in Nat
           /\ BlockRange \in Nat /\ OverrideLastBlock \in Nat
           /\ BackfillEnd \in Nat
           /\ applied \subseteq 1..mined /\ unseen \subseteq 1..mined
           /\ batch \subseteq 1..mined /\ queue \subseteq 1..mined
           /\ cur \in 0..mined
           /\ \A i \in LogIds : Due(i) => i \in 1..mined /\ blockOf[i] \in Int
           /\ \A i \in 1..mined : blockOf[i] \in 1..head
BY Numbers DEF Shape, HistoryInv

(* A step that leaves the subscription alone and drops nothing keeps it in *)
(* line with what is fetched.                                              *)
LEMMA QueueKept ==
    ASSUME NEW A, NEW B, QueueContinues(A), UNCHANGED <<chainVars, subVars>>,
           A \cup Pending \subseteq B \cup Pending',
           \A j \in 1..mined :
              Due(j) /\ Awaited(j) => Awaited(j)' \/ j \in B \cup Pending'
    PROVE  QueueContinues(B)'
<1>. SUFFICES ASSUME NEW j \in 1..mined, Due(j), Reached(j)
              PROVE  j \in B \cup Pending' \cup queue \/ Awaited(j)'
  BY DEF QueueContinues, Due, Reached, chainVars, subVars
<1>1. j \in A \cup Pending \cup queue \/ Awaited(j)
  BY DEF QueueContinues
<1>. QED
  BY <1>1

LEMMA ClosedContinues ==
    ASSUME NEW B, sub = "off", NothingQueued PROVE QueueContinues(B)
BY DEF NothingQueued, QueueContinues, Reached

(* The block to resume from stays good while it stays the same.            *)
LEMMA SameResume ==
    ASSUME NEW A, NEW B, A \subseteq B, ResumePoint(A), UNCHANGED chainVars,
           UNCHANGED lastBlock, Running' => Running
    PROVE  ResumePoint(B)'
BY DoneGrows DEF ResumePoint, Settled

(* The run ends: nothing is pending, and lastBlock still holds.            *)
LEMMA CoversLeft ==
    ASSUME Shape, NEW A, NEW B, A \subseteq B, Covers(A),
           DropLocals, UNCHANGED chainVars,
           (pc' = "backoff" /\ Running /\ UNCHANGED lastBlock) \/ pc' = "down"
    PROVE  Covers(B)'
<1>1. Pending' = {} /\ sub' = "off" /\ queue' = {} /\ ~InHand'
      /\ pc' \in {"backoff", "down"}
  BY DEF DropLocals, Pending, InHand
<1>2. ResumePoint(B)'
  <2>1. CASE pc' = "down"
    BY <2>1 DEF ResumePoint, Running
  <2>2. CASE Running /\ UNCHANGED lastBlock
    BY <2>2, SameResume DEF Covers
  <2>. QED
    BY <2>1, <2>2
<1>3. QueueContinues(B)'
  BY <1>1 DEF QueueContinues, Reached
<1>. QED
  BY <1>1, <1>2, <1>3
     DEF Covers, PendingContinues, CurDone, TargetCovered, ChunksDone, AtRest

(* The loop stands still while more is done.                               *)
LEMMA CoversSame ==
    ASSUME NEW A, NEW B, A \subseteq B, Covers(A), UNCHANGED chainVars,
           UNCHANGED <<pc, phase, lastBlock, chainHead, start, batch, cur>>
    PROVE  /\ PendingContinues(B)' /\ CurDone(B)' /\ TargetCovered(B)'
           /\ ChunksDone(B)' /\ ResumePoint(B)' /\ AtRest(B)'
           /\ UNCHANGED subVars => QueueContinues(B)'
<1>1. /\ Pending' = Pending /\ Target' = Target /\ BackfillEnd' = BackfillEnd
      /\ InHand' = InHand /\ Running' = Running
  BY DEF Pending, Target, BackfillEnd, InHand, Running
<1>2. /\ \A i : Due(i)' <=> Due(i)
      /\ \A b : DoneBy(A, b) => DoneBy(B, b)'
      /\ UNCHANGED <<head, mined, blockOf>>
  BY DoneGrows
<1>. USE <1>1, <1>2 DEF Covers
<1>3. PendingContinues(B)' /\ CurDone(B)'
  BY DEF PendingContinues, CurDone
<1>4. TargetCovered(B)'
  BY DEF TargetCovered
<1>5. ChunksDone(B)' /\ AtRest(B)'
  BY DEF ChunksDone, AtRest, Smaller
<1>6. ResumePoint(B)'
  BY DEF ResumePoint, Settled
<1>7. UNCHANGED subVars => QueueContinues(B)'
  BY QueueKept DEF Awaited, chainVars
<1>. QED
  BY <1>3, <1>4, <1>5, <1>6, <1>7

(* The process starts: from the reported block, or the configured one.     *)
LEMMA CoversBoot ==
    ASSUME Shape, NEW A, NEW B, A \subseteq B, Covers(A), GetLastBlock,
           saved # NoBlock => DoneBy(A, Settled(saved))
    PROVE  Covers(B)'
<1>1. /\ UNCHANGED chainVars /\ UNCHANGED subVars
      /\ UNCHANGED <<phase, batch, cur>>
      /\ pc = "boot" /\ pc' \in {"blockNumber", "down"}
      /\ \/ saved = NoBlock /\ lastBlock' = OverrideLastBlock
         \/ saved # NoBlock /\ lastBlock' = saved
         \/ pc' = "down"
  BY DEF GetLastBlock
<1>2. DoneBy(A, Settled(OverrideLastBlock))
  <2>1. Settled(OverrideLastBlock) <= OverrideLastBlock
        /\ Settled(OverrideLastBlock) \in Int
    BY ShapeNumbers DEF Settled
  <2>. QED
    BY <2>1, ShapeNumbers DEF DoneBy, Due
<1>3. ResumePoint(B)'
  BY <1>1, <1>2, DoneGrows DEF ResumePoint, Settled, Running
<1>4. Pending' = {} /\ ~InHand'
  BY <1>1 DEF Pending, Shape, LoopInv, NothingLeft, InHand
<1>5. QueueContinues(B)'
  BY <1>1 DEF Shape, LoopInv, SubOff, NothingQueued, QueueContinues, Reached,
     subVars
<1>. QED
  BY <1>1, <1>3, <1>4, <1>5
     DEF Covers, PendingContinues, CurDone, TargetCovered, ChunksDone, AtRest

(* The runner is called and reads the block number.                        *)
LEMMA CoversBlockNumber ==
    ASSUME Shape, NEW A, NEW B, A \subseteq B, Covers(A), BlockNumber
    PROVE  Covers(B)'
<1>1. /\ UNCHANGED chainVars /\ UNCHANGED subVars
      /\ UNCHANGED <<lastBlock, batch, cur>>
      /\ pc = "blockNumber" /\ pc' \in {"subscribe", "backfill"}
      /\ start' = lastBlock + 1 /\ chainHead' \in 0..head
  BY DEF BlockNumber, NodeHeads
<1>2. ChunksDone(B)'
  <2>. SUFFICES ASSUME BlockRange # 0
                PROVE  DoneBy(A, Smaller(start' - 1, chainHead'))
    BY <1>1, DoneGrows DEF ChunksDone, Smaller
  <2>1. DoneBy(A, lastBlock)
    BY <1>1 DEF Covers, ResumePoint, Running, Settled
  <2>2. Smaller(start' - 1, chainHead') \in Int
        /\ Smaller(start' - 1, chainHead') <= lastBlock
    BY <1>1, ShapeNumbers DEF Smaller
  <2>. QED
    BY <2>1, <2>2, ShapeNumbers DEF DoneBy
<1>3. ResumePoint(B)'
  BY <1>1, SameResume DEF Running, Covers
<1>4. Pending' = {} /\ ~InHand'
  BY <1>1 DEF Pending, Shape, LoopInv, NothingLeft, InHand
<1>5. QueueContinues(B)'
  BY <1>1 DEF Shape, LoopInv, SubOff, NothingQueued, QueueContinues, Reached,
     subVars
<1>. QED
  BY <1>1, <1>2, <1>3, <1>4, <1>5
     DEF Covers, PendingContinues, CurDone, TargetCovered, AtRest

(* The subscription is made: a log that is in the chain by then, and that  *)
(* the backfill does not ask for, is one no node showed.                   *)
LEMMA CoversSubscribe ==
    ASSUME Shape, NEW A, NEW B, A \subseteq B, Covers(A), Subscribe,
           unseen' \subseteq B
    PROVE  Covers(B)'
<1>1. /\ UNCHANGED chainVars
      /\ UNCHANGED <<phase, lastBlock, chainHead, start, batch, cur, queue>>
      /\ pc = "subscribe" /\ pc' = "backfill"
      /\ {i \in 1..mined : blockOf[i] > BackfillEnd} \subseteq B
  BY DEF Subscribe
<1>2. Pending' = {} /\ ~InHand' /\ UseWs
  BY <1>1 DEF Pending, Shape, LoopInv, NothingLeft, InHand, OwnMode
<1>3. ChunksDone(B)'
  BY <1>1, DoneGrows DEF Covers, ChunksDone, Smaller
<1>4. ResumePoint(B)'
  BY <1>1, SameResume DEF Running, Covers
<1>5. QueueContinues(B)'
  <2>. SUFFICES ASSUME NEW j \in 1..mined, j \notin B PROVE Awaited(j)'
    BY <1>1 DEF QueueContinues, chainVars
  <2>1. blockOf[j] <= BackfillEnd
    BY <1>1, ShapeNumbers
  <2>. QED
    BY <1>1, <2>1 DEF Awaited, BackfillEnd, chainVars
<1>. QED
  BY <1>1, <1>2, <1>3, <1>4, <1>5
     DEF Covers, PendingContinues, CurDone, TargetCovered, AtRest


(* Logs are fetched, by the backfill or on a tick; what lies in the blocks *)
(* asked for may be taken up again.                                        *)
LEMMA CoversFetch ==
    ASSUME Shape, NEW A, NEW B, Covers(A), Backfill \/ Poll,
           unseen \subseteq unseen', unseen' \subseteq B,
           \A j \in A : j \in 1..mined /\ blockOf[j] < Query.from => j \in B
    PROVE  Covers(B)'
<1>1. /\ UNCHANGED chainVars /\ UNCHANGED subVars
      /\ UNCHANGED <<phase, lastBlock, chainHead, start, cur>>
      /\ pc \in {"backfill", "poll"} /\ pc' = "events"
      /\ Fetch \subseteq batch' \cup unseen'
  BY DEF Backfill, Poll, Fetched
<1>2. /\ lastBlock \in Nat /\ head \in Nat /\ chainHead \in 0..head /\ start \in Nat
      /\ BlockRange \in Nat /\ mined \in Nat
      /\ \A i \in LogIds : Due(i) => i \in 1..mined /\ blockOf[i] \in Int
      /\ \A i \in 1..mined : blockOf[i] \in 1..head
      /\ 1..mined \subseteq LogIds
      /\ pc = "backfill" => phase = "backfill"
      /\ pc = "poll" => phase = "poll" /\ ~UseWs
  BY ShapeNumbers DEF Shape, TypeInv, LoopInv, OwnMode
<1>3. /\ Query.from \in Int /\ Query.to \in Int /\ Target \in Int
      /\ Target <= Query.to /\ Settled(lastBlock) < Query.from
      /\ pc = "backfill" /\ BlockRange = 0 => BackfillEnd = Query.to
  BY <1>1, <1>2
     DEF Query, Target, Smaller, BackfillEnd, Settled, Shape, LoopInv, StartAhead
<1>4. \A i \in LogIds : Due(i) /\ blockOf[i] < Query.from => i \in A
  <2>1. CASE pc = "poll"
    <3>1. Query.from = lastBlock + 1 /\ DoneBy(A, lastBlock)
      BY <2>1, <1>2 DEF Query, Covers, AtRest
    <3>. QED
      BY <3>1, <1>2 DEF DoneBy
  <2>2. CASE pc = "backfill" /\ BlockRange = 0
    <3>1. Query.from = lastBlock /\ DoneBy(A, lastBlock - 1)
      BY <2>2, <1>2 DEF Query, Covers, ResumePoint, Running, Settled
    <3>. QED
      BY <3>1, <1>2 DEF DoneBy
  <2>3. CASE pc = "backfill" /\ BlockRange # 0
    <3>1. Query.from = start /\ start <= chainHead
      BY <2>3, <1>2 DEF Query, Backfill, Poll
    <3>2. DoneBy(A, start - 1)
      BY <2>3, <3>1, <1>2 DEF Covers, ChunksDone, Smaller
    <3>. QED
      BY <3>1, <3>2, <1>2 DEF DoneBy
  <2>. QED
    BY <1>1, <2>1, <2>2, <2>3
<1>5. \A i \in LogIds : Due(i) /\ blockOf[i] < Query.from => i \in B
  BY <1>2, <1>4
<1>6. Pending = {} /\ Pending' = batch' /\ Fetch \subseteq B \cup batch'
  BY <1>1 DEF Pending, Shape, LoopInv, NothingLeft, InHand
<1>7. /\ \A k \in Fetch : \A j \in 1..(k - 1) : Due(j) => j \in B \cup batch'
      /\ \A i \in LogIds : Due(i) /\ blockOf[i] <= Query.to
                           => i \in B \cup batch'
  <2>1. \A i \in LogIds : Due(i) /\ blockOf[i] < Query.from => i \in B \cup batch'
    BY <1>5
  <2>. QED
    BY <2>1, <1>3, <1>6, FetchContinues DEF Fetch, HistoryInv, Shape
<1>8. /\ \A i : Due(i)' <=> Due(i)
      /\ UNCHANGED <<head, mined, blockOf>>
  BY <1>1, DoneGrows
<1>9. PendingContinues(B)' /\ CurDone(B)'
  <2>1. batch' \subseteq Fetch
    BY DEF Backfill, Poll, Fetched, KnownTo
  <2>2. cur' = NoLog
    BY <1>1 DEF Shape, LoopInv, NothingLeft, InHand
  <2>. QED
    BY <1>6, <1>7, <1>8, <2>1, <2>2 DEF PendingContinues, CurDone, NoLog
<1>10. TargetCovered(B)'
  <2>1. Target' = Target
    BY <1>1 DEF Target
  <2>2. \A i \in LogIds : Due(i) /\ blockOf[i] <= Target => i \in B \cup batch'
    BY <1>2, <1>3, <1>7
  <2>. QED
    BY <2>1, <2>2, <1>6, <1>8 DEF TargetCovered
<1>11. ResumePoint(B)'
  <2>1. DoneBy(B, Settled(lastBlock))
    <3>1. Settled(lastBlock) \in Int
      BY <1>2 DEF Settled
    <3>. QED
      BY <3>1, <1>2, <1>3, <1>5 DEF DoneBy
  <2>. QED
    BY <2>1, <1>1, DoneGrows DEF ResumePoint, Settled
<1>12. QueueContinues(B)'
  <2>. SUFFICES ASSUME NEW j \in 1..mined, Due(j), Reached(j)
                PROVE  j \in B \cup batch' \cup queue \/ Awaited(j)'
    BY <1>1, <1>6, <1>8 DEF QueueContinues, Reached, subVars
  <2>1. pc = "backfill" /\ phase = "backfill" /\ BackfillEnd \in Nat
    <3>1. CASE pc = "poll"
      BY <3>1, <1>2, ClosedReached DEF Shape, LoopInv, OwnMode
    <3>. QED
      BY <3>1, <1>1, <1>2, ShapeNumbers
  <2>2. CASE blockOf[j] > BackfillEnd
    BY <2>1, <2>2 DEF Shape, LoopInv, QueueWhole
  <2>3. CASE blockOf[j] <= BackfillEnd /\ BlockRange = 0
    BY <2>1, <2>3, <1>2, <1>3, <1>7
  <2>4. CASE blockOf[j] <= BackfillEnd /\ BlockRange # 0
    BY <2>1, <2>4, <1>1 DEF Awaited, BackfillEnd, InHand, chainVars
  <2>. QED
    BY <2>1, <2>2, <2>3, <2>4, <1>2
<1>. QED
  BY <1>1, <1>9, <1>10, <1>11, <1>12 DEF Covers, ChunksDone, AtRest

(* The earliest log fetched is taken in hand.                              *)
LEMMA CoversHandleEvent ==
    ASSUME Shape, NEW A, NEW B, A \subseteq B, Covers(A), HandleEvent
    PROVE  Covers(B)'
<1>1. /\ UNCHANGED chainVars /\ UNCHANGED subVars
      /\ UNCHANGED <<phase, lastBlock, chainHead, start>>
      /\ pc = "events" /\ pc' \in {"exists", "write"}
      /\ cur' \in batch /\ batch' = batch \ {cur'}
  BY HandleEventFacts DEF Shape
<1>2. Pending = batch /\ Pending' = batch /\ Target' = Target /\ InHand /\ InHand'
  BY <1>1 DEF Pending, Target, InHand
<1>3. /\ \A i : Due(i)' <=> Due(i)
      /\ UNCHANGED <<head, mined, blockOf>>
  BY <1>1, DoneGrows
<1>4. PendingContinues(B)' /\ TargetCovered(B)'
  BY <1>1, <1>2, <1>3 DEF Covers, PendingContinues, TargetCovered
<1>5. ResumePoint(B)'
  BY <1>1, SameResume DEF Running, Covers
<1>6. QueueContinues(B)'
  <2>1. \A j : Awaited(j) => Awaited(j)'
    BY <1>1, <1>2 DEF Awaited, BackfillEnd, chainVars
  <2>. QED
    BY <2>1, <1>1, <1>2, QueueKept DEF Covers
<1>. QED
  BY <1>1, <1>4, <1>5, <1>6 DEF Covers, CurDone, ChunksDone, AtRest

(* The log in hand is done, or its write is still to be sent; or the block *)
(* of the log that was done is reported.                                   *)
LEMMA CoversHandled ==
    ASSUME Shape, NEW A, NEW B, A \subseteq B, Covers(A),
           UNCHANGED chainVars, UNCHANGED subVars,
           UNCHANGED <<phase, lastBlock, chainHead, start, batch, cur>>,
           \/ pc \in {"exists", "write"} /\ pc' = "checkpoint" /\ cur \in B
           \/ pc = "exists" /\ pc' = "write"
           \/ pc = "checkpoint" /\ pc' = "events"
    PROVE  Covers(B)'
<1>1. /\ InHand /\ InHand' /\ Target' = Target /\ Pending' \subseteq Pending
      /\ A \cup Pending \subseteq B \cup Pending'
      /\ pc' \notin {"subscribe", "backfill", "idle", "poll"}
  BY DEF Target, InHand, Pending
<1>2. /\ \A i : Due(i)' <=> Due(i)
      /\ UNCHANGED <<head, mined, blockOf>>
  BY DoneGrows
<1>3. PendingContinues(B)' /\ TargetCovered(B)'
  BY <1>1, <1>2 DEF Covers, PendingContinues, TargetCovered
<1>4. CurDone(B)'
  <2>. SUFFICES ASSUME pc' \in {"events", "checkpoint"},
                       NEW j \in 1..cur, Due(j)
                PROVE  j \in B
    BY <1>2 DEF CurDone
  <2>1. CASE pc = "checkpoint"
    BY <2>1 DEF Covers, CurDone
  <2>2. CASE pc \in {"exists", "write"} /\ cur \in B
    <3>1. cur \in Int
      BY ShapeNumbers
    <3>2. \A i \in 1..(cur - 1) : Due(i) => i \in A
      BY <2>2, CurTurn DEF Shape, Covers
    <3>. QED
      BY <3>1, <3>2, <2>2
  <2>. QED
    BY <2>1, <2>2
<1>5. ResumePoint(B)'
  BY SameResume DEF Running, Covers
<1>6. QueueContinues(B)'
  <2>1. \A j : Awaited(j) => Awaited(j)'
    BY <1>1 DEF Awaited, BackfillEnd, InHand, chainVars
  <2>. QED
    BY <2>1, <1>1, QueueKept DEF Covers
<1>. QED
  BY <1>1, <1>3, <1>4, <1>5, <1>6 DEF Covers, ChunksDone, AtRest


(* A chunk is finished: all of it is done.                                 *)
LEMMA CoversChunkDone ==
    ASSUME Shape, NEW A, NEW B, A \subseteq B, Covers(A), EndOfBatch,
           phase = "backfill", BlockRange # 0
    PROVE  Covers(B)'
<1>1. /\ UNCHANGED chainVars /\ UNCHANGED subVars
      /\ UNCHANGED <<phase, lastBlock, chainHead, batch>>
      /\ pc = "events" /\ pc' = "backfill" /\ batch = {}
      /\ start' = start + BlockRange + 1
  BY DEF EndOfBatch
<1>2. start \in Nat /\ BlockRange \in Nat
  BY ShapeNumbers
<1>3. Pending = {} /\ Pending' = {} /\ ~InHand'
  BY <1>1 DEF Pending, InHand
<1>4. ChunksDone(B)'
  <2>1. DoneBy(A, Smaller(start + BlockRange, chainHead))
    BY <1>1, <1>3 DEF Covers, TargetCovered, Target, InHand, DoneBy
  <2>2. start' - 1 = start + BlockRange
    BY <1>1, <1>2
  <2>. QED
    BY <2>1, <2>2, <1>1, DoneGrows DEF ChunksDone
<1>5. ResumePoint(B)'
  BY <1>1, SameResume DEF Running, Covers
<1>6. QueueContinues(B)'
  <2>1. \A j : Awaited(j) => Awaited(j)'
    BY <1>1 DEF Awaited, BackfillEnd, chainVars
  <2>. QED
    BY <2>1, <1>1, <1>3, QueueKept DEF Covers
<1>. QED
  BY <1>1, <1>3, <1>4, <1>5, <1>6
     DEF Covers, PendingContinues, CurDone, TargetCovered, AtRest

(* All that was asked for, or the log that was pushed, is done.            *)
LEMMA CoversCaughtUp ==
    ASSUME Shape, SafeResume, NEW A, NEW B, A \subseteq B, Covers(A),
           EndOfBatch \/ BackfillDone,
           ~(phase = "backfill" /\ BlockRange # 0 /\ EndOfBatch)
    PROVE  Covers(B)'
<1>1. /\ UNCHANGED chainVars /\ UNCHANGED subVars
      /\ UNCHANGED <<phase, chainHead, batch>>
      /\ pc \in {"events", "backfill"} /\ pc' = "idle"
      /\ pc = "backfill" => phase = "backfill" /\ BlockRange # 0 /\ start > chainHead
      /\ pc = "events" => phase = "live" \/ phase = "poll" \/ BlockRange = 0
      /\ lastBlock' = IF phase = "live" THEN blockOf[cur] ELSE chainHead
      /\ pc = "events" => batch = {}
  BY DEF EndOfBatch, BackfillDone, Shape, TypeInv
<1>2. /\ head \in Nat /\ chainHead \in 0..head /\ start \in Nat /\ BlockRange \in Nat
      /\ \A i \in LogIds : Due(i) => blockOf[i] \in Int
      /\ \A i \in 1..mined : blockOf[i] \in 1..head
      /\ 1..mined \subseteq LogIds
  BY ShapeNumbers
<1>3. batch = {} /\ batch' = {} /\ Pending = {} /\ Pending' = {} /\ ~InHand'
  BY <1>1 DEF Pending, Shape, LoopInv, NothingLeft, InHand
<1>4. /\ \A i : Due(i)' <=> Due(i)
      /\ \A b : DoneBy(A, b) => DoneBy(B, b)'
  BY <1>1, DoneGrows
<1>5. phase # "live" => DoneBy(A, chainHead)
  <2>1. CASE pc = "backfill"
    BY <2>1, <1>1, <1>2 DEF Covers, ChunksDone, Smaller
  <2>2. CASE pc = "events" /\ phase # "live"
    <3>1. Target = chainHead
      BY <2>2, <1>1 DEF Target
    <3>. QED
      BY <2>2, <3>1, <1>3 DEF Covers, TargetCovered, InHand, DoneBy
  <2>. QED
    BY <1>1, <2>1, <2>2
<1>6. ResumePoint(B)' /\ AtRest(B)'
  <2>1. CASE phase = "live"
    <3>1. pc = "events" /\ UseWs /\ cur \in 1..mined
      BY <2>1, <1>1, <1>3 DEF Shape, LoopInv, OwnMode, TypeInv, TypeOK, NoLog
    <3>2. DoneBy(A, Settled(blockOf[cur]))
      BY <3>1, HandledBlockSettled DEF Covers, CurDone, Shape, HistoryInv
    <3>. QED
      BY <3>1, <3>2, <2>1, <1>1, <1>4 DEF ResumePoint, AtRest, Settled
  <2>2. CASE phase # "live"
    <3>1. Settled(chainHead) \in Int /\ Settled(chainHead) <= chainHead
      BY <1>2 DEF Settled
    <3>2. DoneBy(A, Settled(chainHead))
      BY <3>1, <2>2, <1>5, <1>2 DEF DoneBy
    <3>. QED
      BY <3>2, <2>2, <1>1, <1>4, <1>5 DEF ResumePoint, AtRest, Settled
  <2>. QED
    BY <2>1, <2>2
<1>7. QueueContinues(B)'
  <2>1. ASSUME NEW j \in 1..mined, Due(j), Awaited(j) PROVE j \in B
    <3>1. pc = "backfill" /\ blockOf[j] <= chainHead /\ phase # "live"
      BY <2>1, <1>1 DEF Awaited, BackfillEnd
    <3>. QED
      BY <3>1, <2>1, <1>2, <1>5 DEF DoneBy
  <2>. QED
    BY <2>1, <1>1, <1>3, QueueKept DEF Covers
<1>. QED
  BY <1>1, <1>3, <1>6, <1>7
     DEF Covers, PendingContinues, CurDone, TargetCovered, ChunksDone

(* The first log the subscription holds is taken; what comes after it in   *)
(* the subscription, and is not settled, may be taken up again.            *)
LEMMA CoversListen ==
    ASSUME Shape, NEW A, NEW B, Covers(A), Listen, unseen' \subseteq B,
           \A j \in A : Due(j)
               /\ (j < Earliest(queue) \/ blockOf[j] <= Settled(lastBlock))
               => j \in B
    PROVE  Covers(B)'
<1>0. PICK e : e = Earliest(queue)
  OBVIOUS
<1>1. /\ UNCHANGED chainVars
      /\ UNCHANGED <<lastBlock, chainHead, start, cur, sub, unseen>>
      /\ pc = "idle" /\ pc' = "events" /\ phase' = "live" /\ UseWs
      /\ e \in queue /\ e \in 1..mined
      /\ batch' = {e} /\ queue' = queue \ {e}
      /\ \A j \in queue' : e < j
  BY <1>0, ListenFacts DEF Shape
<1>2. queue \subseteq 1..mined /\ mined \in Nat
  BY ShapeNumbers
<1>3. \A i : Due(i)' <=> Due(i)
  BY <1>1, DoneGrows
<1>4. Pending = {} /\ Pending' = {e} /\ ~InHand /\ InHand' /\ cur' = NoLog
  BY <1>1 DEF Pending, Shape, LoopInv, NothingLeft, InHand
<1>5. ASSUME NEW j \in 1..mined, Due(j), Reached(j)
      PROVE  j \in A \cup queue
  BY <1>1, <1>4, <1>5 DEF Covers, QueueContinues, Awaited
<1>6. PendingContinues(B)' /\ CurDone(B)'
  <2>1. ASSUME NEW j \in 1..(e - 1), Due(j) PROVE j \in B
    <3>1. j \in 1..mined /\ j < e
      BY <1>1, <1>2
    <3>2. Reached(j) /\ j \notin queue
      BY <3>1, <1>1, <1>2 DEF Reached
    <3>. QED
      BY <2>1, <3>1, <3>2, <1>0, <1>5
  <2>. QED
    BY <2>1, <1>3, <1>4 DEF PendingContinues, CurDone, NoLog
<1>7. QueueContinues(B)'
  <2>. SUFFICES ASSUME NEW j \in 1..mined, Due(j), Reached(j)'
                PROVE  j \in B \cup {e} \cup queue'
    BY <1>1, <1>3, <1>4 DEF QueueContinues, chainVars
  <2>1. Reached(j)
    BY <1>1 DEF Reached
  <2>2. CASE j < e
    <3>1. j \notin queue
      BY <2>2, <1>1, <1>2
    <3>. QED
      BY <2>1, <2>2, <3>1, <1>0, <1>5
  <2>3. CASE e < j
    BY <2>1, <2>3, <1>1 DEF Shape, LoopInv, QueueWhole
  <2>. QED
    BY <1>1, <1>2, <2>2, <2>3
<1>8. ResumePoint(B)'
  <2>1. DoneBy(B, Settled(lastBlock))
    BY <1>1 DEF Covers, ResumePoint, Running, DoneBy
  <2>. QED
    BY <2>1, <1>1, DoneGrows DEF ResumePoint, Settled
<1>. QED
  BY <1>1, <1>4, <1>6, <1>7, <1>8 DEF Covers, TargetCovered, ChunksDone, AtRest

(* The subscription breaks: what it still holds has no gap.                *)
LEMMA CoversBreak ==
    ASSUME Shape, NEW A, NEW B, A \subseteq B, Covers(A), SubscriptionBreaks
    PROVE  Covers(B)'
<1>1. /\ UNCHANGED chainVars /\ sub = "live" /\ sub' = "broken"
      /\ UNCHANGED <<pc, phase, lastBlock, chainHead, start, batch, cur>>
  BY OutsideFacts DEF SubscriptionBreaks
<1>2. PICK kept \in 0..mined : queue' = {i \in queue : i <= kept}
  BY DEF SubscriptionBreaks
<1>3. queue \subseteq 1..mined /\ mined \in Nat
  BY ShapeNumbers
<1>4. QueueContinues(B)'
  <2>1. /\ Pending' = Pending /\ \A i : Due(i)' <=> Due(i)
        /\ mined' = mined /\ \A j : Awaited(j)' <=> Awaited(j)
    BY <1>1, DoneGrows DEF Pending, Awaited, BackfillEnd, InHand
  <2>. SUFFICES ASSUME NEW j \in 1..mined, Due(j), NEW k \in queue', j < k
                PROVE  j \in B \cup Pending \cup queue' \/ Awaited(j)
    BY <1>1, <2>1 DEF QueueContinues, Reached
  <2>2. j \in A \cup Pending \cup queue \/ Awaited(j)
    BY <1>1 DEF Covers, QueueContinues, Reached
  <2>3. j \in queue => j \in queue'
    BY <1>2, <1>3
  <2>. QED
    BY <2>2, <2>3
<1>. QED
  BY <1>1, <1>4, CoversSame DEF Covers

(* A block is mined: nothing was concluded about it.                       *)
LEMMA CoversMine ==
    ASSUME Shape, NEW A, NEW B, A \subseteq B, Covers(A), Mine
    PROVE  Covers(B)'
<1>1. UNCHANGED <<pc, phase, lastBlock, chainHead, start, batch, cur, sub>>
  BY OutsideFacts DEF Mine
<1>2. /\ head \in Nat /\ head' = head + 1
      /\ mined \in Nat /\ mined' \in Nat /\ mined <= mined'
      /\ \A i \in 1..mined :
            i \in 1..mined' /\ blockOf'[i] = blockOf[i] /\ (Due(i)' <=> Due(i))
      /\ \A i : Due(i)' /\ i \notin 1..mined =>
            i \in 1..mined' /\ i > mined /\ blockOf'[i] = head + 1
      /\ queue' = IF sub = "live" THEN queue \cup ((mined + 1)..mined') ELSE queue
  BY MineFacts DEF Shape, HistoryInv
<1>3. /\ Pending' = Pending /\ Target' = Target /\ BackfillEnd' = BackfillEnd
      /\ InHand' = InHand
  BY <1>1 DEF Pending, Target, BackfillEnd, InHand
<1>4. /\ cur \in 0..mined /\ Pending \subseteq 0..mined
      /\ chainHead \in 0..head /\ lastBlock \in Nat /\ start \in Nat
      /\ queue \subseteq 1..mined /\ OverrideLastBlock \in Nat /\ BlockRange \in Nat
  BY ShapeNumbers DEF Pending
<1>5. ASSUME NEW b \in Int, b <= head \/ b <= OverrideLastBlock, DoneBy(A, b)
      PROVE  DoneBy(B, b)'
  <2>. SUFFICES ASSUME NEW i \in LogIds, Due(i)', blockOf'[i] <= b
                PROVE  i \in B
    BY DEF DoneBy
  <2>1. i \in 1..mined
    BY <1>2, <1>4, <1>5 DEF Due
  <2>. QED
    BY <2>1, <1>2, <1>5 DEF DoneBy
<1>6. PendingContinues(B)'
  <2>. SUFFICES ASSUME NEW k \in Pending, NEW j \in 1..(k - 1), Due(j)'
                PROVE  j \in B \cup Pending
    BY <1>3 DEF PendingContinues
  <2>1. j \in 1..mined
    BY <1>2, <1>4
  <2>. QED
    BY <2>1, <1>2 DEF Covers, PendingContinues
<1>7. CurDone(B)'
  <2>. SUFFICES ASSUME pc \in {"events", "checkpoint"},
                       NEW j \in 1..cur, Due(j)'
                PROVE  j \in B
    BY <1>1 DEF CurDone
  <2>1. j \in 1..mined
    BY <1>2, <1>4
  <2>. QED
    BY <2>1, <1>2 DEF Covers, CurDone
<1>8. TargetCovered(B)'
  <2>1. Target \in Int /\ Target <= head
    BY <1>2, <1>4 DEF Target, Smaller
  <2>2. ASSUME NEW i \in LogIds, Due(i)', blockOf'[i] <= Target
        PROVE  Due(i) /\ blockOf[i] <= Target
    BY <2>1, <2>2, <1>2
  <2>. QED
    BY <2>2, <1>1, <1>3 DEF Covers, TargetCovered, InHand
<1>9. ChunksDone(B)'
  <2>1. Smaller(start - 1, chainHead) \in Int
        /\ Smaller(start - 1, chainHead) <= head
    BY <1>2, <1>4 DEF Smaller
  <2>. QED
    BY <2>1, <1>1, <1>5 DEF Covers, ChunksDone, Smaller
<1>10. ResumePoint(B)' /\ AtRest(B)'
  <2>. SUFFICES ASSUME Running PROVE ResumePoint(B)' /\ AtRest(B)'
    BY <1>1 DEF ResumePoint, AtRest, Running
  <2>1. lastBlock <= head \/ lastBlock <= OverrideLastBlock
    BY DEF Shape, LoopInv, LastBlockKnown
  <2>2. Settled(lastBlock) \in Int /\ Settled(lastBlock) <= lastBlock
    BY <1>4 DEF Settled
  <2>3. Settled(lastBlock) <= head \/ Settled(lastBlock) <= OverrideLastBlock
    BY <2>1, <2>2, <1>2, <1>4
  <2>4. DoneBy(B, Settled(lastBlock))'
    <3>1. DoneBy(A, Settled(lastBlock))
      BY DEF Covers, ResumePoint
    <3>2. Settled(lastBlock)' = Settled(lastBlock)
      BY <1>1 DEF Settled
    <3>. QED
      BY <3>1, <3>2, <2>2, <2>3, <1>5
  <2>5. AtRest(B)'
    BY <2>1, <1>1, <1>4, <1>5 DEF Covers, AtRest
  <2>. QED
    BY <2>4, <2>5 DEF ResumePoint
<1>11. QueueContinues(B)'
  <2>. SUFFICES ASSUME NEW j \in 1..mined', Due(j)', Reached(j)'
                PROVE  j \in B \cup Pending \cup queue' \/ Awaited(j)'
    BY <1>3 DEF QueueContinues
  <2>1. CASE j \in 1..mined
    <3>1. Due(j) /\ Reached(j) /\ (Awaited(j) => Awaited(j)')
      BY <2>1, <1>1, <1>2, <1>3 DEF Reached, Awaited
    <3>. QED
      BY <3>1, <2>1, <1>2 DEF Covers, QueueContinues
  <2>2. CASE j \notin 1..mined
    BY <2>2, <1>1, <1>2, <1>4 DEF Reached
  <2>. QED
    BY <2>1, <2>2
<1>. QED
  BY <1>6, <1>7, <1>8, <1>9, <1>10, <1>11 DEF Covers

(* A step that only moves on.                                              *)
LEMMA CoversMove ==
    ASSUME Shape, NEW A, NEW B, A \subseteq B, Covers(A),
           Tick \/ Retry \/ Restart
    PROVE  Covers(B)'
<1>1. /\ UNCHANGED chainVars /\ UNCHANGED subVars
      /\ UNCHANGED <<lastBlock, start, batch, cur>>
      /\ \/ pc = "idle" /\ pc' = "poll" /\ ~UseWs
         \/ pc = "backoff" /\ pc' = "blockNumber"
         \/ pc = "down" /\ pc' = "boot"
  BY DEF Tick, Retry, Restart
<1>2. Pending' = {} /\ ~InHand'
  BY <1>1 DEF Pending, Shape, LoopInv, NothingLeft, InHand
<1>3. ResumePoint(B)'
  <2>1. CASE pc' = "boot"
    BY <2>1 DEF ResumePoint, Running
  <2>2. CASE pc' # "boot"
    BY <2>2, <1>1, SameResume DEF Running, Covers
  <2>. QED
    BY <2>1, <2>2
<1>4. QueueContinues(B)'
  BY <1>1 DEF Shape, LoopInv, OwnMode, SubOff, NothingQueued, QueueContinues,
     Reached, subVars
<1>5. AtRest(B)'
  BY <1>1, DoneGrows DEF Covers, AtRest
<1>. QED
  BY <1>1, <1>2, <1>3, <1>4, <1>5
     DEF Covers, PendingContinues, CurDone, TargetCovered, ChunksDone

(* Every step carries what is done over.  Between these sets,              *)
(*   - what becomes unseen counts as done;                                 *)
(*   - only a fetch, or a log that is pushed, may take logs up again, the  *)
(*     first those of the blocks it asks for, the second no settled one    *)
(*     and none that comes before it;                                      *)
(*   - a process starts from a block up to which all is done;              *)
(*   - and the log in hand is done when its handler is through with it.    *)
LEMMA CoversStep ==
    ASSUME Shape, SafeResume, [Next]_vars, NEW A, NEW B, Covers(A),
           unseen \subseteq unseen', unseen' \subseteq B,
           ~(Backfill \/ Poll \/ Listen) => A \subseteq B,
           Backfill \/ Poll =>
               \A j \in A : j \in 1..mined /\ blockOf[j] < Query.from => j \in B,
           Listen =>
               \A j \in A : Due(j)
                   /\ (j < Earliest(queue) \/ blockOf[j] <= Settled(lastBlock))
                   => j \in B,
           GetLastBlock /\ saved # NoBlock => DoneBy(A, Settled(saved)),
           pc \in {"exists", "write"} /\ pc' = "checkpoint" => cur \in B
    PROVE  Covers(B)'
<1>1. CASE Backfill \/ Poll
  BY <1>1, CoversFetch
<1>2. CASE Listen
  BY <1>2, CoversListen
<1>3. CASE ~(Backfill \/ Poll \/ Listen)
  <2>0. A \subseteq B
    BY <1>3
  <2>1. CASE GetLastBlock
    BY <2>0, <2>1, CoversBoot
  <2>2. CASE BlockNumber
    BY <2>0, <2>2, CoversBlockNumber
  <2>3. CASE Subscribe
    BY <2>0, <2>3, CoversSubscribe
  <2>4. CASE BackfillDone \/ EndOfBatch
    BY <2>0, <2>4, CoversChunkDone, CoversCaughtUp
  <2>5. CASE HandleEvent
    BY <2>0, <2>5, CoversHandleEvent
  <2>6. CASE AskExists
    <3>1. /\ UNCHANGED chainVars /\ UNCHANGED subVars
          /\ UNCHANGED <<phase, lastBlock, chainHead, start, batch, cur>>
          /\ pc = "exists" /\ pc' \in {"checkpoint", "write"}
      BY <2>6 DEF AskExists
    <3>. QED
      BY <2>0, <3>1, CoversHandled
  <2>7. CASE SendWrite \/ UpdateLastBlock
    <3>1. CASE Return /\ pc \in {"write", "checkpoint"}
      BY <2>0, <2>7, <3>1, SendFacts, CoversLeft DEF Return, Running
    <3>2. CASE ~Return
      BY <2>0, <2>7, <3>2, SendFacts, CoversHandled
    <3>. QED
      BY <2>7, <3>1, <3>2, SendFacts
  <2>8. CASE RangeRefused \/ SubscriptionFailed \/ CallFails \/ Crash
    BY <2>0, <2>8, LeaveFacts, CoversLeft DEF Return
  <2>9. CASE Tick \/ Retry \/ Restart
    BY <2>0, <2>9, CoversMove
  <2>10. CASE Mine
    BY <2>0, <2>10, CoversMine
  <2>11. CASE SubscriptionBreaks
    BY <2>0, <2>11, CoversBreak
  <2>12. CASE PerformLate \/ UNCHANGED vars
    <3>1. UNCHANGED chainVars /\ UNCHANGED subVars
      BY <2>12 DEF PerformLate, vars
    <3>. QED
      BY <2>0, <2>12, <3>1, OutsideFacts, CoversSame DEF Covers
  <2>. QED
    BY <1>3, <2>1, <2>2, <2>3, <2>4, <2>5, <2>6, <2>7, <2>8, <2>9, <2>10, <2>11,
       <2>12 DEF Next, IndexerStep
<1>. QED
  BY <1>1, <1>2, <1>3


-----------------------------------------------------------------------------
(* The invariant.                                                          *)

LEMMA LoopInitial == Init => LoopInv /\ CheckpointApplied
<1>. SUFFICES ASSUME Init PROVE LoopInv /\ CheckpointApplied
  OBVIOUS
<1>1. pc = "boot" /\ phase = "none" /\ sub = "off" /\ batch = {} /\ queue = {}
      /\ cur = NoLog
  BY DEF Init, IndexerInit
<1>. QED
  BY <1>1 DEF LoopInv, OwnMode, NothingLeft, CurFirst, LiveOne, NotStarted,
     LastBlockKnown, StartAhead, SubOff, SubOn, NothingQueued, QueueWhole,
     Reached, CheckpointApplied, InHand, Running

(* Nothing is due at first, so nothing is missing from what is done.       *)
LEMMA CoversInitial == ASSUME Init, NEW done PROVE Covers(done)
<1>1. mined = 0 /\ pc = "boot" /\ batch = {}
  BY DEF Init, ChainInit, IndexerInit
<1>. QED
  BY <1>1 DEF Covers, PendingContinues, CurDone, TargetCovered, ChunksDone,
     ResumePoint, AtRest, QueueContinues, Pending, InHand, Running

LEMMA InvInitial == Init => Inv
<1>. SUFFICES ASSUME Init PROVE Inv
  OBVIOUS
<1>1. applied = {} /\ late = {} /\ saved = NoBlock /\ mined = 0
  BY DEF Init, ChainInit, CollectorInit
<1>2. HistoryInv
  BY <1>1 DEF HistoryInv, ChainSorted, AccountedInOrder, SavedApplied, LateReady
<1>. QED
  BY <1>2, TypeInitial, LoopInitial, CoversInitial DEF Inv, AccountInv

(* The logs that are accounted for are never taken up again by mistake:    *)
(* what every step needs of them holds because they only grow.             *)
LEMMA InvStep ==
    ASSUME SafeResume, ForeignHarmless PROVE Inv /\ [Next]_vars => Inv'
<1>. SUFFICES ASSUME Inv, [Next]_vars PROVE Inv'
  OBVIOUS
<1>. USE DEF Inv, AccountInv
<1>1. TypeInv' /\ HistoryInv' /\ LoopInv' /\ CheckpointApplied'
  BY TypeStep, HistoryStep, LoopStep, CheckpointAppliedStep
<1>2. Accounted \subseteq Accounted' /\ unseen \subseteq unseen'
      /\ unseen' \subseteq Accounted'
  BY HistoryStep DEF Accounted
<1>3. GetLastBlock /\ saved # NoBlock => DoneBy(Accounted, Settled(saved))
  BY SavedBlockSettled
<1>4. pc \in {"exists", "write"} /\ pc' = "checkpoint" => cur \in Accounted'
  BY <1>1, CurStays DEF CheckpointApplied, Accounted
<1>5. Covers(Accounted)'
  BY <1>2, <1>3, <1>4, CoversStep DEF Shape
<1>. QED
  BY <1>1, <1>5

LEMMA Invariant ==
    ASSUME SafeResume, ForeignHarmless PROVE Spec => []Inv
BY InvInitial, InvStep, PTL DEF Spec

(* In both modes the indexer loses only what no node showed it             *)
(* (LossOnlyIfUnseen): for every script and placement of its logs, any     *)
(* lag of the nodes, failures, broken subscriptions, late writes and       *)
(* crashes, if block_range is unset or no block holds two logs, and if no  *)
(* row of another network answers to this network's ids.                   *)
THEOREM LosesOnlyUnseen ==
    ASSUME SafeResume, ForeignHarmless PROVE Spec => []LossOnlyIfUnseen
<1>1. Inv => LossOnlyIfUnseen
  BY DEF Inv, AccountInv, Covers, ResumePoint, LossOnlyIfUnseen, DoneBy,
         Accounted
<1>. QED
  BY Invariant, <1>1, PTL

-----------------------------------------------------------------------------
(* The polling indexer, behind nodes that do not lag: when nothing is      *)
(* unseen, what is accounted for is applied.                               *)

(* When no node lags, every call is answered from the head.                *)
LEMMA NoLag ==
    ASSUME TypeInv, ChainSorted, NodeLag = 0
    PROVE  NodeHeads = {head} /\ (Fetched => batch' = Fetch)
<1>1. head \in Nat
  BY ChainBoundsAssumption DEF TypeInv, TypeOK
<1>2. NodeHeads = {head}
  BY <1>1 DEF NodeHeads
<1>3. \A i \in Fetch : blockOf[i] <= head
  BY DEF Fetch, FilterLogs, ChainSorted
<1>. QED
  BY <1>2, <1>3 DEF Fetched, KnownTo

(* What the configuration must be for it.                                  *)
Safe == ~UseWs /\ NodeLag = 0 /\ SafeResume /\ ForeignHarmless

PollInv == Inv /\ unseen = {}

-----------------------------------------------------------------------------

(* A polling indexer is shown every log it asks for.                       *)
LEMMA UnseenStep == ASSUME Safe, PollInv, [Next]_vars PROVE unseen' = {}
<1>1. CASE Backfill \/ Poll
  <2>1. Fetched /\ batch' = Fetch
    BY <1>1, NoLag
       DEF Backfill, Poll, Safe, PollInv, Inv, AccountInv, HistoryInv
  <2>. QED
    BY <2>1 DEF Fetched, PollInv
<1>2. ~Subscribe
  BY DEF Subscribe, Safe, PollInv, Inv, AccountInv, LoopInv, OwnMode
<1>3. CASE ~(Backfill \/ Poll \/ Subscribe)
  BY <1>3 DEF Next, IndexerStep, GetLastBlock, BlockNumber, RangeRefused,
     BackfillDone, EndOfBatch, HandleEvent, AskExists, SendWrite,
     UpdateLastBlock, Send, Tick, Listen, SubscriptionFailed, Retry, CallFails,
     Mine, SubscriptionBreaks, PerformLate, Crash, Restart, vars, PollInv
<1>. QED
  BY <1>1, <1>2, <1>3

LEMMA PollingInvariant == ASSUME Safe PROVE Spec => []PollInv
<1>1. Init => PollInv
  BY InvInitial DEF PollInv, Init, IndexerInit
<1>2. PollInv /\ [Next]_vars => PollInv'
  BY InvStep, UnseenStep DEF PollInv, Safe
<1>. QED
  BY <1>1, <1>2, PTL DEF Spec

(* When nothing is unseen, in either mode, nothing is skipped.             *)
LEMMA SeenAll ==
    ASSUME PollInv, SafeResume
    PROVE  NothingSkipped /\ InOrder /\ CheckpointSound
<1>. USE DEF PollInv, Inv, AccountInv
<1>1. Accounted = applied /\ \A b : DoneBy(Accounted, b) => DoneThrough(b)
  BY DEF Accounted, DoneBy, DoneThrough
<1>2. NothingSkipped
  BY <1>1 DEF Covers, ResumePoint, AtRest, NothingSkipped
<1>3. InOrder
  BY <1>1 DEF HistoryInv, AccountedInOrder, InOrder
<1>4. CheckpointSound
  BY <1>1, SavedBlockSettled DEF CheckpointSound
<1>. QED
  BY <1>2, <1>3, <1>4

(* When polling, no log is ever passed by (NothingSkipped): for every      *)
(* script and placement of its logs, any failures, late writes and crashes,*)
(* if block_range is unset or no block holds two logs, and if no row of    *)
(* another network answers to this network's ids.                          *)
THEOREM PollingSkipsNothing == ASSUME Safe PROVE Spec => []NothingSkipped
<1>1. PollInv => NothingSkipped
  BY SeenAll DEF Safe
<1>. QED
  BY PollingInvariant, <1>1, PTL

(* Under the same conditions the collector takes the logs in the order of  *)
(* the chain (InOrder).                                                    *)
THEOREM PollingKeepsOrder == ASSUME Safe PROVE Spec => []InOrder
<1>1. PollInv => InOrder
  BY SeenAll DEF Safe
<1>. QED
  BY PollingInvariant, <1>1, PTL

(* And the block the collector would give a restarted indexer is always    *)
(* one whose earlier logs are all indexed (CheckpointSound).               *)
THEOREM PollingCheckpointSound == ASSUME Safe PROVE Spec => []CheckpointSound
<1>1. PollInv => CheckpointSound
  BY SeenAll DEF Safe
<1>. QED
  BY PollingInvariant, <1>1, PTL

-----------------------------------------------------------------------------
(* The polling indexer implements OrderFeed: every step of it delivers the *)
(* next due log, or lets new ones be emitted, or is invisible.  (That the  *)
(* delivery goes on is a liveness property, which only the run poll_whole  *)
(* checks.)                                                                *)

Emitted == {i \in LogIds : Due(i)}
Delivered == {i \in applied : Due(i)}

(* A step that mines nothing applies nothing, or a log whose turn it is,   *)
(* by having its write performed or by finding its row there.              *)
LEMMA AppliedStep ==
    ASSUME PollInv, Safe, [Next]_vars, ~Mine
    PROVE  /\ UNCHANGED chainVars
           /\ \/ UNCHANGED applied
              \/ \E i \in 1..mined : Ready(i) /\ applied' = applied \cup {i}
<1>1. CASE GetLastBlock \/ BlockNumber \/ Subscribe \/ Backfill \/ RangeRefused
           \/ BackfillDone \/ EndOfBatch \/ HandleEvent
  BY <1>1 DEF GetLastBlock, BlockNumber, Subscribe, Backfill, RangeRefused,
     BackfillDone, EndOfBatch, HandleEvent, collectorVars
<1>2. CASE Tick \/ Poll \/ Listen \/ SubscriptionFailed \/ Retry \/ CallFails
           \/ SubscriptionBreaks \/ Crash \/ Restart \/ UNCHANGED vars
  BY <1>2 DEF Tick, Poll, Listen, SubscriptionFailed, Retry, CallFails,
     SubscriptionBreaks, Crash, Restart, vars, collectorVars
<1>3. CASE AskExists
  <2>1. cur \in 1..mined /\ Ready(cur)
    BY <1>3, CurReady DEF AskExists, PollInv
  <2>2. UNCHANGED chainVars /\ (applied' = applied \/ applied' = applied \cup {cur})
    BY <1>3 DEF AskExists
  <2>. QED
    BY <2>1, <2>2
<1>4. ASSUME NEW write, NEW i, Perform(write, i)
      PROVE  \/ UNCHANGED applied
             \/ write # "updateLastBlock" /\ applied' = applied \cup {i}
  BY <1>4 DEF Perform
<1>5. CASE SendWrite
  <2>1. cur \in 1..mined /\ Ready(cur)
    BY <1>5, CurReady DEF SendWrite, PollInv
  <2>2. UNCHANGED applied \/ applied' = applied \cup {cur}
    BY <1>4, <1>5 DEF SendWrite, Send, Answered, Failed, collectorVars
  <2>. QED
    BY <1>5, <2>1, <2>2 DEF SendWrite, Send
<1>6. CASE UpdateLastBlock
  BY <1>4, <1>6 DEF UpdateLastBlock, Send, Answered, Failed, collectorVars
<1>7. CASE PerformLate
  <2>1. PICK w \in late : Perform(w.write, w.log)
    BY <1>7 DEF PerformLate, LateWrite
  <2>2. w.log \in 1..mined
    BY ScriptType DEF PollInv, Inv, TypeInv, TypeOK, LateWrites
  <2>3. w.write # "updateLastBlock" => Ready(w.log)
    BY DEF PollInv, Inv, AccountInv, HistoryInv, LateReady
  <2>. QED
    BY <1>4, <1>7, <2>1, <2>2, <2>3 DEF PerformLate
<1>. QED
  BY <1>1, <1>2, <1>3, <1>5, <1>6, <1>7 DEF Next, IndexerStep

LEMMA FeedInitial == Init => Feed!Init
BY DEF Init, ChainInit, CollectorInit, Due, Feed!Init

LEMMA FeedStep ==
    ASSUME Safe PROVE PollInv /\ [Next]_vars => [Feed!Next]_(Feed!feedVars)
<1>. SUFFICES ASSUME PollInv, [Next]_vars
              PROVE  \/ Feed!Emit
                     \/ Feed!Deliver
                     \/ Emitted' = Emitted /\ Delivered' = Delivered
  BY DEF Feed!Next, Feed!feedVars, Emitted, Delivered
<1>0. mined \in Nat /\ 1..mined \subseteq LogIds /\ applied \subseteq 1..mined
      /\ \A i : Due(i) => i \in 1..mined
  BY ScriptType DEF PollInv, Inv, TypeInv, TypeOK, Due
<1>1. CASE Mine
  <2>1. PICK n \in 0..MaxLogsPerBlock : MineBlock(n)
    BY <1>1 DEF Mine
  <2>2. mined' = mined + n /\ n \in Nat /\ applied' = applied
        /\ \A i \in 1..mined : blockOf'[i] = blockOf[i]
    BY <1>0, <1>1, <2>1, ChainBoundsAssumption DEF Mine, MineBlock, collectorVars
  <2>3. ASSUME NEW i \in 1..mined PROVE Due(i)' <=> Due(i)
    <3>1. i \in 1..mined'
      BY <1>0, <2>2
    <3>. QED
      BY <3>1, <2>2 DEF Due
  <2>4. Delivered' = Delivered
    BY <1>0, <2>2, <2>3 DEF Delivered
  <2>. DEFINE new == Emitted' \ Emitted
  <2>5. Emitted' = Emitted \cup new /\ new \in SUBSET (LogIds \ Emitted)
    BY <1>0, <2>3 DEF Emitted
  <2>6. ASSUME NEW i \in Emitted, NEW j \in new PROVE i < j
    <3>1. i \in 1..mined /\ j \in 1..mined' /\ j \notin 1..mined
      BY <1>0, <2>3 DEF Emitted, Due
    <3>. QED
      BY <3>1, <2>2, <1>0
  <2>7. Feed!Emit
    BY <2>4, <2>5, <2>6 DEF Feed!Emit, Emitted, Delivered
  <2>. QED
    BY <2>7
<1>2. CASE ~Mine
  <2>1. UNCHANGED chainVars
    BY <1>2, AppliedStep
  <2>2. Emitted' = Emitted /\ \A i : Due(i)' <=> Due(i)
    BY <2>1 DEF Emitted, Due, chainVars
  <2>3. CASE UNCHANGED applied
    BY <2>2, <2>3 DEF Delivered
  <2>4. ASSUME NEW i \in 1..mined, Ready(i), applied' = applied \cup {i}
        PROVE  Feed!Deliver \/ Delivered' = Delivered
    <3>1. CASE ~Due(i) \/ i \in applied
      BY <2>2, <2>4, <3>1 DEF Delivered
    <3>2. CASE Due(i) /\ i \notin applied
      <4>1. i \in Emitted \ Delivered /\ Delivered' = Delivered \cup {i}
        BY <1>0, <2>2, <2>4, <3>2 DEF Emitted, Delivered
      <4>2. \A j \in Emitted : j < i => j \in Delivered
        BY <1>0, <2>4 DEF Emitted, Delivered, Ready, Accounted, PollInv
      <4>. QED
        BY <2>2, <4>1, <4>2 DEF Feed!Deliver, Emitted, Delivered
    <3>. QED
      BY <3>1, <3>2
  <2>. QED
    BY <1>2, <2>2, <2>3, <2>4, AppliedStep
<1>. QED
  BY <1>1, <1>2

(* When polling, the indexer implements OrderFeed (Feed): a log reaches    *)
(* the collector only as the next due one, and is taken once.              *)
THEOREM PollingImplementsFeed == ASSUME Safe PROVE Spec => Feed!Spec
BY FeedInitial, FeedStep, PollingInvariant, PTL DEF Spec, Feed!Spec


=============================================================================
