--------------------------- MODULE ProcessProofs ---------------------------
(***************************************************************************)
(* The start of the process and its retry loop, for every set of files and *)
(* any number of failures and restarts.                                    *)
(*                                                                         *)
(* What a process knows of its file is where it stands: ProcessInv says    *)
(* what each stage behind it has ruled out and which clients are dialled.  *)
(* The pauses between runs are within a bound (PauseInv), and double       *)
(* (DoublingInv), for which Twofold is shown to be what it says.           *)
(***************************************************************************)
EXTENDS Process, WellFoundedInduction, TLAPS

Clients == IF file.use_websocket THEN {"rpc", "ws"} ELSE {"rpc"}

AfterNetwork == {"dialWs", "lastBlock", "newIndexer", "loop"}
AfterCollector == {"newIndexer", "loop"}

(* What the stages that were passed say of the file.                       *)
Passed ==
    /\ stage \in AfterNetwork \cup {"network"} => ~NoCommand
    /\ stage \in AfterNetwork => ~BadNetwork
    /\ stage \in AfterCollector => ~NoCollector
    /\ stage = "dialWs" => file.use_websocket
    /\ stage = "loop" => indexPeriod = file.index_period

DialledInOrder ==
    /\ stage \in {"start", "network"} => dialled = {}
    /\ stage = "dialWs" => dialled = {"rpc"}
    /\ stage \in {"lastBlock", "newIndexer", "loop"} => dialled = Clients

(* An indexer that worked stands in its loop, or its process has ended.    *)
WorkedInLoop == worked => stage \in {"loop", "exited"}

ProcessInv ==
    /\ ProcessTypeOK
    /\ Passed
    /\ DialledInOrder
    /\ WorkedInLoop
    /\ WorksOnlyIfUsable

-----------------------------------------------------------------------------

LEMMA FileFields ==
    ASSUME ProcessTypeOK
    PROVE  /\ file.missing \subseteq Required \cup {"KV_VIPER_FILE", "endpoint"}
           /\ file.chain_id \in Int
           /\ file.index_period \in Int
<1>1. file \in File
  BY ProcessAssumption DEF ProcessTypeOK
<1>. QED
  BY <1>1 DEF File

LEMMA FollowingIsNat ==
    ASSUME NEW period \in Nat PROVE Following(period) \in 0..MaxPeriod
BY BackOffAssumption DEF Following, Smaller

LEMMA ZeroInBounds == 0 \in Nat /\ 0 \in 0..MaxErrors /\ 0 \in 0..MaxFaults
BY BackOffAssumption, ProcessAssumption

LEMMA ProcessTypeInit == ProcessInit => ProcessTypeOK
BY ZeroInBounds, Zenon DEF ProcessInit, ProcessTypeOK

(* A stage is passed or ends the process, whatever stage it is.            *)
LEMMA PassType ==
    ASSUME ProcessTypeOK,
           NEW from, NEW flaw, NEW to \in {"network", "dialWs", "lastBlock",
                                           "newIndexer"},
           NEW clients \in SUBSET {"rpc", "ws"},
           Pass(from, flaw, to, clients) \/ CallFails(from, flaw)
    PROVE  ProcessTypeOK'
<1>1. UNCHANGED <<file, vars>> /\ dialled' \subseteq {"rpc", "ws"}
  BY DEF Pass, CallFails, ProcessTypeOK
<1>2. stage' \in {"exited", to} /\ faults' \in 0..MaxFaults
  BY ProcessAssumption DEF Pass, CallFails, Exit, Fault, ProcessTypeOK
<1>. QED
  BY <1>1, <1>2 DEF ProcessTypeOK, vars

LEMMA RetryType ==
    ASSUME ProcessTypeOK, Next
    PROVE  /\ indexPeriod' = indexPeriod
           /\ pc' \in {"running", "waiting"}
           /\ abnormal' \in BOOLEAN
           /\ currentPeriod' \in Nat
           /\ pause' \in Nat
           /\ worked' \in BOOLEAN
           /\ errors' \in 0..MaxErrors
<1>1. CASE RunnerWorks
  BY <1>1 DEF RunnerWorks, ProcessTypeOK
<1>2. CASE RunnerFails
  <2>. DEFINE period == IF abnormal THEN currentPeriod ELSE indexPeriod
  <2>1. period \in Nat
    BY DEF ProcessTypeOK
  <2>2. pause' = period /\ currentPeriod' = Following(period)
    BY <1>2 DEF RunnerFails, TimerNext
  <2>3. currentPeriod' \in Nat
    <3>. HIDE DEF period
    <3>. QED
      BY <2>1, <2>2, FollowingIsNat
  <2>4. errors' \in 0..MaxErrors
    BY <1>2, BackOffAssumption DEF RunnerFails, ProcessTypeOK
  <2>. QED
    BY <1>2, <2>1, <2>2, <2>3, <2>4 DEF RunnerFails, ProcessTypeOK
<1>3. CASE RunnerEnds
  BY <1>3, ZeroInBounds, Zenon DEF RunnerEnds, ProcessTypeOK
<1>4. CASE RunAgain
  BY <1>4, Zenon DEF RunAgain, ProcessTypeOK
<1>. QED
  BY <1>1, <1>2, <1>3, <1>4 DEF Next

LEMMA LoopType == ProcessTypeOK /\ Loop => ProcessTypeOK'
<1>. SUFFICES ASSUME ProcessTypeOK, Loop PROVE ProcessTypeOK'
  OBVIOUS
<1>1. Next /\ UNCHANGED <<stage, file, dialled>>
  BY DEF Loop, Works, Fails, Ends, Again, Next, processVars
<1>2. faults' \in 0..MaxFaults
  BY ProcessAssumption
     DEF Loop, Works, Fails, Ends, Again, processVars, Fault, ProcessTypeOK
<1>. QED
  BY <1>1, <1>2, RetryType DEF ProcessTypeOK

LEMMA StartLoopType == ProcessTypeOK /\ StartLoop => ProcessTypeOK'
<1>. SUFFICES ASSUME ProcessTypeOK, StartLoop PROVE ProcessTypeOK'
  OBVIOUS
<1>1. CASE file.index_period < 0
  BY <1>1 DEF StartLoop, Exit, vars, ProcessTypeOK
<1>2. CASE ~(file.index_period < 0)
  <2>1. file.index_period \in Nat
    <3>1. file.index_period \in Int
      BY FileFields
    <3>. HIDE DEF ProcessTypeOK
    <3>. QED
      BY <1>2, <3>1
  <2>. QED
    <3>1. /\ stage' = "loop" /\ NoLoop(file.index_period)
          /\ UNCHANGED <<file, dialled, faults>>
      BY <1>2 DEF StartLoop
    <3>2. /\ file' \in Files /\ dialled' \subseteq {"rpc", "ws"}
          /\ faults' \in 0..MaxFaults
      BY <3>1, Zenon DEF ProcessTypeOK
    <3>. QED
      BY <2>1, <3>1, <3>2, ZeroInBounds, Zenon DEF NoLoop, ProcessTypeOK
<1>. QED
  BY <1>1, <1>2

LEMMA ProcessTypeStep ==
    ProcessTypeOK /\ [ProcessNext]_<<processVars, vars>> => ProcessTypeOK'
<1>. SUFFICES ASSUME ProcessTypeOK, [ProcessNext]_<<processVars, vars>>
              PROVE  ProcessTypeOK'
  OBVIOUS
<1>0. {} \in SUBSET {"rpc", "ws"}
  OBVIOUS
<1>1. CASE Parse
  BY <1>1, <1>0, PassType DEF Parse
<1>2. CASE OpenNetwork
  <2>. DEFINE to == IF file.use_websocket THEN "dialWs" ELSE "lastBlock"
  <2>1. to \in {"network", "dialWs", "lastBlock", "newIndexer"}
    OBVIOUS
  <2>2. \/ Pass("network", BadNetwork, to, {"rpc"})
        \/ CallFails("network", BadNetwork)
    BY <1>2 DEF OpenNetwork
  <2>. HIDE DEF to
  <2>. QED
    BY <2>1, <2>2, PassType
<1>3. CASE DialWs
  BY <1>3, PassType DEF DialWs
<1>4. CASE GetLastBlock
  BY <1>4, <1>0, PassType, Zenon DEF GetLastBlock
<1>5. CASE StartLoop
  BY <1>5, StartLoopType
<1>6. CASE Loop
  BY <1>6, LoopType
<1>7. CASE Kill
  BY <1>7, ProcessAssumption DEF Kill, Fault, Exit, vars, ProcessTypeOK
<1>8. CASE Restart
  BY <1>8, ZeroInBounds, Zenon DEF Restart, NoLoop, ProcessTypeOK
<1>9. CASE UNCHANGED <<processVars, vars>>
  BY <1>9 DEF processVars, vars, ProcessTypeOK
<1>. QED
  BY <1>1, <1>2, <1>3, <1>4, <1>5, <1>6, <1>7, <1>8, <1>9
     DEF ProcessNext, Step

(* No file, failure, or restart takes the process out of its types: the    *)
(* periods stay natural numbers and the faults and errors within bounds    *)
(* (cli.Run, service.Run, WithBackOff).                                    *)
THEOREM ProcessTypeCorrect == ProcessSpec => []ProcessTypeOK
BY ProcessTypeInit, ProcessTypeStep, PTL DEF ProcessSpec

-----------------------------------------------------------------------------

LEMMA ProcessInvInit == ProcessInit => ProcessInv
<1>. SUFFICES ASSUME ProcessInit PROVE ProcessInv
  OBVIOUS
<1>1. stage = "start" /\ dialled = {} /\ worked = FALSE
  BY DEF ProcessInit
<1>. QED
  BY <1>1, ProcessTypeInit
     DEF ProcessInv, Passed, DialledInOrder, WorkedInLoop, WorksOnlyIfUsable,
         AfterNetwork, AfterCollector

(* Before the loop nothing has worked, and while the file, the clients and *)
(* what worked stay as they are so does WorksOnlyIfUsable.                 *)
LEMMA NotYetWorked ==
    ProcessInv /\ stage \notin {"loop", "exited"} => ~worked
BY DEF ProcessInv, WorkedInLoop

LEMMA WorksUnchanged ==
    ProcessInv /\ UNCHANGED <<file, dialled, worked>> => WorksOnlyIfUsable'
BY DEF ProcessInv, WorksOnlyIfUsable, Usable

(* A process that ends leaves behind what it had.                          *)
LEMMA ExitKeepsInv ==
    ProcessInv /\ ProcessTypeOK' /\ Exit /\ UNCHANGED <<file, dialled, vars>>
        => ProcessInv'
BY WorksUnchanged
   DEF ProcessInv, Exit, vars, Passed, DialledInOrder, WorkedInLoop,
       AfterNetwork, AfterCollector

(* An indexer that works in its loop has a file that allows it: the        *)
(* required fields were there, the chain is in range, the endpoint known,  *)
(* and the period fits the mode.                                           *)
LEMMA LoopUsable ==
    ProcessInv /\ stage = "loop" /\ CanWork => Usable(file)
<1>. SUFFICES ASSUME ProcessInv, stage = "loop", CanWork PROVE Usable(file)
  OBVIOUS
<1>1. indexPeriod \in Nat /\ indexPeriod = file.index_period
  BY DEF ProcessInv, ProcessTypeOK, Passed
<1>2. /\ file.command = "run service"
      /\ "KV_VIPER_FILE" \notin file.missing
      /\ "endpoint" \notin file.missing
      /\ Required \cap file.missing = {}
      /\ ~(file.chain_id > MaxChainID) /\ ~(file.chain_id <= 0)
  BY DEF ProcessInv, Passed, AfterNetwork, AfterCollector, NoCommand,
         BadNetwork, NoCollector
<1>3. file.missing = {}
  BY <1>2, FileFields DEF ProcessInv
<1>4. file.chain_id \in 1..MaxChainID
  <2>1. \A id \in Int : id > MaxChainID \/ id <= 0 \/ id \in 1..MaxChainID
    BY ProcessAssumption
  <2>. QED
    BY <1>2, <2>1, FileFields, Zenon DEF ProcessInv
<1>5. file.use_websocket \/ file.index_period > 0
  BY <1>1 DEF CanWork, ProcessInv, DialledInOrder, Clients
<1>. QED
  <2>1. file.index_period >= 0
    BY <1>1
  <2>. QED
    BY <1>2, <1>3, <1>4, <1>5, <2>1, Zenon DEF Usable

(* Every step keeps what the stages know of the file.                      *)
LEMMA ProcessInvStep ==
    ProcessInv /\ [ProcessNext]_<<processVars, vars>> => ProcessInv'
<1>. SUFFICES ASSUME ProcessInv, [ProcessNext]_<<processVars, vars>>
              PROVE  ProcessInv'
  OBVIOUS
<1>t. ProcessTypeOK'
  BY ProcessTypeStep DEF ProcessInv
<1>. USE DEF Passed, DialledInOrder, WorkedInLoop, AfterNetwork, AfterCollector
<1>e. ASSUME Exit, UNCHANGED <<file, dialled, vars>> PROVE ProcessInv'
  BY <1>e, <1>t, ExitKeepsInv
<1>1. CASE Parse
  <2>1. CASE Exit /\ UNCHANGED dialled
    BY <1>1, <1>e, <2>1 DEF Parse, Pass
  <2>2. CASE ~NoCommand /\ stage' = "network" /\ dialled' = dialled \cup {}
    BY <1>1, <1>t, <2>2, WorksUnchanged, NotYetWorked
       DEF Parse, Pass, ProcessInv, NoCommand, vars
  <2>. QED
    BY <1>1, <2>1, <2>2 DEF Parse, Pass
<1>2. CASE OpenNetwork
  <2>. DEFINE to == IF file.use_websocket THEN "dialWs" ELSE "lastBlock"
  <2>1. CASE Exit /\ UNCHANGED dialled
    BY <1>2, <1>e, <2>1 DEF OpenNetwork, Pass, CallFails
  <2>2. CASE ~BadNetwork /\ stage' = to /\ dialled' = dialled \cup {"rpc"}
    <3>1. stage = "network" /\ UNCHANGED <<file, vars>>
      BY <1>2 DEF OpenNetwork, Pass, CallFails
    <3>2. ~worked /\ ~NoCommand /\ dialled' = {"rpc"}
      BY <2>2, <3>1, NotYetWorked DEF ProcessInv
    <3>3. ~worked' /\ ~NoCommand' /\ ~BadNetwork'
      BY <2>2, <3>1, <3>2 DEF NoCommand, BadNetwork, vars
    <3>. QED
      BY <1>t, <2>2, <3>1, <3>2, <3>3
         DEF ProcessInv, Clients, WorksOnlyIfUsable
  <2>. QED
    BY <1>2, <2>1, <2>2 DEF OpenNetwork, Pass, CallFails
<1>3. CASE DialWs
  <2>1. CASE Exit /\ UNCHANGED dialled
    BY <1>3, <1>e, <2>1 DEF DialWs, Pass, CallFails
  <2>2. CASE stage' = "lastBlock" /\ dialled' = dialled \cup {"ws"}
    <3>1. stage = "dialWs" /\ UNCHANGED <<file, vars>>
      BY <1>3 DEF DialWs, Pass, CallFails
    <3>2. ~worked /\ ~NoCommand /\ ~BadNetwork /\ dialled' = {"rpc", "ws"}
      BY <2>2, <3>1, NotYetWorked DEF ProcessInv
    <3>3. ~worked' /\ ~NoCommand' /\ ~BadNetwork'
      BY <3>1, <3>2 DEF NoCommand, BadNetwork, vars
    <3>. QED
      BY <1>t, <2>2, <3>1, <3>2, <3>3
         DEF ProcessInv, Clients, WorksOnlyIfUsable
  <2>. QED
    BY <1>3, <2>1, <2>2 DEF DialWs, Pass, CallFails
<1>4. CASE GetLastBlock
  <2>1. CASE Exit /\ UNCHANGED dialled
    BY <1>4, <1>e, <2>1 DEF GetLastBlock, Pass, CallFails
  <2>2. CASE ~NoCollector /\ stage' = "newIndexer" /\ dialled' = dialled \cup {}
    <3>1. stage = "lastBlock" /\ UNCHANGED <<file, vars, dialled>>
      BY <1>4, <2>2 DEF GetLastBlock, Pass, CallFails
    <3>2. ~worked' /\ ~NoCommand' /\ ~BadNetwork' /\ ~NoCollector'
      BY <2>2, <3>1, NotYetWorked
         DEF ProcessInv, NoCommand, BadNetwork, NoCollector, vars
    <3>. QED
      BY <1>t, <2>2, <3>1, <3>2 DEF ProcessInv, Clients, WorksOnlyIfUsable
  <2>. QED
    BY <1>4, <2>1, <2>2 DEF GetLastBlock, Pass, CallFails
<1>5. CASE StartLoop
  <2>1. CASE Exit /\ UNCHANGED vars
    BY <1>5, <1>e, <2>1 DEF StartLoop
  <2>2. CASE stage' = "loop" /\ NoLoop(file.index_period)
    <3>1. stage = "newIndexer" /\ UNCHANGED <<file, dialled>>
      BY <1>5 DEF StartLoop
    <3>2. ~worked' /\ ~NoCommand' /\ ~BadNetwork' /\ ~NoCollector'
      BY <2>2, <3>1
         DEF ProcessInv, NoCommand, BadNetwork, NoCollector, NoLoop
    <3>3. indexPeriod' = file.index_period
      BY <2>2 DEF NoLoop
    <3>. QED
      BY <1>t, <2>2, <3>1, <3>2, <3>3
         DEF ProcessInv, Clients, WorksOnlyIfUsable
  <2>. QED
    BY <1>5, <2>1, <2>2 DEF StartLoop
<1>6. CASE Loop
  <2>1. /\ stage = "loop" /\ Next
        /\ UNCHANGED stage /\ UNCHANGED file /\ UNCHANGED dialled
    BY <1>6 DEF Loop, Works, Fails, Ends, Again, Next, processVars
  <2>2. indexPeriod' = indexPeriod
    BY <2>1, RetryType DEF ProcessInv
  <2>3. Passed' /\ DialledInOrder' /\ WorkedInLoop'
    BY <2>1, <2>2 DEF ProcessInv, NoCommand, BadNetwork, NoCollector, Clients
  <2>4. worked' => worked \/ CanWork
    BY <1>6 DEF Loop, Works, Fails, Ends, Again, RunnerFails, RunnerEnds,
                RunAgain
  <2>5. WorksOnlyIfUsable'
    BY <2>1, <2>4, LoopUsable
       DEF ProcessInv, WorksOnlyIfUsable, Clients, Usable
  <2>. QED
    BY <1>t, <2>3, <2>5 DEF ProcessInv
<1>7. CASE Kill
  BY <1>7, <1>e DEF Kill
<1>8. CASE Restart
  BY <1>8, <1>t DEF Restart, NoLoop, ProcessInv, WorksOnlyIfUsable
<1>9. CASE UNCHANGED <<processVars, vars>>
  BY <1>9, <1>t, WorksUnchanged
     DEF processVars, vars, ProcessInv, NoCommand, BadNetwork, NoCollector,
         Clients
<1>. QED
  BY <1>1, <1>2, <1>3, <1>4, <1>5, <1>6, <1>7, <1>8, <1>9
     DEF ProcessNext, Step

(* The indexer works only with a file that has every required field, a     *)
(* chain in range and a period that fits its mode, and with the clients of *)
(* that mode dialled, after any failures and restarts (config.Network,     *)
(* service.Run, runWithoutWs).                                             *)
THEOREM WorksWithUsableFile == ProcessSpec => []WorksOnlyIfUsable
<1>1. ProcessInv => WorksOnlyIfUsable
  BY DEF ProcessInv
<1>. QED
  BY <1>1, ProcessInvInit, ProcessInvStep, PTL DEF ProcessSpec

-----------------------------------------------------------------------------

(* The timer of the abnormal execution is made at the first error, and has *)
(* been moved on, and capped, when it is read at the second.               *)
PauseInv ==
    /\ abnormal <=> errors > 0
    /\ currentPeriod \in 0..MaxPeriod
    /\ PauseAtMostMax

LEMMA RetryKeepsPauses == ProcessTypeOK /\ PauseInv /\ Next => PauseInv'
<1>. SUFFICES ASSUME ProcessTypeOK, PauseInv, Next PROVE PauseInv'
  OBVIOUS
<1>t. indexPeriod \in Nat /\ errors \in Nat /\ MaxPeriod \in Nat
  BY BackOffAssumption DEF ProcessTypeOK
<1>1. CASE RunnerWorks
  BY <1>1 DEF RunnerWorks, PauseInv, PauseAtMostMax
<1>2. CASE RunnerFails
  <2>1. /\ indexPeriod' = indexPeriod /\ errors' = errors + 1 /\ abnormal'
        /\ pause' = IF abnormal THEN currentPeriod ELSE indexPeriod
        /\ currentPeriod' = Following(pause')
    BY <1>2 DEF RunnerFails, TimerNext
  <2>2. pause' \in Nat
    BY <1>t, <2>1 DEF PauseInv
  <2>3. currentPeriod' \in 0..MaxPeriod
    BY <2>1, <2>2, FollowingIsNat
  <2>4. PauseAtMostMax'
    BY <1>t, <2>1 DEF PauseInv, PauseAtMostMax
  <2>. QED
    BY <1>t, <2>1, <2>3, <2>4 DEF PauseInv
<1>3. CASE RunnerEnds
  BY <1>3 DEF RunnerEnds, PauseInv, PauseAtMostMax
<1>4. CASE RunAgain
  BY <1>t, <1>4 DEF RunAgain, PauseInv, PauseAtMostMax
<1>. QED
  BY <1>1, <1>2, <1>3, <1>4 DEF Next

(* Whatever index_period is, no pause but the first after an error, or the *)
(* one after a run without an error, is longer than ten minutes, and that  *)
(* one is index_period itself (WithBackOff, incrementalTimer.next).        *)
THEOREM PausesWithinMax == ProcessSpec => []PauseAtMostMax
<1>1. ProcessInit => PauseInv
  BY BackOffAssumption DEF ProcessInit, PauseInv, PauseAtMostMax
<1>2. ASSUME ProcessTypeOK, PauseInv, [ProcessNext]_<<processVars, vars>>
      PROVE  PauseInv'
  <2>1. CASE UNCHANGED vars
    BY <1>2, <2>1 DEF vars, PauseInv, PauseAtMostMax
  <2>2. CASE Next
    BY <1>2, <2>2, RetryKeepsPauses
  <2>3. ASSUME NEW period, NoLoop(period) PROVE PauseInv'
    BY <2>3, BackOffAssumption DEF NoLoop, PauseInv, PauseAtMostMax
  <2>4. CASE StartLoop \/ Restart
    BY <2>1, <2>3, <2>4 DEF StartLoop, Restart
  <2>5. CASE Parse \/ OpenNetwork \/ DialWs \/ GetLastBlock \/ Kill
    BY <2>1, <2>5 DEF Parse, OpenNetwork, DialWs, GetLastBlock, Kill, Pass,
                      CallFails
  <2>6. CASE Loop
    BY <2>2, <2>6 DEF Loop, Works, Fails, Ends, Again, Next
  <2>. QED
    BY <1>2, <2>1, <2>4, <2>5, <2>6 DEF ProcessNext, Step
<1>3. PauseInv => PauseAtMostMax
  BY DEF PauseInv
<1>. QED
  BY <1>1, <1>2, <1>3, ProcessTypeCorrect, PTL DEF ProcessSpec

-----------------------------------------------------------------------------
(* The k-th pause, for every k: induction over the natural numbers by way  *)
(* of a least counterexample.                                              *)

LessThan == {p \in Nat \X Nat : p[1] < p[2]}

LEMMA LessThanWellFounded == IsWellFoundedOn(LessThan, Nat)
BY NatLessThanWellFounded DEF OpToRel, LessThan

LEMMA LeastNatural ==
    ASSUME NEW T, T \subseteq Nat, T # {}
    PROVE  \E x \in T : \A y \in T : x <= y
<1>1. PICK x \in T : \A y \in T : <<y, x>> \notin LessThan
  BY WFMin, LessThanWellFounded
<1>2. ASSUME NEW y \in T PROVE x <= y
  <2>1. x \in Nat /\ y \in Nat
    OBVIOUS
  <2>2. ~(y < x)
    BY <1>1, <2>1 DEF LessThan
  <2>. QED
    BY <2>1, <2>2
<1>. QED
  BY <1>2

(* Twofold is a function: it exists up to every n, and what exists up to n *)
(* and up to m agrees.                                                     *)
TwofoldTo(n, f) ==
    /\ f \in [0..n -> Nat]
    /\ f[0] = 1
    /\ \A k \in 1..n : f[k] = 2 * f[k - 1]

LEMMA TwofoldToExists == \A n \in Nat : \E f : TwofoldTo(n, f)
<1>. DEFINE Bad == {n \in Nat : ~ \E f : TwofoldTo(n, f)}
<1>. SUFFICES ASSUME Bad # {} PROVE FALSE
  OBVIOUS
<1>1. PICK n \in Bad : \A m \in Bad : n <= m
  BY LeastNatural
<1>2. n \in Nat /\ ~ \E f : TwofoldTo(n, f)
  OBVIOUS
<1>3. CASE n = 0
  <2>1. TwofoldTo(0, [k \in 0..0 |-> 1])
    BY DEF TwofoldTo
  <2>. QED
    BY <1>2, <1>3, <2>1
<1>4. CASE n # 0
  <2>1. n - 1 \in Nat /\ n - 1 \notin Bad
    BY <1>1, <1>2, <1>4
  <2>2. PICK f : TwofoldTo(n - 1, f)
    BY <2>1
  <2>. DEFINE g == [k \in 0..n |-> IF k = n THEN 2 * f[n - 1] ELSE f[k]]
  <2>3. f \in [0..(n - 1) -> Nat] /\ f[0] = 1
        /\ \A k \in 1..(n - 1) : f[k] = 2 * f[k - 1]
    BY <2>2 DEF TwofoldTo
  <2>4. \A k \in 0..(n - 1) : g[k] = f[k]
    BY <1>2, <1>4
  <2>5. g \in [0..n -> Nat] /\ g[n] = 2 * f[n - 1]
    <3>1. f[n - 1] \in Nat
      BY <1>2, <1>4, <2>3
    <3>2. ASSUME NEW k \in 0..n PROVE g[k] \in Nat
      <4>1. CASE k = n
        BY <3>1, <4>1
      <4>2. CASE k # n
        BY <1>2, <2>3, <4>2
      <4>. QED
        BY <4>1, <4>2
    <3>. QED
      BY <1>2, <3>2
  <2>. HIDE DEF g
  <2>6. ASSUME NEW k \in 1..n PROVE g[k] = 2 * g[k - 1]
    <3>1. CASE k = n
      BY <1>2, <1>4, <2>4, <2>5, <3>1
    <3>2. CASE k # n
      <4>1. k \in 1..(n - 1) /\ k - 1 \in 0..(n - 1) /\ k \in 0..(n - 1)
        BY <1>2, <3>2
      <4>. QED
        BY <2>3, <2>4, <4>1
    <3>. QED
      BY <3>1, <3>2
  <2>7. g[0] = 1
    BY <1>2, <1>4, <2>3, <2>4
  <2>. QED
    BY <1>2, <2>5, <2>6, <2>7 DEF TwofoldTo
<1>. QED
  BY <1>3, <1>4

LEMMA TwofoldToAgrees ==
    ASSUME NEW n \in Nat, NEW m \in Nat, NEW f, NEW g,
           TwofoldTo(n, f), TwofoldTo(m, g)
    PROVE  \A k \in Nat : k <= n /\ k <= m => f[k] = g[k]
<1>. DEFINE Bad == {k \in Nat : k <= n /\ k <= m /\ f[k] # g[k]}
<1>. SUFFICES ASSUME Bad # {} PROVE FALSE
  OBVIOUS
<1>1. PICK k \in Bad : \A j \in Bad : k <= j
  BY LeastNatural
<1>2. k \in Nat /\ k <= n /\ k <= m /\ f[k] # g[k]
  OBVIOUS
<1>3. k # 0
  BY <1>2 DEF TwofoldTo
<1>4. k - 1 \in Nat /\ k - 1 \notin Bad /\ k - 1 <= n /\ k - 1 <= m
  BY <1>1, <1>2, <1>3
<1>5. f[k - 1] = g[k - 1]
  BY <1>4
<1>6. k \in 1..n /\ k \in 1..m
  BY <1>2, <1>3
<1>. QED
  BY <1>2, <1>5, <1>6 DEF TwofoldTo

LEMMA TwofoldExists ==
    \E f \in [Nat -> Nat] :
        f = [k \in Nat |-> IF k = 0 THEN 1 ELSE 2 * f[k - 1]]
<1>. DEFINE upTo(n) == CHOOSE f : TwofoldTo(n, f)
            F == [n \in Nat |-> upTo(n)[n]]
<1>1. ASSUME NEW n \in Nat PROVE TwofoldTo(n, upTo(n))
  BY TwofoldToExists
<1>. HIDE DEF upTo
<1>2. ASSUME NEW n \in Nat PROVE upTo(n)[n] \in Nat
  BY <1>1 DEF TwofoldTo
<1>3. ASSUME NEW n \in Nat
      PROVE  F[n] = IF n = 0 THEN 1 ELSE 2 * F[n - 1]
  <2>1. CASE n = 0
    BY <1>1, <2>1 DEF TwofoldTo
  <2>2. CASE n # 0
    <3>1. n - 1 \in Nat /\ n \in 1..n
      BY <2>2
    <3>2. upTo(n)[n] = 2 * upTo(n)[n - 1]
      BY <1>1, <3>1 DEF TwofoldTo
    <3>3. upTo(n)[n - 1] = upTo(n - 1)[n - 1]
      BY <1>1, <3>1, TwofoldToAgrees
    <3>. QED
      BY <2>2, <3>1, <3>2, <3>3
  <2>. QED
    BY <2>1, <2>2
<1>4. F \in [Nat -> Nat]
  BY <1>2
<1>5. F = [k \in Nat |-> IF k = 0 THEN 1 ELSE 2 * F[k - 1]]
  <2>. DEFINE G == [k \in Nat |-> IF k = 0 THEN 1 ELSE 2 * F[k - 1]]
  <2>1. \A k \in Nat : F[k] = G[k]
    BY <1>3
  <2>. QED
    BY <2>1
<1>. HIDE DEF F
<1>. QED
  BY <1>4, <1>5

LEMMA TwofoldIs ==
    /\ Twofold[0] = 1
    /\ \A k \in Nat : Twofold[k + 1] = 2 * Twofold[k]
<1>1. Twofold = [k \in Nat |-> IF k = 0 THEN 1 ELSE 2 * Twofold[k - 1]]
  BY TwofoldExists DEF Twofold
<1>2. \A k \in Nat : Twofold[k] = IF k = 0 THEN 1 ELSE 2 * Twofold[k - 1]
  BY <1>1
<1>3. \A k \in Nat : k + 1 \in Nat /\ k + 1 # 0 /\ (k + 1) - 1 = k
  OBVIOUS
<1>. QED
  BY <1>2, <1>3

LEMMA TwofoldNatural == \A k \in Nat : Twofold[k] \in Nat
<1>. DEFINE Bad == {k \in Nat : Twofold[k] \notin Nat}
<1>. SUFFICES ASSUME Bad # {} PROVE FALSE
  OBVIOUS
<1>1. PICK k \in Bad : \A j \in Bad : k <= j
  BY LeastNatural
<1>2. k \in Nat /\ Twofold[k] \notin Nat
  OBVIOUS
<1>3. k # 0
  BY <1>2, TwofoldIs
<1>4. k - 1 \in Nat /\ k = (k - 1) + 1
  BY <1>2, <1>3
<1>5. Twofold[k - 1] \in Nat
  BY <1>1, <1>4
<1>6. Twofold[k] = 2 * Twofold[k - 1]
  BY <1>4, TwofoldIs
<1>. QED
  BY <1>2, <1>5, <1>6

(* The timer's period is the one that was first, doubled once for each     *)
(* error, up to the longest.                                               *)
DoublingInv ==
    /\ abnormal <=> errors > 0
    /\ errors > 0 =>
          currentPeriod = Smaller(indexPeriod * Twofold[errors], MaxPeriod)
    /\ PauseDoubles

LEMMA FollowingDoubles ==
    ASSUME NEW period \in Nat, NEW k \in Nat
    PROVE  Following(Smaller(period * Twofold[k], MaxPeriod))
           = Smaller(period * Twofold[k + 1], MaxPeriod)
<1>. DEFINE p == period * Twofold[k]
<1>1. p \in Nat /\ MaxPeriod \in Nat
  BY TwofoldNatural, BackOffAssumption
<1>2. period * Twofold[k + 1] = p * 2
  <2>1. Twofold[k] \in Nat /\ Twofold[k + 1] = 2 * Twofold[k]
    BY TwofoldNatural, TwofoldIs
  <2>. HIDE DEF Twofold
  <2>2. \A t \in Nat : period * (2 * t) = (period * t) * 2
    OBVIOUS
  <2>. QED
    BY <2>1, <2>2
<1>. HIDE DEF p
<1>3. Following(Smaller(p, MaxPeriod)) = Smaller(p * 2, MaxPeriod)
  BY <1>1 DEF Following, Smaller
<1>. QED
  BY <1>2, <1>3 DEF p

LEMMA RetryDoubles == ProcessTypeOK /\ DoublingInv /\ Next => DoublingInv'
<1>. SUFFICES ASSUME ProcessTypeOK, DoublingInv, Next PROVE DoublingInv'
  OBVIOUS
<1>t. indexPeriod \in Nat /\ errors \in Nat
  BY BackOffAssumption DEF ProcessTypeOK
<1>1. CASE RunnerWorks
  BY <1>1 DEF RunnerWorks, DoublingInv, PauseDoubles
<1>2. CASE RunnerFails
  <2>1. /\ indexPeriod' = indexPeriod /\ errors' = errors + 1 /\ abnormal'
        /\ pause' = IF abnormal THEN currentPeriod ELSE indexPeriod
        /\ currentPeriod' = Following(pause')
    BY <1>2 DEF RunnerFails, TimerNext
  <2>2. CASE errors = 0
    <3>1. pause' = indexPeriod /\ errors' = 1
      BY <2>1, <2>2 DEF DoublingInv
    <3>2. currentPeriod' = Smaller(indexPeriod * Twofold[1], MaxPeriod)
      <4>1. Twofold[1] = 2
        <5>1. Twofold[0 + 1] = 2 * Twofold[0]
          BY TwofoldIs
        <5>. QED
          BY <5>1, TwofoldIs
      <4>. QED
        BY <2>1, <3>1, <4>1 DEF Following
    <3>. QED
      BY <2>1, <3>1, <3>2 DEF DoublingInv, PauseDoubles
  <2>3. CASE errors # 0
    <3>1. errors > 0 /\ errors' > 0 /\ errors' # 1 /\ errors' - 1 = errors
      BY <1>t, <2>1, <2>3
    <3>2. pause' = Smaller(indexPeriod * Twofold[errors], MaxPeriod)
      BY <2>1, <3>1 DEF DoublingInv
    <3>3. currentPeriod' = Smaller(indexPeriod * Twofold[errors'], MaxPeriod)
      BY <1>t, <2>1, <3>2, FollowingDoubles
    <3>. QED
      BY <2>1, <3>1, <3>2, <3>3 DEF DoublingInv, PauseDoubles
  <2>. QED
    BY <2>2, <2>3
<1>3. CASE RunnerEnds
  BY <1>3 DEF RunnerEnds, DoublingInv, PauseDoubles
<1>4. CASE RunAgain
  BY <1>4 DEF RunAgain, DoublingInv, PauseDoubles
<1>. QED
  BY <1>1, <1>2, <1>3, <1>4 DEF Next

(* For every index_period and any number of errors in a row, the pause     *)
(* after the k-th is index_period doubled k - 1 times, up to ten minutes,  *)
(* and a run that ends without an error starts the count again             *)
(* (runAbnormalExecution, incrementalTimer.next).                          *)
THEOREM PausesDouble == ProcessSpec => []PauseDoubles
<1>1. ProcessInit => DoublingInv
  BY DEF ProcessInit, DoublingInv, PauseDoubles
<1>2. ASSUME ProcessTypeOK, DoublingInv, [ProcessNext]_<<processVars, vars>>
      PROVE  DoublingInv'
  <2>1. CASE UNCHANGED vars
    BY <1>2, <2>1 DEF vars, DoublingInv, PauseDoubles
  <2>2. CASE Next
    BY <1>2, <2>2, RetryDoubles
  <2>3. ASSUME NEW period, NoLoop(period) PROVE DoublingInv'
    BY <2>3 DEF NoLoop, DoublingInv, PauseDoubles
  <2>4. CASE StartLoop \/ Restart
    BY <2>1, <2>3, <2>4 DEF StartLoop, Restart
  <2>5. CASE Parse \/ OpenNetwork \/ DialWs \/ GetLastBlock \/ Kill
    BY <2>1, <2>5 DEF Parse, OpenNetwork, DialWs, GetLastBlock, Kill, Pass,
                      CallFails
  <2>6. CASE Loop
    BY <2>2, <2>6 DEF Loop, Works, Fails, Ends, Again, Next
  <2>. QED
    BY <1>2, <2>1, <2>4, <2>5, <2>6 DEF ProcessNext, Step
<1>3. DoublingInv => PauseDoubles
  BY DEF DoublingInv
<1>. QED
  BY <1>1, <1>2, <1>3, ProcessTypeCorrect, PTL DEF ProcessSpec


=============================================================================
