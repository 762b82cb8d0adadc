------------------------------ MODULE Process ------------------------------
(***************************************************************************)
(* The process from its start to the indexer's loop: cli.Run reads the     *)
(* configuration, service.Run connects to the nodes and asks the collector *)
(* for the last block, and WithBackOff (BackOff) runs the indexer.  A      *)
(* panic on the way there reaches cli.Run, which logs it and makes main    *)
(* exit with status 1; a panic of the runner only costs that run.          *)
(*                                                                         *)
(* What is in the configuration file is the variable file, chosen once;    *)
(* the orchestrator starts a process that ended again, with the same file. *)
(* comfig.Once makes Network and Collector do their work at the first call *)
(* only, so each is one step, where the code calls it first.               *)
(***************************************************************************)
EXTENDS BackOff

CONSTANTS
    Files,      \* the configurations to start with
    MaxChainID, \* maxChainID
    MaxFaults   \* bound: how often a dial, a request or a run fails

VARIABLES
    stage,   \* the step that comes next
    file,    \* the command line and the configuration file
    dialled, \* the clients of the nodes: "rpc", "ws"
    faults   \* how many calls have failed

processVars == <<stage, file, dialled, faults>>

Required == {"rpc", "contract", "chain_id", "use_websocket", "index_period",
             "ws"}

File == [command : {"run service", "migrate up"},
         missing : SUBSET (Required \cup {"KV_VIPER_FILE", "endpoint"}),
         chain_id : Int,
         use_websocket : BOOLEAN,
         index_period : Int]

ASSUME ProcessAssumption ==
    /\ Files \subseteq File
    /\ MaxChainID \in Nat
    /\ MaxFaults \in Nat

-----------------------------------------------------------------------------

(* WithBackOff has not been called.                                        *)
NoLoop(period) ==
    /\ indexPeriod' = period
    /\ pc' = "running"
    /\ abnormal' = FALSE
    /\ currentPeriod' = 0
    /\ pause' = 0
    /\ worked' = FALSE
    /\ errors' = 0

ProcessInit ==
    /\ stage = "start"
    /\ file \in Files
    /\ dialled = {}
    /\ faults = 0
    /\ indexPeriod = 0
    /\ pc = "running"
    /\ abnormal = FALSE
    /\ currentPeriod = 0
    /\ pause = 0
    /\ worked = FALSE
    /\ errors = 0

Fault == faults < MaxFaults /\ faults' = faults + 1

(* cli.Run returns false.                                                  *)
Exit == stage' = "exited"

(* A stage is passed, or a flaw of the file ends the process, or a call    *)
(* fails and ends it.                                                      *)
Pass(from, flaw, to, clients) ==
    /\ stage = from
    /\ \/ flaw /\ Exit /\ UNCHANGED <<dialled, faults>>
       \/ ~flaw /\ stage' = to /\ dialled' = dialled \cup clients
                /\ UNCHANGED faults
    /\ UNCHANGED <<file, vars>>
CallFails(from, flaw) ==
    /\ stage = from
    /\ ~flaw
    /\ Fault
    /\ Exit
    /\ UNCHANGED <<file, dialled, vars>>

(* cli.Run: the file is opened and the arguments are parsed; there is one  *)
(* command.                                                                *)
NoCommand == "KV_VIPER_FILE" \in file.missing \/ file.command # "run service"
Parse == Pass("start", NoCommand, "network", {})

(* Mutant of BadNetwork: what is required is not asked for.                *)
BadNetworkRangeOnly == file.chain_id > MaxChainID \/ file.chain_id <= 0

(* config.Network: what makes it panic before it dials.  A field is        *)
(* required whether it is used or not; zero is a value.                    *)
BadNetwork ==
    \/ Required \cap file.missing # {}
    \/ file.chain_id > MaxChainID
    \/ file.chain_id <= 0

OpenNetwork ==
    \/ Pass("network", BadNetwork,
            IF file.use_websocket THEN "dialWs" ELSE "lastBlock", {"rpc"})
    \/ CallFails("network", BadNetwork)

DialWs ==
    \/ Pass("dialWs", FALSE, "lastBlock", {"ws"})
    \/ CallFails("dialWs", FALSE)

(* service.getLastBlock is the first to need the collector.  Its errors    *)
(* other than 404 are not retried.                                         *)
NoCollector == "endpoint" \in file.missing
GetLastBlock ==
    \/ Pass("lastBlock", NoCollector, "newIndexer", {})
    \/ CallFails("lastBlock", NoCollector)

(* Mutant of StartLoop: every period is taken.                             *)
StartLoopAnyPeriod ==
    /\ stage = "newIndexer"
    /\ stage' = "loop"
    /\ NoLoop(file.index_period)
    /\ UNCHANGED <<file, dialled, faults>>

(* newIndexer, and the ticker of WithBackOff, which takes no negative      *)
(* period and is given one nanosecond for zero.                            *)
StartLoop ==
    /\ stage = "newIndexer"
    /\ IF file.index_period < 0
       THEN Exit /\ UNCHANGED vars
       ELSE stage' = "loop" /\ NoLoop(file.index_period)
    /\ UNCHANGED <<file, dialled, faults>>

(* Mutant of CanWork: run makes the ticker too.                            *)
CanWorkByPeriod == indexPeriod > 0

(* runWithoutWs makes its ticker after the backfill, of index_period; with *)
(* zero it panics.  run needs none.  service.run chooses between them.     *)
CanWork == "ws" \in dialled \/ indexPeriod > 0

Works == RunnerWorks /\ CanWork /\ UNCHANGED processVars
Fails ==
    /\ RunnerFails
    /\ IF CanWork THEN Fault ELSE UNCHANGED faults
    /\ UNCHANGED <<stage, file, dialled>>
Ends == RunnerEnds /\ "ws" \in dialled /\ UNCHANGED processVars
Again == RunAgain /\ UNCHANGED processVars

Loop == stage = "loop" /\ (Works \/ Fails \/ Ends \/ Again)

(* The process ends from outside, or is started again.                     *)
Kill ==
    /\ stage # "exited"
    /\ Fault
    /\ Exit
    /\ UNCHANGED <<file, dialled, vars>>
Restart ==
    /\ stage = "exited"
    /\ stage' = "start"
    /\ dialled' = {}
    /\ NoLoop(0)
    /\ UNCHANGED <<file, faults>>

Step == Parse \/ OpenNetwork \/ DialWs \/ GetLastBlock \/ StartLoop \/ Loop

ProcessNext == Step \/ Kill \/ Restart

ProcessSpec == ProcessInit /\ [][ProcessNext]_<<processVars, vars>>

(* Dials and requests are answered, timers fire, and the orchestrator      *)
(* starts a process that ended.                                            *)
FairProcess ==
    /\ ProcessSpec
    /\ WF_<<processVars, vars>>(Step) /\ WF_<<processVars, vars>>(Restart)

-----------------------------------------------------------------------------

ProcessTypeOK ==
    /\ stage \in {"start", "network", "dialWs", "lastBlock", "newIndexer",
                  "loop", "exited"}
    /\ file \in Files
    /\ dialled \subseteq {"rpc", "ws"}
    /\ faults \in 0..MaxFaults
    /\ indexPeriod \in Nat
    /\ pc \in {"running", "waiting"}
    /\ abnormal \in BOOLEAN
    /\ currentPeriod \in Nat
    /\ pause \in Nat
    /\ worked \in BOOLEAN
    /\ errors \in 0..MaxErrors

(* What a file must say for the indexer to reach its loop.                 *)
Usable(f) ==
    /\ f.command = "run service"
    /\ f.missing = {}
    /\ f.chain_id \in 1..MaxChainID
    /\ f.index_period >= 0
    /\ f.use_websocket \/ f.index_period > 0

(* The indexer reaches its loop only with a usable file, in the mode the   *)
(* file asks for, and with both clients dialled where it needs both.       *)
WorksOnlyIfUsable ==
    worked => /\ Usable(file)
              /\ dialled = IF file.use_websocket THEN {"rpc", "ws"}
                                                 ELSE {"rpc"}

(* With a usable file the indexer always gets to its loop again, after     *)
(* dials, requests and runs that fail, and after being killed.             *)
EventuallyWorks == Usable(file) => []<>worked

=============================================================================
