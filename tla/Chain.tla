------------------------------- MODULE Chain -------------------------------
(***************************************************************************)
(* The EVM network as the indexer sees it: a growing sequence of blocks    *)
(* and, in them, the logs the Swapica contract emits.  The network is      *)
(* outside this repository; the module is written from how                 *)
(* internal/service/indexer.go queries it (BlockNumber, FilterLogs) and    *)
(* from the event types of internal/gobind/Swapica.go.                     *)
(*                                                                         *)
(* What the contract will emit, and in which order, is the constant        *)
(* Script.  Which block each log lands in is chosen when blocks are mined, *)
(* so one model covers every placement of the script's logs.  A log is     *)
(* known by its position in the script, which is its position in the       *)
(* chain.  Blocks are final: a reorganisation is not modelled here.        *)
(***************************************************************************)
EXTENDS Integers, Sequences, FiniteSets

CONSTANTS
    Script,          \* the contract's logs, in the order it emits them
    NodeLag,         \* how many blocks one of the provider's nodes may lag
    MaxBlock,        \* bound: the last block that is mined
    MaxLogsPerBlock  \* bound: the most logs one block holds

VARIABLES
    head,     \* the number of the latest block
    mined,    \* how many logs of the script are in the chain
    blockOf   \* blockOf[i]: the block that holds log i, 0 before it is mined

chainVars == <<head, mined, blockOf>>

-----------------------------------------------------------------------------
(* The four events the contract emits for the indexer, with the fields of  *)
(* them that reach the collector: the id of the order or of the match, its *)
(* state, and (order status only) the match that executed it, 0 for none.  *)

EventNames == {"OrderCreated", "OrderUpdated", "MatchCreated", "MatchUpdated"}

Event == [name : EventNames, id : Nat \ {0}, state : Nat, match : Nat]

LogIds == 1..Len(Script)

OrderIds == {Script[i].id : i \in {j \in LogIds :
                Script[j].name \in {"OrderCreated", "OrderUpdated"}}}
MatchIds == {Script[i].id : i \in {j \in LogIds :
                Script[j].name \in {"MatchCreated", "MatchUpdated"}}}

ASSUME ScriptAssumption == Script \in Seq(Event)
ASSUME ChainBoundsAssumption ==
    NodeLag \in Nat /\ MaxBlock \in Nat /\ MaxLogsPerBlock \in Nat \ {0}

-----------------------------------------------------------------------------

ChainInit ==
    /\ head = 0
    /\ mined = 0
    /\ blockOf = [i \in LogIds |-> 0]

(* The next block holds the next n logs of the script.                     *)
MineBlock(n) ==
    /\ head < MaxBlock
    /\ mined + n <= Len(Script)
    /\ head' = head + 1
    /\ mined' = mined + n
    /\ blockOf' = [i \in LogIds |->
                     IF i \in (mined + 1)..(mined + n) THEN head + 1
                                                       ELSE blockOf[i]]

(* eth_getLogs over the blocks from..to.  The answer is a set of script    *)
(* positions; the indexer goes through it in increasing order.  A bound    *)
(* beyond the head is cut to the head, as a node does.                     *)
FilterLogs(from, to) == {i \in 1..mined : blockOf[i] \in from..to}

(* Calls may be answered by different nodes: the latest blocks they know,  *)
(* and what such a node answers of the logs in a range.                    *)
NodeHeads == {h \in 0..head : head - h <= NodeLag}
KnownTo(h, logs) == {i \in logs : blockOf[i] <= h}

(* Mutant of Earliest: the latest log of the set.                          *)
LatestInstead(logs) == CHOOSE i \in logs : \A j \in logs : j <= i

(* The earliest log of a non-empty set of logs.                            *)
Earliest(logs) == CHOOSE i \in logs : \A j \in logs : i <= j

=============================================================================
