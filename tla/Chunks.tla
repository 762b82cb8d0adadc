------------------------------- MODULE Chunks -------------------------------
(***************************************************************************)
(* The chunk loop of handleUnprocessedEvents (internal/service/indexer.go) *)
(* in the arithmetic it has: block numbers and block_range are uint64, and *)
(* a sum that does not fit wraps round.  Indexer has the same loop with    *)
(* numbers that do not wrap, and with what happens to the logs of a chunk; *)
(* here one step handles them, and the question is which blocks are asked  *)
(* for.                                                                    *)
(***************************************************************************)
EXTENDS Integers

CONSTANT Modulus  \* 2^64

ASSUME ModulusAssumption == Modulus \in Nat \ {0}

VARIABLES
    lastBlock,      \* indexer.lastBlock
    blockRange,     \* indexer.blockRange
    lastChainBlock, \* the argument of handleUnprocessedEvents
    start,          \* the loop's variable
    from, to,       \* filters.FromBlock, filters.ToBlock
    pc,
    first,          \* history: lastBlock when the function is called
    asked           \* history: the blocks of the calls made so far

vars == <<lastBlock, blockRange, lastChainBlock, start, from, to, pc, first,
          asked>>

Uint64 == 0..(Modulus - 1)

(* The value of a sum of two uint64 (and a carry) as a uint64.             *)
Wrap(n) == IF n < Modulus THEN n ELSE n - Modulus

(* No sum of the loop wraps: block_range leaves room above the chain's     *)
(* head.  With a block_range of Modulus - 1, for one, start never moves.   *)
FitsWidth ==
    /\ lastBlock + 1 < Modulus
    /\ lastChainBlock + blockRange + 1 < Modulus

Init ==
    /\ lastBlock \in Uint64
    /\ blockRange \in Uint64 \ {0}
    /\ lastChainBlock \in Uint64
    /\ FitsWidth
    /\ start = Wrap(lastBlock + 1)
    /\ from = 0
    /\ to = 0
    /\ pc = "loop"
    /\ first = lastBlock
    /\ asked = {}

(* Mutants of ChunkEnd: the block before start + blockRange, and the block *)
(* after it.                                                               *)
ChunkEndShort(s) ==
    IF Wrap(s + blockRange - 1) > lastChainBlock THEN lastChainBlock
                                                 ELSE Wrap(s + blockRange - 1)
ChunkEndLong(s) ==
    IF Wrap(s + blockRange + 1) > lastChainBlock THEN lastChainBlock
                                                 ELSE Wrap(s + blockRange + 1)

(* The last block of the chunk that begins at s.                           *)
ChunkEnd(s) ==
    IF Wrap(s + blockRange) > lastChainBlock THEN lastChainBlock
                                             ELSE Wrap(s + blockRange)

(* FilterLogs is called for a chunk.                                       *)
Ask ==
    /\ pc = "loop"
    /\ start <= lastChainBlock
    /\ from' = start
    /\ to' = ChunkEnd(start)
    /\ pc' = "handle"
    /\ UNCHANGED <<lastBlock, blockRange, lastChainBlock, start, first, asked>>

(* Mutant of Advance: the range without its first block.                   *)
AdvanceByRangeLessOne == start' = Wrap(start + blockRange - 1)

Advance == start' = Wrap(start + blockRange + 1)

(* The logs of the chunk are handled, and the loop goes on.                *)
Handle ==
    /\ pc = "handle"
    /\ asked' = asked \cup from..to
    /\ Advance
    /\ pc' = "loop"
    /\ UNCHANGED <<lastBlock, blockRange, lastChainBlock, from, to, first>>

Finish ==
    /\ pc = "loop"
    /\ start > lastChainBlock
    /\ lastBlock' = lastChainBlock
    /\ pc' = "done"
    /\ UNCHANGED <<blockRange, lastChainBlock, start, from, to, first, asked>>

Next == Ask \/ Handle \/ Finish

Spec == Init /\ [][Next]_vars

(* The loop runs on as long as calls are answered.                         *)
FairSpec == Spec /\ WF_vars(Next)

-----------------------------------------------------------------------------

(* Every call asks for at least one block, for no more than the configured *)
(* range, and for none that an earlier call of the loop asked for.         *)
CallsApart ==
    pc = "handle" => /\ from <= to
                     /\ to - from <= blockRange
                     /\ asked \cap from..to = {}

(* When the loop sets lastBlock, every block after the old lastBlock, up   *)
(* to the head that was read, has been asked for, and no other.            *)
CoversAll == pc = "done" => asked = (first + 1)..lastChainBlock

(* The loop ends, whatever the range and the distance.                     *)
LoopEnds == <>(pc = "done")

=============================================================================
