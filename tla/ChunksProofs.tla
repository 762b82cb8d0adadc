---------------------------- MODULE ChunksProofs ----------------------------
(***************************************************************************)
(* The chunk loop asks for every missed block once, for every width of the *)
(* numbers and every range that fits in it.                                *)
(***************************************************************************)
EXTENDS Chunks, TLAPS

(* What the loop has asked for is everything before the next chunk; the    *)
(* chunk in hand begins where that ends.                                   *)
Inv ==
    /\ blockRange \in Nat \ {0}
    /\ lastChainBlock \in Nat
    /\ lastChainBlock + blockRange + 1 < Modulus
    /\ first \in Nat
    /\ start \in Nat
    /\ from \in Nat
    /\ to \in Nat
    /\ pc \in {"loop", "handle", "done"}
    /\ pc \in {"loop", "done"} =>
          /\ first < start
          /\ start <= lastChainBlock =>
                asked = (first + 1)..(start - 1)
          /\ start > lastChainBlock =>
                asked = (first + 1)..lastChainBlock
    /\ pc = "handle" =>
          /\ first < start
          /\ start <= lastChainBlock
          /\ from = start
          /\ to = ChunkEnd(start)
          /\ asked = (first + 1)..(start - 1)
    /\ pc = "done" => start > lastChainBlock

(* A chunk ends at most blockRange after its start, at the head at the     *)
(* latest, and at the head only if that is within the range.               *)
LEMMA ChunkEndValue ==
    ASSUME Inv, start <= lastChainBlock
    PROVE  /\ ChunkEnd(start) \in start..lastChainBlock
           /\ ChunkEnd(start) - start <= blockRange
           /\ \/ ChunkEnd(start) = start + blockRange
              \/ ChunkEnd(start) = lastChainBlock
                 /\ start + blockRange > lastChainBlock
BY ModulusAssumption DEF Inv, ChunkEnd, Wrap

LEMMA ChunksInvariant == Spec => []Inv
<1>1. Init => Inv
  BY ModulusAssumption DEF Init, Inv, FitsWidth, Wrap, Uint64
<1>2. Inv /\ [Next]_vars => Inv'
  <2>. SUFFICES ASSUME Inv, [Next]_vars PROVE Inv'
    OBVIOUS
  <2>1. CASE Ask
    <3>1. start <= lastChainBlock /\ from' = start /\ to' = ChunkEnd(start)
          /\ ChunkEnd(start)' = ChunkEnd(start)
      BY <2>1 DEF Ask, ChunkEnd, Wrap
    <3>2. to' \in Nat
      BY <3>1, ChunkEndValue DEF Inv
    <3>. QED
      BY <2>1, <3>1, <3>2 DEF Ask, Inv
  <2>2. CASE Handle
    <3>1. start' = start + blockRange + 1
      BY <2>2, ModulusAssumption DEF Handle, Advance, Wrap, Inv
    <3>2. asked' = (first + 1)..to
      BY <2>2, ChunkEndValue DEF Handle, Inv
    <3>3. start' <= lastChainBlock => to = start' - 1
      BY <2>2, <3>1, ChunkEndValue DEF Handle, Inv
    <3>4. start' > lastChainBlock => to = lastChainBlock
      BY <2>2, <3>1, ChunkEndValue DEF Handle, Inv
    <3>5. blockRange' = blockRange /\ lastChainBlock' = lastChainBlock
          /\ first' = first /\ from' = from /\ to' = to
          /\ pc = "handle" /\ pc' = "loop"
      BY <2>2 DEF Handle
    <3>6. start' \in Nat /\ first' < start'
      BY <3>1, <3>5 DEF Inv
    <3>. QED
      BY <3>2, <3>3, <3>4, <3>5, <3>6 DEF Inv
  <2>3. CASE Finish
    BY <2>3 DEF Finish, Inv
  <2>4. CASE UNCHANGED vars
    BY <2>4 DEF vars, Inv, ChunkEnd, Wrap
  <2>. QED
    BY <2>1, <2>2, <2>3, <2>4 DEF Next
<1>. QED
  BY <1>1, <1>2, PTL DEF Spec

(* No two calls of the loop ask for the same block, and none for more than *)
(* block_range (handleUnprocessedEvents).                                  *)
THEOREM ChunksApart == Spec => []CallsApart
<1>1. Inv => CallsApart
  BY ChunkEndValue DEF Inv, CallsApart
<1>. QED
  BY <1>1, ChunksInvariant, PTL

(* When the loop moves lastBlock to the head it has asked for every block  *)
(* in between (handleUnprocessedEvents).                                   *)
THEOREM ChunksCoverAll == Spec => []CoversAll
<1>1. Inv => CoversAll
  BY DEF Inv, CoversAll
<1>. QED
  BY <1>1, ChunksInvariant, PTL

=============================================================================
