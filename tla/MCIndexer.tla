----------------------------- MODULE MCIndexer -----------------------------
(* Small instances of Indexer: the scripts of contract logs that the .cfg  *)
(* files put for Script.                                                   *)
EXTENDS IndexerInv

Log(name, id, state, match) ==
    [name |-> name, id |-> id, state |-> state, match |-> match]

(* An order and a match, each created and updated.                         *)
OrderAndMatch == << Log("OrderCreated", 1, 1, 0),
                    Log("MatchCreated", 1, 1, 0),
                    Log("OrderUpdated", 1, 2, 1),
                    Log("MatchUpdated", 1, 2, 0) >>

(* Two orders, the shortest script in which a log can be passed by.        *)
TwoOrders == << Log("OrderCreated", 1, 1, 0),
                Log("OrderCreated", 2, 1, 0) >>

(* One order through its life: created, matched, executed.  The second     *)
(* update names no match; a replay of the first sets the state back.       *)
TwoUpdates == << Log("OrderCreated", 1, 1, 0),
                 Log("OrderUpdated", 1, 2, 7),
                 Log("OrderUpdated", 1, 3, 0) >>

=============================================================================
