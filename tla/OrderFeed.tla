----------------------------- MODULE OrderFeed -----------------------------
(***************************************************************************)
(* What the service is for, with every mechanism left out: the contract    *)
(* emits logs, and each of them reaches the collector's database, one at a *)
(* time and in the order of the chain.  Indexer implements it when it      *)
(* polls (see Feed in IndexerProps); sending a log again is a stuttering   *)
(* step here, as the collector's rows have taken it already.               *)
(***************************************************************************)
EXTENDS Naturals

CONSTANT Logs  \* the logs, numbered (in Nat) in the order of the chain

VARIABLES
    emitted,   \* the logs the indexer is to hand on
    delivered  \* those the collector has taken

feedVars == <<emitted, delivered>>

Init == emitted = {} /\ delivered = {}

(* The chain grows: new logs come after all that were there.               *)
Emit ==
    \E new \in SUBSET (Logs \ emitted) :
        /\ \A i \in emitted, j \in new : i < j
        /\ emitted' = emitted \cup new
        /\ UNCHANGED delivered

(* The first log that is not delivered yet is delivered.                   *)
Deliver ==
    \E i \in emitted \ delivered :
        /\ \A j \in emitted : j < i => j \in delivered
        /\ delivered' = delivered \cup {i}
        /\ UNCHANGED emitted

Next == Emit \/ Deliver

Spec == Init /\ [][Next]_feedVars

(* Delivery does not stop while a log waits.                               *)
FairSpec == Spec /\ WF_feedVars(Deliver)

=============================================================================
