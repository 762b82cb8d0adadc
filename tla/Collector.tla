----------------------------- MODULE Collector -----------------------------
(***************************************************************************)
(* The order aggregator ("collector") that holds the indexed orders and    *)
(* matches of this network, and the last block the indexer reported.  The  *)
(* service itself is not in this repository: its answers are taken from    *)
(* how internal/service/helpers.go and main.go read them (404 for a        *)
(* missing row, 409 for a duplicate).  The request bodies are those of     *)
(* internal/service/requests.                                              *)
(***************************************************************************)
EXTENDS Chain

CONSTANTS
    ForeignOrders,   \* order ids that rows of other networks use
    ForeignMatches,  \* match ids that rows of other networks use
    FlatReply        \* TRUE: a GET answer decodes into the row's id

VARIABLES
    orders,   \* orders[o]: this network's row for order o, or NoRow
    matches,  \* matches[m]: this network's row for match m, or NoRow
    saved,    \* the block last reported, or NoBlock
    applied,  \* history: the logs whose effect the collector has taken
    late      \* writes the client gave up on that may still be performed

collectorVars == <<orders, matches, saved, applied, late>>

NoRow == [state |-> -1, match |-> -1]
NoBlock == -1

Row == [state : Nat, match : Nat]

(* The writes, named by the helper that sends them; each is sent for one   *)
(* log.                                                                    *)
OrderWrites == {"addOrder", "updateOrder"}
MatchWrites == {"addMatch", "updateMatch"}
Writes == OrderWrites \cup MatchWrites \cup {"updateLastBlock"}

ASSUME ForeignAssumption ==
    /\ ForeignOrders \subseteq Nat \ {0}
    /\ ForeignMatches \subseteq Nat \ {0}
    /\ FlatReply \in BOOLEAN

CollectorInit ==
    /\ orders = [o \in OrderIds |-> NoRow]
    /\ matches = [m \in MatchIds |-> NoRow]
    /\ saved = NoBlock
    /\ applied = {}
    /\ late = {}

-----------------------------------------------------------------------------
(* Request bodies: what a row becomes when the body is stored.             *)

(* A new order carries its state, and no match.                            *)
NewAddOrder(e) == [state |-> e.state, match |-> 0]

(* Mutant of NewUpdateOrder: the match never reaches the body.             *)
NewUpdateOrderStateOnly(row, e) == [state |-> e.state, match |-> row.match]

(* match_id is left out of the body when it is zero, and a field that is   *)
(* left out keeps its value.                                               *)
NewUpdateOrder(row, e) ==
    [state |-> e.state, match |-> IF e.match = 0 THEN row.match ELSE e.match]

NewAddMatch(e) == [state |-> e.state, match |-> 0]

NewUpdateMatch(row, e) == [row EXCEPT !.state = e.state]

(* The reported block is the one of the log that was handled.              *)
NewUpdateBlock(i) == blockOf[i]

-----------------------------------------------------------------------------
(* GET /orders/{id} and /match_orders/{id}: the path has no network in it, *)
(* so a row of another network answers too.  The test compares the id      *)
(* asked for with the id the answer decodes to, 0 when nothing decodes.    *)

(* Mutant of DecodedId: any row's answer decodes to the id asked for.      *)
DecodedIdAlways(id, found) == IF found THEN id ELSE 0

DecodedId(id, found) == IF found /\ FlatReply THEN id ELSE 0

orderExists(id) ==
    id = DecodedId(id, orders[id] # NoRow \/ id \in ForeignOrders)
matchExists(id) ==
    id = DecodedId(id, matches[id] # NoRow \/ id \in ForeignMatches)

(* Mutant of Accepts: the helpers take a 409 for an error.                 *)
AcceptsNoDuplicate(write, i) ==
    CASE write = "updateOrder" -> orders[Script[i].id] # NoRow
      [] write = "updateMatch" -> matches[Script[i].id] # NoRow
      [] write = "addOrder" -> orders[Script[i].id] = NoRow
      [] write = "addMatch" -> matches[Script[i].id] = NoRow
      [] OTHER -> TRUE

(* A PATCH of a row that is not there is answered 404.  A POST of a row    *)
(* that is there is answered 409, which the helpers take for success.      *)
Accepts(write, i) ==
    CASE write = "updateOrder" -> orders[Script[i].id] # NoRow
      [] write = "updateMatch" -> matches[Script[i].id] # NoRow
      [] OTHER -> TRUE

(* The collector performs the write sent for log i.                        *)
Perform(write, i) ==
    LET e == Script[i]
        row == IF write \in OrderWrites THEN orders[e.id] ELSE matches[e.id]
    IN  /\ orders' =
             CASE write = "addOrder" /\ row = NoRow ->
                    [orders EXCEPT ![e.id] = NewAddOrder(e)]
               [] write = "updateOrder" /\ row # NoRow ->
                    [orders EXCEPT ![e.id] = NewUpdateOrder(row, e)]
               [] OTHER -> orders
        /\ matches' =
             CASE write = "addMatch" /\ row = NoRow ->
                    [matches EXCEPT ![e.id] = NewAddMatch(e)]
               [] write = "updateMatch" /\ row # NoRow ->
                    [matches EXCEPT ![e.id] = NewUpdateMatch(row, e)]
               [] OTHER -> matches
        /\ saved' = IF write = "updateLastBlock" THEN NewUpdateBlock(i)
                                               ELSE saved
        /\ applied' = IF write # "updateLastBlock" /\ Accepts(write, i)
                      THEN applied \cup {i} ELSE applied

(* A write its sender stopped waiting for is performed after all.          *)
LateWrite ==
    \E w \in late :
        /\ Perform(w.write, w.log)
        /\ late' = late \ {w}

=============================================================================
