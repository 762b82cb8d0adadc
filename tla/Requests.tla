------------------------------ MODULE Requests ------------------------------
(***************************************************************************)
(* What becomes of the contract's numbers on their way to the collector.   *)
(* The contract counts in uint256; the request bodies and rows hold int64. *)
(* big.Int.Int64 keeps the low 64 bits and their sign without an error,    *)
(* while strconv.ParseInt of a topic refuses what does not fit, and so     *)
(* does every retry.                                                       *)
(*                                                                         *)
(* One log is handled after the other, without failures: Indexer has those.*)
(* Half stands for 2^63.  The contract and the collector are outside the   *)
(* repository.                                                             *)
(***************************************************************************)
EXTENDS Integers, FiniteSets

CONSTANTS
    Half,     \* 2^63
    OrderNos, \* the numbers the contract may give to orders,
    MatchNos, \*   and to matches
    Chains,   \* the destination and origin chains users may name
    Origins,  \* the numbers of the origin orders users may name
    Statuses, \* the order statuses the contract may emit after creation
    MaxLogs   \* bound: how many logs the contract emits

Word == 2 * Half
Int64s == -Half..(Half - 1)

(* The match's number and the address of its contract, where 0 is the zero *)
(* address.                                                                *)
Status == [state : Nat, match : Nat, swapica : Nat]

ASSUME RequestsAssumption ==
    /\ Half \in Nat \ {0}
    /\ OrderNos \subseteq Nat /\ MatchNos \subseteq Nat
    /\ Chains \subseteq Nat /\ Origins \subseteq Nat
    /\ Statuses \subseteq Status
    /\ MaxLogs \in Nat

VARIABLES
    contract, \* the orders and matches of the contract
    log,      \* the log the indexer handles, or NoLog
    emitted,  \* how many logs there have been
    rows      \* the collector's rows

vars == <<contract, log, emitted, rows>>

NoLog == [event |-> "none"]
Nobody == [state |-> 0, match |-> 0, swapica |-> 0]

Init ==
    /\ contract = {}
    /\ log = NoLog
    /\ emitted = 0
    /\ rows = {}

-----------------------------------------------------------------------------
(* The contract.  chain is the destination chain of an order and the origin*)
(* chain of a match, origin the origin order of a match; pair is a history:*)
(* the last match and contract that an update named.                       *)

Emit(event, c) ==
    /\ log = NoLog
    /\ emitted < MaxLogs
    /\ emitted' = emitted + 1
    /\ contract' = {d \in contract : d.kind # c.kind \/ d.id # c.id} \cup {c}
    /\ log' = [event |-> event, id |-> c.id, chain |-> c.chain,
               origin |-> c.origin, status |-> c.status]
    /\ UNCHANGED rows

Create ==
    \E kind \in {"order", "match"}, chain \in Chains :
        \E id \in IF kind = "order" THEN OrderNos ELSE MatchNos,
           origin \in IF kind = "order" THEN {0} ELSE Origins :
            /\ \A c \in contract : c.kind = kind => c.id # id
            /\ Emit(IF kind = "order" THEN "OrderCreated" ELSE "MatchCreated",
                    [kind |-> kind, id |-> id, chain |-> chain,
                     origin |-> origin,
                     status |-> [Nobody EXCEPT !.state = 1], pair |-> <<0, 0>>])

(* The status names a match.                                               *)
NamesMatch(s) == s.match # 0 \/ s.swapica # 0

Update ==
    \E c \in contract, s \in Statuses :
        IF c.kind = "order"
        THEN Emit("OrderUpdated",
                  [c EXCEPT !.status = s,
                            !.pair = IF NamesMatch(s)
                                     THEN <<s.match, s.swapica>> ELSE c.pair])
        ELSE Emit("MatchUpdated", [c EXCEPT !.status.state = s.state])

-----------------------------------------------------------------------------
(* The conversions.                                                        *)

(* Mutant of Int64: the low bits are taken without their sign.             *)
Int64Unsigned(n) == n % Word

(* big.Int.Int64: the low bits, as a signed number.                        *)
Int64(n) == IF n % Word < Half THEN n % Word ELSE (n % Word) - Word

(* Mutants of ParseInt: a shorter number is parsed, and one that does not  *)
(* fit wraps round.                                                        *)
ParseIntShort(n) == IF n < Half \div 2 THEN {n} ELSE {}
ParseIntWrapping(n) == {n % Half}

(* strconv.ParseInt(topic, 0, 64): the number, or nothing and an error.    *)
ParseInt(n) == IF n < Half THEN {n} ELSE {}

(* The bodies; the state is a uint8 everywhere.  owner and writer are a    *)
(* history: the contract's number of what a row was made for, and of what  *)
(* was written to it last.                                                 *)
NewAddOrder(l) ==
    [kind |-> "order", id |-> Int64(l.id), chain |-> Int64(l.chain),
     origin |-> 0,
     state |-> l.status.state, match |-> 0, swapica |-> 0,
     owner |-> l.id, writer |-> l.id]

NewAddMatch(l) ==
    [kind |-> "match", id |-> Int64(l.id), chain |-> Int64(l.chain),
     origin |-> Int64(l.origin),
     state |-> l.status.state, match |-> 0, swapica |-> 0,
     owner |-> l.id, writer |-> l.id]

(* Mutant of NewUpdateOrder: the match id is always in the body.           *)
NewUpdateOrderMatchAlways(row, l) ==
    [row EXCEPT !.state = l.status.state,
                !.match = Int64(l.status.match),
                !.swapica = IF l.status.swapica = 0 THEN @
                                                    ELSE l.status.swapica,
                !.writer = l.id]

(* A match id or address of zero is left out, and leaves the row's.        *)
NewUpdateOrder(row, l) ==
    [row EXCEPT !.state = l.status.state,
                !.match = IF Int64(l.status.match) = 0 THEN @
                          ELSE Int64(l.status.match),
                !.swapica = IF l.status.swapica = 0 THEN @
                                                    ELSE l.status.swapica,
                !.writer = l.id]

NewUpdateMatch(row, l) == [row EXCEPT !.state = l.status.state, !.writer = l.id]

-----------------------------------------------------------------------------
(* The collector and the handlers.                                         *)

RowsAt(kind, id) == {r \in rows : r.kind = kind /\ r.id = id}

(* Mutant of Exists: the answer's id decodes, and is not told from that of *)
(* a row of the other kind.                                                *)
ExistsOfEitherKind(kind, id) ==
    id = 0 \/ RowsAt("order", id) \cup RowsAt("match", id) # {}

(* orderExists and matchExists: the answer's id decodes to 0 (see FlatReply*)
(* in Collector), so only a zero id is ever found.                         *)
Exists(kind, id) == id = 0

(* POST: a row that is there is answered 409, which counts as success.     *)
Created(kind, body) ==
    /\ rows' = IF Exists(kind, body.id) \/ RowsAt(kind, body.id) # {}
               THEN rows ELSE rows \cup {body}
    /\ log' = NoLog
    /\ UNCHANGED <<contract, emitted>>

(* The row that the update in the log reaches, if its number is parsed and *)
(* the collector has a row for it.                                         *)
Reached(kind) == UNION {RowsAt(kind, id) : id \in ParseInt(log.id)}

(* PATCH: without a row there is an error, and the log is not passed.      *)
Updated(kind) ==
    /\ \E row \in Reached(kind) :
          rows' = (rows \ {row}) \cup {IF kind = "order"
                                      THEN NewUpdateOrder(row, log)
                                      ELSE NewUpdateMatch(row, log)}
    /\ log' = NoLog
    /\ UNCHANGED <<contract, emitted>>

HandleOrderCreated ==
    log.event = "OrderCreated" /\ Created("order", NewAddOrder(log))
HandleOrderUpdated ==
    log.event = "OrderUpdated" /\ Updated("order")
HandleMatchCreated ==
    log.event = "MatchCreated" /\ Created("match", NewAddMatch(log))
HandleMatchUpdated ==
    log.event = "MatchUpdated" /\ Updated("match")

Next ==
    \/ Create \/ Update
    \/ HandleOrderCreated \/ HandleOrderUpdated
    \/ HandleMatchCreated \/ HandleMatchUpdated

Spec == Init /\ [][Next]_vars

-----------------------------------------------------------------------------

TypeOK ==
    /\ \A c \in contract : c.kind \in {"order", "match"} /\ c.id \in Nat
    /\ emitted \in 0..MaxLogs
    /\ \A r \in rows :
          /\ r.kind \in {"order", "match"}
          /\ {r.id, r.chain, r.origin, r.match} \subseteq Int64s
          /\ \A q \in rows : r.kind = q.kind /\ r.id = q.id => r = q

(* An update is written to the row of its own order or match, unless that  *)
(* row was made for a number beyond 2^64, which took the row of the small  *)
(* number: a number that was cut short is never used to find a row.        *)
OwnRow == \A r \in rows : r.writer # r.owner => r.owner >= Word

(* No handler takes the log any further: an update that reaches no row is  *)
(* an error, now and in every retry.                                       *)
Stuck ==
    \/ log.event = "OrderUpdated" /\ Reached("order") = {}
    \/ log.event = "MatchUpdated" /\ Reached("match") = {}

(* The handling of a log stops for ever only at a number that no int64     *)
(* holds, or at zero, which the existence check takes for a row that is    *)
(* there.                                                                  *)
StuckOnlyBeyondInt64 == Stuck => log.id = 0 \/ log.id >= Half

(* The numbers of an order or match that int64 holds, and that no other    *)
(* number takes the row of.                                                *)
Plain(c) ==
    /\ c.id \in 1..(Half - 1)
    /\ \A d \in contract : d.kind = c.kind /\ d.id % Word = c.id => d.id = c.id

(* When a log is handled, the row of what it was about has the contract's  *)
(* state, and its chain and origin order if int64 holds them.              *)
RowFaithful ==
    log = NoLog =>
        \A c \in contract : Plain(c) =>
            \E r \in RowsAt(c.kind, c.id) :
                /\ r.state = c.status.state
                /\ c.chain < Half => r.chain = c.chain
                /\ c.kind = "match" /\ c.origin < Half => r.origin = c.origin

(* The row of an order never has the id of one match beside the contract   *)
(* of another: both are of the last event that named a match, though each  *)
(* is left out by itself when it is zero.  Only a match whose id is zero,  *)
(* or is cut to zero, leaves the id of the one before it in the row.       *)
PairFromOneEvent ==
    log = NoLog =>
        \A c \in contract : c.kind = "order" =>
            \A r \in RowsAt("order", c.id) :
                \/ <<r.match, r.swapica>> = <<Int64(c.pair[1]), c.pair[2]>>
                \/ Int64(c.pair[1]) = 0 /\ c.pair # <<0, 0>>

=============================================================================
