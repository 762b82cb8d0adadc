------------------------------ MODULE Bindings ------------------------------
(***************************************************************************)
(* The generated contract bindings of internal/gobind/Swapica.go: the      *)
(* iterator that FilterX returns and the subscription that WatchX returns, *)
(* with the goroutine each starts (bind.BoundContract and event.funcSub).  *)
(* abigen generates the same code for every event: one model stands for    *)
(* all, and reads the code of OrderCreated where it has a choice; the calls*)
(* are listed event by event.                                              *)
(*                                                                         *)
(* One user goroutine consumes; a second one may close the iterator or the *)
(* subscription at any time, or the client below it.  A watch is built on  *)
(* a subscription of go-ethereum (LogSubscription), which it must release. *)
(* The service itself calls none of this: it uses the bindings' event      *)
(* types and ABI.                                                          *)
(***************************************************************************)
EXTENDS Integers, Sequences, SequencesExt

CONSTANTS
    Logs,      \* the contract's logs, with their indexed arguments
    Malformed, \* the positions of logs that UnpackLog refuses
    OutSize    \* the capacity of the iterator's channel, or of the sink

Names == {"OrderCreated", "OrderUpdated", "MatchCreated", "MatchUpdated",
          "AdminChanged", "BeaconUpgraded", "Initialized",
          "OwnershipTransferred", "Upgraded"}

ASSUME BindingsAssumption ==
    /\ Logs \in Seq([event : Names, indexed : Seq(Nat)])
    /\ Malformed \subseteq Nat
    /\ OutSize \in Nat \ {0}

VARIABLES
    wanted,       \* the logs (positions) the call asks for
    mode,         \* "filter" or "watch"
    source,       \* logs found (filter), or pushed (watch), not yet taken
    emitted,      \* watch: how many of the wanted logs were pushed
    inner,        \* watch: the subscription below: "live"; ended by itself,
                  \*   "failed" or "closed"; or "stopping" or "stopped"
    producer,     \* how far the goroutine of event.NewSubscription is
    held,         \* watch: the log it forwards
    result,       \* whether the producer function returned an error
    unsubscribed, \* funcSub.unsubscribed
    quit,         \* whether funcSub.unsub is closed
    errChan,      \* whether funcSub.err holds an error
    out,          \* it.logs, or the sink
    consumer,     \* the user's loop: "next", "left" or "ended"
    done,         \* it.done
    fail,         \* it.fail, or the error the user got from Err
    closer,       \* the user's call of Close or Unsubscribe
    got           \* history: the logs the user got

sourceVars == <<wanted, mode, source, emitted, inner>>
funcVars == <<producer, held, result>>
subVars == <<unsubscribed, quit, errChan>>
userVars == <<consumer, done, fail, got>>
vars == <<sourceVars, funcVars, subVars, out, userVars, closer>>

ErrClosed == producer = "ended"
Released == inner \in {"failed", "closed", "stopped"}

-----------------------------------------------------------------------------
(* The calls: each asks for one event and has a rule for each indexed      *)
(* argument, the values to look for, where no value asks for all.  What the*)
(* goroutine of a call does is told by its mode.                           *)
Selected(event, rules) ==
    {i \in 1..Len(Logs) :
        /\ Logs[i].event = event
        /\ \A k \in DOMAIN rules :
              rules[k] = {} \/ Logs[i].indexed[k] \in rules[k]}

Filter(event, rules) == [mode |-> "filter", logs |-> Selected(event, rules)]
Watch(event, rules) == [mode |-> "watch", logs |-> Selected(event, rules)]

FilterOrderCreated == Filter("OrderCreated", <<>>)
WatchOrderCreated == Watch("OrderCreated", <<>>)
FilterOrderUpdated(orderId) == Filter("OrderUpdated", <<orderId>>)
WatchOrderUpdated(orderId) == Watch("OrderUpdated", <<orderId>>)
FilterMatchCreated == Filter("MatchCreated", <<>>)
WatchMatchCreated == Watch("MatchCreated", <<>>)
FilterMatchUpdated(matchId) == Filter("MatchUpdated", <<matchId>>)
WatchMatchUpdated(matchId) == Watch("MatchUpdated", <<matchId>>)
FilterAdminChanged == Filter("AdminChanged", <<>>)
WatchAdminChanged == Watch("AdminChanged", <<>>)
FilterBeaconUpgraded(beacon) == Filter("BeaconUpgraded", <<beacon>>)
WatchBeaconUpgraded(beacon) == Watch("BeaconUpgraded", <<beacon>>)
FilterInitialized == Filter("Initialized", <<>>)
WatchInitialized == Watch("Initialized", <<>>)
FilterOwnershipTransferred(previousOwner, newOwner) ==
    Filter("OwnershipTransferred", <<previousOwner, newOwner>>)
WatchOwnershipTransferred(previousOwner, newOwner) ==
    Watch("OwnershipTransferred", <<previousOwner, newOwner>>)
FilterUpgraded(implementation) == Filter("Upgraded", <<implementation>>)
WatchUpgraded(implementation) == Watch("Upgraded", <<implementation>>)

Rules == SUBSET UNION {ToSet(Logs[i].indexed) : i \in 1..Len(Logs)}

PlainCalls ==
    {FilterOrderCreated, WatchOrderCreated,
     FilterMatchCreated, WatchMatchCreated,
     FilterAdminChanged, WatchAdminChanged,
     FilterInitialized, WatchInitialized}
CallsWith(r) ==
    {FilterOrderUpdated(r), WatchOrderUpdated(r),
     FilterMatchUpdated(r), WatchMatchUpdated(r),
     FilterBeaconUpgraded(r), WatchBeaconUpgraded(r),
     FilterUpgraded(r), WatchUpgraded(r)}
CallsWithTwo(r, q) ==
    {FilterOwnershipTransferred(r, q), WatchOwnershipTransferred(r, q)}

Calls ==
    PlainCalls
    \cup (UNION {CallsWith(r) : r \in Rules})
    \cup (UNION {CallsWithTwo(r, q) : r \in Rules, q \in Rules})

(* The node answers, or pushes, in the order of the chain.                 *)
InOrder(positions) ==
    {s \in [1..Cardinality(positions) -> positions] :
        \A i, j \in DOMAIN s : i < j => s[i] < s[j]}

(* FilterX has its answer, or WatchX its subscription, and the goroutine   *)
(* is started.                                                             *)
Init ==
    /\ \E call \in Calls : wanted \in InOrder(call.logs) /\ mode = call.mode
    /\ source = IF mode = "filter" THEN wanted ELSE <<>>
    /\ emitted = 0
    /\ inner = "live"
    /\ producer = "running"
    /\ held = 0
    /\ result = FALSE
    /\ unsubscribed = FALSE
    /\ quit = FALSE
    /\ errChan = FALSE
    /\ out = <<>>
    /\ consumer = "next"
    /\ done = FALSE
    /\ fail = FALSE
    /\ closer = "none"
    /\ got = <<>>

-----------------------------------------------------------------------------
(* The producer functions.                                                 *)

(* Mutant of FunctionReturns: the subscription below is left as it is.     *)
FunctionReturnsAtOnce(withError) ==
    producer' = "returned" /\ result' = withError

(* The function of a watch has deferred the Unsubscribe of the one below.  *)
FunctionReturns(withError) ==
    /\ producer' = IF mode = "watch" THEN "releasing" ELSE "returned"
    /\ result' = withError

(* FilterLogs: the next log found goes to the channel; then it is done.    *)
FilterSends ==
    /\ mode = "filter"
    /\ producer = "running"
    /\ IF source = <<>>
       THEN FunctionReturns(FALSE) /\ UNCHANGED <<source, out>>
       ELSE /\ Len(out) < OutSize
            /\ out' = Append(out, Head(source))
            /\ source' = Tail(source)
            /\ UNCHANGED <<producer, result>>
    /\ UNCHANGED <<wanted, mode, emitted, inner, held, subVars, userVars,
                   closer>>

(* WatchX: a log of the subscription below is unpacked ...                 *)
WatchTakes ==
    /\ mode = "watch"
    /\ producer = "running"
    /\ source # <<>>
    /\ held' = Head(source)
    /\ source' = Tail(source)
    /\ IF held' \in Malformed
       THEN FunctionReturns(TRUE)
       ELSE producer' = "forwarding" /\ UNCHANGED result
    /\ UNCHANGED <<wanted, mode, emitted, inner, subVars, out, userVars,
                   closer>>

(* Mutants of WatchForwards: the sink is taken to have room, and a log that*)
(* finds it full is left out.                                              *)
WatchForwardsOverfull ==
    /\ producer = "forwarding"
    /\ out' = Append(out, held)
    /\ producer' = "running"
    /\ UNCHANGED <<sourceVars, held, result, subVars, userVars, closer>>
WatchForwardsOrDrops ==
    /\ producer = "forwarding"
    /\ out' = IF Len(out) < OutSize THEN Append(out, held) ELSE out
    /\ producer' = "running"
    /\ UNCHANGED <<sourceVars, held, result, subVars, userVars, closer>>

(* ... and goes to the sink.                                               *)
WatchForwards ==
    /\ producer = "forwarding"
    /\ Len(out) < OutSize
    /\ out' = Append(out, held)
    /\ producer' = "running"
    /\ UNCHANGED <<sourceVars, held, result, subVars, userVars, closer>>

(* Both selects of WatchX listen to the subscription below, and return what*)
(* comes out of its error channel: nil when the client was closed.         *)
WatchEnds ==
    /\ producer \in {"running", "forwarding"}
    /\ inner \in {"failed", "closed"}
    /\ FunctionReturns(inner = "failed")
    /\ UNCHANGED <<sourceVars, held, subVars, out, userVars, closer>>

(* Mutant of Quits: the select around the sink does not listen to quit.    *)
QuitsWhenIdle ==
    /\ producer = "running"
    /\ quit
    /\ FunctionReturns(FALSE)
    /\ UNCHANGED <<sourceVars, held, subVars, out, userVars, closer>>

(* Every select of a producer listens to quit.                             *)
Quits ==
    /\ producer \in {"running", "forwarding"}
    /\ quit
    /\ FunctionReturns(FALSE)
    /\ UNCHANGED <<sourceVars, held, subVars, out, userVars, closer>>

(* The deferred Unsubscribe stops a subscription that has not ended, and   *)
(* waits for its end.                                                      *)
Unsubscribes ==
    /\ producer = "releasing"
    /\ inner = "live"
    /\ inner' = "stopping"
    /\ UNCHANGED <<wanted, mode, source, emitted, funcVars, subVars, out,
                   userVars, closer>>
Unsubscribed ==
    /\ producer = "releasing"
    /\ Released
    /\ producer' = "returned"
    /\ UNCHANGED <<sourceVars, held, result, subVars, out, userVars, closer>>

(* Mutant of Returns: the error of the producer is not passed on.          *)
ReturnsSilently ==
    /\ producer = "returned"
    /\ producer' = "closing"
    /\ unsubscribed' = TRUE
    /\ UNCHANGED <<sourceVars, held, result, quit, errChan, out, userVars,
                   closer>>

(* Mutant of ClosesErr: only an Unsubscribe closes the error channel.      *)
ClosesErrIfQuit ==
    /\ producer = "closing"
    /\ quit
    /\ producer' = "ended"
    /\ UNCHANGED <<sourceVars, held, result, subVars, out, userVars, closer>>

(* NewSubscription: the error is passed on unless the user unsubscribed,   *)
(* and the error channel is closed.                                        *)
Returns ==
    /\ producer = "returned"
    /\ producer' = "closing"
    /\ unsubscribed' = TRUE
    /\ errChan' = (errChan \/ (~unsubscribed /\ result))
    /\ UNCHANGED <<sourceVars, held, result, quit, out, userVars, closer>>
ClosesErr ==
    /\ producer = "closing"
    /\ producer' = "ended"
    /\ UNCHANGED <<sourceVars, held, result, subVars, out, userVars, closer>>

Producer ==
    \/ FilterSends \/ WatchTakes \/ WatchForwards \/ WatchEnds \/ Quits
    \/ Unsubscribes \/ Unsubscribed \/ Returns \/ ClosesErr

-----------------------------------------------------------------------------
(* The user of an iterator, in a loop of Next.                             *)

(* Next, with a log at hand: it is unpacked into it.Event.                 *)
NextLog ==
    /\ mode = "filter"
    /\ consumer = "next"
    /\ out # <<>>
    /\ out' = Tail(out)
    /\ IF Head(out) \in Malformed
       THEN fail' = TRUE /\ consumer' = "ended" /\ UNCHANGED got
       ELSE got' = Append(got, Head(out)) /\ UNCHANGED <<fail, consumer>>
    /\ UNCHANGED <<sourceVars, funcVars, subVars, done, closer>>

(* Mutant of NextDone: Next returns false when the error channel is closed.*)
NextDoneAtOnce ==
    /\ mode = "filter"
    /\ consumer = "next"
    /\ ~done
    /\ ErrClosed
    /\ done' = TRUE
    /\ consumer' = "ended"
    /\ UNCHANGED <<sourceVars, funcVars, subVars, out, fail, got, closer>>

(* Next, when the error channel is closed: what is left is delivered.      *)
NextDone ==
    /\ mode = "filter"
    /\ consumer = "next"
    /\ ~done
    /\ ErrClosed
    /\ done' = TRUE
    /\ UNCHANGED <<sourceVars, funcVars, subVars, out, consumer, fail, got,
                   closer>>
NextFalse ==
    /\ consumer = "next"
    /\ done
    /\ out = <<>>
    /\ consumer' = "ended"
    /\ UNCHANGED <<sourceVars, funcVars, subVars, out, done, fail, got, closer>>

(* The user of WatchX reads the sink and the error channel.                *)
SinkLog ==
    /\ mode = "watch"
    /\ consumer = "next"
    /\ out # <<>>
    /\ out' = Tail(out)
    /\ got' = Append(got, Head(out))
    /\ UNCHANGED <<sourceVars, funcVars, subVars, consumer, done, fail, closer>>
SinkEnds ==
    /\ mode = "watch"
    /\ consumer = "next"
    /\ errChan \/ ErrClosed
    /\ fail' = errChan
    /\ errChan' = FALSE
    /\ consumer' = "ended"
    /\ UNCHANGED <<sourceVars, funcVars, unsubscribed, quit, out, done, got,
                   closer>>

(* It may stop reading before the end.                                     *)
Leaves ==
    /\ consumer = "next"
    /\ consumer' = "left"
    /\ UNCHANGED <<sourceVars, funcVars, subVars, out, done, fail, got, closer>>

Consumer == NextLog \/ NextDone \/ NextFalse \/ SinkLog \/ SinkEnds

(* Close of an iterator is Unsubscribe of its subscription: it waits until *)
(* the producer has gone, unless it went by itself.                        *)
Close ==
    /\ closer = "none"
    /\ IF unsubscribed
       THEN closer' = "closed" /\ UNCHANGED <<unsubscribed, quit>>
       ELSE closer' = "waiting" /\ unsubscribed' = TRUE /\ quit' = TRUE
    /\ UNCHANGED <<sourceVars, funcVars, errChan, out, userVars>>
Closed ==
    /\ closer = "waiting"
    /\ ErrClosed
    /\ closer' = "closed"
    /\ UNCHANGED <<sourceVars, funcVars, subVars, out, userVars>>

(* The subscription below (see LogSubscription).                           *)
Pushed ==
    /\ mode = "watch"
    /\ inner = "live"
    /\ emitted < Len(wanted)
    /\ emitted' = emitted + 1
    /\ source' = Append(source, wanted[emitted'])
    /\ UNCHANGED <<wanted, mode, inner, funcVars, subVars, out, userVars,
                   closer>>
(* It ends with an error, or because the client was closed, which it       *)
(* reports as nil.                                                         *)
Breaks ==
    /\ mode = "watch"
    /\ inner = "live"
    /\ inner' \in {"failed", "closed"}
    /\ UNCHANGED <<wanted, mode, source, emitted, funcVars, subVars, out,
                   userVars, closer>>
(* Its loop has told the node and is gone.                                 *)
Stops ==
    /\ inner = "stopping"
    /\ inner' = "stopped"
    /\ UNCHANGED <<wanted, mode, source, emitted, funcVars, subVars, out,
                   userVars, closer>>

Next ==
    \/ Producer \/ Consumer \/ Leaves \/ Close \/ Closed
    \/ Pushed \/ Breaks \/ Stops

Spec == Init /\ [][Next]_vars

(* The goroutines run when they can; the subscription below stops, which   *)
(* is UnsubscribeReturns of LogSubscription.                               *)
FairSpec ==
    /\ Spec
    /\ WF_vars(Producer) /\ WF_vars(Consumer) /\ WF_vars(Closed)
    /\ WF_vars(Stops)

-----------------------------------------------------------------------------

TypeOK ==
    /\ source \in Seq(1..Len(Logs)) /\ wanted \in Seq(1..Len(Logs))
    /\ mode \in {"filter", "watch"}
    /\ inner \in {"live", "failed", "closed", "stopping", "stopped"}
    /\ emitted \in 0..Len(wanted)
    /\ producer \in {"running", "forwarding", "releasing", "returned",
                     "closing", "ended"}
    /\ held \in 0..Len(Logs)
    /\ {result, unsubscribed, quit, errChan, done, fail} \subseteq BOOLEAN
    /\ out \in Seq(1..Len(Logs)) /\ Len(out) <= OutSize
    /\ consumer \in {"next", "left", "ended"}
    /\ closer \in {"none", "waiting", "closed"}
    /\ got \in Seq(1..Len(Logs))

(* The user gets the wanted logs in the order of the chain, none twice and *)
(* none left out between two others.                                       *)
NoGap == IsPrefix(got, wanted)

(* An iterator that ends without an error, and was not closed, has given   *)
(* out every log that was found: the end of the producer may overtake the  *)
(* logs in the channel, and Next then empties it.                          *)
IteratorComplete ==
    mode = "filter" /\ consumer = "ended" /\ ~fail /\ closer = "none"
    => got = wanted

(* A watch that ends is understood by its user.  An error is that of the   *)
(* subscription below, or of a log that does not unpack; and unless someone*)
(* unsubscribed at that moment, the end is without one only if the client  *)
(* was closed: a failure is never lost between the two error channels.     *)
WatchTellsWhy ==
    mode = "watch" /\ consumer = "ended" =>
        /\ fail => inner = "failed" \/ held \in Malformed
        /\ ~fail /\ closer = "none" => inner = "closed"

(* When a watch has told its user anything of its end, or Unsubscribe may  *)
(* come back, the subscription below is gone: however the watch ends, the  *)
(* node pushes nothing more for it and no goroutine of it is left.         *)
WatchReleases == mode = "watch" /\ (errChan \/ ErrClosed) => Released

(* Close and Unsubscribe come back and leave no goroutine behind, their    *)
(* own or that of the subscription below, whether or not anyone reads the  *)
(* channel the producer is blocked on.                                     *)
CloseEnds ==
    closer # "none" ~>
        closer = "closed" /\ ErrClosed /\ (mode = "watch" => Released)

(* The user's loop ends when there is nothing more to come.                *)
LoopEnds ==
    mode = "filter" \/ inner # "live" ~> consumer \in {"left", "ended"}

=============================================================================
