-------------------------- MODULE LogSubscription --------------------------
(***************************************************************************)
(* One log subscription of the websocket mode, from the connection to the  *)
(* indexer: go-ethereum's rpc.ClientSubscription and its forwarding loop,  *)
(* between the client's dispatcher, which reads the connection, and run of *)
(* internal/service/indexer.go, which first backfills and then takes logs. *)
(*                                                                         *)
(* Three goroutines meet here.  A step is one of them between two points   *)
(* where it may block; a send and a receive on an unbuffered channel are   *)
(* one step of both.  The subscription is modelled from the moment it is   *)
(* created, and for one run of the indexer; nothing closes the client, so  *)
(* ErrClientQuit is left out.                                              *)
(***************************************************************************)
EXTENDS Integers, Sequences, SequencesExt

CONSTANTS
    ChannelSize, \* the capacity of newEvents, 1024 in the code
    MaxBuffer,   \* maxClientSubscriptionBuffer, 20000 in the code
    Malformed,   \* the logs that json.Unmarshal refuses
    MaxLogs      \* bound: how many logs the node pushes

ASSUME SubscriptionAssumption ==
    /\ ChannelSize \in Nat \ {0}
    /\ MaxBuffer \in Nat
    /\ Malformed \subseteq Nat
    /\ MaxLogs \in Nat

VARIABLES
    pushed,      \* how many logs the node has pushed, or tried to push
    wire,        \* logs the dispatcher has not read yet
    conn,        \* "up", "down", or "reported" to the subscriptions
    dispatcher,  \* "free", or blocked in "deliver" or "close"
    held,        \* the log it delivers
    forwarder,   \* how far ClientSubscription.run is
    buffer,      \* the local of forward
    unsubscribe, \* whether forward asked for eth_unsubscribe
    failure,     \* whether forward returned an error
    channel,     \* newEvents
    errChan,     \* sub.err: "empty" or "error"
    indexer,     \* how far indexer.run is
    received     \* history: the logs it has taken

connVars == <<pushed, wire, conn>>
dispatcherVars == <<dispatcher, held>>
forwarderVars == <<forwarder, buffer, unsubscribe, failure>>
indexerVars == <<indexer, received>>
vars == <<connVars, dispatcherVars, forwarderVars, channel, errChan,
          indexerVars>>

Forwarding == forwarder = "forward"
ForwardDone == forwarder \notin {"forward", "stopped"}
UnsubDone == forwarder = "ended"

(* newClientSubscription, when the node has confirmed the subscription.    *)
Init ==
    /\ pushed = 0
    /\ wire = <<>>
    /\ conn = "up"
    /\ dispatcher = "free"
    /\ held = 0
    /\ forwarder = "forward"
    /\ buffer = <<>>
    /\ unsubscribe = FALSE
    /\ failure = FALSE
    /\ channel = <<>>
    /\ errChan = "empty"
    /\ indexer = "backfill"
    /\ received = <<>>

-----------------------------------------------------------------------------
(* The connection and the dispatcher.                                      *)

Push ==
    /\ pushed < MaxLogs
    /\ pushed' = pushed + 1
    /\ wire' = IF conn = "up" THEN Append(wire, pushed') ELSE wire
    /\ UNCHANGED <<conn, dispatcherVars, forwarderVars, channel, errChan,
                   indexerVars>>

ConnectionBreaks ==
    /\ conn = "up"
    /\ conn' = "down"
    /\ wire' = <<>>
    /\ UNCHANGED <<pushed, dispatcherVars, forwarderVars, channel, errChan,
                   indexerVars>>

(* handleSubscriptionResult starts to deliver the next log.                *)
DispatchLog ==
    /\ dispatcher = "free"
    /\ wire # <<>>
    /\ held' = Head(wire)
    /\ wire' = Tail(wire)
    /\ dispatcher' = "deliver"
    /\ UNCHANGED <<pushed, conn, forwarderVars, channel, errChan, indexerVars>>

(* cancelAllRequests takes the subscription off its list and closes it.    *)
DispatchError ==
    /\ dispatcher = "free"
    /\ conn = "down"
    /\ conn' = "reported"
    /\ dispatcher' = "close"
    /\ UNCHANGED <<pushed, wire, held, forwarderVars, channel, errChan,
                   indexerVars>>

(* deliver and close give up when forwardDone is closed.                   *)
DispatcherReleased ==
    /\ dispatcher \in {"deliver", "close"}
    /\ ForwardDone
    /\ dispatcher' = "free"
    /\ UNCHANGED <<connVars, held, forwarderVars, channel, errChan,
                   indexerVars>>

-----------------------------------------------------------------------------
(* The forwarding loop.                                                    *)

(* forward returns.                                                        *)
Stop(onServer, withError) ==
    /\ forwarder' = "stopped"
    /\ unsubscribe' = onServer
    /\ failure' = withError
    /\ buffer' = <<>>

(* Mutant of Receive: a log that finds the buffer full is dropped.         *)
ReceiveDropping ==
    /\ Forwarding
    /\ dispatcher = "deliver"
    /\ dispatcher' = "free"
    /\ IF held \in Malformed
       THEN Stop(TRUE, TRUE)
       ELSE /\ buffer' = IF Len(buffer) = MaxBuffer THEN buffer
                                                    ELSE Append(buffer, held)
            /\ UNCHANGED <<forwarder, unsubscribe, failure>>
    /\ UNCHANGED <<connVars, held, channel, errChan, indexerVars>>

(* Mutant of Receive: the buffer grows by one log too many.                *)
ReceiveOneTooMany ==
    /\ Forwarding
    /\ dispatcher = "deliver"
    /\ dispatcher' = "free"
    /\ IF held \in Malformed \/ Len(buffer) > MaxBuffer
       THEN Stop(TRUE, TRUE)
       ELSE /\ buffer' = Append(buffer, held)
            /\ UNCHANGED <<forwarder, unsubscribe, failure>>
    /\ UNCHANGED <<connVars, held, channel, errChan, indexerVars>>

(* A log from the dispatcher; one that cannot be decoded, or that finds    *)
(* the buffer full, ends the loop.                                         *)
Receive ==
    /\ Forwarding
    /\ dispatcher = "deliver"
    /\ dispatcher' = "free"
    /\ IF held \in Malformed \/ Len(buffer) = MaxBuffer
       THEN Stop(TRUE, TRUE)
       ELSE /\ buffer' = Append(buffer, held)
            /\ UNCHANGED <<forwarder, unsubscribe, failure>>
    /\ UNCHANGED <<connVars, held, channel, errChan, indexerVars>>

(* Mutant of Forward: the last place of the channel is never used.         *)
ForwardBelowSize ==
    /\ Forwarding
    /\ buffer # <<>>
    /\ Len(channel) + 1 < ChannelSize
    /\ channel' = Append(channel, Head(buffer))
    /\ buffer' = Tail(buffer)
    /\ UNCHANGED <<connVars, dispatcherVars, forwarder, unsubscribe, failure,
                   errChan, indexerVars>>

(* The first log of the buffer goes to the indexer's channel.              *)
Forward ==
    /\ Forwarding
    /\ buffer # <<>>
    /\ Len(channel) < ChannelSize
    /\ channel' = Append(channel, Head(buffer))
    /\ buffer' = Tail(buffer)
    /\ UNCHANGED <<connVars, dispatcherVars, forwarder, unsubscribe, failure,
                   errChan, indexerVars>>

(* The dispatcher's close(err) reaches quit.                               *)
QuitByDispatcher ==
    /\ Forwarding
    /\ dispatcher = "close"
    /\ dispatcher' = "free"
    /\ Stop(FALSE, TRUE)
    /\ UNCHANGED <<connVars, held, channel, errChan, indexerVars>>

(* The errUnsubscribed of Unsubscribe reaches quit.                        *)
QuitByIndexer ==
    /\ Forwarding
    /\ indexer = "unsubscribe"
    /\ indexer' = "await"
    /\ Stop(TRUE, FALSE)
    /\ UNCHANGED <<connVars, dispatcherVars, channel, errChan, received>>

(* Mutant of CloseForwardDone: forwardDone is closed after the node was    *)
(* told to unsubscribe.                                                    *)
CloseForwardDoneLate ==
    /\ forwarder = "stopped"
    /\ unsubscribe => dispatcher = "free"
    /\ forwarder' = "ending"
    /\ UNCHANGED <<connVars, dispatcherVars, buffer, unsubscribe, failure,
                   channel, errChan, indexerVars>>

(* run closes forwardDone, which lets the dispatcher go.                   *)
CloseForwardDone ==
    /\ forwarder = "stopped"
    /\ forwarder' = IF unsubscribe THEN "calling" ELSE "ending"
    /\ UNCHANGED <<connVars, dispatcherVars, buffer, unsubscribe, failure,
                   channel, errChan, indexerVars>>

(* requestUnsubscribe is a call like any other: it needs the dispatcher to *)
(* write it and to read its answer (or to find the connection broken).     *)
RequestUnsubscribe ==
    /\ forwarder = "calling"
    /\ dispatcher = "free"
    /\ forwarder' = "ending"
    /\ UNCHANGED <<connVars, dispatcherVars, buffer, unsubscribe, failure,
                   channel, errChan, indexerVars>>

(* Mutant of SendError: a loop that asked to unsubscribe sends no error.   *)
SendErrorIfDropped ==
    /\ forwarder = "ending"
    /\ forwarder' = "sent"
    /\ errChan' = IF failure /\ ~unsubscribe THEN "error" ELSE errChan
    /\ UNCHANGED <<connVars, dispatcherVars, buffer, unsubscribe, failure,
                   channel, indexerVars>>

(* run sends the error, and closes unsubDone.                              *)
SendError ==
    /\ forwarder = "ending"
    /\ forwarder' = "sent"
    /\ errChan' = IF failure THEN "error" ELSE errChan
    /\ UNCHANGED <<connVars, dispatcherVars, buffer, unsubscribe, failure,
                   channel, indexerVars>>

CloseUnsubDone ==
    /\ forwarder = "sent"
    /\ forwarder' = "ended"
    /\ UNCHANGED <<connVars, dispatcherVars, buffer, unsubscribe, failure,
                   channel, errChan, indexerVars>>

-----------------------------------------------------------------------------
(* indexer.run.                                                            *)

(* handleUnprocessedEvents returns, or the handling of a log does; either  *)
(* may fail, and then the deferred Unsubscribe runs.                       *)
Work ==
    /\ indexer \in {"backfill", "handle"}
    /\ indexer' \in {"wait", "unsubscribe"}
    /\ UNCHANGED <<connVars, dispatcherVars, forwarderVars, channel, errChan,
                   received>>

(* The select of waitForEvents: with both ready, either is taken.          *)
TakeLog ==
    /\ indexer = "wait"
    /\ channel # <<>>
    /\ received' = Append(received, Head(channel))
    /\ channel' = Tail(channel)
    /\ indexer' = "handle"
    /\ UNCHANGED <<connVars, dispatcherVars, forwarderVars, errChan>>

TakeError ==
    /\ indexer = "wait"
    /\ errChan = "error"
    /\ errChan' = "empty"
    /\ indexer' = "unsubscribe"
    /\ UNCHANGED <<connVars, dispatcherVars, forwarderVars, channel, received>>

(* Unsubscribe returns, and run does.                                      *)
Unsubscribed ==
    /\ indexer \in {"unsubscribe", "await"}
    /\ UnsubDone
    /\ indexer' = "returned"
    /\ UNCHANGED <<connVars, dispatcherVars, forwarderVars, channel, errChan,
                   received>>

DispatcherStep == DispatchLog \/ DispatchError \/ DispatcherReleased
ForwarderStep ==
    \/ Receive \/ Forward \/ QuitByDispatcher \/ QuitByIndexer
    \/ CloseForwardDone \/ RequestUnsubscribe \/ SendError \/ CloseUnsubDone
IndexerStep == Work \/ TakeLog \/ TakeError \/ Unsubscribed

Next ==
    \/ Push \/ ConnectionBreaks
    \/ DispatcherStep \/ ForwarderStep \/ IndexerStep

Spec == Init /\ [][Next]_vars

(* Each goroutine runs when it can; the node answers eth_unsubscribe or    *)
(* the connection breaks.                                                  *)
FairSpec ==
    /\ Spec
    /\ WF_vars(DispatcherStep) /\ WF_vars(ForwarderStep) /\ WF_vars(IndexerStep)

-----------------------------------------------------------------------------

TypeOK ==
    /\ pushed \in 0..MaxLogs
    /\ wire \in Seq(1..pushed)
    /\ conn \in {"up", "down", "reported"}
    /\ dispatcher \in {"free", "deliver", "close"}
    /\ held \in 0..pushed
    /\ forwarder \in {"forward", "stopped", "calling", "ending", "sent",
                      "ended"}
    /\ buffer \in Seq(1..pushed) /\ Len(buffer) <= MaxBuffer
    /\ unsubscribe \in BOOLEAN /\ failure \in BOOLEAN
    /\ channel \in Seq(1..pushed) /\ Len(channel) <= ChannelSize
    /\ errChan \in {"empty", "error"}
    /\ indexer \in {"backfill", "wait", "handle", "unsubscribe", "await",
                    "returned"}
    /\ received \in Seq(1..pushed)

(* Unsubscribe comes back whatever the other two goroutines are doing, so  *)
(* the indexer's run ends and is tried again: the dispatcher may be        *)
(* blocked in deliver or close, the connection may break, the loop may     *)
(* have overflowed.                                                        *)
UnsubscribeReturns == indexer = "unsubscribe" ~> indexer = "returned"

(* A subscription that ended by itself, or whose connection is lost, is    *)
(* noticed: the indexer does not wait for ever for logs that will not come.*)
EndIsNoticed ==
    failure \/ conn # "up" ~> indexer \in {"unsubscribe", "await", "returned"}

(* A log that was pushed is taken in the end, unless the subscription or   *)
(* the indexer's run ends.                                                 *)
PushedIsTaken ==
    \A i \in 1..MaxLogs :
        pushed >= i ~> \/ Len(received) >= i
                       \/ ~Forwarding
                       \/ conn # "up"

(* The indexer may think of the subscription as an EventQueue: it gets the *)
(* logs in order, without a gap, up to the point where it broke.           *)
Gone == indexer \in {"unsubscribe", "await", "returned"}
Queue == INSTANCE EventQueue WITH
            emitted <- pushed,
            sub <- IF Gone THEN "off"
                   ELSE IF Forwarding THEN "live" ELSE "broken",
            queue <- IF Gone THEN {}
                     ELSE IF Forwarding THEN (Len(received) + 1)..pushed
                     ELSE ToSet(channel)

QueueSpec == Queue!Spec

=============================================================================
