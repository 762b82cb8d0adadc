------------------------- MODULE SubscriptionProofs -------------------------
(***************************************************************************)
(* The log subscription is an EventQueue, for every size of the channel    *)
(* and of the buffer, every set of malformed logs and any interleaving of  *)
(* its three goroutines.                                                   *)
(*                                                                         *)
(* The logs that are on their way stand in a line: the ones the indexer    *)
(* took, the ones in its channel, in the forwarding loop's buffer, in the  *)
(* dispatcher's hand and on the wire carry on from each other without a    *)
(* gap, up to the last one pushed while the connection is up.  When the    *)
(* loop stops, the line is cut behind the channel.                         *)
(***************************************************************************)
EXTENDS LogSubscription, SequenceTheorems, TLAPS

(* A sequence of the numbers that follow n.                                *)
Run(s, n) == \A i \in 1..Len(s) : s[i] = n + i

Sent == Len(received) + Len(channel)
Kept == Sent + Len(buffer)
Dispatched == Kept + (IF dispatcher = "deliver" THEN 1 ELSE 0)

Line ==
    /\ Run(received, 0)
    /\ Run(channel, Len(received))
    /\ Sent <= pushed

(* What is behind the channel while the loop forwards.                     *)
LineOfForward ==
    Forwarding =>
        /\ Run(buffer, Sent)
        /\ dispatcher = "deliver" => held = Kept + 1
        /\ Run(wire, Dispatched)
        /\ Dispatched + Len(wire) <= pushed

(* Nothing is lost before the connection breaks, and nothing is on the     *)
(* wire after it did.                                                      *)
WireOfConnection ==
    /\ conn # "up" => wire = <<>>
    /\ Forwarding /\ conn = "up" => Dispatched + Len(wire) = pushed

LineInv == Line /\ LineOfForward /\ WireOfConnection

(* The parts of TypeOK.                                                    *)
PlaceType ==
    /\ conn \in {"up", "down", "reported"}
    /\ dispatcher \in {"free", "deliver", "close"}
    /\ forwarder \in {"forward", "stopped", "calling", "ending", "sent",
                      "ended"}
    /\ errChan \in {"empty", "error"}
    /\ indexer \in {"backfill", "wait", "handle", "unsubscribe", "await",
                    "returned"}
FlagType == unsubscribe \in BOOLEAN /\ failure \in BOOLEAN
LogsType ==
    /\ pushed \in 0..MaxLogs
    /\ held \in 0..pushed
    /\ wire \in Seq(1..pushed)
    /\ buffer \in Seq(1..pushed) /\ Len(buffer) <= MaxBuffer
    /\ channel \in Seq(1..pushed) /\ Len(channel) <= ChannelSize
    /\ received \in Seq(1..pushed)

(* A log that is delivered is one that was pushed: TypeOK by itself is not *)
(* inductive.                                                              *)
HeldLog == dispatcher = "deliver" => held \in 1..pushed

-----------------------------------------------------------------------------

LEMMA TypeParts == TypeOK <=> PlaceType /\ FlagType /\ LogsType
BY Zenon DEF TypeOK, PlaceType, FlagType, LogsType

LEMMA Empty == \A n : Run(<<>>, n)
BY DEF Run

(* The next number goes behind a run.                                      *)
LEMMA RunAppend ==
    ASSUME NEW S, NEW s \in Seq(S), NEW n \in Nat, Run(s, n),
           NEW e \in S, e = n + Len(s) + 1
    PROVE  /\ Append(s, e) \in Seq(S)
           /\ Len(Append(s, e)) = Len(s) + 1
           /\ Run(Append(s, e), n)
<1>1. /\ Append(s, e) \in Seq(S)
      /\ Len(Append(s, e)) = Len(s) + 1
      /\ \A i \in 1..Len(s) : Append(s, e)[i] = s[i]
      /\ Append(s, e)[Len(s) + 1] = e
  BY AppendProperties
<1>2. Len(s) \in Nat
  BY LenProperties
<1>. QED
  BY <1>1, <1>2 DEF Run

(* The head of a run is its next number, and the tail goes on from there.  *)
LEMMA RunTail ==
    ASSUME NEW S, NEW s \in Seq(S), s # <<>>, NEW n \in Nat, Run(s, n)
    PROVE  /\ Tail(s) \in Seq(S)
           /\ Len(s) \in Nat \ {0}
           /\ Len(Tail(s)) = Len(s) - 1
           /\ Head(s) \in S
           /\ Head(s) = n + 1
           /\ Run(Tail(s), n + 1)
<1>1. /\ Tail(s) \in Seq(S)
      /\ Len(Tail(s)) = Len(s) - 1
      /\ \A i \in 1..Len(Tail(s)) : Tail(s)[i] = s[i + 1]
      /\ Head(s) = s[1]
  BY HeadTailProperties
<1>2. Len(s) \in Nat \ {0}
  BY EmptySeq
<1>3. Head(s) \in S /\ Head(s) = n + 1
  BY <1>1, <1>2, ElementOfSeq DEF Run
<1>4. Run(Tail(s), n + 1)
  <2>. SUFFICES ASSUME NEW i \in 1..Len(Tail(s)) PROVE Tail(s)[i] = n + 1 + i
    BY DEF Run
  <2>1. i + 1 \in 1..Len(s)
    BY <1>1, <1>2
  <2>. QED
    BY <1>1, <2>1 DEF Run
<1>. QED
  BY <1>1, <1>2, <1>3, <1>4

-----------------------------------------------------------------------------
(* The types.                                                              *)

LEMMA TypeInit == Init => TypeOK
<1>. SUFFICES ASSUME Init PROVE TypeOK
  OBVIOUS
<1>1. PlaceType
  BY DEF Init, PlaceType
<1>2. FlagType
  BY Zenon DEF Init, FlagType
<1>3. LogsType
  BY SubscriptionAssumption, EmptySeq DEF Init, LogsType
<1>. QED
  BY <1>1, <1>2, <1>3, TypeParts

LEMMA PlaceStep == PlaceType /\ [Next]_vars => PlaceType'
BY DEF PlaceType, Next, vars, connVars, dispatcherVars, forwarderVars,
       indexerVars, Push, ConnectionBreaks, DispatcherStep, ForwarderStep,
       IndexerStep, DispatchLog, DispatchError, DispatcherReleased, Receive,
       Forward, QuitByDispatcher, QuitByIndexer, CloseForwardDone,
       RequestUnsubscribe, SendError, CloseUnsubDone, Work, TakeLog,
       TakeError, Unsubscribed, Stop

(* forward sets its two results once, when it returns.                     *)
LEMMA FlagStep == FlagType /\ [Next]_vars => FlagType'
<1>. SUFFICES ASSUME FlagType, [Next]_vars PROVE FlagType'
  OBVIOUS
<1>1. \/ UNCHANGED <<unsubscribe, failure>>
      \/ \E a, b \in BOOLEAN : Stop(a, b)
  BY DEF Next, vars, connVars, dispatcherVars, forwarderVars,
       indexerVars, Push, ConnectionBreaks, DispatcherStep, ForwarderStep,
       IndexerStep, DispatchLog, DispatchError, DispatcherReleased, Receive,
       Forward, QuitByDispatcher, QuitByIndexer, CloseForwardDone,
       RequestUnsubscribe, SendError, CloseUnsubDone, Work, TakeLog,
       TakeError, Unsubscribed
<1>. QED
  BY <1>1, Zenon DEF FlagType, Stop

(* The other steps leave the logs alone.                                   *)
LogVars == <<pushed, held, wire, buffer, channel, received>>

LEMMA LogSteps ==
    ASSUME [Next]_vars
    PROVE  \/ Push \/ ConnectionBreaks \/ DispatchLog \/ Receive \/ Forward
           \/ QuitByDispatcher \/ QuitByIndexer \/ TakeLog
           \/ UNCHANGED LogVars
BY DEF Next, vars, connVars, dispatcherVars, forwarderVars,
       indexerVars, DispatcherStep, ForwarderStep,
       IndexerStep, DispatchError, DispatcherReleased, CloseForwardDone,
       RequestUnsubscribe, SendError, CloseUnsubDone, Work,
       TakeError, Unsubscribed, LogVars

LEMMA LogsStep == LogsType /\ HeldLog /\ [Next]_vars => LogsType'
<1>. SUFFICES ASSUME LogsType, HeldLog, [Next]_vars PROVE LogsType'
  OBVIOUS
<1>. USE DEF LogsType, connVars, dispatcherVars, forwarderVars, indexerVars
<1>. DEFINE Logs == 1..pushed
<1>0. /\ pushed \in Nat
      /\ Len(buffer) \in Nat /\ Len(channel) \in Nat
      /\ <<>> \in Seq(Logs) /\ Len(<<>>) = 0
      /\ MaxBuffer \in Nat /\ ChannelSize \in Nat
  BY SubscriptionAssumption, LenProperties, EmptySeq
<1>1. CASE Push
  <2>1. pushed' = pushed + 1 /\ pushed' \in 0..MaxLogs /\ held' \in 0..pushed'
    BY <1>0, <1>1, SubscriptionAssumption DEF Push
  <2>2. Logs \subseteq 1..pushed' /\ pushed' \in 1..pushed'
    BY <1>0, <2>1
  <2>3. \A s \in Seq(Logs) : s \in Seq(1..pushed')
    BY <2>2, SeqMonotonic
  <2>4. wire' \in Seq(1..pushed')
    BY <1>1, <2>2, <2>3, AppendProperties DEF Push
  <2>. QED
    BY <1>1, <2>1, <2>3, <2>4 DEF Push
<1>2. CASE ConnectionBreaks
  BY <1>0, <1>2 DEF ConnectionBreaks
<1>3. CASE DispatchLog
  <2>1. Head(wire) \in Logs /\ Tail(wire) \in Seq(Logs)
    BY <1>3, HeadTailProperties, EmptySeq, ElementOfSeq DEF DispatchLog
  <2>. QED
    BY <1>0, <1>3, <2>1 DEF DispatchLog
<1>4. CASE Receive
  <2>1. CASE Stop(TRUE, TRUE)
    BY <1>0, <1>4, <2>1 DEF Receive, Stop
  <2>2. CASE buffer' = Append(buffer, held) /\ Len(buffer) # MaxBuffer
    <3>1. held \in Logs
      BY <1>4 DEF Receive, HeldLog
    <3>2. /\ Append(buffer, held) \in Seq(Logs)
          /\ Len(Append(buffer, held)) = Len(buffer) + 1
      BY <3>1, AppendProperties
    <3>. QED
      BY <1>0, <1>4, <2>2, <3>2 DEF Receive
  <2>. QED
    BY <1>4, <2>1, <2>2 DEF Receive
<1>5. CASE Forward
  <2>1. /\ Head(buffer) \in Logs /\ Tail(buffer) \in Seq(Logs)
        /\ Len(Tail(buffer)) = Len(buffer) - 1
    BY <1>5, HeadTailProperties, EmptySeq, ElementOfSeq DEF Forward
  <2>2. /\ Append(channel, Head(buffer)) \in Seq(Logs)
        /\ Len(Append(channel, Head(buffer))) = Len(channel) + 1
    BY <2>1, AppendProperties
  <2>. QED
    BY <1>0, <1>5, <2>1, <2>2 DEF Forward
<1>6. CASE QuitByDispatcher
  BY <1>0, <1>6 DEF QuitByDispatcher, Stop
<1>7. CASE QuitByIndexer
  BY <1>0, <1>7 DEF QuitByIndexer, Stop
<1>8. CASE TakeLog
  <2>1. /\ Head(channel) \in Logs /\ Tail(channel) \in Seq(Logs)
        /\ Len(Tail(channel)) = Len(channel) - 1
    BY <1>8, HeadTailProperties, EmptySeq, ElementOfSeq DEF TakeLog
  <2>2. Append(received, Head(channel)) \in Seq(Logs)
    BY <2>1, AppendProperties
  <2>. QED
    BY <1>0, <1>8, <2>1, <2>2 DEF TakeLog
<1>9. CASE UNCHANGED LogVars
  BY <1>9 DEF LogVars
<1>. QED
  BY <1>1, <1>2, <1>3, <1>4, <1>5, <1>6, <1>7, <1>8, <1>9, LogSteps

LEMMA HeldStep == LogsType /\ HeldLog /\ [Next]_vars => HeldLog'
<1>. SUFFICES ASSUME LogsType, HeldLog, [Next]_vars PROVE HeldLog'
  OBVIOUS
<1>1. CASE DispatchLog
  <2>1. Head(wire) \in 1..pushed
    BY <1>1, HeadTailProperties, EmptySeq, ElementOfSeq DEF DispatchLog, LogsType
  <2>. QED
    BY <1>1, <2>1 DEF DispatchLog, HeldLog
<1>2. CASE Push
  BY <1>2 DEF Push, HeldLog, LogsType, dispatcherVars
<1>3. CASE ~DispatchLog /\ ~Push
  <2>1. /\ dispatcher' = "deliver" => dispatcher = "deliver" /\ held' = held
        /\ pushed' = pushed
    BY <1>3 DEF Next, vars, connVars, dispatcherVars, forwarderVars,
       indexerVars, ConnectionBreaks, DispatcherStep, ForwarderStep,
       IndexerStep, DispatchError, DispatcherReleased, Receive, Forward,
       QuitByDispatcher, QuitByIndexer, CloseForwardDone,
       RequestUnsubscribe, SendError, CloseUnsubDone, Work, TakeLog,
       TakeError, Unsubscribed
  <2>. QED
    BY <2>1 DEF HeldLog
<1>. QED
  BY <1>1, <1>2, <1>3

TypeInv == TypeOK /\ HeldLog

LEMMA TypeInvInit == Init => TypeInv
BY TypeInit DEF TypeInv, HeldLog, Init

LEMMA TypeInvStep == TypeInv /\ [Next]_vars => TypeInv'
<1>. SUFFICES ASSUME TypeInv, [Next]_vars PROVE TypeInv'
  OBVIOUS
<1>1. PlaceType' /\ FlagType' /\ LogsType' /\ HeldLog'
  BY TypeParts, PlaceStep, FlagStep, LogsStep, HeldStep DEF TypeInv
<1>. QED
  BY <1>1, Zenon DEF TypeInv, TypeOK, PlaceType, FlagType, LogsType

(* The channel never holds more than its capacity nor the buffer more than *)
(* its limit, and only pushed logs are anywhere on the way, whatever the   *)
(* order in which the goroutines run (ClientSubscription.forward).         *)
THEOREM SubscriptionTypeCorrect == Spec => []TypeOK
<1>1. TypeInv => TypeOK
  BY DEF TypeInv
<1>. QED
  BY <1>1, TypeInvInit, TypeInvStep, PTL DEF Spec

-----------------------------------------------------------------------------
(* The line.                                                               *)

LEMMA LineInit == Init => LineInv
BY Empty, EmptySeq
   DEF Init, LineInv, Line, LineOfForward, WireOfConnection, Sent, Kept,
       Dispatched

LEMMA Lengths ==
    ASSUME TypeInv
    PROVE  /\ pushed \in Nat
           /\ Len(received) \in Nat /\ Len(channel) \in Nat
           /\ Len(buffer) \in Nat /\ Len(wire) \in Nat
           /\ Sent \in Nat /\ Kept \in Nat /\ Dispatched \in Nat
<1>1. LogsType
  BY TypeParts DEF TypeInv
<1>2. /\ pushed \in Nat
      /\ Len(received) \in Nat /\ Len(channel) \in Nat
      /\ Len(buffer) \in Nat /\ Len(wire) \in Nat
  BY <1>1, LenProperties, SubscriptionAssumption DEF LogsType
<1>. QED
  BY <1>2 DEF Sent, Kept, Dispatched

(* When the loop stops the line is cut behind the channel.                 *)
LEMMA StopKeepsLine ==
    ASSUME LineInv, forwarder' = "stopped", UNCHANGED <<connVars, channel, received>>
    PROVE  LineInv'
BY DEF LineInv, Line, LineOfForward, WireOfConnection, Forwarding, connVars,
       Sent

LEMMA PushKeepsLine == TypeInv /\ LineInv /\ Push => LineInv'
<1>. SUFFICES ASSUME TypeInv, LineInv, Push PROVE LineInv'
  OBVIOUS
<1>1. /\ pushed' = pushed + 1
      /\ wire' = IF conn = "up" THEN Append(wire, pushed + 1) ELSE wire
      /\ UNCHANGED conn /\ UNCHANGED dispatcher /\ UNCHANGED held
      /\ UNCHANGED forwarder /\ UNCHANGED buffer
      /\ UNCHANGED channel /\ UNCHANGED received
  BY DEF Push, dispatcherVars, forwarderVars, indexerVars
<1>2. Line'
  BY <1>1, Lengths DEF LineInv, Line, Sent
<1>3. CASE conn = "up" /\ Forwarding
  <2>1. Run(wire, Dispatched) /\ pushed = Dispatched + Len(wire)
    BY <1>3 DEF LineInv, LineOfForward, WireOfConnection
  <2>2. wire \in Seq(Nat)
    BY TypeParts, SeqMonotonic, Lengths DEF TypeInv, LogsType
  <2>3. Len(wire') = Len(wire) + 1 /\ Run(wire', Dispatched)
    BY <1>1, <1>3, <2>1, <2>2, Lengths, RunAppend
  <2>. QED
    BY <1>1, <1>2, <1>3, <2>1, <2>3, Lengths
       DEF LineInv, LineOfForward, WireOfConnection, Forwarding, Sent, Kept,
           Dispatched
<1>4. CASE conn # "up" /\ Forwarding
  <2>1. wire' = wire /\ Sent' = Sent /\ Kept' = Kept /\ Dispatched' = Dispatched
    BY <1>1, <1>4 DEF Sent, Kept, Dispatched
  <2>. QED
    BY <1>1, <1>2, <1>4, <2>1, Lengths
       DEF LineInv, LineOfForward, WireOfConnection, Forwarding
<1>5. CASE ~Forwarding
  BY <1>1, <1>2, <1>5
     DEF LineInv, LineOfForward, WireOfConnection, Forwarding
<1>. QED
  BY <1>3, <1>4, <1>5

LEMMA DispatchKeepsLine == TypeInv /\ LineInv /\ DispatchLog => LineInv'
<1>. SUFFICES ASSUME TypeInv, LineInv, DispatchLog PROVE LineInv'
  OBVIOUS
<1>1. /\ dispatcher = "free" /\ dispatcher' = "deliver"
      /\ wire # <<>> /\ held' = Head(wire) /\ wire' = Tail(wire)
      /\ UNCHANGED pushed /\ UNCHANGED conn /\ UNCHANGED forwarder
      /\ UNCHANGED buffer /\ UNCHANGED channel /\ UNCHANGED received
  BY DEF DispatchLog, forwarderVars, indexerVars
<1>2. conn = "up"
  BY <1>1 DEF LineInv, WireOfConnection
<1>3. CASE Forwarding
  <2>1. Run(wire, Kept) /\ Dispatched = Kept
    BY <1>1, <1>3, Lengths DEF LineInv, LineOfForward, Dispatched
  <2>2. wire \in Seq(Nat)
    BY TypeParts, SeqMonotonic, Lengths DEF TypeInv, LogsType
  <2>3. /\ held' = Kept + 1 /\ Len(wire') = Len(wire) - 1
        /\ Run(wire', Kept + 1)
    BY <1>1, <2>1, <2>2, Lengths, RunTail
  <2>4. Kept' = Kept /\ Dispatched' = Kept + 1 /\ Sent' = Sent
    BY <1>1 DEF Kept, Sent, Dispatched
  <2>. QED
    BY <1>1, <1>2, <1>3, <2>1, <2>3, <2>4, Lengths
       DEF LineInv, Line, LineOfForward, WireOfConnection, Forwarding
<1>4. CASE ~Forwarding
  BY <1>1, <1>2, <1>4
     DEF LineInv, Line, LineOfForward, WireOfConnection, Forwarding, Sent
<1>. QED
  BY <1>3, <1>4

LEMMA ReceiveKeepsLine == TypeInv /\ LineInv /\ Receive => LineInv'
<1>. SUFFICES ASSUME TypeInv, LineInv, Receive PROVE LineInv'
  OBVIOUS
<1>1. CASE Stop(TRUE, TRUE)
  BY <1>1, StopKeepsLine DEF Receive, Stop, indexerVars
<1>2. CASE buffer' = Append(buffer, held) /\ UNCHANGED forwarder
  <2>1. /\ Forwarding /\ dispatcher = "deliver" /\ dispatcher' = "free"
        /\ UNCHANGED pushed /\ UNCHANGED conn /\ UNCHANGED wire
        /\ UNCHANGED channel /\ UNCHANGED received
    BY DEF Receive, connVars, indexerVars
  <2>2. Run(buffer, Sent) /\ held = Kept + 1 /\ Dispatched = Kept + 1
    BY <2>1, Lengths DEF LineInv, LineOfForward, Dispatched
  <2>3. buffer \in Seq(Nat)
    BY TypeParts, SeqMonotonic, Lengths DEF TypeInv, LogsType
  <2>4. Len(buffer') = Len(buffer) + 1 /\ Run(buffer', Sent)
    BY <1>2, <2>2, <2>3, Lengths, RunAppend DEF Kept
  <2>5. Sent' = Sent /\ Kept' = Kept + 1 /\ Dispatched' = Dispatched
    BY <2>1, <2>2, <2>4, Lengths DEF Sent, Kept, Dispatched
  <2>. QED
    BY <1>2, <2>1, <2>4, <2>5
       DEF LineInv, Line, LineOfForward, WireOfConnection, Forwarding
<1>. QED
  BY <1>1, <1>2 DEF Receive

LEMMA ForwardKeepsLine == TypeInv /\ LineInv /\ Forward => LineInv'
<1>. SUFFICES ASSUME TypeInv, LineInv, Forward PROVE LineInv'
  OBVIOUS
<1>1. /\ Forwarding /\ buffer # <<>>
      /\ channel' = Append(channel, Head(buffer)) /\ buffer' = Tail(buffer)
      /\ UNCHANGED pushed /\ UNCHANGED conn /\ UNCHANGED wire
      /\ UNCHANGED dispatcher /\ UNCHANGED held /\ UNCHANGED forwarder
      /\ UNCHANGED received
  BY DEF Forward, connVars, dispatcherVars, indexerVars
<1>2. buffer \in Seq(Nat) /\ channel \in Seq(Nat)
  BY TypeParts, SeqMonotonic, Lengths DEF TypeInv, LogsType
<1>3. Run(buffer, Sent)
  BY <1>1 DEF LineInv, LineOfForward
<1>4. /\ Head(buffer) = Sent + 1 /\ Len(buffer') = Len(buffer) - 1
      /\ Run(buffer', Sent + 1) /\ Len(buffer) >= 1
  BY <1>1, <1>2, <1>3, Lengths, RunTail
<1>5. Len(channel') = Len(channel) + 1 /\ Run(channel', Len(received))
  <2>1. Sent + 1 \in Nat /\ Sent + 1 = Len(received) + Len(channel) + 1
    BY Lengths DEF Sent
  <2>2. Run(channel, Len(received))
    BY DEF LineInv, Line
  <2>. QED
    BY <1>1, <1>2, <1>4, <2>1, <2>2, Lengths, RunAppend
<1>6. Sent' = Sent + 1 /\ Kept' = Kept /\ Dispatched' = Dispatched
  BY <1>1, <1>4, <1>5, Lengths DEF Sent, Kept, Dispatched
<1>7. Sent + 1 <= pushed
  <2>1. Dispatched + Len(wire) <= pushed
    BY <1>1 DEF LineInv, LineOfForward
  <2>2. Dispatched >= Kept /\ Kept \in Nat
    BY Lengths DEF Kept, Sent, Dispatched
  <2>3. Kept >= Sent + 1 /\ Sent \in Nat
    BY <1>4, Lengths DEF Kept, Sent
  <2>. QED
    BY <2>1, <2>2, <2>3, Lengths DEF Dispatched
<1>8. Forwarding' /\ Run(received', 0)
  BY <1>1 DEF Forwarding, LineInv, Line
<1>9. Line'
  BY <1>1, <1>5, <1>6, <1>7, <1>8 DEF Line
<1>10. LineOfForward'
  BY <1>1, <1>4, <1>6 DEF LineInv, LineOfForward
<1>11. WireOfConnection'
  BY <1>1, <1>6 DEF LineInv, WireOfConnection
<1>. QED
  BY <1>9, <1>10, <1>11 DEF LineInv

LEMMA TakeKeepsLine == TypeInv /\ LineInv /\ TakeLog => LineInv'
<1>. SUFFICES ASSUME TypeInv, LineInv, TakeLog PROVE LineInv'
  OBVIOUS
<1>1. /\ channel # <<>> /\ channel' = Tail(channel)
      /\ received' = Append(received, Head(channel))
      /\ UNCHANGED pushed /\ UNCHANGED conn /\ UNCHANGED wire
      /\ UNCHANGED dispatcher /\ UNCHANGED held /\ UNCHANGED forwarder
      /\ UNCHANGED buffer
  BY DEF TakeLog, connVars, dispatcherVars, forwarderVars
<1>2. received \in Seq(Nat) /\ channel \in Seq(Nat)
  BY TypeParts, SeqMonotonic, Lengths DEF TypeInv, LogsType
<1>3. Run(channel, Len(received)) /\ Run(received, 0)
  BY DEF LineInv, Line
<1>4. /\ Head(channel) = Len(received) + 1
      /\ Len(channel') = Len(channel) - 1
      /\ Run(channel', Len(received) + 1)
  BY <1>1, <1>2, <1>3, Lengths, RunTail
<1>5. Len(received') = Len(received) + 1 /\ Run(received', 0)
  <2>1. Len(received) + 1 \in Nat /\ Len(received) + 1 = 0 + Len(received) + 1
    BY Lengths
  <2>. QED
    BY <1>1, <1>2, <1>3, <1>4, <2>1, RunAppend
<1>6. Sent' = Sent /\ Kept' = Kept /\ Dispatched' = Dispatched
  BY <1>1, <1>4, <1>5, Lengths DEF Sent, Kept, Dispatched
<1>. QED
  BY <1>1, <1>4, <1>5, <1>6
     DEF LineInv, Line, LineOfForward, WireOfConnection, Forwarding

(* A break empties the wire; a delivery that is given up, and the steps    *)
(* after forward returned, find the loop stopped.                          *)
LEMMA LineStep == TypeInv /\ LineInv /\ [Next]_vars => LineInv'
<1>. SUFFICES ASSUME TypeInv, LineInv, [Next]_vars PROVE LineInv'
  OBVIOUS
<1>1. CASE Push
  BY <1>1, PushKeepsLine
<1>2. CASE ConnectionBreaks
  <2>1. /\ conn = "up" /\ conn' = "down" /\ wire' = <<>>
        /\ UNCHANGED pushed /\ UNCHANGED dispatcher /\ UNCHANGED held
        /\ UNCHANGED forwarder /\ UNCHANGED buffer /\ UNCHANGED channel
        /\ UNCHANGED received
    BY <1>2 DEF ConnectionBreaks, dispatcherVars, forwarderVars, indexerVars
  <2>2. Sent' = Sent /\ Kept' = Kept /\ Dispatched' = Dispatched
    BY <2>1 DEF Sent, Kept, Dispatched
  <2>3. Len(wire') = 0 /\ Run(wire', Dispatched)
    BY <2>1, Empty
  <2>4. Forwarding => Dispatched <= pushed
    BY Lengths DEF LineInv, LineOfForward
  <2>. QED
    BY <2>1, <2>2, <2>3, <2>4, Lengths
       DEF LineInv, Line, LineOfForward, WireOfConnection, Forwarding
<1>3. CASE DispatchLog
  BY <1>3, DispatchKeepsLine
<1>4. CASE DispatchError
  BY <1>4 DEF DispatchError, forwarderVars, indexerVars, LineInv, Line,
              LineOfForward, WireOfConnection, Forwarding, Sent, Kept,
              Dispatched
<1>5. CASE DispatcherReleased
  BY <1>5 DEF DispatcherReleased, ForwardDone, connVars, forwarderVars,
              indexerVars, LineInv, Line, LineOfForward, WireOfConnection,
              Forwarding, Sent
<1>6. CASE Receive
  BY <1>6, ReceiveKeepsLine
<1>7. CASE Forward
  BY <1>7, ForwardKeepsLine
<1>8. CASE QuitByDispatcher \/ QuitByIndexer
  BY <1>8, StopKeepsLine DEF QuitByDispatcher, QuitByIndexer, Stop, indexerVars
<1>9. CASE TakeLog
  BY <1>9, TakeKeepsLine
<1>10. CASE /\ UNCHANGED LogVars /\ UNCHANGED conn /\ UNCHANGED dispatcher
            /\ ~Forwarding' \/ UNCHANGED forwarder
  BY <1>10 DEF LogVars, LineInv, Line, LineOfForward, WireOfConnection,
               Forwarding, Sent, Kept, Dispatched
<1>11. CASE CloseForwardDone \/ RequestUnsubscribe \/ SendError \/ CloseUnsubDone
  BY <1>10, <1>11
     DEF CloseForwardDone, RequestUnsubscribe, SendError, CloseUnsubDone,
         LogVars, connVars, dispatcherVars, indexerVars, Forwarding
<1>12. CASE Work \/ TakeError \/ Unsubscribed
  BY <1>10, <1>12
     DEF Work, TakeError, Unsubscribed, LogVars, connVars, dispatcherVars,
         forwarderVars
<1>13. CASE UNCHANGED vars
  BY <1>10, <1>13
     DEF vars, LogVars, connVars, dispatcherVars, forwarderVars, indexerVars
<1>. QED
  BY <1>1, <1>2, <1>3, <1>4, <1>5, <1>6, <1>7, <1>8, <1>9, <1>11, <1>12, <1>13
     DEF Next, DispatcherStep, ForwarderStep, IndexerStep

-----------------------------------------------------------------------------
(* The refinement.  Queue's three variables, named.                        *)

QSub == IF Gone THEN "off" ELSE IF Forwarding THEN "live" ELSE "broken"
QQueue == IF Gone THEN {}
          ELSE IF Forwarding THEN (Len(received) + 1)..pushed
          ELSE ToSet(channel)

(* The elements of a run are the numbers it goes through.                  *)
LEMMA RunIsInterval ==
    ASSUME NEW s \in Seq(Nat), NEW n \in Nat, Run(s, n)
    PROVE  ToSet(s) = (n + 1)..(n + Len(s))
<1>1. DOMAIN s = 1..Len(s) /\ Len(s) \in Nat
  BY LenProperties
<1>2. ToSet(s) = {s[i] : i \in 1..Len(s)}
  BY <1>1 DEF ToSet
<1>3. ASSUME NEW j \in (n + 1)..(n + Len(s))
      PROVE  \E i \in 1..Len(s) : s[i] = j
  <2>1. j - n \in 1..Len(s) /\ n + (j - n) = j
    BY <1>1
  <2>. QED
    BY <2>1 DEF Run
<1>4. ASSUME NEW i \in 1..Len(s) PROVE s[i] \in (n + 1)..(n + Len(s))
  BY <1>1 DEF Run
<1>. QED
  BY <1>2, <1>3, <1>4

LEMMA ChannelIsInterval ==
    TypeInv /\ LineInv => ToSet(channel) = (Len(received) + 1)..Sent
<1>. SUFFICES ASSUME TypeInv, LineInv
              PROVE  ToSet(channel) = (Len(received) + 1)..Sent
  OBVIOUS
<1>1. channel \in Seq(Nat) /\ Run(channel, Len(received))
  BY TypeParts, SeqMonotonic, Lengths
     DEF TypeInv, LogsType, LineInv, Line
<1>. QED
  BY <1>1, Lengths, RunIsInterval DEF Sent

LEMMA QueueInit == Init => Queue!Init
BY EmptySeq DEF Init, Queue!Init, Gone, Forwarding

(* A log that is pushed is emitted.                                        *)
LEMMA PushEmits == TypeInv /\ LineInv /\ Push => Queue!Emit
<1>. SUFFICES ASSUME TypeInv, LineInv, Push PROVE Queue!Emit
  OBVIOUS
<1>1. /\ pushed' = pushed + 1 /\ UNCHANGED forwarder /\ UNCHANGED channel
      /\ UNCHANGED indexer /\ UNCHANGED received
  BY DEF Push, forwarderVars, indexerVars
<1>2. pushed' \in Nat /\ pushed' > pushed
  BY <1>1, Lengths
<1>3. QSub' = QSub
  BY <1>1 DEF QSub, Gone, Forwarding
<1>4. QQueue' = IF QSub = "live" THEN QQueue \cup (pushed + 1)..pushed'
                                 ELSE QQueue
  <2>1. CASE QSub = "live"
    <3>1. ~Gone /\ Forwarding /\ ~Gone' /\ Forwarding'
      BY <1>1, <2>1 DEF QSub, Gone, Forwarding
    <3>2. Len(received) <= pushed
      BY Lengths DEF LineInv, Line, Sent
    <3>3. QQueue = (Len(received) + 1)..pushed
      BY <3>1 DEF QQueue
    <3>4. QQueue' = (Len(received) + 1)..(pushed + 1)
      BY <1>1, <3>1 DEF QQueue
    <3>. QED
      BY <1>1, <2>1, <3>2, <3>3, <3>4, Lengths
  <2>2. CASE QSub # "live"
    BY <1>1, <2>2 DEF QSub, QQueue, Gone, Forwarding
  <2>. QED
    BY <2>1, <2>2
<1>. QED
  BY <1>2, <1>3, <1>4 DEF Queue!Emit, QSub, QQueue

(* The log the indexer takes is the first one the queue holds.             *)
LEMMA TakeTakes == TypeInv /\ LineInv /\ TakeLog => Queue!Take
<1>. SUFFICES ASSUME TypeInv, LineInv, TakeLog PROVE Queue!Take
  OBVIOUS
<1>1. /\ indexer = "wait" /\ indexer' = "handle" /\ channel # <<>>
      /\ received' = Append(received, Head(channel))
      /\ UNCHANGED pushed /\ UNCHANGED forwarder
  BY DEF TakeLog, connVars, forwarderVars
<1>2. ~Gone /\ ~Gone' /\ Forwarding' = Forwarding /\ QSub' = QSub
  BY <1>1 DEF Gone, QSub, Forwarding
<1>3. /\ Len(received') = Len(received) + 1 /\ Sent' = Sent
      /\ Len(channel) >= 1 /\ channel' \in Seq(Nat)
  <2>1. received \in Seq(Nat) /\ channel \in Seq(Nat)
    BY TypeParts, SeqMonotonic, Lengths DEF TypeInv, LogsType
  <2>2. /\ Len(channel) >= 1 /\ Head(channel) \in Nat
        /\ Len(Tail(channel)) = Len(channel) - 1
    BY <1>1, <2>1, EmptySeq, HeadTailProperties
  <2>3. Len(received') = Len(received) + 1
    BY <1>1, <2>1, <2>2, AppendProperties
  <2>. QED
    BY <2>1, <2>2, <2>3, Lengths, HeadTailProperties DEF TakeLog, Sent
<1>4. Run(channel', Len(received'))
  BY TakeKeepsLine DEF LineInv, Line
<1>5. Len(received) + 1 \in QQueue /\ \A j \in QQueue : Len(received) + 1 <= j
  <2>1. QQueue \in {(Len(received) + 1)..pushed, (Len(received) + 1)..Sent}
    BY <1>2, ChannelIsInterval DEF QQueue
  <2>2. Len(received) + 1 <= Sent /\ Sent <= pushed
    BY <1>3, Lengths DEF LineInv, Line, Sent
  <2>. QED
    BY <2>1, <2>2, Lengths
<1>6. QQueue' = QQueue \ {Len(received) + 1}
  <2>1. CASE Forwarding
    <3>1. /\ QQueue = (Len(received) + 1)..pushed
          /\ QQueue' = (Len(received) + 2)..pushed
      BY <1>1, <1>2, <1>3, <2>1, Lengths DEF QQueue
    <3>. QED
      BY <3>1, Lengths
  <2>2. CASE ~Forwarding
    <3>1. /\ QQueue = (Len(received) + 1)..Sent
          /\ QQueue' = (Len(received) + 2)..Sent
      <4>1. ToSet(channel') = (Len(received') + 1)..Sent'
        BY <1>3, <1>4, Lengths, RunIsInterval DEF Sent
      <4>2. Len(received') + 1 = Len(received) + 2
        BY <1>3, Lengths
      <4>. QED
        BY <1>2, <1>3, <2>2, <4>1, <4>2, ChannelIsInterval DEF QQueue
    <3>. QED
      BY <3>1, Lengths
  <2>. QED
    BY <2>1, <2>2
<1>. QED
  BY <1>1, <1>2, <1>5, <1>6 DEF Queue!Take, QSub, QQueue

(* When forward returns, the queue keeps what its channel holds.           *)
LEMMA StopBreaks ==
    ASSUME TypeInv, LineInv, Forwarding, ~Gone, forwarder' = "stopped",
           UNCHANGED pushed, UNCHANGED channel, UNCHANGED received,
           UNCHANGED indexer
    PROVE  Queue!Break
<1>1. ~Gone' /\ QSub = "live" /\ QSub' = "broken"
  BY DEF Gone, Forwarding, QSub
<1>2. Sent \in 0..pushed
  BY Lengths DEF LineInv, Line
<1>3. QQueue = (Len(received) + 1)..pushed
  BY DEF QQueue
<1>4. QQueue' = (Len(received) + 1)..Sent
  BY <1>1, ChannelIsInterval DEF QQueue, Forwarding
<1>5. QQueue' = {i \in QQueue : i <= Sent}
  BY <1>2, <1>3, <1>4, Lengths
<1>. QED
  BY <1>1, <1>2, <1>5 DEF Queue!Break, QSub, QQueue

(* An indexer that is gone stays gone, and the queue it closed does not    *)
(* change but for what the chain emits.                                    *)
LEMMA GoneStutters ==
    ASSUME Gone, Gone', UNCHANGED pushed
    PROVE  UNCHANGED Queue!queueVars
BY DEF Queue!queueVars

LEMMA GoesCloses ==
    ASSUME Gone', UNCHANGED pushed
    PROVE  Queue!Close
BY DEF Queue!Close

(* What happens between the goroutines while the indexer has nothing of it *)
(* changes nothing of the queue.                                           *)
LEMMA InsideStutters ==
    ASSUME UNCHANGED pushed, UNCHANGED received, UNCHANGED channel,
           (Forwarding /\ Forwarding') \/ (~Forwarding /\ ~Forwarding'),
           (Gone /\ Gone') \/ (~Gone /\ ~Gone')
    PROVE  UNCHANGED Queue!queueVars
<1>1. CASE Gone /\ Gone'
  BY <1>1, GoneStutters
<1>2. CASE ~Gone /\ ~Gone'
  BY <1>2 DEF Queue!queueVars
<1>. QED
  BY <1>1, <1>2

LEMMA QueueStep ==
    TypeInv /\ LineInv /\ [Next]_vars => [Queue!Next]_(Queue!queueVars)
<1>. SUFFICES ASSUME TypeInv, LineInv, [Next]_vars
              PROVE  Queue!Next \/ UNCHANGED Queue!queueVars
  OBVIOUS
<1>. USE DEF Queue!Next
<1>1. CASE Push
  BY <1>1, PushEmits
<1>2. CASE TakeLog
  BY <1>2, TakeTakes
<1>3. CASE Forward
  <2>1. /\ Forwarding /\ UNCHANGED pushed /\ UNCHANGED received
        /\ UNCHANGED forwarder /\ UNCHANGED indexer
    BY <1>3 DEF Forward, connVars, indexerVars
  <2>. QED
    BY <2>1 DEF Queue!queueVars, Forwarding, Gone
<1>4. CASE Receive \/ QuitByDispatcher
  <2>1. /\ Forwarding /\ UNCHANGED pushed /\ UNCHANGED received
        /\ UNCHANGED channel /\ UNCHANGED indexer
        /\ forwarder' = "stopped" \/ UNCHANGED forwarder
    BY <1>4 DEF Receive, QuitByDispatcher, Stop, connVars, indexerVars
  <2>2. (Gone /\ Gone') \/ (~Gone /\ ~Gone')
    BY <2>1 DEF Gone
  <2>3. CASE UNCHANGED forwarder
    BY <2>1, <2>2, <2>3, InsideStutters DEF Forwarding
  <2>4. CASE Gone
    BY <2>1, <2>2, <2>4, GoneStutters
  <2>5. CASE forwarder' = "stopped" /\ ~Gone
    BY <2>1, <2>5, StopBreaks
  <2>. QED
    BY <2>1, <2>3, <2>4, <2>5
<1>5. CASE QuitByIndexer
  <2>1. Gone /\ Gone' /\ UNCHANGED pushed
    BY <1>5 DEF QuitByIndexer, Gone, connVars
  <2>. QED
    BY <2>1, GoneStutters
<1>6. CASE Work \/ TakeError \/ Unsubscribed
  <2>1. /\ UNCHANGED pushed /\ UNCHANGED received /\ UNCHANGED channel
        /\ UNCHANGED forwarder
        /\ (~Gone /\ ~Gone') \/ Gone'
    BY <1>6 DEF Work, TakeError, Unsubscribed, Gone, connVars, forwarderVars
  <2>2. CASE Gone'
    BY <2>1, <2>2, GoesCloses
  <2>3. CASE ~Gone /\ ~Gone'
    BY <2>1, <2>3, InsideStutters DEF Forwarding
  <2>. QED
    BY <2>1, <2>2, <2>3
<1>7. CASE CloseForwardDone \/ RequestUnsubscribe \/ SendError \/ CloseUnsubDone
  <2>1. /\ UNCHANGED pushed /\ UNCHANGED received /\ UNCHANGED channel
        /\ UNCHANGED indexer /\ ~Forwarding /\ ~Forwarding'
    BY <1>7 DEF CloseForwardDone, RequestUnsubscribe, SendError,
                CloseUnsubDone, connVars, indexerVars, Forwarding
  <2>2. (Gone /\ Gone') \/ (~Gone /\ ~Gone')
    BY <2>1 DEF Gone
  <2>. QED
    BY <2>1, <2>2, InsideStutters
<1>8. CASE ConnectionBreaks \/ DispatcherStep \/ UNCHANGED vars
  <2>1. /\ UNCHANGED pushed /\ UNCHANGED received /\ UNCHANGED channel
        /\ UNCHANGED indexer /\ UNCHANGED forwarder
    BY <1>8 DEF ConnectionBreaks, DispatcherStep, DispatchLog, DispatchError,
                DispatcherReleased, vars, connVars, dispatcherVars,
                forwarderVars, indexerVars
  <2>2. /\ (Gone /\ Gone') \/ (~Gone /\ ~Gone')
        /\ (Forwarding /\ Forwarding') \/ (~Forwarding /\ ~Forwarding')
    BY <2>1 DEF Gone, Forwarding
  <2>. QED
    BY <2>1, <2>2, InsideStutters
<1>. QED
  BY <1>1, <1>2, <1>3, <1>4, <1>5, <1>6, <1>7, <1>8
     DEF Next, ForwarderStep, IndexerStep

(* The indexer gets the logs in the order the node pushed them and without *)
(* a gap, up to the point where the subscription broke, whatever the       *)
(* goroutines between the connection and the channel do meanwhile          *)
(* (ClientSubscription.run and forward, waitForEvents).                    *)
THEOREM SubscriptionIsQueue == Spec => QueueSpec
<1>. USE DEF QueueSpec
<1>1. Init => TypeInv /\ LineInv
  BY TypeInvInit, LineInit
<1>2. TypeInv /\ LineInv /\ [Next]_vars => (TypeInv /\ LineInv)'
  BY TypeInvStep, LineStep
<1>. QED
  BY <1>1, <1>2, QueueInit, QueueStep, PTL DEF Spec, Queue!Spec

=============================================================================
