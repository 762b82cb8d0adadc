--------------------------- MODULE BindingsProofs ---------------------------
(***************************************************************************)
(* The iterators and watches of the generated bindings, for every contract *)
(* and every call, any size of the channel, any set of logs that do not    *)
(* unpack, and any interleaving of the producer, the user and the          *)
(* goroutine that closes.                                                  *)
(*                                                                         *)
(* What the user got, the channel, the log in the producer's hand and the  *)
(* logs it has not taken carry on from each other through the wanted logs: *)
(* Carried.  How the call ends is told by where its producer stands:       *)
(* FilterEnd, WatchEnd, ErrorSource and ReleasedFirst, with what Ends says *)
(* of closing.                                                             *)
(***************************************************************************)
EXTENDS Bindings, SequenceTheorems, FiniteSetTheorems, TLAPS

Positions == 1..Len(Logs)

(* The stretch of w that follows its first n elements.                     *)
Part(w, s, n) ==
    /\ n + Len(s) <= Len(w)
    /\ \A i \in 1..Len(s) : s[i] = w[n + i]

Taken == Len(got) + Len(out)
InHand == IF producer = "forwarding" THEN 1 ELSE 0

(* A failed iterator has dropped a log, and a producer that returned may   *)
(* have.                                                                   *)
Reading == mode = "watch" \/ ~fail
Flowing ==
    /\ mode = "filter" => ~fail
    /\ mode = "watch" => producer \in {"running", "forwarding"}
Found == IF mode = "filter" THEN Len(wanted) ELSE emitted

Carried ==
    /\ Part(wanted, got, 0)
    /\ Reading => Part(wanted, out, Len(got))
    /\ Flowing =>
         /\ producer = "forwarding" => held = wanted[Taken + 1]
         /\ Part(wanted, source, Taken + InHand)
         /\ Taken + InHand + Len(source) = Found

Ends ==
    /\ producer \in {"forwarding", "releasing"} => mode = "watch"
    /\ inner # "live" => mode = "watch"
    /\ fail => consumer = "ended"
    /\ done => mode = "filter" /\ producer = "ended"
    /\ closer = "none" => ~quit
    /\ unsubscribed
       /\ producer \in {"running", "forwarding", "releasing", "returned"}
         => closer # "none"

(* An iterator's producer returns by itself when it has sent everything,   *)
(* and the user's loop ends without an error when nothing is left.         *)
FilterEnd ==
    mode = "filter" =>
        /\ producer # "running" /\ ~quit => source = <<>>
        /\ consumer = "ended" /\ ~fail => done /\ out = <<>>

(* The error of a watch is in the function's result, then in the channel,  *)
(* and then with the user; a closed client gives none.                     *)
WatchEnd ==
    mode = "watch" /\ closer = "none" =>
        /\ producer \in {"releasing", "returned"} => result \/ inner = "closed"
        /\ producer \in {"closing", "ended"} /\ consumer = "next"
             => errChan \/ inner = "closed"
        /\ consumer = "ended" => fail \/ inner = "closed"

(* Where an error of a watch comes from.                                   *)
ErrorSource ==
    mode = "watch" /\ (result \/ errChan \/ fail) =>
        /\ producer \notin {"running", "forwarding"}
        /\ inner = "failed" \/ held \in Malformed

(* The function of a watch is gone only after the subscription below.      *)
ReleasedFirst ==
    mode = "watch" =>
        /\ producer \in {"returned", "closing", "ended"} => Released
        /\ errChan => producer \in {"closing", "ended"}

(* The parts of TypeOK, and of a log that is forwarded.                    *)
PlaceType ==
    /\ mode \in {"filter", "watch"}
    /\ inner \in {"live", "failed", "closed", "stopping", "stopped"}
    /\ producer \in {"running", "forwarding", "releasing", "returned",
                     "closing", "ended"}
    /\ consumer \in {"next", "left", "ended"}
    /\ closer \in {"none", "waiting", "closed"}
FlagType == {result, unsubscribed, quit, errChan, done, fail} \subseteq BOOLEAN
LogsType ==
    /\ source \in Seq(Positions) /\ wanted \in Seq(Positions)
    /\ emitted \in 0..Len(wanted)
    /\ held \in 0..Len(Logs)
    /\ out \in Seq(Positions) /\ Len(out) <= OutSize
    /\ got \in Seq(Positions)
HeldLog == producer = "forwarding" => held \in Positions

TypeInv == PlaceType /\ FlagType /\ LogsType /\ HeldLog

-----------------------------------------------------------------------------

LEMMA TypeInvIsType == TypeInv => TypeOK
BY Zenon DEF TypeInv, PlaceType, FlagType, LogsType, TypeOK, Positions

LEMMA LogsLength == Len(Logs) \in Nat
BY BindingsAssumption, LenProperties

(* What the node answers is a sequence of positions.                       *)
LEMMA InOrderIsSeq ==
    ASSUME NEW P \in SUBSET Positions, NEW s \in InOrder(P)
    PROVE  s \in Seq(Positions)
<1>1. IsFiniteSet(P) /\ Cardinality(P) \in Nat
  <2>1. IsFiniteSet(Positions)
    BY LogsLength, FS_Interval DEF Positions
  <2>2. IsFiniteSet(P)
    BY <2>1, FS_Subset
  <2>. QED
    BY <2>2, FS_CardinalityType
<1>2. s \in [1..Cardinality(P) -> Positions]
  BY DEF InOrder
<1>. QED
  BY <1>1, <1>2, SeqDef

LEMMA CallType ==
    ASSUME NEW call \in Calls
    PROVE  call.logs \in SUBSET Positions /\ call.mode \in {"filter", "watch"}
<1>. DEFINE Good(c) == c.logs \in SUBSET Positions /\ c.mode \in {"filter", "watch"}
<1>1. \A e, r : Selected(e, r) \in SUBSET Positions
  BY DEF Selected, Positions
<1>2. \A e, r : Good(Filter(e, r)) /\ Good(Watch(e, r))
  BY <1>1 DEF Filter, Watch
<1>. SUFFICES Good(call)
  OBVIOUS
<1>. HIDE DEF Good
<1>3. /\ Good(FilterOrderCreated) /\ Good(WatchOrderCreated)
      /\ Good(FilterMatchCreated) /\ Good(WatchMatchCreated)
      /\ Good(FilterAdminChanged) /\ Good(WatchAdminChanged)
      /\ Good(FilterInitialized) /\ Good(WatchInitialized)
  BY <1>2 DEF FilterOrderCreated, WatchOrderCreated, FilterMatchCreated,
       WatchMatchCreated, FilterAdminChanged, WatchAdminChanged,
       FilterInitialized, WatchInitialized
<1>4. \A r : /\ Good(FilterOrderUpdated(r)) /\ Good(WatchOrderUpdated(r))
             /\ Good(FilterMatchUpdated(r)) /\ Good(WatchMatchUpdated(r))
             /\ Good(FilterBeaconUpgraded(r)) /\ Good(WatchBeaconUpgraded(r))
             /\ Good(FilterUpgraded(r)) /\ Good(WatchUpgraded(r))
  BY <1>2 DEF FilterOrderUpdated, WatchOrderUpdated, FilterMatchUpdated,
       WatchMatchUpdated, FilterBeaconUpgraded, WatchBeaconUpgraded,
       FilterUpgraded, WatchUpgraded
<1>5. \A r, q : /\ Good(FilterOwnershipTransferred(r, q))
                /\ Good(WatchOwnershipTransferred(r, q))
  BY <1>2 DEF FilterOwnershipTransferred, WatchOwnershipTransferred
<1>6. CASE call \in PlainCalls
  BY <1>3, <1>6 DEF PlainCalls
<1>7. CASE \E r \in Rules : call \in CallsWith(r)
  BY <1>4, <1>7 DEF CallsWith
<1>8. CASE \E r, q \in Rules : call \in CallsWithTwo(r, q)
  BY <1>5, <1>8 DEF CallsWithTwo
<1>. QED
  BY <1>6, <1>7, <1>8 DEF Calls

LEMMA TypeInit == Init => TypeInv
<1>. SUFFICES ASSUME Init PROVE TypeInv
  OBVIOUS
<1>1. /\ wanted \in Seq(Positions) /\ mode \in {"filter", "watch"}
  BY CallType, InOrderIsSeq DEF Init
<1>2. PlaceType
  BY <1>1 DEF Init, PlaceType
<1>3. FlagType
  BY Zenon DEF Init, FlagType
<1>4. LogsType
  BY <1>1, LogsLength, EmptySeq, LenProperties, BindingsAssumption
     DEF Init, LogsType
<1>5. HeldLog
  BY DEF Init, HeldLog
<1>. QED
  BY <1>2, <1>3, <1>4, <1>5 DEF TypeInv

-----------------------------------------------------------------------------
(* Queues of positions.                                                    *)

LEMMA Lengths ==
    ASSUME LogsType
    PROVE  /\ Len(got) \in Nat /\ Len(out) \in Nat /\ Len(source) \in Nat
           /\ Len(wanted) \in Nat /\ emitted \in Nat
           /\ Taken \in Nat /\ InHand \in {0, 1} /\ Taken + InHand \in Nat
           /\ Found \in 0..Len(wanted)
<1>1. /\ Len(got) \in Nat /\ Len(out) \in Nat /\ Len(source) \in Nat
      /\ Len(wanted) \in Nat /\ emitted \in 0..Len(wanted)
  BY LenProperties DEF LogsType
<1>. QED
  BY <1>1 DEF Taken, InHand, Found

LEMMA TailType ==
    ASSUME NEW s \in Seq(Positions), s # <<>>
    PROVE  /\ Head(s) \in Positions
           /\ Tail(s) \in Seq(Positions)
           /\ Len(s) \in Nat \ {0}
           /\ Len(Tail(s)) = Len(s) - 1
BY HeadTailProperties, EmptySeq, ElementOfSeq

LEMMA AppendType ==
    ASSUME NEW s \in Seq(Positions), NEW e \in Positions
    PROVE  /\ Append(s, e) \in Seq(Positions)
           /\ Len(Append(s, e)) = Len(s) + 1
BY AppendProperties

LEMMA PartAppend ==
    ASSUME NEW w \in Seq(Positions), NEW s \in Seq(Positions), NEW n \in Nat,
           Part(w, s, n), n + Len(s) + 1 <= Len(w),
           NEW e \in Positions, e = w[n + Len(s) + 1]
    PROVE  Part(w, Append(s, e), n)
<1>1. /\ Len(Append(s, e)) = Len(s) + 1
      /\ \A i \in 1..Len(s) : Append(s, e)[i] = s[i]
      /\ Append(s, e)[Len(s) + 1] = e
      /\ Len(s) \in Nat /\ Len(w) \in Nat
  BY AppendProperties, LenProperties
<1>. QED
  BY <1>1 DEF Part

LEMMA PartTail ==
    ASSUME NEW w \in Seq(Positions), NEW s \in Seq(Positions), s # <<>>,
           NEW n \in Nat, Part(w, s, n)
    PROVE  Head(s) = w[n + 1] /\ Part(w, Tail(s), n + 1)
<1>1. /\ Len(Tail(s)) = Len(s) - 1
      /\ \A i \in 1..Len(Tail(s)) : Tail(s)[i] = s[i + 1]
      /\ Head(s) = s[1]
      /\ Len(s) \in Nat \ {0} /\ Len(w) \in Nat
  BY HeadTailProperties, EmptySeq, LenProperties
<1>2. Head(s) = w[n + 1]
  BY <1>1 DEF Part
<1>3. ASSUME NEW i \in 1..Len(Tail(s)) PROVE Tail(s)[i] = w[n + 1 + i]
  <2>1. i + 1 \in 1..Len(s) /\ n + (i + 1) = n + 1 + i
    BY <1>1
  <2>. QED
    BY <1>1, <2>1 DEF Part
<1>. QED
  BY <1>1, <1>2, <1>3 DEF Part

LEMMA PartEmpty ==
    ASSUME NEW w \in Seq(Positions), NEW n \in 0..Len(w)
    PROVE  Part(w, <<>>, n)
BY LenProperties, EmptySeq DEF Part

-----------------------------------------------------------------------------
(* The types.                                                              *)

LogVars == <<source, wanted, emitted, held, out, got>>

(* The other steps leave the logs alone, and forward none.                 *)
LEMMA LogSteps ==
    ASSUME [Next]_vars
    PROVE  \/ FilterSends \/ WatchTakes \/ WatchForwards \/ NextLog
           \/ SinkLog \/ Pushed
           \/ /\ UNCHANGED LogVars
              /\ producer' = "forwarding" => producer = "forwarding"
BY DEF Next, Producer, Consumer, vars, sourceVars, funcVars, userVars, LogVars,
       WatchEnds, Quits, Unsubscribes, Unsubscribed, Returns, ClosesErr,
       NextDone, NextFalse, SinkEnds, Leaves, Close, Closed, Breaks, Stops,
       FunctionReturns

LEMMA PlaceStep == PlaceType /\ [Next]_vars => PlaceType'
BY DEF PlaceType, Next, Producer, Consumer, vars, sourceVars, funcVars,
       userVars, FilterSends, WatchTakes, WatchForwards, WatchEnds, Quits,
       Unsubscribes, Unsubscribed, Returns, ClosesErr, NextLog, NextDone,
       NextFalse, SinkLog, SinkEnds, Leaves, Close, Closed, Pushed, Breaks,
       Stops, FunctionReturns

(* A flag is set, cleared, or takes the value of another.                  *)
LEMMA FlagStep == FlagType /\ [Next]_vars => FlagType'
<1>. SUFFICES ASSUME FlagType, [Next]_vars PROVE FlagType'
  OBVIOUS
<1>1. /\ result' \in {result, TRUE, FALSE}
      /\ unsubscribed' \in {unsubscribed, TRUE}
      /\ quit' \in {quit, TRUE}
      /\ done' \in {done, TRUE}
      /\ fail' \in {fail, TRUE, errChan}
  BY DEF Next, Producer, Consumer, vars, subVars, funcVars,
       userVars, FilterSends, WatchTakes, WatchForwards, WatchEnds, Quits,
       Unsubscribes, Unsubscribed, Returns, ClosesErr, NextLog, NextDone,
       NextFalse, SinkLog, SinkEnds, Leaves, Close, Closed, Pushed, Breaks,
       Stops, FunctionReturns
<1>2. errChan' \in {errChan, FALSE, errChan \/ (~unsubscribed /\ result)}
  BY DEF Next, Producer, Consumer, vars, subVars, FilterSends, WatchTakes,
       WatchForwards, WatchEnds, Quits, Unsubscribes, Unsubscribed, Returns,
       ClosesErr, NextLog, NextDone, NextFalse, SinkLog, SinkEnds, Leaves,
       Close, Closed, Pushed, Breaks, Stops
<1>. QED
  BY <1>1, <1>2, Zenon DEF FlagType

LEMMA LogsStep ==
    LogsType /\ HeldLog /\ [Next]_vars => LogsType' /\ HeldLog'
<1>. SUFFICES ASSUME LogsType, HeldLog, [Next]_vars
              PROVE  LogsType' /\ HeldLog'
  OBVIOUS
<1>. USE DEF LogsType, HeldLog
<1>0. \A i \in Positions : i \in 0..Len(Logs)
  BY LogsLength DEF Positions
<1>1. CASE FilterSends
  <2>1. UNCHANGED wanted /\ UNCHANGED emitted /\ UNCHANGED held
        /\ UNCHANGED got /\ (producer' = "forwarding" => producer = "forwarding")
    BY <1>1 DEF FilterSends, FunctionReturns, userVars
  <2>2. CASE source = <<>>
    BY <1>1, <2>1, <2>2 DEF FilterSends
  <2>3. CASE source # <<>>
    <3>1. /\ Head(source) \in Positions /\ Tail(source) \in Seq(Positions)
          /\ Len(Append(out, Head(source))) = Len(out) + 1
          /\ Append(out, Head(source)) \in Seq(Positions)
      BY <2>3, TailType, AppendType
    <3>2. /\ Len(out) < OutSize /\ out' = Append(out, Head(source))
          /\ source' = Tail(source)
      BY <1>1, <2>3 DEF FilterSends
    <3>3. Len(out') <= OutSize
      BY <3>1, <3>2, LenProperties, BindingsAssumption
    <3>. QED
      BY <2>1, <3>1, <3>2, <3>3
  <2>. QED
    BY <2>2, <2>3
<1>2. CASE WatchTakes
  <2>1. Head(source) \in Positions /\ Tail(source) \in Seq(Positions)
    BY <1>2, TailType DEF WatchTakes
  <2>. QED
    BY <1>0, <1>2, <2>1 DEF WatchTakes, userVars
<1>3. CASE WatchForwards
  <2>1. /\ held \in Positions /\ Len(out) < OutSize /\ out' = Append(out, held)
        /\ producer' = "running"
        /\ UNCHANGED source /\ UNCHANGED wanted /\ UNCHANGED emitted
        /\ UNCHANGED held /\ UNCHANGED got
    BY <1>3 DEF WatchForwards, sourceVars, userVars
  <2>2. out' \in Seq(Positions) /\ Len(out') = Len(out) + 1
    BY <2>1, AppendType
  <2>3. Len(out') <= OutSize
    BY <2>1, <2>2, LenProperties, BindingsAssumption
  <2>. QED
    BY <2>1, <2>2, <2>3
<1>4. CASE NextLog \/ SinkLog
  <2>1. /\ out # <<>> /\ out' = Tail(out)
        /\ got' \in {got, Append(got, Head(out))}
        /\ UNCHANGED source /\ UNCHANGED wanted /\ UNCHANGED emitted
        /\ UNCHANGED held /\ UNCHANGED producer
    BY <1>4 DEF NextLog, SinkLog, sourceVars, funcVars
  <2>2. /\ Head(out) \in Positions /\ out' \in Seq(Positions)
        /\ Len(out') = Len(out) - 1 /\ Len(out) \in Nat
    BY <2>1, TailType
  <2>3. got' \in Seq(Positions)
    BY <2>1, <2>2, AppendType
  <2>4. Len(out') <= OutSize
    BY <2>2, BindingsAssumption
  <2>. QED
    BY <2>1, <2>2, <2>3, <2>4
<1>5. CASE Pushed
  <2>1. /\ emitted < Len(wanted) /\ emitted' = emitted + 1
        /\ source' = Append(source, wanted[emitted + 1])
        /\ UNCHANGED wanted /\ UNCHANGED held /\ UNCHANGED producer
        /\ UNCHANGED out /\ UNCHANGED got
    BY <1>5 DEF Pushed, funcVars, userVars
  <2>2. emitted + 1 \in 1..Len(wanted)
    BY <2>1, LenProperties
  <2>3. wanted[emitted + 1] \in Positions
    BY <2>2, ElementOfSeq
  <2>4. source' \in Seq(Positions) /\ emitted' \in 0..Len(wanted)
    BY <2>1, <2>2, <2>3, AppendType
  <2>. QED
    BY <2>1, <2>4
<1>6. CASE /\ UNCHANGED LogVars
           /\ producer' = "forwarding" => producer = "forwarding"
  BY <1>6 DEF LogVars
<1>. QED
  BY <1>1, <1>2, <1>3, <1>4, <1>5, <1>6, LogSteps

LEMMA TypeStep == TypeInv /\ [Next]_vars => TypeInv'
BY PlaceStep, FlagStep, LogsStep DEF TypeInv

(* The channel of an iterator and the sink of a watch never hold more than *)
(* they can, and hold the contract's logs only, whatever order the         *)
(* producer, the user and Close run in (FilterLogs, WatchLogs, funcSub).   *)
THEOREM BindingsTypeCorrect == Spec => []TypeOK
BY TypeInit, TypeStep, TypeInvIsType, PTL DEF Spec

-----------------------------------------------------------------------------
(* How a call ends.                                                        *)

EndInv == Ends /\ FilterEnd /\ WatchEnd /\ ErrorSource /\ ReleasedFirst

LEMMA EndInit == Init => EndInv
BY DEF Init, EndInv, Ends, FilterEnd, WatchEnd, ErrorSource, ReleasedFirst

(* The producer function returns: with nothing left to send, with what the *)
(* subscription below says, or because it was told to.                     *)
LEMMA ReturnKeepsEnd ==
    ASSUME PlaceType, EndInv, producer \in {"running", "forwarding"},
           producer' = IF mode = "watch" THEN "releasing" ELSE "returned",
           UNCHANGED closer, UNCHANGED mode, UNCHANGED source, UNCHANGED out,
           UNCHANGED subVars, UNCHANGED userVars, UNCHANGED inner,
           mode = "filter" => source = <<>> \/ quit,
           mode = "watch" => result' \/ inner = "closed" \/ quit,
           mode = "watch" /\ result' => inner = "failed" \/ held' \in Malformed
    PROVE  EndInv'
<1>. USE DEF PlaceType, EndInv, subVars, userVars
<1>1. Ends'
  BY DEF Ends
<1>2. FilterEnd'
  BY DEF Ends, FilterEnd
<1>3. WatchEnd'
  BY DEF Ends, WatchEnd, ErrorSource
<1>4. ErrorSource'
  BY DEF ErrorSource
<1>5. ReleasedFirst'
  BY DEF ReleasedFirst
<1>. QED
  BY <1>1, <1>2, <1>3, <1>4, <1>5

LEMMA EndStep == PlaceType /\ EndInv /\ [Next]_vars => EndInv'
<1>. SUFFICES ASSUME PlaceType, EndInv, [Next]_vars PROVE EndInv'
  OBVIOUS
<1>. USE DEF PlaceType, EndInv
<1>1. CASE FilterSends
  <2>1. CASE source = <<>>
    BY <1>1, <2>1, ReturnKeepsEnd DEF FilterSends, FunctionReturns
  <2>2. CASE source # <<>>
    BY <1>1, <2>2 DEF FilterSends, Ends, FilterEnd, WatchEnd, ErrorSource,
                      ReleasedFirst, subVars, userVars
  <2>. QED
    BY <2>1, <2>2
<1>2. CASE WatchTakes
  BY <1>2 DEF WatchTakes, FunctionReturns, Ends, FilterEnd, WatchEnd,
              ErrorSource, ReleasedFirst, subVars, userVars
<1>3. CASE WatchForwards
  BY <1>3 DEF WatchForwards, Ends, FilterEnd, WatchEnd, ErrorSource,
              ReleasedFirst, sourceVars, subVars, userVars
<1>4. CASE WatchEnds
  <2>1. mode = "watch"
    BY <1>4 DEF WatchEnds, Ends
  <2>. QED
    BY <1>4, <2>1, ReturnKeepsEnd DEF WatchEnds, FunctionReturns, sourceVars
<1>5. CASE Quits
  BY <1>5, ReturnKeepsEnd DEF Quits, FunctionReturns, sourceVars
<1>6. CASE Unsubscribes
  BY <1>6 DEF Unsubscribes, Ends, FilterEnd, WatchEnd, ErrorSource,
              ReleasedFirst, Released, funcVars, subVars, userVars
<1>7. CASE Unsubscribed
  BY <1>7 DEF Unsubscribed, Ends, FilterEnd, WatchEnd, ErrorSource,
              ReleasedFirst, Released, sourceVars, subVars, userVars
<1>8. CASE Returns
  BY <1>8 DEF Returns, Ends, FilterEnd, WatchEnd, ErrorSource,
              ReleasedFirst, Released, sourceVars, userVars
<1>9. CASE ClosesErr
  BY <1>9 DEF ClosesErr, Ends, FilterEnd, WatchEnd, ErrorSource,
              ReleasedFirst, Released, sourceVars, subVars, userVars
<1>10. CASE NextLog
  BY <1>10 DEF NextLog, Ends, FilterEnd, WatchEnd, ErrorSource,
               ReleasedFirst, sourceVars, funcVars, subVars
<1>11. CASE NextDone \/ NextFalse
  BY <1>11 DEF NextDone, NextFalse, ErrClosed, Ends, FilterEnd, WatchEnd,
               ErrorSource, ReleasedFirst, sourceVars, funcVars, subVars
<1>12. CASE SinkLog
  BY <1>12 DEF SinkLog, Ends, FilterEnd, WatchEnd, ErrorSource,
               ReleasedFirst, Released, sourceVars, funcVars, subVars
<1>13. CASE SinkEnds
  BY <1>13 DEF SinkEnds, ErrClosed, Ends, FilterEnd, WatchEnd, ErrorSource,
               ReleasedFirst, Released, sourceVars, funcVars
<1>14. CASE Leaves
  BY <1>14 DEF Leaves, Ends, FilterEnd, WatchEnd, ErrorSource,
               ReleasedFirst, Released, sourceVars, funcVars, subVars
<1>15. CASE Close \/ Closed
  BY <1>15 DEF Close, Closed, Ends, FilterEnd, WatchEnd, ErrorSource,
               ReleasedFirst, Released, sourceVars, funcVars, subVars, userVars
<1>16. CASE Pushed
  BY <1>16 DEF Pushed, Ends, FilterEnd, WatchEnd, ErrorSource,
               ReleasedFirst, Released, funcVars, subVars, userVars
<1>17. CASE Breaks \/ Stops
  BY <1>17 DEF Breaks, Stops, Ends, FilterEnd, WatchEnd, ErrorSource,
               ReleasedFirst, Released, funcVars, subVars, userVars
<1>18. CASE UNCHANGED vars
  BY <1>18 DEF vars, Ends, FilterEnd, WatchEnd, ErrorSource, ReleasedFirst,
               Released, sourceVars, funcVars, subVars, userVars
<1>. QED
  BY <1>1, <1>2, <1>3, <1>4, <1>5, <1>6, <1>7, <1>8, <1>9, <1>10, <1>11,
     <1>12, <1>13, <1>14, <1>15, <1>16, <1>17, <1>18
     DEF Next, Producer, Consumer

LEMMA EndInductive == Spec => [](PlaceType /\ EndInv)
<1>1. PlaceType /\ EndInv /\ [Next]_vars => (PlaceType /\ EndInv)'
  BY PlaceStep, EndStep
<1>2. Init => PlaceType /\ EndInv
  BY TypeInit, EndInit DEF TypeInv
<1>. QED
  BY <1>1, <1>2, PTL DEF Spec

(* A watch that ends is understood by its user: an error is that of the    *)
(* subscription below or of a log that does not unpack, and unless someone *)
(* unsubscribed the end is without one only if the client was closed       *)
(* (WatchX, event.NewSubscription, ClientSubscription.run).                *)
THEOREM WatchReportsEnd == Spec => []WatchTellsWhy
<1>1. EndInv => WatchTellsWhy
  BY DEF EndInv, WatchEnd, ErrorSource, WatchTellsWhy
<1>. QED
  BY <1>1, EndInductive, PTL

(* The user of a watch hears of its end, and Unsubscribe comes back, only  *)
(* when the subscription below is gone, however the watch ended (the       *)
(* deferred Unsubscribe of WatchX, event.NewSubscription).                 *)
THEOREM WatchLeavesNothing == Spec => []WatchReleases
<1>1. EndInv => WatchReleases
  BY DEF EndInv, ReleasedFirst, ErrClosed, WatchReleases
<1>. QED
  BY <1>1, EndInductive, PTL

-----------------------------------------------------------------------------
(* What the logs carry on.                                                 *)

LEMMA CarriedInit == TypeInv /\ Init => Carried
<1>. SUFFICES ASSUME TypeInv, Init PROVE Carried
  OBVIOUS
<1>1. /\ wanted \in Seq(Positions) /\ Len(wanted) \in Nat
      /\ got = <<>> /\ out = <<>> /\ emitted = 0 /\ producer = "running"
      /\ source = IF mode = "filter" THEN wanted ELSE <<>>
      /\ Len(<<>>) = 0
  BY LenProperties, EmptySeq DEF TypeInv, LogsType, Init
<1>2. \A n \in 0..Len(wanted) : Part(wanted, <<>>, n)
  BY <1>1, PartEmpty
<1>3. Part(wanted, wanted, 0)
  BY <1>1 DEF Part
<1>4. Taken = 0 /\ InHand = 0 /\ 0 \in 0..Len(wanted)
  BY <1>1 DEF Taken, InHand
<1>. QED
  BY <1>1, <1>2, <1>3, <1>4 DEF Carried, Found

(* A step that moves no log, and at most lets a watch's producer return.   *)
LEMMA QuietKeepsCarried ==
    ASSUME Carried, Ends, UNCHANGED LogVars, UNCHANGED mode,
           mode = "filter" => UNCHANGED fail /\ producer' # "forwarding",
           mode = "watch" => \/ UNCHANGED producer
                             \/ producer' \notin {"running", "forwarding"},
           mode \in {"filter", "watch"}
    PROVE  Carried'
<1>1. /\ UNCHANGED source /\ UNCHANGED wanted /\ UNCHANGED emitted
      /\ UNCHANGED held /\ UNCHANGED out /\ UNCHANGED got
  BY DEF LogVars
<1>2. Taken' = Taken /\ Found' = Found
  BY <1>1 DEF Taken, Found
<1>3. Reading' => Reading
  BY DEF Reading
<1>4. Flowing' => Flowing
  BY DEF Flowing
<1>5. Flowing' => /\ InHand' = InHand
                  /\ producer' = "forwarding" => producer = "forwarding"
  BY DEF Flowing, InHand, Ends
<1>. QED
  BY <1>1, <1>2, <1>3, <1>4, <1>5 DEF Carried

LEMMA SendKeepsCarried ==
    TypeInv /\ Ends /\ Carried /\ FilterSends /\ source # <<>> => Carried'
<1>. SUFFICES ASSUME TypeInv, Ends, Carried, FilterSends, source # <<>>
              PROVE  Carried'
  OBVIOUS
<1>0. LogsType
  BY DEF TypeInv
<1>1. /\ mode = "filter" /\ producer = "running"
      /\ out' = Append(out, Head(source)) /\ source' = Tail(source)
      /\ UNCHANGED wanted /\ UNCHANGED mode /\ UNCHANGED emitted
      /\ UNCHANGED producer /\ UNCHANGED fail /\ UNCHANGED got
  BY DEF FilterSends, userVars
<1>2. /\ Head(source) \in Positions /\ Len(source) \in Nat \ {0}
      /\ Len(source') = Len(source) - 1 /\ Len(out') = Len(out) + 1
  BY <1>0, <1>1, TailType, AppendType DEF LogsType
<1>3. InHand = 0 /\ InHand' = 0 /\ Taken' = Taken + 1 /\ Found' = Found
  BY <1>0, <1>1, <1>2, Lengths DEF InHand, Taken, Found
<1>4. CASE ~fail
  <2>1. /\ Part(wanted, out, Len(got)) /\ Part(wanted, source, Taken)
        /\ Taken + Len(source) = Found
    BY <1>0, <1>1, <1>3, <1>4, Lengths DEF Carried, Reading, Flowing
  <2>2. Head(source) = wanted[Taken + 1] /\ Part(wanted, source', Taken + 1)
    BY <1>0, <1>1, <2>1, PartTail, Lengths DEF LogsType
  <2>3. Taken + 1 <= Len(wanted)
    BY <1>0, <1>2, <2>1, Lengths
  <2>4. Part(wanted, out', Len(got))
    BY <1>0, <1>1, <1>2, <2>1, <2>2, <2>3, PartAppend, Lengths
       DEF LogsType, Taken
  <2>5. Taken' + InHand' + Len(source') = Found'
    BY <1>0, <1>2, <1>3, <2>1, Lengths
  <2>. QED
    BY <1>0, <1>1, <1>3, <2>2, <2>4, <2>5, Lengths DEF Carried
<1>5. CASE fail
  BY <1>1, <1>5 DEF Carried, Reading, Flowing
<1>. QED
  BY <1>4, <1>5

LEMMA WatchTakesKeepsCarried ==
    TypeInv /\ Ends /\ Carried /\ WatchTakes => Carried'
<1>. SUFFICES ASSUME TypeInv, Ends, Carried, WatchTakes PROVE Carried'
  OBVIOUS
<1>0. LogsType
  BY DEF TypeInv
<1>1. /\ mode = "watch" /\ producer = "running" /\ source # <<>>
      /\ held' = Head(source) /\ source' = Tail(source)
      /\ producer' \in {"releasing", "forwarding"}
      /\ UNCHANGED wanted /\ UNCHANGED mode /\ UNCHANGED emitted
      /\ UNCHANGED out /\ UNCHANGED got
  BY DEF WatchTakes, FunctionReturns, userVars
<1>2. Taken' = Taken /\ Found' = Found /\ InHand = 0
  BY <1>1 DEF Taken, Found, InHand
<1>3. /\ Part(wanted, got, 0) /\ Part(wanted, out, Len(got))
      /\ Part(wanted, source, Taken) /\ Taken + Len(source) = Found
  BY <1>0, <1>1, <1>2, Lengths DEF Carried, Reading, Flowing
<1>4. CASE producer' = "forwarding"
  <2>1. InHand' = 1
    BY <1>4 DEF InHand
  <2>2. held' = wanted[Taken + 1] /\ Part(wanted, source', Taken + 1)
    BY <1>0, <1>1, <1>3, PartTail, Lengths DEF LogsType
  <2>3. Len(source') = Len(source) - 1
    BY <1>0, <1>1, TailType DEF LogsType
  <2>4. Taken' + InHand' + Len(source') = Found'
    BY <1>0, <1>2, <1>3, <2>1, <2>3, Lengths
  <2>. QED
    BY <1>0, <1>1, <1>2, <1>3, <2>1, <2>2, <2>4, Lengths DEF Carried
<1>5. CASE producer' = "releasing"
  BY <1>1, <1>3, <1>5 DEF Carried, Flowing
<1>. QED
  BY <1>1, <1>4, <1>5

LEMMA WatchForwardsKeepsCarried ==
    TypeInv /\ Ends /\ Carried /\ WatchForwards => Carried'
<1>. SUFFICES ASSUME TypeInv, Ends, Carried, WatchForwards PROVE Carried'
  OBVIOUS
<1>0. LogsType
  BY DEF TypeInv
<1>1. /\ producer = "forwarding" /\ producer' = "running"
      /\ mode = "watch" /\ held \in Positions
      /\ out' = Append(out, held)
      /\ UNCHANGED wanted /\ UNCHANGED mode /\ UNCHANGED emitted
      /\ UNCHANGED source /\ UNCHANGED got
  BY DEF WatchForwards, sourceVars, userVars, Ends, TypeInv, HeldLog
<1>2. /\ Part(wanted, got, 0) /\ Part(wanted, out, Len(got)) /\ InHand = 1
      /\ held = wanted[Taken + 1] /\ Part(wanted, source, Taken + 1)
      /\ Taken + 1 + Len(source) = Found
  BY <1>1 DEF Carried, Reading, Flowing, InHand
<1>3. Taken + 1 <= Len(wanted)
  BY <1>0, <1>2, Lengths
<1>4. Part(wanted, out', Len(got)) /\ Len(out') = Len(out) + 1
  BY <1>0, <1>1, <1>2, <1>3, PartAppend, AppendType, Lengths
     DEF LogsType, Taken
<1>5. Taken' = Taken + 1 /\ InHand' = 0 /\ Found' = Found
  BY <1>0, <1>1, <1>4, Lengths DEF Taken, InHand, Found
<1>6. Taken' + InHand' = Taken + 1
  BY <1>0, <1>5, Lengths
<1>. QED
  BY <1>1, <1>2, <1>4, <1>5, <1>6 DEF Carried

(* The user takes the first log of the channel.                            *)
LEMMA TakeKeepsCarried ==
    ASSUME TypeInv, Ends, Carried, Reading, out # <<>>, out' = Tail(out),
           got' = Append(got, Head(out)),
           UNCHANGED sourceVars, UNCHANGED funcVars, UNCHANGED fail
    PROVE  Carried'
<1>0. LogsType
  BY DEF TypeInv
<1>1. /\ UNCHANGED wanted /\ UNCHANGED mode /\ UNCHANGED emitted
      /\ UNCHANGED source /\ UNCHANGED producer /\ UNCHANGED held
  BY DEF sourceVars, funcVars
<1>2. /\ Part(wanted, got, 0) /\ Part(wanted, out, Len(got))
      /\ Head(out) \in Positions /\ Len(out) \in Nat \ {0}
      /\ Len(out') = Len(out) - 1
  BY <1>0, TailType DEF Carried, LogsType
<1>3. Head(out) = wanted[Len(got) + 1] /\ Part(wanted, out', Len(got) + 1)
  BY <1>0, <1>2, PartTail, Lengths DEF LogsType
<1>4. 0 + Len(got) + 1 = Len(got) + 1 /\ Len(got) + 1 <= Len(wanted)
  BY <1>0, <1>2, Lengths DEF Part
<1>5. Part(wanted, got', 0) /\ Len(got') = Len(got) + 1
  <2>1. Head(out) = wanted[0 + Len(got) + 1] /\ 0 + Len(got) + 1 <= Len(wanted)
    BY <1>3, <1>4
  <2>. QED
    BY <1>0, <1>2, <2>1, PartAppend, AppendType DEF LogsType
<1>6. Taken' = Taken /\ InHand' = InHand /\ Found' = Found
  BY <1>0, <1>1, <1>2, <1>5, Lengths DEF Taken, InHand, Found
<1>7. Flowing' => Flowing
  BY <1>1 DEF Flowing
<1>. QED
  BY <1>1, <1>3, <1>5, <1>6, <1>7 DEF Carried

LEMMA PushKeepsCarried == TypeInv /\ Ends /\ Carried /\ Pushed => Carried'
<1>. SUFFICES ASSUME TypeInv, Ends, Carried, Pushed PROVE Carried'
  OBVIOUS
<1>0. LogsType
  BY DEF TypeInv
<1>1. /\ mode = "watch" /\ emitted < Len(wanted) /\ emitted' = emitted + 1
      /\ source' = Append(source, wanted[emitted + 1])
      /\ UNCHANGED wanted /\ UNCHANGED mode /\ UNCHANGED producer
      /\ UNCHANGED held /\ UNCHANGED out /\ UNCHANGED got
  BY DEF Pushed, funcVars, userVars
<1>2. Taken' = Taken /\ InHand' = InHand /\ Found = emitted /\ Found' = emitted + 1
  BY <1>1 DEF Taken, InHand, Found
<1>3. Part(wanted, got, 0) /\ Part(wanted, out, Len(got))
  BY <1>1 DEF Carried, Reading
<1>4. CASE producer \in {"running", "forwarding"}
  <2>1. /\ producer = "forwarding" => held = wanted[Taken + 1]
        /\ Part(wanted, source, Taken + InHand)
        /\ Taken + InHand + Len(source) = emitted
    BY <1>1, <1>2, <1>4 DEF Carried, Flowing
  <2>2. emitted + 1 \in 1..Len(wanted)
    BY <1>0, <1>1, Lengths
  <2>3. wanted[emitted + 1] \in Positions
    BY <1>0, <2>2, ElementOfSeq DEF LogsType
  <2>4. /\ Part(wanted, source', Taken + InHand)
        /\ Len(source') = Len(source) + 1
    <3>1. /\ Taken + InHand + Len(source) + 1 <= Len(wanted)
          /\ wanted[emitted + 1] = wanted[Taken + InHand + Len(source) + 1]
      BY <2>1, <2>2
    <3>. QED
      BY <1>0, <1>1, <2>1, <2>3, <3>1, PartAppend, AppendType, Lengths
         DEF LogsType
  <2>5. Taken' + InHand' + Len(source') = Found'
    BY <1>0, <1>2, <2>1, <2>4, Lengths
  <2>. QED
    BY <1>1, <1>2, <1>3, <2>1, <2>4, <2>5 DEF Carried
<1>5. CASE producer \notin {"running", "forwarding"}
  BY <1>1, <1>3, <1>5 DEF Carried, Flowing
<1>. QED
  BY <1>4, <1>5

LEMMA CarriedStep ==
    TypeInv /\ EndInv /\ Carried /\ [Next]_vars => Carried'
<1>. SUFFICES ASSUME TypeInv, EndInv, Carried, [Next]_vars PROVE Carried'
  OBVIOUS
<1>0. Ends /\ mode \in {"filter", "watch"} /\ LogsType
  BY DEF EndInv, TypeInv, PlaceType
<1>1. CASE FilterSends
  <2>1. CASE source = <<>>
    <3>1. /\ UNCHANGED LogVars /\ UNCHANGED mode /\ UNCHANGED fail
          /\ mode = "filter" /\ producer' = "returned"
      BY <1>1, <2>1 DEF FilterSends, FunctionReturns, LogVars, userVars
    <3>. QED
      BY <1>0, <3>1, QuietKeepsCarried
  <2>. QED
    BY <1>0, <1>1, <2>1, SendKeepsCarried
<1>2. CASE WatchTakes
  BY <1>0, <1>2, WatchTakesKeepsCarried
<1>3. CASE WatchForwards
  BY <1>0, <1>3, WatchForwardsKeepsCarried
<1>4. CASE Pushed
  BY <1>0, <1>4, PushKeepsCarried
<1>5. CASE SinkLog
  <2>1. Reading
    BY <1>5 DEF SinkLog, Reading
  <2>. QED
    BY <1>0, <1>5, <2>1, TakeKeepsCarried DEF SinkLog
<1>6. CASE NextLog
  <2>1. ~fail /\ Reading
    BY <1>0, <1>6 DEF NextLog, Ends, Reading
  <2>2. CASE Head(out) \in Malformed
    <3>1. /\ mode' = "filter" /\ fail' /\ UNCHANGED got /\ UNCHANGED wanted
      BY <1>6, <2>2 DEF NextLog, sourceVars
    <3>. QED
      BY <3>1 DEF Carried, Reading, Flowing
  <2>3. CASE Head(out) \notin Malformed
    BY <1>0, <1>6, <2>1, <2>3, TakeKeepsCarried DEF NextLog
  <2>. QED
    BY <2>2, <2>3
<1>7. CASE WatchEnds \/ Quits
  <2>1. /\ UNCHANGED LogVars /\ UNCHANGED mode /\ UNCHANGED fail
        /\ producer' \in {"releasing", "returned"}
    BY <1>7 DEF WatchEnds, Quits, FunctionReturns, LogVars, sourceVars,
                userVars
  <2>. QED
    BY <1>0, <2>1, QuietKeepsCarried
<1>8. CASE Unsubscribed \/ Returns \/ ClosesErr
  <2>1. /\ UNCHANGED LogVars /\ UNCHANGED mode /\ UNCHANGED fail
        /\ producer' \in {"returned", "closing", "ended"}
    BY <1>8 DEF Unsubscribed, Returns, ClosesErr, LogVars, sourceVars, userVars
  <2>. QED
    BY <1>0, <2>1, QuietKeepsCarried
<1>9. CASE SinkEnds
  <2>1. /\ UNCHANGED LogVars /\ UNCHANGED mode /\ mode = "watch"
        /\ UNCHANGED producer
    BY <1>9 DEF SinkEnds, LogVars, sourceVars, funcVars
  <2>. QED
    BY <1>0, <2>1, QuietKeepsCarried
<1>10. CASE /\ UNCHANGED LogVars /\ UNCHANGED mode /\ UNCHANGED fail
            /\ UNCHANGED producer
  <2>1. mode = "filter" => producer' # "forwarding"
    BY <1>0, <1>10 DEF Ends
  <2>. QED
    BY <1>0, <1>10, <2>1, QuietKeepsCarried
<1>11. CASE NextDone \/ NextFalse \/ Leaves
  BY <1>10, <1>11
     DEF NextDone, NextFalse, Leaves, LogVars, sourceVars, funcVars
<1>12. CASE \/ Unsubscribes \/ Stops \/ Close \/ Closed \/ Breaks
            \/ UNCHANGED vars
  BY <1>10, <1>12
     DEF Unsubscribes, Stops, Close, Closed, Breaks, vars, LogVars,
         sourceVars, funcVars, userVars
<1>. QED
  BY <1>1, <1>2, <1>3, <1>4, <1>5, <1>6, <1>7, <1>8, <1>9, <1>11, <1>12
     DEF Next, Producer, Consumer

Inv == TypeInv /\ EndInv /\ Carried

LEMMA InvInductive == Spec => []Inv
<1>1. Init => Inv
  BY TypeInit, EndInit, CarriedInit DEF Inv
<1>2. Inv /\ [Next]_vars => Inv'
  BY TypeStep, EndStep, CarriedStep DEF Inv, TypeInv
<1>. QED
  BY <1>1, <1>2, PTL DEF Spec

(* A part from the start is a prefix.                                      *)
LEMMA PartIsPrefix ==
    ASSUME NEW w \in Seq(Positions), NEW s \in Seq(Positions), Part(w, s, 0)
    PROVE  IsPrefix(s, w)
<1>1. Len(s) \in Nat /\ Len(w) \in Nat /\ Len(s) <= Len(w)
  BY LenProperties DEF Part
<1>2. /\ SubSeq(s, 1, Len(s)) \in Seq(Positions)
      /\ SubSeq(w, 1, Len(s)) \in Seq(Positions)
      /\ Len(SubSeq(s, 1, Len(s))) = Len(s)
      /\ Len(SubSeq(w, 1, Len(s))) = Len(s)
      /\ \A i \in 1..Len(s) : /\ SubSeq(s, 1, Len(s))[i] = s[i]
                              /\ SubSeq(w, 1, Len(s))[i] = w[i]
  BY <1>1
<1>3. \A i \in 1..Len(s) : s[i] = w[i]
  BY <1>1 DEF Part
<1>4. SubSeq(s, 1, Len(s)) = SubSeq(w, 1, Len(s))
  BY <1>2, <1>3, SeqEqual
<1>. QED
  BY <1>1, <1>4 DEF IsPrefix

(* The user gets the wanted logs in the order of the chain, none twice and *)
(* none left out between two others, whatever is closed, left or fails on  *)
(* the way (BoundContract.FilterLogs and WatchLogs, and Next).             *)
THEOREM UserGetsPrefix == Spec => []NoGap
<1>1. Inv => NoGap
  BY PartIsPrefix DEF Inv, TypeInv, LogsType, Carried, NoGap
<1>. QED
  BY <1>1, InvInductive, PTL

(* An iterator that ends without an error and was not closed has given out *)
(* every log that was found: Next empties the channel after the producer's *)
(* end has overtaken the logs in it (Next of the generated iterators).     *)
THEOREM IteratorGivesAll == Spec => []IteratorComplete
<1>1. Inv => IteratorComplete
  <2>. SUFFICES ASSUME Inv, mode = "filter", consumer = "ended", ~fail,
                       closer = "none"
                PROVE  got = wanted
    BY DEF IteratorComplete
  <2>1. /\ LogsType /\ done /\ out = <<>> /\ producer = "ended" /\ ~quit
        /\ source = <<>>
    BY DEF Inv, TypeInv, EndInv, Ends, FilterEnd
  <2>2. Part(wanted, got, 0) /\ Taken + InHand + Len(source) = Len(wanted)
    BY DEF Inv, Carried, Flowing, Found
  <2>3. Len(got) = Len(wanted) /\ Len(got) \in Nat
    BY <2>1, <2>2, Lengths, EmptySeq DEF Taken, InHand
  <2>4. \A i \in 1..Len(got) : got[i] = wanted[i]
    BY <2>2, <2>3 DEF Part
  <2>. QED
    BY <2>1, <2>3, <2>4, SeqEqual DEF LogsType
<1>. QED
  BY <1>1, InvInductive, PTL

=============================================================================
