----------------------------- MODULE EventQueue -----------------------------
(***************************************************************************)
(* What the indexer may rely on of a log subscription, with the goroutines *)
(* behind it left out.  The logs are numbered as the chain emits them.     *)
(* While a subscription is live it holds every log emitted since it was    *)
(* opened and hands them out in order; it may break once, and then holds   *)
(* the earlier ones only; closing it drops what it holds.                  *)
(*                                                                         *)
(* LogSubscription implements this with a buffer, a channel and three      *)
(* goroutines; Indexer uses it as its pair of sub and queue.               *)
(***************************************************************************)
EXTENDS Naturals

VARIABLES
    emitted,  \* how many logs the chain has emitted
    sub,      \* "off", "live" or "broken"
    queue     \* the logs the subscription will still hand out

queueVars == <<emitted, sub, queue>>

Init ==
    /\ emitted = 0
    /\ sub \in {"off", "live"}
    /\ queue = {}

Open ==
    /\ sub = "off"
    /\ sub' = "live"
    /\ UNCHANGED <<emitted, queue>>

(* New logs, which a live subscription takes up.                           *)
Emit ==
    /\ emitted' \in Nat
    /\ emitted' > emitted
    /\ queue' = IF sub = "live" THEN queue \cup (emitted + 1)..emitted'
                                ELSE queue
    /\ UNCHANGED sub

(* The first log goes to the indexer.                                      *)
Take ==
    \E i \in queue :
        /\ \A j \in queue : i <= j
        /\ queue' = queue \ {i}
        /\ UNCHANGED <<emitted, sub>>

(* The subscription ends by itself; the logs after some point are gone.    *)
Break ==
    /\ sub = "live"
    /\ sub' = "broken"
    /\ \E kept \in 0..emitted : queue' = {i \in queue : i <= kept}
    /\ UNCHANGED emitted

Close ==
    /\ sub' = "off"
    /\ queue' = {}
    /\ UNCHANGED emitted

Next == Open \/ Emit \/ Take \/ Break \/ Close

Spec == Init /\ [][Next]_queueVars

=============================================================================
