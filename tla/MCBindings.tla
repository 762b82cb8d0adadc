----------------------------- MODULE MCBindings -----------------------------
(* A short chain of logs for Bindings: several of one event that rules tell*)
(* apart, and one log of each other event.                                 *)
EXTENDS Bindings

Log(event, indexed) == [event |-> event, indexed |-> indexed]

MCLogs == << Log("OrderCreated", <<>>), Log("OrderUpdated", <<1>>),
             Log("OrderUpdated", <<2>>), Log("MatchCreated", <<>>),
             Log("OrderUpdated", <<1>>), Log("OrderUpdated", <<1>>),
             Log("MatchUpdated", <<1>>), Log("OwnershipTransferred", <<1, 2>>),
             Log("OwnershipTransferred", <<2, 1>>), Log("Initialized", <<>>),
             Log("AdminChanged", <<>>), Log("BeaconUpgraded", <<1>>),
             Log("Upgraded", <<2>>) >>

=============================================================================
