----------------------------- MODULE MCRequests -----------------------------
(* Statuses for Requests: without a match; with two matches of different   *)
(* contracts; with one whose id is cut, one whose id is cut to zero, and   *)
(* match 0 (here 2^63 is 4).                                               *)
EXTENDS Requests

MCStatuses == { [state |-> 1, match |-> 0, swapica |-> 0],
                [state |-> 2, match |-> 3, swapica |-> 1],
                [state |-> 2, match |-> 2, swapica |-> 2],
                [state |-> 3, match |-> 13, swapica |-> 3],
                [state |-> 3, match |-> 8, swapica |-> 3],
                [state |-> 3, match |-> 0, swapica |-> 2] }

=============================================================================
