----------------------------- MODULE MCProcess -----------------------------
(* Configuration files for Process: usable ones in both modes with several *)
(* periods, and one file for each flaw.                                    *)
EXTENDS Process

Good == [command |-> "run service", missing |-> {}, chain_id |-> 5,
         use_websocket |-> TRUE, index_period |-> 1]

Flawed == { [Good EXCEPT !.command = "migrate up"],
            [Good EXCEPT !.missing = {"KV_VIPER_FILE"}],
            [Good EXCEPT !.missing = {"ws"}, !.use_websocket = FALSE],
            [Good EXCEPT !.missing = {"endpoint"}],
            [Good EXCEPT !.chain_id = 0],
            [Good EXCEPT !.chain_id = MaxChainID + 1],
            [Good EXCEPT !.index_period = -1] }

MCFiles ==
    Flawed \cup {[Good EXCEPT !.use_websocket = ws, !.index_period = p] :
                    ws \in BOOLEAN, p \in Periods}

=============================================================================
