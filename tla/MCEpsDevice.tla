---------------------------- MODULE MCEpsDevice ----------------------------
(***************************************************************************)
(* EpsDevice with two switches: one on at power-up with an error flag set, *)
(* one off; and one frame of every kind determine_i2c_response_for_request *)
(* tells apart.                                                            *)
(***************************************************************************)
EXTENDS EpsDevice

CONSTANTS n0, n1   \* model values

MCNodeOf == (0 :> n0) @@ (1 :> n1)
MCInitStatus == (0 :> [flags |-> 1, state |-> ON]) @@ (1 :> [flags |-> 0, state |-> OFF])

MCInputFrame ==
    {CommandFrame(s, v) : s \in Switch, v \in {OFF, ON}}
    \cup {CommandFrame(0, 1), CommandFrame(TELEMETRY_REQUEST, 0), CommandFrame(RESET, 170),
          CommandFrame(99, 0)}
    \cup {[CommandFrame(0, OFF) EXCEPT !.intact = FALSE],
          [CommandFrame(0, OFF) EXCEPT !.size = 2]}
=============================================================================
