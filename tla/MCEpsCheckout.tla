--------------------------- MODULE MCEpsCheckout ---------------------------
(***************************************************************************)
(* EpsCheckout with two switches, one on at power-up, and a line for every *)
(* way through process_command.  Help and unknown words only print, as a   *)
(* wrong number of operands does.                                          *)
(***************************************************************************)
EXTENDS EpsCheckout, TLC

CONSTANTS n0, n1   \* model values

MCNodeOf == (0 :> n0) @@ (1 :> n1)
MCInitStatus == (0 :> [flags |-> 1, state |-> ON]) @@ (1 :> [flags |-> 0, state |-> OFF])

Typed(word, args) == [word |-> word, args |-> args]

MCInputLine ==
    {BLANK, Typed("exit", <<>>), Typed("hk", <<>>), Typed("s", <<1>>),
     Typed("switch", <<0, OFF>>), Typed("s", <<1, ON>>), Typed("s", <<256, ON - 256>>),
     Typed("s", <<8, ON>>), Typed("s", <<1, 1>>), Typed("s", <<1, OFF, 0>>)}
=============================================================================
