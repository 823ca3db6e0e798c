---------------------------- MODULE MCEpsBattery ----------------------------
(***************************************************************************)
(* EpsBattery with three switches: on, off, and off with an error flag.    *)
(* A tick in weak sun discharges the battery and one in strong sun charges *)
(* it, below empty and above full within the bound on the calls.           *)
(***************************************************************************)
EXTENDS EpsBattery

MCLoad == [s \in Switch |-> s + 1]
MCInitStatus ==
    [s \in Switch |-> [flags |-> IF s = 2 THEN 1 ELSE 0,
                       state |-> IF s = 0 THEN ON ELSE OFF]]
=============================================================================
