---------------------------- MODULE EpsProtocol ----------------------------
(***************************************************************************)
(* The vocabulary the flight software and the device share: what goes over *)
(* the I2C bus (fsw/shared/generic_eps_device.c and, at the other end,     *)
(* sim/src/generic_eps_hardware_model.cpp).                                *)
(*                                                                         *)
(* A command frame is abstracted to what the code tests about it: its size,*)
(* its command byte, its data byte, and whether its third byte is the CRC  *)
(* of the first two.  The 64 bytes of housekeeping data are the switch     *)
(* status words and a version stamp of the analog rails: what they say of  *)
(* the voltage and current of a switch is a function of its status word.   *)
(***************************************************************************)
EXTENDS Integers

CONSTANT Switch   \* switch numbers, 0..7 in the code

ASSUME SwitchAssumption == Switch \subseteq 0..7

OFF == 0                  \* 0x00
ON == 170                 \* 0xAA
TELEMETRY_REQUEST == 112  \* 0x70
RESET == 170              \* 0xAA

UINT16_MAX == 65535
Uint16 == 0..UINT16_MAX

\* A status word: error flags in bits 15:8, on or off in bits 7:0.
StatusWord == [flags : 0..255, state : {OFF, ON}]

Frame == [size : Nat, cmd : 0..255, data : 0..255, intact : BOOLEAN]

\* write_data of GENERIC_EPS_CommandDevice and GENERIC_EPS_RequestHK.
CommandFrame(cmd, data) == [size |-> 3, cmd |-> cmd, data |-> data, intact |-> TRUE]

\* Housekeeping data.  Stamp 0 is that of data nothing has been written to.
Housekeeping == [sample : Nat, status : [Switch -> StatusWord]]
ZeroHousekeeping ==
    [sample |-> 0, status |-> [s \in Switch |-> [flags |-> 0, state |-> OFF]]]

\* What a read leaves in the 65-byte buffer of GENERIC_EPS_RequestHK.  The CRC
\* of 64 zero bytes is not zero, so a buffer of zeros fails the check.
Buffer == [crc_ok : BOOLEAN, hk : Housekeeping]
BadBuffer == [crc_ok |-> FALSE, hk |-> ZeroHousekeeping]
=============================================================================
