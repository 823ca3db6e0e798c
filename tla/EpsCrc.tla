------------------------------- MODULE EpsCrc -------------------------------
(***************************************************************************)
(* The CRC of the I2C frames: a sender closes a payload with its CRC8, the *)
(* bus may damage the bytes, and the receiver runs the same computation,   *)
(* one byte at a time, over what arrived (GENERIC_EPS_CRC8 of the flight   *)
(* software and generic_eps_crc8 of the simulator, which are one           *)
(* algorithm).                                                             *)
(*                                                                         *)
(* EpsProtocol abstracts a frame to whether it is intact and a reply to    *)
(* whether its CRC matches; this module is what that rests on.             *)
(*                                                                         *)
(* A byte is the set of its bits that are 1, numbered from the lowest, so  *)
(* that "exclusive or" is the symmetric difference.  In the same way a     *)
(* polynomial over the integers modulo 2 is the set of its exponents, and  *)
(* a byte is a polynomial of degree at most 7.                             *)
(***************************************************************************)
EXTENDS Integers, Sequences, SequencesExt, FiniteSetsExt

CONSTANTS
    Payload,   \* the payloads that are sent, sequences of bytes
    Damage     \* what the bus may add, bit by bit, to the bytes of a frame

Bit == 0..7
Byte == SUBSET Bit
HkLength == 64   \* GENERIC_EPS_DEVICE_HK_LEN

ASSUME PayloadAssumption == \A p \in Payload : p \in Seq(Byte) /\ Len(p) \in {2, HkLength}

ASSUME DamageAssumption == Damage \subseteq Seq(Byte)

VARIABLES
    frame,      \* what is sent: the payload, with its CRC once that is known
    received,   \* the bytes in the receiver's buffer, empty before the transfer
    i,          \* bytes that the running computation has gone through
    crc,        \* its register
    quotient    \* history: the polynomials it has added, by what each was shifted

vars == <<frame, received, i, crc, quotient>>

-----------------------------------------------------------------------------
\* Faulty: a register that starts at zero stays there on zeros.
InitialCrcZero == {}

InitialCrc == Bit

\* The polynomial P times x^k.
Times(P, k) == {e + k : e \in P}

\* Faulty: the polynomial is written with its lowest term first.
ShiftedReversed(c) == SymDiff(Times(c \ {7}, 1), IF 7 \in c THEN {7, 3, 2} ELSE {})

\* One round of the inner loop: a bit is shifted out of the uint8 register,
\* and 0x31 added if it was set.
Shifted(c) == SymDiff(Times(c \ {7}, 1), IF 7 \in c THEN {5, 4, 0} ELSE {})

\* The register before the inner loop and after each of its rounds.
Rounds(c) ==
    LET c1 == Shifted(c)
        c2 == Shifted(c1)
        c3 == Shifted(c2)
        c4 == Shifted(c3)
        c5 == Shifted(c4)
        c6 == Shifted(c5)
        c7 == Shifted(c6)
    IN  <<c, c1, c2, c3, c4, c5, c6, c7, Shifted(c7)>>

\* One round of the outer loop: what a byte makes of the register c.
Fed(c, byte) == Rounds(SymDiff(c, byte))[9]

\* What it makes of the quotient q: a term for each round that adds 0x31.
Divided(q, c, byte) ==
    Times(q, 8) \cup
        {8 - k : k \in {n \in 1..8 : 7 \in Rounds(SymDiff(c, byte))[n]}}

Feed(byte) ==
    /\ crc' = Fed(crc, byte)
    /\ quotient' = Divided(quotient, crc, byte)
    /\ i' = i + 1

Damaged(bytes, d) == [k \in DOMAIN bytes |-> SymDiff(bytes[k], d[k])]

\* The damages that the bus may do to a frame, which it does not lengthen or cut.
DamageTo(bytes) == {d \in Damage : Len(d) = Len(bytes)}

\* The buffer of GENERIC_EPS_RequestHK when no reply arrives.
Unread(bytes) ==
    IF Len(bytes) = HkLength + 1 THEN {[k \in DOMAIN bytes |-> {}]} ELSE {}

Init ==
    /\ frame \in Payload
    /\ received = <<>>
    /\ i = 0
    /\ crc = InitialCrc
    /\ quotient = {}

\* The sender goes through its payload ...
Compose ==
    /\ received = <<>>
    /\ i < Len(frame)
    /\ Feed(frame[i + 1])
    /\ UNCHANGED <<frame, received>>

\* ... and sends it with the CRC; the receiver starts on what arrives.
Transfer ==
    /\ received = <<>>
    /\ i = Len(frame)
    /\ frame' = Append(frame, crc)
    /\ received' \in {frame'} \cup {Damaged(frame', d) : d \in DamageTo(frame')} \cup Unread(frame')
    /\ i' = 0
    /\ crc' = InitialCrc
    /\ quotient' = {}

Check ==
    /\ received # <<>>
    /\ i < Len(received) - 1
    /\ Feed(received[i + 1])
    /\ UNCHANGED <<frame, received>>

Next == Compose \/ Transfer \/ Check

Spec == Init /\ [][Next]_vars
-----------------------------------------------------------------------------
\* The polynomial q times x^8 + x^5 + x^4 + 1.
Product(q) == SymDiff(SymDiff(Times(q, 8), Times(q, 5)), SymDiff(Times(q, 4), q))

\* The first n bytes as a polynomial.
Terms(bytes, n) == UNION {Times(bytes[j], 8 * (n - j)) : j \in 1..n}

\* The same times x^8, its leading 8 terms inverted: what the CRC is of.
Polynomial(bytes, n) == SymDiff(Times(Bit, 8 * n), Times(Terms(bytes, n), 8))

(***************************************************************************)
(* The register is at every byte the remainder of the division of what it  *)
(* has gone through by x^8 + x^5 + x^4 + 1, and a byte: the quotient is    *)
(* made of the places where 0x31 was added.                                *)
(* (The shifts and casts of GENERIC_EPS_CRC8.)                             *)
(***************************************************************************)
RegisterIsRemainder ==
    LET bytes == IF received = <<>> THEN frame ELSE received IN
    /\ crc \in Byte
    /\ Polynomial(bytes, i) = SymDiff(Product(quotient), crc)

(***************************************************************************)
(* A receiver takes a frame for intact exactly when it is: for each damage *)
(* in Damage, and for a buffer that nothing was read into.                 *)
(* (GENERIC_EPS_RequestHK and determine_i2c_response_for_request check     *)
(* nothing else of what they received.)                                    *)
(***************************************************************************)
VerdictIsIntact ==
    received # <<>> /\ i = Len(received) - 1
        => (crc = Last(received) <=> received = frame)
=============================================================================
