------------------------------ MODULE MCEpsCrc ------------------------------
(***************************************************************************)
(* EpsCrc over the frames the flight software writes, and over replies.    *)
(***************************************************************************)
EXTENDS EpsCrc

\* The byte whose value is n.
Bits(n) == {k \in Bit : (n \div 2^k) % 2 = 1}

\* The command frames: a switch on, a switch off, a telemetry request.
Commands == {<<Bits(0), Bits(170)>>, <<Bits(7), {}>>, <<Bits(112), {}>>}

\* The byte sequence whose bits, counted from the first, are those of B.
Flips(length, B) ==
    [k \in 1..length |-> {7 - (b % 8) : b \in {e \in B : e \div 8 = k - 1}}]

\* Every one, two or three bits of a frame of 3 bytes, and every burst of at
\* most 8 bits in a row.
CommandDamage ==
    {Flips(3, B) : B \in UNION {kSubset(n, 0..23) : n \in 1..3}}
    \cup {Flips(3, {b + first : b \in B}) :
            first \in 0..16, B \in (SUBSET (0..7)) \ {{}}}

\* Replies: of a device at rest, and with every kind of byte.
Replies == {[k \in 1..HkLength |-> {}], [k \in 1..HkLength |-> Bits((37 * k) % 256)]}

\* One byte of a reply changed, in its first, last or all bits.
ReplyDamage ==
    {[k \in 1..(HkLength + 1) |-> IF k = place THEN d ELSE {}] :
        place \in 1..(HkLength + 1), d \in {{0}, {7}, Bit}}

MCPayload == Commands \cup Replies
MCDamage == CommandDamage \cup ReplyDamage
=============================================================================
