CONSTANTS
    Payload <- MCPayload
    Damage <- MCDamage
SPECIFICATION Spec
INVARIANTS RegisterIsRemainder VerdictIsIntact
\* The computation ends.
CHECK_DEADLOCK FALSE
