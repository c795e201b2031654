SPECIFICATION Spec
CONSTANTS
    Conns = {c1, c2}
    Signers = {c1}
    MaxEntries = 3
INVARIANT
    NoFalseAlarm
