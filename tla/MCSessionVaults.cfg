SPECIFICATION Spec
SYMMETRY Symmetry
CONSTANTS
    Calls = {c1, c2}
    Sessions = {s1, s2}
    NoSession = NoSession
    Values = {iban, card}
    Short = {}
    Cards = {card}
INVARIANTS
    TokensResolveAtHome
    ProtectedIsTokenized
