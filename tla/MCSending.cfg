SPECIFICATION Spec
CONSTANTS
    Null = Null
    b1 = b1
    b2 = b2
    g1 = g1
    g2 = g2
    Box = {b1, b2}
    Guid = {g1, g2}
    MsgId = {m1, m2, m3}
    Messages <- MCMessages
    Lists <- MCLists
SYMMETRY IdSymmetry
INVARIANTS
    TypeOK
    IdsOwn
    Accounted
    FailureUntouched
    RequestWellFormed
