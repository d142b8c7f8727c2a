CONSTANTS
    NodeID = {n1, n2, n3, n4, n5}
    Host = {h1, h2}
    Addr = {a1, a2, a3, a4, a5}
    Nil = Nil
    K = 3
    MaxLength = 6
SPECIFICATION MCSpec
SYMMETRY Symmetry
INVARIANTS
    TypeOK
    LinksAgree
    RoomIsJudgedRightly
    LRUBehindHead
PROPERTIES
    ImplementsKBucket
