\* Three sessions of any kind, until they have ended.
CONSTANTS
    r1 = r1  r2 = r2  r3 = r3
    o1 = o1  o2 = o2  t1 = t1
    s1 = s1  s2 = s2
    none = none
    Requests = {r1, r2, r3}
    Products = {1, 2}
    Documents = {o1, o2, t1, none}
    Suppliers = {s1, s2, none}
    Transactions <- Mixture
SPECIFICATION FairSpec
INVARIANTS
    CircleNeedsTill
PROPERTIES
    EverySessionEnds
CHECK_DEADLOCK FALSE
