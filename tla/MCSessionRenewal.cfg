\* One session, renewed once.
CONSTANTS
    u1 = u1  u2 = u2
    c1 = c1  c2 = c2
    Users = {u1}
    Nobody = Nobody
    Calls = {c1, c2}
    Probes = {c1}
    MaxPairs = 2
    NoToken = NoToken
SPECIFICATION Spec
PROPERTIES
    RenewalCanBeRepeated
CHECK_DEADLOCK FALSE
