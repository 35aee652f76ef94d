\* None of these holds.  TLC stops at the first; take it out to see the next.
SPECIFICATION Spec
CONSTANTS
    u1 = u1  u2 = u2  u3 = u3
    r1 = r1  r2 = r2  r3 = r3
    Null = Null
    Users = {u1, u2}
    Reqs = {r1, r2}
    MaxRows = 1
    Events = {"issue", "delete"}
SYMMETRY BothSymmetry
INVARIANT TargetSet
PROPERTIES DeleteNotWhileGenerating LiveRowKept
