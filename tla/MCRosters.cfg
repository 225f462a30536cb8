CONSTANTS
    a1 = a1  a2 = a2  u1 = u1  u2 = u2  u3 = u3
    p1 = p1  team = team  file = file
    f1 = f1  f2 = f2
    Rows = {a1, a2, u1, u2, u3}
    Admins = {a1, a2}
    Present0 = {a1, a2, u1}
    Pages = {p1, team, file}
    Style <- Styles
    Operator <- Operators
    Found = {u2}
    Flights = {f1, f2}
    MaxPresses = 2
    MaxLost = 1
SPECIFICATION Spec
CHECK_DEADLOCK FALSE
INVARIANTS
    AdminRemains
    QuietPageAgrees
PROPERTIES
    EditKeepsActivation
