SPECIFICATION EdgeSpec
CONSTANTS
    r1 = r1
    r2 = r2
    q1 = q1
    Activities = {r1, r2, q1}
    Riders <- TwoRiders
    Owner <- OwnerOfThree
    Sessions = {s1, s2}
    Nothing = nothing
    MaxChanges = 1
SYMMETRY Symmetry
INVARIANTS
    ContributorsHaveTheirEdge
    CountsAreExact
    AggregateFollows
    NoHeatWithoutARide
