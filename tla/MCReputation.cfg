SPECIFICATION Spec
CONSTANTS
    n1 = n1
    p1 = p1
    p2 = p2
    k1 = k1
    c1 = c1
    c2 = c2
    c3 = c3
    r1 = r1
    r2 = r2
    Nodes = {n1}
    Routers = {p1, p2}
    Keys = {k1}
    Challenges = {c1, c2, c3}
    Owner <- Owners
    Target <- OneTarget
    Requests = {r1, r2}
    ServedBy <- Servers
    KeyOf <- OneKey
    NodeOf <- OneNode
    MaxConcurrent = 1
    Full = 3
    Penalty = 2
    Reward = 1
    Legacy = TRUE
    MaxFailures = 4
INVARIANTS TypeOK PlacesAddUp SlashedForThree StrikesAddUp SlashedIsRemoved TotalsFollowLog
PROPERTIES SlashedIsFinal
