SPECIFICATION FairSpec

CONSTANTS
    m1 = m1
    m2 = m2
    m3 = m3
    a = a
    b = b
    c = c
    fa = fa
    t = t
    super = super
    Maids = {m1, m2}
    Minions = {a, b, c}
    Accepted <- MCAccepted
    Topics = {fa, t}
    MayBeDown = {}
    PoolSize = 2
    FaultPlans <- NoFaults
    Keys = {m1, m2}
    SelfIp = super
    TgtAll = FALSE
    Targets = {a, b, c}
    Hold = 2
    FaTopic = fa
    Topic = t

INVARIANTS
    RunsEveryTarget

PROPERTIES
    ImplementsFairFanOut
