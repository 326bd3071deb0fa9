SPECIFICATION FairSpec

CONSTANTS
    m1 = m1
    m2 = m2
    m3 = m3
    a = a
    b = b
    c = c
    t = t
    super = super
    Maids = {m1, m2, m3}
    Minions = {a, c}
    Accepted <- MCAccepted
    Topics = {t}
    MayBeDown = {}
    PoolSize = 2
    FaultPlans <- NoFaults
    Keys = {m1, m2, m3}
    SelfIp = super
    Tgt <- All
    Topic = t

INVARIANTS
    TypeOK

PROPERTIES
    Terminates
    ImplementsFairFanOut
