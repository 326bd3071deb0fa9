SPECIFICATION FairSpec

CONSTANTS
    m1 = m1
    m2 = m2
    m3 = m3
    a = a
    b = b
    c = c
    t = t
    Maids = {m1, m2, m3}
    Minions = {a, b, c}
    Accepted <- MCAccepted
    Topics = {t}
    MayBeDown = {m2}
    PoolSize = 2
    FaultPlans <- MCPlans
    Keys = {m1, m2, m3}
    Tgt <- List
    Topic = t

INVARIANTS
    TypeOK
    DoneMeansDone
    NobodyMissing

PROPERTIES
    EndsUnlessDown

CHECK_DEADLOCK FALSE
