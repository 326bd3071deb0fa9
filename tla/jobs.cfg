SPECIFICATION FairSpec

CONSTANTS
    m1 = m1
    m2 = m2
    a = a
    b = b
    c = c
    ta = ta
    t = t
    super = super
    Maids = {m1, m2}
    Minions = {a, b, c}
    Accepted <- MCAccepted
    Topics = {ta, t}
    MayBeDown = {m2}
    PoolSize = 1
    FaultPlans <- MCPlans
    Keys = {m1, m2}
    SelfIp = super
    Tgt <- All
    AsyncTopic = ta
    Topic = t

INVARIANTS
    TypeOK
    ListsWhatWasStarted
    NoneLeftRunning

PROPERTIES
    EndsUnlessDown

CHECK_DEADLOCK FALSE
