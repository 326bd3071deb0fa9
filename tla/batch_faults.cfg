SPECIFICATION Spec

CONSTANTS
    m1 = m1
    m2 = m2
    m3 = m3
    a = a
    b = b
    c = c
    fa = fa
    t = t
    super = super
    Maids = {m3}
    Minions = {a, b, c}
    Accepted <- MCAccepted
    Topics = {fa, t}
    MayBeDown = {m3}
    PoolSize = 2
    FaultPlans <- MCPlans
    Keys = {m3}
    SelfIp = super
    TgtAll = TRUE
    Targets = {}
    Hold = 2
    FaTopic = fa
    Topic = t

INVARIANTS
    TypeOK
    BatchBound
    NoTargetLost
    ResentOnlyAfterFailure

PROPERTIES
    ImplementsFanOut

SYMMETRY
    Symmetry

CHECK_DEADLOCK FALSE
