SPECIFICATION Spec

CONSTANTS
    m1 = m1
    m2 = m2
    a = a
    b = b
    c = c
    r1 = r1
    r2 = r2
    run = run
    root = root
    super = super
    Maids = {m1}
    Minions = {a, b}
    Accepted <- MCAccepted
    Topics = {r1, r2}
    MayBeDown = {}
    PoolSize = 2
    FaultPlans <- NoFaults
    Requests = {r1, r2}
    NetapiClients = {run, root}
    Api <- SameApi
    Tgt <- MixTgt
    Keys = {m1}
    SelfIp = super

INVARIANTS
    ResponseIsOwn

CHECK_DEADLOCK FALSE
