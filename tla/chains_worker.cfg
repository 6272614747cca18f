SPECIFICATION Spec
CONSTANTS
    worker = worker
    reconcile = reconcile
    q1 = q1
    q2 = q2
    m = m
    None = None
    Appliers = {worker}
    Reconcilers = {}
    Requests = {q1, q2}
    Media = {m}
    Events <- SameMedia
INVARIANTS
    TypeOK
    AppliedIsReflected
PROPERTIES
    ForwardOnly
    AppliesAtomically
