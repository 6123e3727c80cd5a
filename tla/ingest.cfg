CONSTANTS
    User = {u1, u2}
    Session = {s1, s2}
    NoUser = NoUser
    Subject = {user}
    Predicate = {employer, hobby}
    Single = {employer}
    Object = {o1, o2, o3}
    Name = {n1, n2}
    Hash <- NameHash
    u1 = u1
    u2 = u2
    s1 = s1
    s2 = s2
    user = user
    employer = employer
    hobby = hobby
    o1 = o1
    o2 = o2
    o3 = o3
    n1 = n1
    n2 = n2
    Request = {r1, r2, r3}
    PoolSize = 3
    Jobs <- IngestJobs
SYMMETRY ByRequest
SPECIFICATION Spec
CHECK_DEADLOCK FALSE
INVARIANTS
    ActiveConsistent
    TurnsConsistent
    HistoryIsAChain
    NoDeadlock
    StoredTurnHasItsFacts
PROPERTIES
    BoardSpec
