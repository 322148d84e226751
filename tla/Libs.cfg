CONSTANTS
    c1 = c1
    c2 = c2
    s1 = s1
    s2 = s2
    ann = ann
    lobby = lobby
    Conns <- Two
    Sessions <- TwoSessions
    Subjects <- Ann
    Rooms <- OneRoom
    SessionOf <- Session
    SubjectAt <- Subject
    NoClient = NoClient
    Anonymous = Anonymous
    Cap = 1
    Tasks = {task}
    Owner = Owner
    Stoppers = {other}
    MaxStarts = 2
    inner = inner
    Outside = Outside
    Calls = {first, second, inner}
    Within <- Nested
    Limits = {0, 1, 2}
    first = first
    second = second
    Jobs = {first, second, inner}
    Flags = {k1, k2}
    MaxCommits = 2
    MaxFaults = 1
    Nil = Nil
    Keys = {k1, k2, k3}
    Rate = 1
    Window = 3
    Expiry = 2
    MaxSize = 2
    MaxTime = 4
    MaxRequests = 4
    Requests = {q1, q2}
    Ids = {session}
    SubjectOf <- Bobs
    Duration = 2
    Threshold = 1
    MaxInFlight = 2
    MaxRetries = 3
    Workers = {u1, u2}
    Sizes <- ThreeSizes
    MaxCalls = 3
    Nobody = Nobody
    session = session
    bob = bob
    Nothing = Nothing
    MaxEdits = 3
    QueueCap = 3
    top = top
    nested = nested
    dir = dir
SPECIFICATION MCSpec
INVARIANTS Inv NewestIsReached WorkersInv FlagsInv ServeInv
CHECK_DEADLOCK FALSE
PROPERTIES FlagsNeverGoBack CallsReturn
