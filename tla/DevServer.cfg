CONSTANTS
    Calls = {c1, c2}
    Tools = {"dev.restart", "make.run", "stripe.refund", "docker.wipe"}
    Granted = {"dev.restart", "make.run", "stripe.refund"}
    Cap = 2
    MaxKeys = 2
    MaxEdits = 2
    MaxAsks = 1
    Services = {"db", "web"}
    Scopes = {{"db", "web"}, {"db"}}
    Jobs = {j1, j2}
    MaxRuns = 2
    MaxToggles = 1
SPECIFICATION MCSpec
INVARIANTS Inv PortsInv LoopInv ActionsInv
PROPERTIES DevServerSettles
CHECK_DEADLOCK FALSE
