CONSTANTS
    NoRule = NoRule
    Rules = {"gen", "tpl", "app"}
    Depends <- ChainDepends
    CmdRules = {"gen", "tpl", "app"}
    RunRules = {"gen"}
    Flaky = {"gen"}
    Callers = {}
SPECIFICATION Spec
INVARIANTS Inv SpinnersClose FailureShown
PROPERTIES DepsFirst
CHECK_DEADLOCK FALSE
