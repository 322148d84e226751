CONSTANTS
    NoRule = NoRule
    Rules = {"gen", "app"}
    Depends <- ChainDepends
    CmdRules = {"gen", "app"}
    RunRules = {}
    Flaky = {}
    Callers = {"web"}
SPECIFICATION Spec
INVARIANTS NoLostWakeup OwedIsQueued
PROPERTIES EventuallyBuilt ShutdownCompletes
CHECK_DEADLOCK FALSE
