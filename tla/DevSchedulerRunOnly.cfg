CONSTANTS
    NoRule = NoRule
    Rules = {"app"}
    Depends <- ChainDepends
    CmdRules = {}
    RunRules = {"app"}
    Flaky = {"app"}
    Callers = {}
SPECIFICATION Spec
INVARIANTS ErrorsExplained
CHECK_DEADLOCK FALSE
