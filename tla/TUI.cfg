CONSTANTS
    site = site
    make1 = make1
    make2 = make2
    Runner = Runner
    Jobs = {site, make1, make2}
    Builds = {site}
    Own = {make1}
    Label <- SomeLabel
    Pushers = {sched}
    BusCap = 2
    MaxRuns = 2
    MaxEvents = 3
    db = db
    mail = mail
    MaxLogs = 3
    PaneHeights = {1, 2}
    MaxTicks = 2
    Tabs = {0, 1}
    Targets = {"seed"}
    Gated = {"T"}
    Cap = 2
    Queries <- SomeQueries
    Parent <- SomeParent
    Finds <- SomeFinds
    Widths <- SomeWidths
    BarParts = {0, 4, 10, 12, 32}
    ScreenHeights <- SomeScreens
    HelpRows = 26
    MaxHits = 14
SPECIFICATION MCSpec
INVARIANTS StatusInv LogsInv PaneInv KeysInv LayoutInv
CHECK_DEADLOCK FALSE
PROPERTIES ReaderUndisturbed TicksEnd
