CONSTANTS
    Rules = {app}
    Starters = {sched, tunnel}
    Scheduler = sched
    MaxProcs = 2
    Main = Main
    Nobody = Nobody
    Tabs = {tab}
    Builders = {build, build2}
    Loggers = {proc}
    Togglers = {post1, post2}
    QueueCap = 1
    MaxEvents = 3
    Watched = {templ, goFiles}
    FeedCap = 1
    MaxSaves = 2
    Apps <- TwoApps
    site = site
    worker = worker
    Features = {stripe, tunnel}
    Rebuilders = {sched}
    MaxSets = 1
    NotRunning = NotRunning
    Pressers = {t1, t2}
    MaxTunnels = 2
    Users = {u1, u2}
    Keys = {k1, k2, BadKey}
    BadKey = BadKey
    NoKey = NoKey
    Boot = Boot
    Dotenv = Dotenv
    MaxListeners = 2
    MaxEdits = 2
SPECIFICATION MCSpec
INVARIANTS Inv BrokerInv EnvInv TunnelInv StripeInv
PROPERTIES KeepsThePromise EnvNeverGoesBack RuntimeSettles
CHECK_DEADLOCK FALSE
