SPECIFICATION FairSpec
CONSTANTS
    t1 = t1  c1 = c1  c2 = c2  r1 = r1
    NoOne = NoOne  NoDesc = NoDesc  NoBody = NoBody  NoPlan = NoPlan  NoTask = NoTask
    Rules = {r1}
    Collectors = {c1}
    Tables = {t1}
    Columns <- MCColumns
    Bodies <- OnAtwice
    Descriptors <- MoreOrLess
    ReservedFor <- Reserved
    Ops = {"remove", "toggle"}
    MaxLosses = 3
    Stalls = FALSE
    Ttl = 6
    Renewal = 2
    MaxGen = 2
INVARIANTS  RenewsCurrentPlan
PROPERTIES CoveredOrReported 
