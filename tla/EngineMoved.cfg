SPECIFICATION Spec
CONSTANTS
    t1 = t1  c1 = c1  c2 = c2  r1 = r1
    NoOne = NoOne  NoDesc = NoDesc  NoBody = NoBody  NoPlan = NoPlan  NoTask = NoTask
    Rules = {r1}
    Collectors = {c1, c2}
    Tables = {t1}
    Columns <- OneColumn
    Bodies <- OnA
    Descriptors <- OnOff
    ReservedFor <- Unreserved
    Ops = {}
    MaxLosses = 0
    Stalls = FALSE
    Ttl = 3
    Renewal = 1
    MaxGen = 1
PROPERTY ExpiryIsReal
