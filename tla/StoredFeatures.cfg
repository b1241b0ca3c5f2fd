SPECIFICATION Spec
CONSTANTS
    f = f
    g = g
    u = u
    Pk = {1, 2}
    Key = fid
    Name <- MCName
    Value <- MCValue
    Null = null
    NoRow = norow
    NoFile = nofile
    Torn = torn
    Idle = idle
    MaxId = 5
    Orders <- MCOrders
INVARIANTS StoreInvariant FeaturesLoadAsWritten
