CONSTANTS
    MaxSize = 31
    Chunk = 3
    MaxMessage = 8
    Kinds = {"user", "id", "drop"}
    Lengths = {1, 6, 8}
    MaxMsgs = 2
    MaxAir = 2
    TxBuffers = 1
    Names <- AllNames
    Ads <- AllAds
    public = public
    private = private
    other = other
    Peer = {public, private}
    Resolvable = {private}
    MaxBonds = 2
    QueueSize = 4
    MaxKeys = 3
    Faults = {"power", "flash"}
    Prompt = TRUE
    None = None
    Blank = Blank
    Garbled = Garbled
SPECIFICATION DeviceSpec
INVARIANTS LinkTypeOK SaidIsHeard AllHeard Reachable AdShown BondsSound BondsHonoured
CHECK_DEADLOCK FALSE
