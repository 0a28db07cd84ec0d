CONSTANTS
    public = public
    private = private
    other = other
    Peer = {public, private}
    Resolvable = {private}
    MaxBonds = 2
    QueueSize = 4
    MaxKeys = 3
    Faults = {"power", "flash"}
    Prompt = TRUE
    None = None
    Blank = Blank
    Garbled = Garbled
    heart = heart
    battery = battery
    Service = {heart, battery}
    Layouts <- PeerLayouts
    MaxUsers = 2
    MaxChars = 3
    Batch = 2
    DescBatch = 5
SPECIFICATION HostSpec
INVARIANT CccdFound
CHECK_DEADLOCK FALSE
