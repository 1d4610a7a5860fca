SPECIFICATION ShutSpec
CONSTANTS
    Login = {l1, l2}
    MaxFails = 3
    Cap = 3
    Wait <- Doubling
    Stale = 6
    Slow = 1
    Req = {r1, r2}
    ReqRates = {1}
    DlRates = {2, 3}
    Floor = 2
    FileSizes = {1, 4}
    MaxIdle = 1
    Window = 1
    Threshold = 2
    BanBase = 1
    BanMax = 2
    Trap = 2
    MaxStrikes = 3
    Enabled = {"trap", "bot", "download", "config"}
    None = None
INVARIANTS EvictionInvisible GuessesAreFew
PROPERTIES BanHasCause ShutOutGetIn
