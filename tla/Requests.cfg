SPECIFICATION RequestsSpec
CONSTANTS
    Req = {r1, r2}
    MaxDecodes = 2
    MaxEdits = 1
    MaxInode = 6
    MaxElsewhere = 1
    Enabled = {"edit", "corrupt", "diskfull", "restart"}
    Caller = {c1, c2, c3}
    MaxPeriods = 1
    Asked = Asked
    NoToken = NoToken
    CapabilityEnabled = {"offline", "off"}
    HideDelay = 2
    Loudest = 1
    PlayerEvents = 3
    PlayerActs = 5
    PlayerEnabled = {"swap", "broken"}
INVARIANTS SlotsAreHeld ControlsAreTrue
PROPERTIES ServedWhole RenewedOnce NothingHangs
CHECK_DEADLOCK FALSE
