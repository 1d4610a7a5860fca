\* Rights that change during one request; two requests with failures and restarts
SPECIFICATION MCSpec
CONSTANTS
    root = root
    alice = alice
    bob = bob
    r1 = r1
    r2 = r2
    User <- MCUser
    Admins <- MCAdmins
    Scope <- MCScope
    Component = {"a", "c", "f"}
    Path <- MCPath
    Reserved <- MCReserved
    Start <- MCStart
    Req = {r1, r2}
    Body = {empty, full}
    Empty = empty
    full = full
    MaxCalls = 4
    Large = {}
    Guest = Guest
    Nobody = Nobody
    Absent = Absent
    Dir = Dir
    Enabled = {"policy", "mark", "account", "expire", "crash", "broken", "exdev"}
VIEW View
SYMMETRY Symmetry
INVARIANTS TypeOK RightsHold
PROPERTIES NothingElseIsLost OnlyCopiesArePartial
