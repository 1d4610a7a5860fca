\* A body longer than the size limit of a save
SPECIFICATION MCSpec
CONSTANTS
    root = root
    alice = alice
    bob = bob
    r1 = r1
    r2 = r2
    User <- MCUser
    Admins <- MCAdmins
    Scope <- MCScope
    Component = {"a", "c", "f"}
    Path <- MCPath
    Reserved <- MCReserved
    Start <- MCStart
    Req = {r1, r2}
    Body = {empty, full}
    Empty = empty
    full = full
    MaxCalls = 1
    Large = {full}
    Guest = Guest
    Nobody = Nobody
    Absent = Absent
    Dir = Dir
    Enabled = {"policy", "mark", "account", "expire", "crash", "broken", "exdev"}
VIEW View
SYMMETRY Symmetry

PROPERTY OnlyCopiesArePartial
