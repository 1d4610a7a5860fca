\* One request at a time on two levels, or two at a time with failures and restarts
SPECIFICATION MCSpec
CONSTANTS
    root = root
    alice = alice
    bob = bob
    f1 = f1
    f2 = f2
    r1 = r1
    r2 = r2
    User <- MCUser
    Admins <- MCAdmins
    Scope <- MCScope
    Path <- MCPath
    Folder = {f1, f2}
    Req = {r1, r2}
    Enabled = {"set", "unset", "mkdir", "move", "delete", "account", "absent", "dbfail", "crash", "intent"}
    Public = Public
    Gone = Gone
VIEW View
SYMMETRY Symmetry
INVARIANT SerialMarksAreTrue
PROPERTIES SerialUnsetByOwner LoneReloadIsFresh
