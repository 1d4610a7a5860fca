SPECIFICATION Spec
CONSTANTS
    p1 = p1
    r1 = r1
    r2 = r2
    MaxId = 2
    MaxSessions = 1
    Name = {"admin", "eve"}
    Admin = "admin"
    Scope = {"", "a"}
    Whole = ""
    Bodies <- MCBodies
    Password = {p1}
    Req = {r1, r2}
    Enabled = {"setup", "create", "update", "delete", "change", "login", "restart", "seed"}
    None = None
SYMMETRY Symmetry
INVARIANT SessionsKeepTheirAccount
PROPERTIES LastAdminStays OriginalStays
