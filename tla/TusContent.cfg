\* Two uploads beside saves, one beside moves; removals and restarts in both
CONSTANTS
    Session = {s1, s2}
    Path = {p1, p2}
    Req = {r1, r2}
    Saved = {f1, f2}
    Sizes = {2}
    Enabled = {"delete", "save", "remove", "move", "crash"}
    Mover = {m1}
    Absent = Absent
    None = None
    Mixed = Mixed
SPECIFICATION ContentSpec
SYMMETRY Symmetry
INVARIANTS
    UploadIsPrefix
    CompleteIsWhole
CHECK_DEADLOCK FALSE
