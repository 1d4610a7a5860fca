\* Liveness under fair handlers, clock and collector; no restart, no other handler
CONSTANTS
    Session = {s1, s2}
    Path = {p1}
    Req = {r1, r2}
    Saved = {}
    Sizes = {0, 1}
    Enabled = {"delete"}
    Mover = {}
    Absent = Absent
    None = None
    Mixed = Mixed
    Files = 3
    Slots = 2
    Rejections = 2
    QueueEnabled = {"retry", "remove", "dismiss"}
SPECIFICATION UploadsSpec
INVARIANT SlotsFollowTransfers
PROPERTIES AnsweredWhileBound AbandonedVanishes EverythingEnds
CHECK_DEADLOCK FALSE
