SPECIFICATION ListingSpec
CONSTANTS
    Parent <- Home
    Dirs = {1, 2, 3, 5, 7}
    Matches = {1, 4, 6, 8, 9, 10}
    Noise = {7}
    Limit = 3
    NumWorkers = 3
    Answers = {"ok", "error", "done"}
    Enabled = {"cancel", "vanish"}
    Sought = {1, 2, 3, 4}
    SoughtDepth <- Levels
    SearchLimit = 3
    Hidden = {4}
    Pulse = Pulse
    MaxBeats = 2
    Packed = {1, 2, 3}
    PackedDepth <- Levels
    PackedDirs = {1}
    MaxSize = 2
    MaxDisturbed = 2
    MaxOdd = 1
INVARIANTS NoneTwice ShownInFull ArchiveIsWhole
PROPERTIES Implements EveryListingEnds
CHECK_DEADLOCK FALSE
