SPECIFICATION Spec
CONSTANTS
    Sends = {s1, s2}
    Modes = {"chat", "one_shot"}
    MaxSteps = 2
    MaxUses = 1
    Compaction = TRUE
    MaxEvents = 2
SYMMETRY Symmetric
INVARIANTS TypeOK HistorySound RepliesKept MetaTrue
PROPERTIES ReopenedOnlyByOverlap
CHECK_DEADLOCK FALSE
