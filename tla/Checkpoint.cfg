SPECIFICATION Spec
CONSTANTS
    File = {f, g}
    Content = {Empty, x}
    Empty = Empty
    Absent = Absent
    Initial = {x}
    Written = {x, Absent}
    MaxCheckpoints = 2
    MaxSaves = 3
    MaxRuns = 2
    MaxCorrections = 1
    MaxFaults = 2
SYMMETRY Symmetric
INVARIANTS HistoryMatchesDisk ReplayIsLive
PROPERTIES UndoRunRestores JournalIsTimeline
CHECK_DEADLOCK FALSE
