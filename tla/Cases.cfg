SPECIFICATION Cases
CONSTANTS
    Grace = 4
    HistoryLag = 2
    CheckTime = 1
    MaxTime = 9
    Files = {f1, f2}
    Artifacts = {a1, a2}
    Places = {p1, p2}
    Reasons = {r1}
    Histories = {1, 2}
    Commands = {1, 2}
    Times = {1, 2}
    Reconsiderations = {q1}
    Absent = Absent
    None = None
    Processes = {"p1", "p2"}
    CaseStates = {"s1"}
    Decisions = {d1, d2}
    Requests = {1}
    Initial = 1
    Maximum = 2
    MaxClock = 1
    Missing = Missing
INVARIANTS
    NoFalseFailure
    OutcomesReadBack
    ImportsAreProven
    AnswersLatest
    StableSinceIsSound
CHECK_DEADLOCK FALSE
SYMMETRY Symmetry
