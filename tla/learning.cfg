SPECIFICATION Spec
CONSTANTS
    Session = {s1, s2}
    Correction = {1, 2, 3}
    Imported = {1, 2}
    Capacity = 2
    MaxCommits = 2
    MaxFailures = 1
    None = None
SYMMETRY SessionSymmetry
INVARIANTS
    LiveMirrorsDurable
    LearnedAtMostOnce
    CandidatesCurrent
PROPERTY LearnsOnlyWhatWasAllowed
CHECK_DEADLOCK FALSE
