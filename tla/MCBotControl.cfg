CONSTANTS
    s1 = s1
    s2 = s2
    s3 = s3
    o1 = o1
    o2 = o2
    a1 = a1
    Starts = {s1, s2, s3}
    Operators = {o1, o2}
    Readers = {a1}
    None = None
    Placeholder = Placeholder
SPECIFICATION MCSpec
INVARIANTS
    TypeOK
    FailedRuntimeIsNotCurrent
    HaltedIsBeingKilled
    StartedIsBooted
    OneRuntimeAlone
    RunningIsTickedAlone
PROPERTY RequestsAreAnswered
