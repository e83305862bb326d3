SPECIFICATION Spec
CONSTANTS
    Texts = {t1}
    Calls = {c1}
    Subtasks = {s1}
    Questions = {q1}
    Inherited = 1
    MaxLog = 6
    MaxSublog = 2
    MaxPipe = 1
    MaxPosts = 1
    MaxDrops = 1
INVARIANTS FailureCloses
CHECK_DEADLOCK FALSE
