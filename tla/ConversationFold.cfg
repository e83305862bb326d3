SPECIFICATION Spec
CONSTANTS
    Texts = {t1}
    Calls = {c1}
    Subtasks = {s1}
    Questions = {q1}
    Inherited = 0
    MaxLog = 7
    MaxSublog = 2
    MaxPipe = 1
    MaxPosts = 1
    MaxDrops = 1
INVARIANTS QuestionGate RefreshSame RunningIsReal SendSettles CancelCloses
CHECK_DEADLOCK FALSE
