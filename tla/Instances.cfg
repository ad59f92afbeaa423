\* The message library: what is printed, edited by others, read and passed on.
SPECIFICATION Spec
CONSTANTS
    Who = {ann}
    Word = {hello}
    Minutes = {0}
    Micros = {0, 59999999}
    Nanos = {0, 500, 999}
    MaxTrips = 3
    MaxEdits = 2
INVARIANTS NothingMadeUp UneditedIsVisited TimeSettles
CHECK_DEADLOCK FALSE
