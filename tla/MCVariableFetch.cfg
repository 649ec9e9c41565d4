\* Four shapes of dashboard, every order of answers, one move of the user.
CONSTANTS
    Names = {"a", "b", "c", "d", "e", "x"}
    Values = {0, 1}
    NoValue = 0
    MaxMoves = 1
    Boards = {"diamond", "parents", "dynamics", "mention"}
    Layout <- Layouts
CHECK_DEADLOCK FALSE
SPECIFICATION Spec
INVARIANTS
    FetchInv
    NoStaleOptions
PROPERTIES
    EveryFetchSettles
