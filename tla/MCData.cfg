SPECIFICATION Spec

INVARIANTS
    ViewsFollow
    OneWinner
    PiecesAgree
    FormsAgree
    ReportsAreTrue

PROPERTIES
    FloorsRespected
    IsTokenList

CHECK_DEADLOCK FALSE
