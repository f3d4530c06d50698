SPECIFICATION Spec
CONSTANTS
    None = None
    NoFormat = NoFormat
    Beyond = Beyond
    Hole = Hole
    NUL = NUL
INVARIANTS
    BuildsAreRight
    NativesAgree
PROPERTY
    AnswersReadBack
CHECK_DEADLOCK FALSE
