SPECIFICATION Spec
CONSTANT
    None = None
INVARIANTS
    TokensAreTheText
    TreesAreGivenBack
    ProgramsAreJudged
CHECK_DEADLOCK FALSE
