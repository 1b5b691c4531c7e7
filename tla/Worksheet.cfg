CONSTANTS
    prime = 499
    PIPE = 2
    Token <- MCToken
    Excuse <- MCExcuse
    Programs <- MCPrograms
    Sheets <- MCSheets
SPECIFICATION Spec
INVARIANTS
    GatesSatisfied
    AllExchanged
    AdviceTaken
    HangNeedsFullPipes
PROPERTY EventuallyReturns
\* A worksheet ends, and the two processes may wait for each other.
CHECK_DEADLOCK FALSE
