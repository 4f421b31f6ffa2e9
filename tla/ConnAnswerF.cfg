CONSTANTS
    Mode = "NRM"
    Links <- AnswerLinks
    Secondaries <- OneSecondary
    RetryMax = 1
    MaxRestarts = 0
SPECIFICATION Spec
INVARIANTS
    AnswersHaveF
CHECK_DEADLOCK FALSE
