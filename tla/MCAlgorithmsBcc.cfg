SPECIFICATION Spec
CONSTANTS
    Questions <- MCQuestions
    Counts = {0, 1, 2, 3, 4}
    maxEmailDomainLength = 4
    maxEmailLocalLength = 4
    maxLineLen = 5
INVARIANTS
    BccKept
