SPECIFICATION Spec
CONSTANTS
    Questions <- MCMimeQuestions
    Counts = {0, 1, 2, 3, 4}
    maxEmailDomainLength = 4
    maxEmailLocalLength = 4
    maxLineLen = 5
INVARIANTS
    HeadersReadable
