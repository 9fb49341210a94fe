SPECIFICATION FairBlockySpec
CONSTANTS
    i1 = i1
    i2 = i2
    s1 = s1
    s2 = s2
    Items = {i1, i2}
    Impatient = {i1}
    Stoppers = {s1, s2}
    ShortOfTime = {}
    byteSize <- MCByteSize
    files <- MCFiles
    fileSize <- MCFileSize
    Hooked = {i1}
    UserOptions <- MCOneAtATime
PROPERTIES
    EverySendReturns
