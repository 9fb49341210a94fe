SPECIFICATION Spec
CONSTANTS
    i1 = i1
    i2 = i2
    i3 = i3
    Items <- MCItems
    Impatient = {i1}
    byteSize <- MCByteSize
    UserOptions <- MCUserOptions
INVARIANTS
    ShutdownWaitsForAdds
