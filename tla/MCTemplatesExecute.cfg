SPECIFICATION FairSpec
CONSTANTS
    n1 = n1
    v1 = v1
    v2 = v2
    old = old
    new = new
    broken = broken
    e1 = e1
    g1 = g1
    w1 = w1
    w2 = w2
    w3 = w3
    Names = {n1}
    Versions = {v1, v2}
    Contents = {old, new, broken}
    Broken = {broken}
    Executes = {e1}
    Lookups = {g1}
    Writers = {w1, w2, w3}
    Writes <- MCWrites
PROPERTIES
    EveryExecuteReturns
