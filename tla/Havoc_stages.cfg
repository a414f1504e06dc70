\* Scaled block sizes; seeds shorter and longer than MAX_FILE_LEN.
CONSTANTS
    Small = 1
    Medium = 2
    Large = 2
    XL = 3
    MaxFile = 7
    StackPow = 2
    HavocTime = 1
    SpliceTime = 2
    MaxTime = 2
    SpliceCycles = 2
    Lengths = {0, 1, 3, 8}
    MaxQueue = 3
SPECIFICATION Spec
INVARIANTS
    InBounds
    

    
