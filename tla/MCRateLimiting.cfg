SPECIFICATION Spec
CONSTANTS
    Calls = {c1, c2, c3, c4}
    Instances = {i1, i2}
    Limit = 2
    Window = 5
    Unit = 2
    MaxSkew = 1
    MaxDelay = 1
    MaxRestarts = 1
    MaxClock = 9
SYMMETRY MCSymmetry
PROPERTIES KeepsTheWindow RetryHelps
