SPECIFICATION Spec
CONSTANTS
    None = None  p1 = p1  p2 = p2  p3 = p3
    Proc = {p1, p2, p3}
    Inode = {1, 2, 3, 4, 5}
    MaxVersion = 3
    MaxTouches = 2
    MaxCrashes = 1
SYMMETRY AnyProcess
INVARIANTS EditStands NeverTorn ListFollows
CHECK_DEADLOCK FALSE
