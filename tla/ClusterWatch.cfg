SPECIFICATION Spec
CONSTANTS
    m = m
    fs = fs
    c1 = c1
    c2 = c2
    Host = {m, fs, c1, c2}
    Central = m
    Watch <- MCWatch
    Client = {c1, c2}
    Server = fs
    Packaged = {fs}
    Node = {c1, c2}
    Ctld <- MCCtld
    World <- MCWorld
    MaxChanges = 1
INVARIANTS   OneStory
CHECK_DEADLOCK FALSE
