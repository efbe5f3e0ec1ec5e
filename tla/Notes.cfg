SPECIFICATION Spec
CONSTANTS
    x = x
    y = y
    z = z
    c1 = c1
    c2 = c2
    top = top
    f = f
    g = g
    Folder = {top, f, g}
    Top = top
    Id = {x, y}
    Name = {x, y, z}
    Client = {c1, c2}
    Home <- HomeFolder
    Settings <- AllSettings
INVARIANT IndexFollowsFiles
INVARIANT AnswersHold
CHECK_DEADLOCK FALSE
