SPECIFICATION Spec
CONSTANTS
    c1 = c1
    c2 = c2
    s = s
    Runs = 2
    Suffixes = 1
    Step = {s}
    NoStep = NoStep
    Command = {c1, c2}
    MaxEvents = 4
    MaxCuts = 1
SYMMETRY MCSymmetry
CONSTRAINT MCApart
INVARIANTS
    TypeOK
    NothingLost
    NeverMixed
    ArchiveListed
    PinProtects
