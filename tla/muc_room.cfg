SPECIFICATION FairSpec
CONSTANTS
    MaxJoins = 2
    MaxSent = 3
    MaxDrops = 1
INVARIANTS TypeOK ClosedIsOutside EnteredIsInside OutsideIsOutside
PROPERTY JoinSettles
