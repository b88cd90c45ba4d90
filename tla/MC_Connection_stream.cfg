CONSTANTS
    Frames = 5
    Wide = {3, 5}
    Malformed = {2}
SPECIFICATION FairSpec
CHECK_DEADLOCK FALSE
INVARIANTS
    TypeOK
    EachFrameOnceInOrder
    AlteredOnlyByCut
PROPERTIES
    NoFrameLeftWaiting
