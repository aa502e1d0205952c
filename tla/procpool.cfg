\* Two children, three connections; children crash and signals come at any time.
CONSTANTS
    a1 = a1
    a2 = a2
    a3 = a3
    NumProc = 2
    Conns <- ThreeConns
SPECIFICATION FairSpec
INVARIANTS
    TypeOK
    NoOrphans
    ZombiesNoticed
PROPERTIES
    NoteReachesChild
    ShutdownEnds
    ConnsAccepted
