SPECIFICATION FairSpec
CONSTANTS
    chorus = chorus
    clarence = clarence
    Nodes <- Pair
    Editors <- One
    Debounce = 1
    Cooldown = 2
INVARIANT
    TypeOK
    NoPingPong
PROPERTY
    MeshSettles
