\* Two preparations of two nodes, one edit and one restart.
CONSTANTS
    Nodes = {"D1", "D2"}
    Contents <- MCContents
    Origins <- MCOrigins
    MaxPreparations = 2
    MaxEdits = 1
    MaxRestarts = 1
SPECIFICATION PrepareSpec
INVARIANTS
    ReadyIsDeployable
    PhaseSettles
\* Nothing is left to do when the preparations are used up.
CHECK_DEADLOCK FALSE
