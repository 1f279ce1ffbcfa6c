CONSTANTS
    Peers = {p1}
    Sent = {"list", "mnw"}
    MaxResync = 1
SPECIFICATION FairSpec
INVARIANTS
    TypeOK
    AssetsEarned
PROPERTY
    NoStageForever
