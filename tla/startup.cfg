SPECIFICATION Spec
CONSTANTS
    ann = ann
    bob = bob
    Nobody = Nobody
    Absent = Absent
    Identities <- TheIdentities
    Members = {ann, bob}
    Configs <- TheConfigs
    Statements = 3
    MaxStops = 3
INVARIANTS
    TypeOK
    ReadyToServe
    MapFollowsConfig
    NeverGuesses
PROPERTIES
    ServesUnlessTorn
