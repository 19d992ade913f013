SPECIFICATION RerunSpec
CONSTANTS
    Order <- SomeSamples
    Tokens = {k1, k2, k3, k4}
    NoToken = NoToken
    MaxFaults = 3
    ReusedOrders = {"normal"}
INVARIANTS
    NotDuplicated
    FileWorks
PROPERTIES
    SamplesMoveForward
    CredentialRecovers
