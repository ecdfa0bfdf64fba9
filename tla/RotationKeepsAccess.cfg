SPECIFICATION Spec
\* Requests are bounded: when the last is served nothing is left to do.
CHECK_DEADLOCK FALSE
CONSTANTS
    u1 = u1
    u2 = u2
    s1 = s1
    h1 = h1
    h2 = h2
    Shared = Shared
    Nobody = Nobody
    NoRequest = NoRequest
    Users <- MCUsers
    Servers <- MCServers
    owner <- MCOwner
    Threads <- MCThreads
    Modes <- MCModes
    Kinds <- MCKinds
    MaxKey = 3
    MaxRequests = 1
    MaxMishaps = 1
PROPERTY
    RotationKeepsAccess
