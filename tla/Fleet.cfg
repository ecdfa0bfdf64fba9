SPECIFICATION Spec
\* Requests are bounded: the system may stop.
CHECK_DEADLOCK FALSE
SYMMETRY Symmetry
CONSTANTS
    u1 = u1
    u2 = u2
    t1 = t1
    t2 = t2
    x1 = x1
    x2 = x2
    d1 = d1
    d2 = d2
    p1 = p1
    p2 = p2
    Nobody = Nobody
    NoRequest = NoRequest
    Admins <- MCAdmins
    Users <- MCTwoUsers
    Templates <- MCTwoTemplates
    Suffixes <- MCTwoSuffixes
    Vmids <- MCTwoVmids
    Servers <- MCThreeServers
    Desk <- MCOneDesk
    Portal <- MCTwoPortals
    Kinds <- MCAllKinds
    MaxServers = 1
    MaxDisk = 2
    MaxRequests = 3
    MaxCrashes = 1
INVARIANTS
    TypeOK
    
    OvershootIsBounded
    
    DiskNeverOverstated
PROPERTIES
    DestroysItsOwnGuest
