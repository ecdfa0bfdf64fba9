SPECIFICATION Spec
CONSTANTS
    s1 = s1
    s2 = s2
    root = root
    ann = ann
    l1 = l1
    l2 = l2
    h1 = h1
    h2 = h2
    Nobody = Nobody
    Elsewhere = Elsewhere
    NoRow = NoRow
    Admins <- MCAdmins
    SelfService <- MCSelfService
    Grace = 2
    MaxPerCall = 1
    MaxFaults = 1
    Servers <- MCOneServer
    Users <- MCTwoUsers
    Listers <- MCTwoListers
    Handlers <- MCTwoHandlers
SYMMETRY ProcessSymmetry
PROPERTY MeetsContract
INVARIANTS
    TypeOK
    NoUntrackedGuest
    OneSweepAtATime
    OwnersExist
    
