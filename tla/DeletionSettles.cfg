SPECIFICATION FairSpec
CONSTANTS
    s1 = s1
    s2 = s2
    root = root
    ann = ann
    l1 = l1
    l2 = l2
    h1 = h1
    h2 = h2
    Nobody = Nobody
    Elsewhere = Elsewhere
    NoRow = NoRow
    Admins <- MCAdmins
    SelfService <- MCNoOne
    Grace = 1
    MaxPerCall = 1
    MaxFaults = 1
    Servers <- MCOneServer
    Users <- MCAdmins
    Listers <- MCTwoListers
    Handlers <- MCOneHandler
PROPERTIES
    DueIsSettled
    SweepLockIsReleased
