SPECIFICATION FairSpec
\* Changes are bounded: when all is meshed nothing is left to do.
CHECK_DEADLOCK FALSE
CONSTANTS
    g1 = g1
    g2 = g2
    g3 = g3
    a1 = a1
    a2 = a2
    a3 = a3
    NoGuest = NoGuest
    NoSignature = NoSignature
    Guests <- MCGuests
    Addresses <- MCAddresses
    addr <- MCApart
    MaxChanges = 5
    MaxMishaps = 2
INVARIANTS
    TypeOK
    SingleFlight
    

    
