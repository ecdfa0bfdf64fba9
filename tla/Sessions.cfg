SPECIFICATION Spec
\* Requests are bounded: the system may stop.
CHECK_DEADLOCK FALSE
SYMMETRY Symmetry
CONSTANTS
    root = root
    u1 = u1
    u2 = u2
    m1 = m1
    w1 = w1
    w2 = w2
    s1 = s1
    s2 = s2
    f1 = f1
    Boot = Boot
    Console = Console
    Nobody = Nobody
    NoRequest = NoRequest
    Root = root
    Users <- MCUsers
    Admins <- MCAdmins
    Mails <- MCMails
    mail <- MCMail
    Workers <- MCWorkers
    Sids <- MCSids
    Flows <- MCFlows
    MaxPasswords = 4
    MaxRequests = 5
    MaxMishaps = 1
INVARIANTS
    TypeOK
    SessionsAreEarned
    FlowUsedOnce
    NoSilentLockout
