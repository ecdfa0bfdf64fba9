\* Two edits, at most three requests, on one application.
SPECIFICATION Spec
CONSTANTS
    u1 = u1  a1 = a1  a2 = a2  l1 = l1  h1 = h1  h2 = h2  NoValue = NoValue
    Users = {u1}  Members = {u1}  Aliases = {a1, a2}  Links = {l1}
    Creations <- MCCreations  Payloads <- MCPayloads
    Threads = {h1, h2}  MaxRequests = 3
SYMMETRY Symmetry
INVARIANT TypeOK
PROPERTIES ClosedToStrangers HeaderBehindAuth StagedIsNotLost OwnersChangesWait
\* Requests are bounded.
CHECK_DEADLOCK FALSE
