SPECIFICATION FairSpec
CONSTANTS
    d1 = d1
    d2 = d2
    Dialers = {d1, d2}
    c1 = c1
    c2 = c2
    c3 = c3
    Clients = {c1, c2, c3}
    NoClient = NoClient
    NoDialer = NoDialer
INVARIANTS
    SharedIsDetached
    NoLeakedTransport
PROPERTIES
    NeverCutsLiveTunnel
    DialReturns
