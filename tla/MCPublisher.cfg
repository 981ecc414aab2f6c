SPECIFICATION Spec
CONSTANTS
    c1 = c1
    c2 = c2
    c3 = c3
    Calls <- MCCalls
    Attempts = 1
INVARIANTS
    TypeOK
    SingleFlight
    NoLeak
    CurrentNotClosed
    NoNilSession
    OnlyBrokenReplaced
    AtMostOnce
PROPERTIES
    RetryOnNewSession
    ReplacedByNewer
    PublishReturns
    ReconnectEnds
