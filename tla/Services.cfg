\* The auth wrappers under five callers; the recorder handler with one
\* crash and one in-flight redelivery; the v1 DBRP service with one caller
\* against AtomicDBRP and with two callers whose Ranges race Creates and
\* Deletes; the v2 DBRP service on two orgs sharing database names; the source
\* proxy against a server answering any status and body.  After
\* the last message is acknowledged the handler waits for more, and the
\* v1 service stops at its call bound: no deadlock check.
CONSTANTS
    Any = Any
    NoID = NoID
    None = None
    oA = oA
    oB = oB
    l1 = l1
    l2 = l2
    n1 = n1
    n2 = n2
    k1 = k1
    k2 = k2
    m1 = m1
    m2 = m2
    m3 = m3
    Nil = Nil
    NoMapping = NoMapping
    p1 = p1
    p2 = p2
SPECIFICATION Spec
INVARIANTS
    TypeOK
    AckAfterAttempt
    RelaysOnlyAcceptedBody
    OneDefaultPerDatabase
    KeysUnique
PROPERTIES
    ReadsOnlyAuthorized
    LabelChangesAuthorized
    SecretChangesAuthorized
    EveryMessageAcked
    AtomicRefinement
    RangeWithinCall
    DefaultStable
    PerDatabaseIsolation
VIEW ServicesView
CHECK_DEADLOCK FALSE
