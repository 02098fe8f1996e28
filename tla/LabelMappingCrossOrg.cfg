\* CreateLabelMapping authorizes the resource under the label's org:
\* an oA admin maps its oA label onto oB's bucket.
CONSTANTS
    Any = Any
    NoID = NoID
    None = None
    oA = oA
    oB = oB
    l1 = l1
    l2 = l2
    n1 = n1
    n2 = n2
    k1 = k1
    k2 = k2
    m1 = m1
    m2 = m2
    m3 = m3
    Nil = Nil
    NoMapping = NoMapping
    p1 = p1
    p2 = p2
SPECIFICATION Spec
PROPERTY
    MappingResourceAuthorized
VIEW ServicesView
CHECK_DEADLOCK FALSE
