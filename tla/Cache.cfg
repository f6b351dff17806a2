SPECIFICATION Spec
CONSTANTS
    Workers = {w1, w2}
    w1 = w1
    w2 = w2
    None = None
    Policies <- MCPolicies
    MaxVersion = 1
    MaxTime = 1
CHECK_DEADLOCK FALSE
INVARIANTS
    BodyNotOlder
    OnlyPublicBytes
PROPERTIES
    ConfirmedIsServed
    WithdrawnIsAsked
SYMMETRY Symmetry
