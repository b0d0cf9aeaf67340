SPECIFICATION Spec

CONSTANTS
    w1 = w1
    w2 = w2
    x1 = x1
    x2 = x2
    d1 = d1
    d2 = d2
    a = a
    b = b
    c = c
    e = e
    None = None
    Writers = {w1, w2}
    Deleters = {x1, x2}
    Docs = {d1, d2}
    Ids = {a, b, c, e}
    MaxRevisions = 3

SYMMETRY Interchangeable

INVARIANTS
    ExistsUnderKey

PROPERTIES
    ImplementsRegister
