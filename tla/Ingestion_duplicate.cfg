SPECIFICATION Spec
CONSTANTS
    n1 = n1
    n2 = n2
    Name = {n1, n2}
    up = up
    down = down
    none = none
    Artifact = {up}
    NamesOf <- MCNamesOf
    Ingestion = {i1, i2}
    Request = {q1, q2}
    None = None
INVARIANT DuplicateIsNamed
