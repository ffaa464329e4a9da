SPECIFICATION Spec
CONSTANTS
    Cap = 3
    Wrap = 8
    Owner = {a, b}
INVARIANT
    TypeOK
PROPERTY
    ImplementsTable
