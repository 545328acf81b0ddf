SPECIFICATION Spec
CONSTANTS
    Clients = {c1, c2, c3, c4, c5}
    MaxConnections = 2
    MaxQueue = 3
SYMMETRY Symmetry
INVARIANTS PermitsConserved NoForgottenWaiter
