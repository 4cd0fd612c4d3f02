CONSTANTS
    Worker = {w1}
    Conn = {c1, c2}
    Caller = {k1, k2}
    NoConn = NoConn
SPECIFICATION Spec
SYMMETRY Symmetry
INVARIANT PlacedIsSound OneLiveConn ClosesOnce UnreachableIsReal
PROPERTY DownIsAsserted ImplementsFleet
