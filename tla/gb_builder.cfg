\* Four nodes, every order of the calls, edges that close cycles, loops of any cap.
SPECIFICATION Spec
CONSTANTS
    a = a
    b = b
    c = c
    d = d
    End = End
    None = None
    NodeId = {a, b, c, d}
    Kind <- MixedKinds
    Target <- MixedTargets
    Route <- NoRoutes
    Declared <- MixedEdges
    Cap = {0, 1}
    MaxLoops = 1
INVARIANT ForwardAcyclic
PROPERTY SearchIsExact
