SPECIFICATION Spec
INVARIANT LatencyMatchesGeometry
