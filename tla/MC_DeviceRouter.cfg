SPECIFICATION Spec
INVARIANT RoutingAppliesEveryMatch
INVARIANT SupportedMatchesTable
