CONSTANT MaxWords = 2
SPECIFICATION Spec
INVARIANT DirectRouteExactly
INVARIANT ProvisionalIsWhatFollows
PROPERTY HazardNeverOpens
