CONSTANTS OffsetBits = 4
 PathBound = 4
 Window = 2
 Functions <- MCFunctions
SPECIFICATION Spec
INVARIANT UsesSeeReachingDefs OneDominatingDef FrontierSuffices PassesKeepObservables
CHECK_DEADLOCK FALSE
