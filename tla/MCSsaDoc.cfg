CONSTANTS OffsetBits = 4
 PathBound = 4
 Window = 2
 Functions <- MCEntryLoop
SPECIFICATION Spec
INVARIANT PhisAsDocumented
CHECK_DEADLOCK FALSE
