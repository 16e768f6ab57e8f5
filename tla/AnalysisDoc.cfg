CONSTANTS OffsetBits = 4
 Programs <- MCDocPrograms
 ContextJoins = {"Scan", "Sets", "Unfold"}
 Frame = "frame"
 Decisions <- MCDecisions
 Top = Top
 Always = Always
 NoCond = NoCond
 Collapse = FALSE
 WidenBound = 2
 Spill = FALSE
 PathBound = 4
 DepthBound = 4
SPECIFICATION Spec
CHECK_DEADLOCK FALSE
INVARIANT ReferenceParity
