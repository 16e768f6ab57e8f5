CONSTANTS OffsetBits = 4
 Programs <- MCPrograms
 ContextJoins = {"Scan", "Sets", "Unfold"}
 Frame = "frame"
 Decisions <- MCDecisions
 Top = Top
 Always = Always
 NoCond = NoCond
 Collapse = FALSE
 WidenBound = 2
 Spill = FALSE
 PathBound = 4
 DepthBound = 4
SPECIFICATION Spec
INVARIANT EnginesAgree ReferenceParity QueryComplete WitnessesConnect PathsAdmissible
PROPERTY AnalysisEnds
CHECK_DEADLOCK FALSE
