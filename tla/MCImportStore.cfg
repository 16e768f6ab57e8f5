CONSTANTS
    App = App
    Lib = Lib
    MaxVersion = 3
    LibOf <- MCLibOf
    Rebuild <- MCRebuild
    MaxEdits = 2
    MaxCrashes = 1
    NoFile = NoFile
    Torn = Torn
SPECIFICATION FairSpec
INVARIANTS CompleteIsWhole StampIsWhole UpToDateIsSound SubsBelong
PROPERTIES ImportRecovers
