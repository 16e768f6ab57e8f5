CONSTANTS
    f1 = f1
    f2 = f2
    d1 = d1
    d2 = d2
    w1 = w1
    w2 = w2
    Decisions <- SpillDecisions
    Top = Top
    Always = Always
    NoCond = NoCond
    Collapse = FALSE
    WidenBound = 1
    Spill = TRUE
    Fact <- TwoFacts
    Worker = {w1, w2}
    Nobody = Nobody
    Offers <- SpillOffers
    SideShard <- OneShard
SPECIFICATION FairSpec
INVARIANTS HoldsLeast CountsExact DeltaIsNews ChangedIffFound
PROPERTIES ImplementsRel InsertsReturn
