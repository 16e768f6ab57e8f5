CONSTANTS
    f1 = f1
    f2 = f2
    d1 = d1
    d2 = d2
    d3 = d3
    Decisions <- ThreeDecisions
    Top = Top
    Always = Always
    NoCond = NoCond
    Collapse = FALSE
    WidenBound = 2
    Spill = TRUE
    Fact <- TwoFacts
    Offers <- SerialOffers
    Thread = Thread
SPECIFICATION Spec
INVARIANTS DrainOrderFree
PROPERTIES SerialImplementsRel
