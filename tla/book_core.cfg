CONSTANTS
    Orders <- Three
    Prices <- Two
    Quantities <- Two
    Timestamps <- Two
SPECIFICATION FairSpec
INVARIANTS NotCrossed LiveOrdersRest FillsAccounted DepthShows
PROPERTIES QuotesBest ImplementsPriceTimeBook SubmitReturns
CHECK_DEADLOCK FALSE
