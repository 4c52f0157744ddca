SPECIFICATION FairSpec
CONSTANTS
    tdi = tdi
    toluene = toluene
    spread = spread
    ratio = ratio
    Codes = {tdi, toluene, spread, ratio}
    Formulas <- MCFormulas
    Catalog <- MCCatalog
    Drafts <- MCDrafts
    Prices = {0, 2}
    MaxDepth = 10
INVARIANTS
    TypeOK
    AnswerJustified
PROPERTIES
    EvaluationEnds
CHECK_DEADLOCK FALSE
