\* The coefficients are 0, 1 and a few with long polynomials.
CONSTANTS
    Cases <- MCCases
    Coef = {0, 1, 202}
SPECIFICATION Spec
CHECK_DEADLOCK FALSE
INVARIANTS
    TypeOK
    TablesAreTheField
    SharesGrowTogether
    ThresholdRecovers
    OneShortIsWrong
