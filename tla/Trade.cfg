SPECIFICATION Spec
CONSTANTS
    Player = {p1, p2}
    Item = {i1, i2}
    MaxMoney = 2
    Modulus = 5
    Capacity = 1
    None = None
SYMMETRY TradeSymmetry
CONSTRAINT ItemsOrMuchMoney
INVARIANTS TypeOK TradesArePaired ItemInOnePlace AcceptedIsCurrent
PROPERTIES ImplementsBargain StakesOutgrowPurseByEarning RowsDriftByFeesAndCuts
