SPECIFICATION FaultySpec
CONSTANTS
    Player = {p1, p2}
    Item = {i1}
    MaxMoney = 2
    Modulus = 5
    Capacity = 2
    None = None
SYMMETRY TradeSymmetry
PROPERTIES GoldIsCreditedOnce
