-------------------------------- MODULE MCTrade --------------------------------
(***************************************************************************)
(* Trade and TradeFaults for TLC.                                          *)
(***************************************************************************)
EXTENDS TradeFaults, TLC

TradeSymmetry == Permutations(Player) \cup Permutations(Item)

\* Bound: as long as there are items, what a character has in its row, or holds and stakes, is at
\* most MAX_MONEY.  Sums above it are reached when the last item is used up.
ItemsOrMuchMoney ==
    floor \cup UNION {inv[p] \cup hand[p] : p \in Player} # {}
        => StakesFit /\ \A p \in Player : row[p] <= MaxMoney
=============================================================================
