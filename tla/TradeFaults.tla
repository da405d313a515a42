------------------------------- MODULE TradeFaults -------------------------------
(***************************************************************************)
(* Trade with a database that may fail where processTrade credits the      *)
(* gold.  A statement that fails throws; the handler ends there and the    *)
(* sender is disconnected, which comes to LeaveZone.  The rows of the      *)
(* items have been written by then.                                        *)
(***************************************************************************)
EXTENDS Trade

\* setGoldEx sets the gold in memory, then its statement fails: p's, or q's after p's.
CreditFails(p, q, written) ==
    /\ Completes(p, q)
    /\ CanTrade(p, q)
    /\ RowMatches(p) /\ RowMatches(q)
    /\ inv' = [inv EXCEPT ![p] = (@ \ info[p].staked) \cup info[q].staked,
                          ![q] = (@ \ info[q].staked) \cup info[p].staked]
    /\ gold' = [gold EXCEPT ![p] = Clamp(Word(@ + info[q].gold)),
                            ![q] = IF written THEN Clamp(Word(@ + info[p].gold)) ELSE @]
    /\ row' = [row EXCEPT ![p] = IF written THEN gold'[p] ELSE @]
    /\ info' = [info EXCEPT ![p].status = "FINISH"]
    /\ agreed' = [agreed EXCEPT ![p] = DealOf(p)]
    /\ UNCHANGED <<presence, hand, floor>>

FaultyNext ==
    \/ Next
    \/ \E p, q \in Player, written \in BOOLEAN : CreditFails(p, q, written)

FaultySpec == Init /\ [][FaultyNext]_vars

-----------------------------------------------------------------------------
\* A character's gold grew in memory, and its row by no more, outside of any trade.
Earned(p) ==
    /\ row'[p] > row[p]
    /\ gold'[p] - gold[p] >= row'[p] - row[p]
    /\ UNCHANGED info

\* What two characters who trade with each other can come to have between them grows when one
\* of them earns, never by the trade: what it has credited can not be credited again.  (A stake
\* above MAX_MONEY, whose margin wraps, is another matter: StakesCapped.)
GoldIsCreditedOnce ==
    [][StakesCapped => \A p, q \in Player : IsTrading(p, q) =>
           \/ Wealth'[p] + Wealth'[q] <= Wealth[p] + Wealth[q]
           \/ Earned(p) \/ Earned(q)]_vars
=================================================================================
