--------------------------------- MODULE Trade ---------------------------------
(***************************************************************************)
(* Trading between two characters of one zone: the TradeManager of the     *)
(* zone, the five CGTrade handlers, and what may happen to a character's   *)
(* gold and items meanwhile.  All of it runs in the thread of the zone's   *)
(* group, one handler at a time.                                           *)
(*                                                                         *)
(* Items are staked by pointer and stay in their owner's inventory.  Gold  *)
(* is taken into the TradeInfo, in memory only: the row of the character   *)
(* keeps it, so what the database holds is gold plus stake.                *)
(*                                                                         *)
(* Items do not stack, an inventory is a number of slots, and gift boxes,  *)
(* whose kinds canTrade pairs, are a refusal that may come to any trade.   *)
(***************************************************************************)
EXTENDS Integers, FiniteSets

CONSTANTS Player,    \* characters of one race
          Item,
          MaxMoney,  \* MAX_MONEY
          Modulus,   \* 2^32: Gold_t is a DWORD
          Capacity,  \* items an inventory has room for
          None       \* no TradeInfo, no deal

ASSUME MoneyAssumption == MaxMoney \in Nat /\ Modulus \in Nat /\ 2 * MaxMoney < Modulus
ASSUME CapacityAssumption == Capacity \in Nat

VARIABLES presence, \* in the zone, elsewhere on the server, or logged out
          gold,     \* m_Gold of the character in memory
          row,      \* Gold of its row in the database
          inv,      \* items in its inventory
          hand,     \* the item on its mouse pointer (extra inventory slot)
          floor,    \* items on the floor of the zone
          info,     \* m_InfoMap: its TradeInfo
          agreed    \* history: the deal it last accepted, while the acceptance stands

money == <<gold, row>>
items == <<inv, hand, floor>>
vars == <<presence, gold, row, inv, hand, floor, info, agreed>>

\* Gold_t
Words == 0 .. Modulus - 1

\* TradeInfo; waiting: m_LastOKTime has not passed yet.
Offers == [target : Player, staked : SUBSET Item, gold : Words,
           status : {"TRADING", "FINISH"}, waiting : BOOLEAN]

\* What one side of a trade accepts.
Deals == [with : Player, gives : SUBSET Item, pays : Nat, takes : SUBSET Item, gets : Nat]

ASSUME NoneAssumption == None \notin Offers \cup Deals

HasInfo(p) == info[p] # None
Stake(p) == IF HasInfo(p) THEN info[p].gold ELSE 0

\* isTrading: both have an info, and each names the other.
IsTrading(p, q) ==
    /\ HasInfo(p) /\ info[p].target = q
    /\ HasInfo(q) /\ info[q].target = p

DealOf(p) ==
    [with |-> info[p].target, gives |-> info[p].staked, pays |-> info[p].gold,
     takes |-> info[info[p].target].staked, gets |-> info[info[p].target].gold]

-----------------------------------------------------------------------------
(* Gold. *)

\* Arithmetic of Gold_t.  Every sum or difference is of two words, so it wraps once at most.
Word(n) == IF n < 0 THEN n + Modulus ELSE IF n >= Modulus THEN n - Modulus ELSE n

\* What a column of 32 bits keeps of n: the servers run without strict mode.
Column(n) == IF n >= Modulus THEN Modulus - 1 ELSE n

\* Mutant: setGold without its cap.
Clamp_Uncapped(n) == n

\* setGold: min(MAX_MONEY, gold).
Clamp(n) == IF n > MaxMoney THEN MaxMoney ELSE n

\* What of n moves to a purse that holds, or will hold, held: n less the margin over MAX_MONEY.
WithinMargin(n, held) ==
    LET total == Word(held + n)
    IN  IF total > MaxMoney THEN Word(n - Word(total - MaxMoney)) ELSE n

-----------------------------------------------------------------------------
(* TradeManager. *)

Init ==
    /\ presence = [p \in Player |-> "out"]
    /\ gold = [p \in Player |-> 0]
    /\ row \in [Player -> 0 .. MaxMoney]
    /\ \E owner \in [Item -> Player] :
           /\ inv = [p \in Player |-> {i \in Item : owner[i] = p}]
           /\ \A p \in Player : Cardinality(inv[p]) <= Capacity
    /\ hand = [p \in Player |-> {}]
    /\ floor = {}
    /\ info = [p \in Player |-> None]
    /\ agreed = [p \in Player |-> None]

\* initTrade
NewOffer(q) ==
    [target |-> q, staked |-> {}, gold |-> 0, status |-> "TRADING", waiting |-> TRUE]

\* clearAll: m_LastOKTime stays.
Cleared(offer) == [offer EXCEPT !.staked = {}, !.gold = 0, !.status = "TRADING"]

\* An acceptance is void when the status of its info goes back to TRADE_TRADING.
Void(S) == agreed' = [p \in Player |-> IF p \in S THEN None ELSE agreed[p]]

(***************************************************************************)
(* cancelTrade(pPC).  The partner is looked up in the zone, then on the    *)
(* whole server; the row of one who is on neither gets the stake.          *)
(***************************************************************************)
CancelTrade(p) ==
    LET q == info[p].target
        refunded == {p} \cup {r \in {q} : HasInfo(r) /\ presence[r] # "out"}
        credited == {r \in {q} : HasInfo(r) /\ presence[r] = "out"}
    IN  /\ gold' = [r \in Player |-> IF r \in refunded
                        THEN Clamp(Word(gold[r] + Stake(r))) ELSE gold[r]]
        /\ row' = [r \in Player |-> IF r \in credited
                        THEN Clamp(row[r] + Stake(r)) ELSE row[r]]
        /\ info' = [r \in Player |-> IF r \in {p, q} THEN None ELSE info[r]]
        /\ Void({p, q})

\* cancelTrade(pCreature1, pCreature2)
CancelBoth(p, q) ==
    /\ gold' = [r \in Player |-> IF r \in {p, q}
                    THEN Clamp(Word(gold[r] + Stake(r))) ELSE gold[r]]
    /\ info' = [r \in Player |-> IF r \in {p, q} THEN None ELSE info[r]]
    /\ Void({p, q})
    /\ UNCHANGED row

\* Mutant: canTrade that does not look whether the items are still there.
CanTrade_Unchecked(p, q) ==
    /\ Cardinality((inv[p] \ info[p].staked) \cup info[q].staked) <= Capacity
    /\ Cardinality((inv[q] \ info[q].staked) \cup info[p].staked) <= Capacity

\* What canTrade makes sure of: each staked item is still its owner's, and both swaps fit.
CanTrade(p, q) ==
    /\ info[p].staked \subseteq inv[p]
    /\ info[q].staked \subseteq inv[q]
    /\ Cardinality((inv[p] \ info[p].staked) \cup info[q].staked) <= Capacity
    /\ Cardinality((inv[q] \ info[q].staked) \cup info[p].staked) <= Capacity

\* checkDBGold(getGold() + tradeGold), which sets the gold to compare it.
RowMatches(p) == row[p] = Clamp(Word(gold[p] + info[p].gold))

-----------------------------------------------------------------------------
(* The handlers.  p is the sender, q the character it trades with. *)

\* CGTradePrepare, REQUEST: neither is trading.
Request(p, q) ==
    /\ p # q /\ presence[p] = "zone" /\ presence[q] = "zone"
    /\ ~HasInfo(p) /\ ~HasInfo(q)
    /\ info' = [info EXCEPT ![p] = NewOffer(q), ![q] = NewOffer(p)]
    /\ UNCHANGED <<presence, money, items, agreed>>

(***************************************************************************)
(* A handler of a trading character refuses: another trade is asked for,   *)
(* the target of the packet is not in the zone or not the partner, one of  *)
(* them is not in the safe zone or rides, the item may not be traded or is *)
(* not in the inventory, the amount is more than there is.                 *)
(***************************************************************************)
Refuse(p) ==
    /\ HasInfo(p)
    /\ CancelTrade(p)
    /\ UNCHANGED <<presence, items>>

\* CGTradePrepare, CANCEL, REJECT and BUSY; CGTradeFinish, REJECT.
Reject(p, q) ==
    /\ IsTrading(p, q)
    /\ CancelBoth(p, q)
    /\ UNCHANGED <<presence, items>>

\* Mutant: only the sender's info goes back.
Restake_OneSided(p, q, offer) ==
    /\ info' = [info EXCEPT ![p] = [offer EXCEPT !.status = "TRADING"]]
    /\ Void({p})

\* Both infos back to TRADE_TRADING, the sender's with a new stake.
Restake(p, q, offer) ==
    /\ info' = [info EXCEPT ![p] = [offer EXCEPT !.status = "TRADING"],
                            ![q].status = "TRADING"]
    /\ Void({p, q})

\* CGTradeAddItem
AddItem(p, q, i) ==
    /\ IsTrading(p, q)
    /\ i \in inv[p]
    /\ Restake(p, q, [info[p] EXCEPT !.staked = @ \cup {i}])
    /\ UNCHANGED <<presence, money, items>>

\* CGTradeRemoveItem: a slayer cannot accept for four seconds, another race at once.
RemoveItem(p, q, i) ==
    /\ IsTrading(p, q)
    /\ i \in inv[p]
    /\ \E waits \in {info[p].waiting, TRUE} :
           Restake(p, q, [info[p] EXCEPT !.staked = @ \ {i}, !.waiting = waits])
    /\ UNCHANGED <<presence, money, items>>

\* Mutant: the stake gets what was asked for, the purse loses what fits.
IncreaseMoney_AsAsked(p, q, amount) ==
    LET moved == WithinMargin(amount, Word(gold[q] + info[p].gold))
    IN  /\ IsTrading(p, q)
        /\ gold[p] >= amount
        /\ gold' = [gold EXCEPT ![p] = Clamp(Word(@ - moved))]
        /\ Restake(p, q, [info[p] EXCEPT !.gold = Word(@ + amount)])
        /\ UNCHANGED <<presence, row, items>>

\* CGTradeMoney, INCREASE: the margin is that of the receiver.
IncreaseMoney(p, q, amount) ==
    LET moved == WithinMargin(amount, Word(gold[q] + info[p].gold))
    IN  /\ IsTrading(p, q)
        /\ gold[p] >= amount
        /\ gold' = [gold EXCEPT ![p] = Clamp(Word(@ - moved))]
        /\ Restake(p, q, [info[p] EXCEPT !.gold = Word(@ + moved)])
        /\ UNCHANGED <<presence, row, items>>

\* CGTradeMoney, DECREASE: the margin is that of the sender.
DecreaseMoney(p, q, amount) ==
    LET moved == WithinMargin(amount, Word(gold[p] + info[q].gold))
    IN  /\ IsTrading(p, q)
        /\ info[p].gold >= amount
        /\ gold' = [gold EXCEPT ![p] = Clamp(Word(@ + moved))]
        /\ Restake(p, q, [info[p] EXCEPT !.gold = Word(@ - moved)])
        /\ UNCHANGED <<presence, row, items>>

\* CGTradeFinish, RECONSIDER
Reconsider(p, q) ==
    /\ IsTrading(p, q)
    /\ info' = [info EXCEPT ![p].status = "TRADING", ![p].waiting = TRUE]
    /\ Void({p})
    /\ UNCHANGED <<presence, money, items>>

\* Time passes m_LastOKTime.
Elapse(p) ==
    /\ HasInfo(p) /\ info[p].waiting
    /\ info' = [info EXCEPT ![p].waiting = FALSE]
    /\ UNCHANGED <<presence, money, items, agreed>>

-----------------------------------------------------------------------------
(* CGTradeFinish, ACCEPT. *)

AcceptTooSoon(p, q) ==
    /\ IsTrading(p, q)
    /\ info[p].waiting
    /\ CancelTrade(p)
    /\ UNCHANGED <<presence, items>>

\* The sender's info is TRADE_FINISH, and that is all: the partner has not accepted ...
Accepted(p) ==
    /\ info' = [info EXCEPT ![p].status = "FINISH"]
    /\ agreed' = [agreed EXCEPT ![p] = DealOf(p)]
    /\ UNCHANGED <<presence, money, items>>

AcceptFirst(p, q) ==
    /\ IsTrading(p, q)
    /\ ~info[p].waiting
    /\ info[q].status = "TRADING"
    /\ Accepted(p)

Completes(p, q) ==
    /\ IsTrading(p, q)
    /\ ~info[p].waiting
    /\ info[q].status = "FINISH"

\* ... or a row does not hold what it should: both will be kicked, their infos stay.
AcceptUnmatched(p, q) ==
    /\ Completes(p, q)
    /\ CanTrade(p, q)
    /\ ~(RowMatches(p) /\ RowMatches(q))
    /\ Accepted(p)

\* canTrade returns 0, or 2 for gift boxes that do not pair, or processTrade throws for them.
AcceptImpossible(p, q) ==
    /\ Completes(p, q)
    /\ CancelTrade(p)
    /\ UNCHANGED <<presence, items>>

\* Mutant: processTrade that leaves what was staked in the infos, to be refunded once more.
AcceptAndTrade_KeepsStakes(p, q) ==
    LET after == [gold EXCEPT ![p] = Clamp(Word(@ + info[q].gold)),
                              ![q] = Clamp(Word(@ + info[p].gold))]
    IN  /\ Completes(p, q)
        /\ CanTrade(p, q)
        /\ RowMatches(p) /\ RowMatches(q)
        /\ inv' = [inv EXCEPT ![p] = (@ \ info[p].staked) \cup info[q].staked,
                              ![q] = (@ \ info[q].staked) \cup info[p].staked]
        /\ gold' = after
        /\ row' = [row EXCEPT ![p] = after[p], ![q] = after[q]]
        /\ info' = [info EXCEPT ![p].status = "TRADING", ![q].status = "TRADING"]
        /\ Void({p, q})
        /\ UNCHANGED <<presence, hand, floor>>

\* processTrade.  The infos are cleared, not removed: the trade goes on.
AcceptAndTrade(p, q) ==
    LET after == [gold EXCEPT ![p] = Clamp(Word(@ + info[q].gold)),
                              ![q] = Clamp(Word(@ + info[p].gold))]
    IN  /\ Completes(p, q)
        /\ CanTrade(p, q)
        /\ RowMatches(p) /\ RowMatches(q)
        /\ inv' = [inv EXCEPT ![p] = (@ \ info[p].staked) \cup info[q].staked,
                              ![q] = (@ \ info[q].staked) \cup info[p].staked]
        /\ gold' = after
        /\ row' = [row EXCEPT ![p] = after[p], ![q] = after[q]]
        /\ info' = [info EXCEPT ![p] = Cleared(@), ![q] = Cleared(@)]
        /\ Void({p, q})
        /\ UNCHANGED <<presence, hand, floor>>

-----------------------------------------------------------------------------
(* What else the owners of stakes do. *)

\* CGAddInventoryToMouse: a staked item may go, the client is told.
TakeInHand(p, i) ==
    /\ presence[p] = "zone" /\ i \in inv[p] /\ hand[p] = {}
    /\ inv' = [inv EXCEPT ![p] = @ \ {i}]
    /\ hand' = [hand EXCEPT ![p] = {i}]
    /\ UNCHANGED <<presence, money, floor, info, agreed>>

\* CGAddMouseToInventory
PutBack(p, i) ==
    /\ presence[p] = "zone" /\ i \in hand[p] /\ Cardinality(inv[p]) < Capacity
    /\ inv' = [inv EXCEPT ![p] = @ \cup {i}]
    /\ hand' = [hand EXCEPT ![p] = {}]
    /\ UNCHANGED <<presence, money, floor, info, agreed>>

\* CGAddMouseToZone
Drop(p, i) ==
    /\ presence[p] = "zone" /\ i \in hand[p]
    /\ hand' = [hand EXCEPT ![p] = {}]
    /\ floor' = floor \cup {i}
    /\ UNCHANGED <<presence, money, inv, info, agreed>>

\* CGAddZoneToInventory
PickUp(p, i) ==
    /\ presence[p] = "zone" /\ i \in floor /\ Cardinality(inv[p]) < Capacity
    /\ inv' = [inv EXCEPT ![p] = @ \cup {i}]
    /\ floor' = floor \ {i}
    /\ UNCHANGED <<presence, money, hand, info, agreed>>

\* decreaseItemNum of the last of them.  A staked item may go too: the info keeps its pointer.
\* (A sale to a shop is this, and Earn.)
UseUp(p, i) ==
    /\ presence[p] = "zone" /\ i \in inv[p]
    /\ inv' = [inv EXCEPT ![p] = @ \ {i}]
    /\ UNCHANGED <<presence, money, hand, floor, info, agreed>>

\* Mutant: the row is written from memory, as a fee writes it.
Earn_FromMemory(p, n) ==
    LET moved == IF gold[p] + n > MaxMoney THEN MaxMoney - gold[p] ELSE n
    IN  /\ presence[p] = "zone" /\ n > 0
        /\ gold' = [gold EXCEPT ![p] = @ + moved]
        /\ row' = [row EXCEPT ![p] = gold[p] + moved]
        /\ UNCHANGED <<presence, items, info, agreed>>

\* increaseGoldEx: a monster's gold, a sale.  The purse alone is kept under MAX_MONEY.
Earn(p, n) ==
    LET moved == IF gold[p] + n > MaxMoney THEN MaxMoney - gold[p] ELSE n
    IN  /\ presence[p] = "zone" /\ n > 0
        /\ gold' = [gold EXCEPT ![p] = @ + moved]
        /\ row' = [row EXCEPT ![p] = Column(@ + moved)]
        /\ UNCHANGED <<presence, items, info, agreed>>

\* decreaseGoldEx: a purchase, a repair.  With too little in the row the statement fails,
\* and the character is disconnected: Logout.
Spend(p, n) ==
    /\ presence[p] = "zone" /\ n > 0
    /\ n <= gold[p] /\ n <= row[p]
    /\ gold' = [gold EXCEPT ![p] = @ - n]
    /\ row' = [row EXCEPT ![p] = @ - n]
    /\ UNCHANGED <<presence, items, info, agreed>>

\* setGoldEx: a fee for which the row is written from memory, without the stake.
PayFee(p, n) ==
    /\ presence[p] = "zone" /\ n > 0
    /\ n <= gold[p]
    /\ gold' = [gold EXCEPT ![p] = @ - n]
    /\ row' = [row EXCEPT ![p] = gold[p] - n]
    /\ UNCHANGED <<presence, items, info, agreed>>

-----------------------------------------------------------------------------
(* Coming and going. *)

\* Mutant: a zone that lets traders go.
LeaveTrade_Forgets(p) == UNCHANGED <<money, info, agreed>>

\* Zone::deleteCreature calls cancelTrade for whoever has an info.
LeaveTrade(p) ==
    IF HasInfo(p) THEN CancelTrade(p) ELSE UNCHANGED <<money, info, agreed>>

\* To another zone of the server.
LeaveZone(p) ==
    /\ presence[p] = "zone"
    /\ presence' = [presence EXCEPT ![p] = "away"]
    /\ LeaveTrade(p)
    /\ UNCHANGED items

Arrive(p) ==
    /\ presence[p] = "away"
    /\ presence' = [presence EXCEPT ![p] = "zone"]
    /\ UNCHANGED <<money, items, info, agreed>>

\* Logout, disconnect or kick, which leave the zone first.  The gold in memory is gone, the
\* row is not written.
Logout(p) ==
    /\ presence[p] = "away"
    /\ presence' = [presence EXCEPT ![p] = "out"]
    /\ gold' = [gold EXCEPT ![p] = 0]
    /\ UNCHANGED <<row, items, info, agreed>>

Login(p) ==
    /\ presence[p] = "out"
    /\ presence' = [presence EXCEPT ![p] = "zone"]
    /\ gold' = [gold EXCEPT ![p] = Clamp(row[p])]
    /\ UNCHANGED <<row, items, info, agreed>>

\* The server dies: no info is left, no gold in memory, nothing on the floor.
Crash ==
    /\ presence' = [p \in Player |-> "out"]
    /\ gold' = [p \in Player |-> 0]
    /\ info' = [p \in Player |-> None]
    /\ Void(Player)
    /\ floor' = {}
    /\ UNCHANGED <<row, inv, hand>>

-----------------------------------------------------------------------------
Handlers(p, q) ==
    \/ Request(p, q)
    \/ Reject(p, q)
    \/ \E i \in Item : AddItem(p, q, i)
    \/ \E i \in Item : RemoveItem(p, q, i)
    \/ \E n \in 0 .. MaxMoney : IncreaseMoney(p, q, n)
    \/ \E n \in Words : DecreaseMoney(p, q, n)
    \/ Reconsider(p, q)
    \/ AcceptTooSoon(p, q)
    \/ AcceptFirst(p, q)
    \/ AcceptUnmatched(p, q)
    \/ AcceptImpossible(p, q)
    \/ AcceptAndTrade(p, q)

Own(p) ==
    \/ Refuse(p)
    \/ Elapse(p)
    \/ \E i \in Item : TakeInHand(p, i)
    \/ \E i \in Item : PutBack(p, i)
    \/ \E i \in Item : Drop(p, i)
    \/ \E i \in Item : PickUp(p, i)
    \/ \E i \in Item : UseUp(p, i)
    \/ \E n \in 0 .. MaxMoney : Earn(p, n)
    \/ \E n \in 0 .. MaxMoney : Spend(p, n)
    \/ \E n \in 0 .. MaxMoney : PayFee(p, n)
    \/ LeaveZone(p)
    \/ Arrive(p)
    \/ Logout(p)
    \/ Login(p)

Next ==
    \/ \E p, q \in Player : Handlers(p, q)
    \/ \E p \in Player : Own(p)
    \/ Crash

Spec == Init /\ [][Next]_vars

-----------------------------------------------------------------------------
(* Properties. *)

TypeOK ==
    /\ presence \in [Player -> {"zone", "away", "out"}]
    /\ gold \in [Player -> 0 .. MaxMoney]
    /\ row \in [Player -> Words]
    /\ inv \in [Player -> SUBSET Item]
    /\ hand \in [Player -> {{}} \cup {{i} : i \in Item}]
    /\ floor \subseteq Item
    /\ info \in [Player -> Offers \cup {None}]
    /\ agreed \in [Player -> Deals \cup {None}]

\* A character that has an info is in the zone, and so is its partner, whose info names it.
TradesArePaired ==
    \A p \in Player : HasInfo(p) =>
        /\ presence[p] = "zone"
        /\ info[p].target # p
        /\ IsTrading(p, info[p].target)

\* Whatever is staked, moved, dropped and swapped, an item is in one place.
ItemInOnePlace ==
    /\ \A p \in Player : inv[p] \cap hand[p] = {} /\ (inv[p] \cup hand[p]) \cap floor = {}
    /\ \A p, q \in Player : p # q => (inv[p] \cup hand[p]) \cap (inv[q] \cup hand[q]) = {}

\* An info is TRADE_FINISH exactly while what its owner accepted is still what both stake.
AcceptedIsCurrent ==
    \A p \in Player :
        agreed[p] = IF HasInfo(p) /\ info[p].status = "FINISH" THEN DealOf(p) ELSE None

TradeInv ==
    TypeOK /\ TradesArePaired /\ ItemInOnePlace /\ AcceptedIsCurrent

\* What each character holds and stakes comes to no more than MAX_MONEY.
StakesFit == \A p \in Player : gold[p] + Stake(p) <= MaxMoney

\* Gold comes in while gold is staked.
EarnsWhileStaking(p) ==
    /\ Stake(p) > 0
    /\ gold'[p] > gold[p]
    /\ info' = info

\* The margins of CGTradeMoney, computed in 32 bits, neither make gold nor let a purse wrap: only
\* one who earns while staking comes to hold and stake more than a purse can take back.
StakesOutgrowPurseByEarning ==
    [][StakesFit /\ ~StakesFit' => \E p \in Player : EarnsWhileStaking(p)]_vars

\* A margin is a difference from MAX_MONEY of a purse and a stake: it wraps for a stake above it.
StakesCapped == \A p \in Player : Stake(p) <= MaxMoney

\* The row of a character on the server promises exactly what it holds and stakes.
RowIsWhole(p) == presence[p] # "out" => row[p] = gold[p] + Stake(p)

\* A fee is paid while gold is staked.
FeeWhileStaking(p) ==
    /\ Stake(p) > 0
    /\ gold'[p] < gold[p] /\ row'[p] = gold'[p]
    /\ info' = info

\* setGold has cut what came to more than MAX_MONEY; the row still promises it.
CutAtCap(p) == gold'[p] = MaxMoney /\ row'[p] > MaxMoney + Stake(p)'

\* A row stops being what its character holds and stakes, so that the character's next trade ends
\* with both kicked, in two ways only: it falls short by a fee paid while gold is staked, or
\* promises too much when a purse is cut at MAX_MONEY.  No stake, margin or swap does it.
RowsDriftByFeesAndCuts ==
    [][StakesCapped => \A p \in Player :
           RowIsWhole(p) /\ ~RowIsWhole(p)' => FeeWhileStaking(p) \/ CutAtCap(p)]_vars

\* The gold a character can still come to have: what it holds and stakes, or what its row holds.
Wealth ==
    [p \in Player |-> IF row[p] > gold[p] + Stake(p) THEN row[p] ELSE gold[p] + Stake(p)]

Goods == [p \in Player |-> inv[p] \cup hand[p]]

Promise == INSTANCE Bargain WITH wealth <- Wealth, goods <- Goods, accord <- agreed

\* Trading keeps the promise of Bargain, in every step from a state where no stake is above
\* MAX_MONEY.
ImplementsBargain ==
    /\ Promise!Init
    /\ [][StakesCapped => [Promise!Next]_(Promise!vars)]_vars
=============================================================================
