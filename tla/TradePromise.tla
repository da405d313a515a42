------------------------------ MODULE TradePromise -----------------------------
(***************************************************************************)
(* Trade implements Bargain, and while no statement of the database fails  *)
(* a trade credits no gold twice.                                          *)
(***************************************************************************)
EXTENDS TradeProofs, TradeFaults

\* Wealth, in the terms of Bargain.
LEMMA WealthIs ==
    ASSUME TradeInv
    PROVE  /\ Wealth \in [Player -> Nat]
           /\ \A r \in Player : row[r] <= Wealth[r] /\ gold[r] + Stake(r) <= Wealth[r]
  <1>1. \A r \in Player : gold[r] + Stake(r) \in Nat /\ row[r] \in Nat
    <2> SUFFICES ASSUME NEW r \in Player
        PROVE  gold[r] + Stake(r) \in Nat /\ row[r] \in Nat
      OBVIOUS
    <2> QED BY StakeType
  <1> QED BY <1>1 DEF Wealth

\* A step after which nobody can come to more gold, and no acceptance is new.
LEMMA LapseIs ==
    ASSUME TradeInv, TradeInv', inv' = inv, hand' = hand,
           \A r \in Player : row'[r] <= Wealth[r] /\ gold'[r] + Stake(r)' <= Wealth[r],
           \A r \in Player : agreed'[r] \in {agreed[r], None}
    PROVE  Promise!Lapse
  <1>1. /\ Wealth' = [r \in Player |-> IF row'[r] > gold'[r] + Stake(r)' THEN row'[r]
                                       ELSE gold'[r] + Stake(r)']
        /\ \A r \in Player : row'[r] \in Nat /\ gold'[r] + Stake(r)' \in Nat
    <2>1. \A r \in Player : row'[r] \in Nat /\ gold'[r] \in Nat
      BY MoneyAssumption DEF TradeInv, TypeOK, Words
    <2>2. \A r \in Player : Stake(r)' \in Nat
      BY MoneyAssumption DEF TradeInv, TypeOK, Stake, HasInfo, Offers, Words
    <2> QED BY <2>1, <2>2 DEF Wealth
  <1>2. Wealth' \in [Player -> Nat] /\ \A r \in Player : Wealth'[r] <= Wealth[r]
    BY <1>1
  <1>3. Goods' = Goods
    BY DEF Goods
  <1>4. agreed' \in [Player -> Promise!Deals \cup {None}]
    BY DEF TradeInv, TypeOK, Deals, Promise!Deals
  <1> QED BY <1>2, <1>3, <1>4 DEF Promise!Lapse

\* The same, for a step that moves gold between purses and stakes only.
LEMMA MovesLapse ==
    ASSUME TradeInv, TradeInv', UNCHANGED items, SumsHold,
           \A r \in Player : agreed'[r] \in {agreed[r], None}
    PROVE  Promise!Lapse
  <1>1. \A r \in Player : /\ row[r] <= Wealth[r] /\ gold[r] + Stake(r) <= Wealth[r]
                          /\ Wealth[r] \in Nat /\ gold[r] + Stake(r) \in Nat
    BY WealthIs, StakeType
  <1>2. \A r \in Player : gold'[r] + Stake(r)' \in Nat
    <2>1. \A r \in Player : gold'[r] \in Nat /\ Stake(r)' \in Nat
      BY MoneyAssumption DEF TradeInv, TypeOK, Stake, HasInfo, Offers, Words
    <2> QED BY <2>1
  <1>3. \A r \in Player : row'[r] <= Wealth[r] /\ gold'[r] + Stake(r)' <= Wealth[r]
    BY <1>1, <1>2 DEF SumsHold
  <1> QED BY <1>3, LapseIs DEF items

-----------------------------------------------------------------------------
\* Items given from an inventory are not in the hand.
LEMMA SwapInGoods ==
    ASSUME NEW held, NEW carried, NEW given, NEW taken, given \subseteq held,
           held \cap carried = {}
    PROVE  ((held \ given) \cup taken) \cup carried = ((held \cup carried) \ given) \cup taken
  <1>1. \A x : x \in given => x \notin carried
    OBVIOUS
  <1> QED BY <1>1

\* What is swapped is what the one who accepted first agreed to.
LEMMA TradeSwaps ==
    ASSUME TradeInv, TradeInv', StakesCapped, NEW p \in Player, NEW q \in Player,
           AcceptAndTrade(p, q)
    PROVE  Promise!Swap(p, q)
  <1>1. /\ info[p] \in Offers /\ info[q] \in Offers /\ p # q /\ info[p] # None /\ info[q] # None
        /\ info[p].target = q /\ info[q].target = p /\ info[q].status = "FINISH"
        /\ presence[p] = "zone" /\ presence[q] = "zone"
    BY DEF TradeInv, TypeOK, TradesArePaired, HasInfo, IsTrading, AcceptAndTrade, Completes
  <1> DEFINE deal == agreed[q]
  <1>2. /\ deal # None /\ deal.with = p
        /\ deal.gives = info[q].staked /\ deal.pays = info[q].gold
        /\ deal.takes = info[p].staked /\ deal.gets = info[p].gold
    <2>1. deal = DealOf(q)
      BY <1>1 DEF TradeInv, AcceptedIsCurrent, HasInfo
    <2>2. DealOf(q) \in Deals
      BY <1>1, MoneyAssumption DEF DealOf, Deals, Offers, Words
    <2> QED BY <1>1, <2>1, <2>2, NoneAssumption DEF DealOf
  <1> HIDE DEF deal
  <1>3. /\ info[p].staked \subseteq inv[p] /\ info[q].staked \subseteq inv[q]
        /\ inv' = [inv EXCEPT ![p] = (@ \ info[p].staked) \cup info[q].staked,
                              ![q] = (@ \ info[q].staked) \cup info[p].staked]
        /\ hand' = hand /\ presence' = presence
    BY DEF AcceptAndTrade, CanTrade
  <1>4. deal.gives \subseteq Goods[q] /\ deal.takes \subseteq Goods[p]
    BY <1>2, <1>3 DEF Goods
  <1>5. Goods' = [Goods EXCEPT ![p] = (@ \ deal.takes) \cup deal.gives,
                               ![q] = (@ \ deal.gives) \cup deal.takes]
    <2>1. \A r \in Player : inv'[r] = IF r = p THEN (inv[p] \ info[p].staked) \cup info[q].staked
                              ELSE IF r = q THEN (inv[q] \ info[q].staked) \cup info[p].staked
                              ELSE inv[r]
      BY <1>1, <1>3 DEF TradeInv, TypeOK
    <2>2. \A r \in Player : inv[r] \cap hand[r] = {}
      BY DEF TradeInv, ItemInOnePlace
    <2>3. /\ ((inv[p] \ info[p].staked) \cup info[q].staked) \cup hand[p]
               = ((inv[p] \cup hand[p]) \ info[p].staked) \cup info[q].staked
          /\ ((inv[q] \ info[q].staked) \cup info[p].staked) \cup hand[q]
               = ((inv[q] \cup hand[q]) \ info[q].staked) \cup info[p].staked
      <3>1. inv[p] \cap hand[p] = {} /\ inv[q] \cap hand[q] = {}
        BY <2>2
      <3>2. info[p].staked \subseteq inv[p] /\ info[q].staked \subseteq inv[q]
        BY <1>3
      <3>3. ((inv[p] \ info[p].staked) \cup info[q].staked) \cup hand[p]
               = ((inv[p] \cup hand[p]) \ info[p].staked) \cup info[q].staked
        BY <3>1, <3>2, SwapInGoods
      <3>4. ((inv[q] \ info[q].staked) \cup info[p].staked) \cup hand[q]
               = ((inv[q] \cup hand[q]) \ info[q].staked) \cup info[p].staked
        BY <3>1, <3>2, SwapInGoods
      <3> QED BY <3>3, <3>4
    <2>6. \A r \in Player : Goods[r] = inv[r] \cup hand[r] /\ Goods'[r] = inv'[r] \cup hand[r]
      BY <1>3 DEF Goods
    <2>7. Goods'[p] = (Goods[p] \ deal.takes) \cup deal.gives
      <3>1. Goods'[p] = ((inv[p] \ info[p].staked) \cup info[q].staked) \cup hand[p]
        BY <2>1, <2>6
      <3> QED BY <1>2, <2>3, <2>6, <3>1
    <2>8. Goods'[q] = (Goods[q] \ deal.gives) \cup deal.takes
      <3>1. Goods'[q] = ((inv[q] \ info[q].staked) \cup info[p].staked) \cup hand[q]
        BY <1>1, <2>1, <2>6
      <3> QED BY <1>2, <2>3, <2>6, <3>1
    <2>4. \A r \in Player \ {p, q} : Goods'[r] = Goods[r]
      BY <2>1, <2>6
    <2>5. Goods' = [r \in Player |-> Goods'[r]] /\ Goods = [r \in Player |-> Goods[r]]
      BY DEF Goods
    <2> HIDE DEF Goods
    <2> QED BY <1>1, <2>4, <2>5, <2>7, <2>8
  <1>6. Stake(p) = info[p].gold /\ Stake(q) = info[q].gold
    BY <1>1 DEF Stake, HasInfo
  <1>7. /\ gold[p] \in 0 .. MaxMoney /\ info[p].gold \in 0 .. MaxMoney
        /\ gold[q] \in 0 .. MaxMoney /\ info[q].gold \in 0 .. MaxMoney
    BY <1>6, CappedIs
  <1>8. /\ Word(gold[p] + info[q].gold) = gold[p] + info[q].gold
        /\ Word(gold[q] + info[p].gold) = gold[q] + info[p].gold
    BY <1>7, MoneyAssumption DEF Word
  <1> DEFINE goldp == Clamp(Word(gold[p] + info[q].gold))
             goldq == Clamp(Word(gold[q] + info[p].gold))
  <1>9. /\ goldp \in Nat /\ goldp <= gold[p] + info[q].gold
        /\ goldq \in Nat /\ goldq <= gold[q] + info[p].gold
    BY <1>7, <1>8, MoneyAssumption DEF Clamp
  <1>10. \A r \in Player :
          /\ gold'[r] = IF r = p THEN goldp ELSE IF r = q THEN goldq ELSE gold[r]
          /\ row'[r] = IF r = p THEN goldp ELSE IF r = q THEN goldq ELSE row[r]
    BY <1>1 DEF AcceptAndTrade, TradeInv, TypeOK
  <1> HIDE DEF goldp, goldq
  <1>11. \A r \in Player : Stake(r)' = IF r \in {p, q} THEN 0 ELSE Stake(r)
    BY SwapSums
  <1>12. /\ Wealth'[p] = goldp /\ Wealth'[q] = goldq
         /\ \A r \in Player \ {p, q} : Wealth'[r] = Wealth[r]
    <2>1. Stake(p)' = 0 /\ gold'[p] = goldp /\ row'[p] = goldp
      BY <1>10, <1>11
    <2>2. Stake(q)' = 0 /\ gold'[q] = goldq /\ row'[q] = goldq
      BY <1>1, <1>10, <1>11
    <2>3. \A r \in Player \ {p, q} :
            Stake(r)' = Stake(r) /\ gold'[r] = gold[r] /\ row'[r] = row[r]
      BY <1>10, <1>11
    <2>4. \A r \in Player \ {p, q} : Wealth'[r] = Wealth[r]
      BY <2>3 DEF Wealth
    <2> QED BY <1>9, <2>1, <2>2, <2>4 DEF Wealth
  <1>13. /\ Wealth \in [Player -> Nat]
         /\ gold[p] + info[p].gold <= Wealth[p] /\ gold[q] + info[q].gold <= Wealth[q]
    BY <1>6, WealthIs
  <1>14. Wealth' \in [Player -> Nat]
    <2>1. Wealth' = [r \in Player |-> Wealth'[r]]
      BY DEF Wealth
    <2> QED BY <1>9, <1>12, <1>13, <2>1
  <1>15. /\ Wealth'[p] <= Wealth[p] - deal.gets + deal.pays
         /\ Wealth'[q] <= Wealth[q] - deal.pays + deal.gets
    <2>1. Wealth[p] \in Nat /\ Wealth[q] \in Nat
      BY <1>13
    <2> QED BY <1>2, <1>7, <1>9, <1>12, <1>13, <2>1, MoneyAssumption
  <1>16. agreed' = [agreed EXCEPT ![p] = None, ![q] = None]
    BY DEF AcceptAndTrade, Void, TradeInv, TypeOK
  <1> QED BY <1>1, <1>2, <1>4, <1>5, <1>12, <1>14, <1>15, <1>16 DEF Promise!Swap, deal

-----------------------------------------------------------------------------
\* Items moved by hand.
LEMMA MoveIsPromised ==
    ASSUME TradeInv, TradeInv', NEW p \in Player, NEW i \in Item,
           TakeInHand(p, i) \/ PutBack(p, i) \/ Drop(p, i) \/ PickUp(p, i) \/ UseUp(p, i)
    PROVE  [Promise!Next]_(Promise!vars)
  <1>1. UNCHANGED <<gold, row, info, agreed>>
    BY DEF TakeInHand, PutBack, Drop, PickUp, UseUp, money
  <1>2. Wealth' = Wealth /\ agreed' = agreed
    BY <1>1 DEF Wealth, Stake, HasInfo
  <1>3. /\ inv \in [Player -> SUBSET Item] /\ hand \in [Player -> {{}} \cup {{j} : j \in Item}]
        /\ \A r \in Player : inv[r] \cap hand[r] = {}
    BY DEF TradeInv, TypeOK, ItemInOnePlace
  <1>4. CASE TakeInHand(p, i) \/ PutBack(p, i)
    <2>1. \A r \in Player : inv'[r] \cup hand'[r] = inv[r] \cup hand[r]
      <3>1. CASE TakeInHand(p, i)
        BY <1>3, <3>1 DEF TakeInHand
      <3>2. CASE PutBack(p, i)
        <4>1. hand[p] = {i}
          BY <1>3, <3>2 DEF PutBack
        <4> QED BY <1>3, <3>2, <4>1 DEF PutBack
      <3> QED BY <1>4, <3>1, <3>2
    <2>2. Goods' = Goods
      BY <2>1 DEF Goods
    <2> QED BY <1>2, <2>2 DEF Promise!vars
  <1>5. CASE Drop(p, i)
    <2>1. hand[p] = {i} /\ hand' = [hand EXCEPT ![p] = {}] /\ inv' = inv
      BY <1>3, <1>5 DEF Drop
    <2>2. i \in Goods[p] /\ i \notin inv[p]
      BY <1>3, <2>1 DEF Goods
    <2>3. \A r \in Player : Goods'[r] = IF r = p THEN Goods[p] \ {i} ELSE Goods[r]
      <3>1. \A r \in Player : hand'[r] = IF r = p THEN {} ELSE hand[r]
        BY <1>3, <2>1
      <3>2. inv[p] \cup {} = (inv[p] \cup {i}) \ {i}
        BY <2>2
      <3> QED BY <2>1, <3>1, <3>2 DEF Goods
    <2>4. Goods' = [Goods EXCEPT ![p] = @ \ {i}]
      BY <2>3 DEF Goods
    <2>5. Promise!Lose(p, i)
      BY <1>2, <2>2, <2>4 DEF Promise!Lose
    <2> QED BY <2>5 DEF Promise!Next
  <1>6. CASE PickUp(p, i)
    <2>1. i \in floor /\ inv' = [inv EXCEPT ![p] = @ \cup {i}] /\ hand' = hand
      BY <1>6 DEF PickUp
    <2>2. \A r \in Player : i \notin Goods[r]
      BY <2>1 DEF Goods, TradeInv, ItemInOnePlace
    <2>3. \A r \in Player : Goods'[r] = IF r = p THEN Goods[p] \cup {i} ELSE Goods[r]
      BY <1>3, <2>1 DEF Goods
    <2>4. Goods' = [Goods EXCEPT ![p] = @ \cup {i}]
      BY <2>3 DEF Goods
    <2>5. Promise!Find(p, i)
      BY <1>2, <2>2, <2>4 DEF Promise!Find
    <2> QED BY <2>5 DEF Promise!Next
  <1>7. CASE UseUp(p, i)
    <2>1. i \in inv[p] /\ inv' = [inv EXCEPT ![p] = @ \ {i}] /\ hand' = hand
      BY <1>7 DEF UseUp
    <2>2. i \in Goods[p] /\ i \notin hand[p]
      BY <1>3, <2>1 DEF Goods
    <2>3. \A r \in Player : Goods'[r] = IF r = p THEN Goods[p] \ {i} ELSE Goods[r]
      BY <1>3, <2>1, <2>2 DEF Goods
    <2>4. Goods' = [Goods EXCEPT ![p] = @ \ {i}]
      BY <2>3 DEF Goods
    <2>5. Promise!Lose(p, i)
      BY <1>2, <2>2, <2>4 DEF Promise!Lose
    <2> QED BY <2>5 DEF Promise!Next
  <1> QED BY <1>4, <1>5, <1>6, <1>7

-----------------------------------------------------------------------------
\* Gold paid: less in the purse, and no more in the row than there was.
LEMMA PaymentLapses ==
    ASSUME TradeInv, TradeInv', NEW p \in Player, NEW n \in 0 .. MaxMoney,
           Spend(p, n) \/ PayFee(p, n)
    PROVE  Promise!Lapse
  <1>1. /\ UNCHANGED <<presence, items, info, agreed>>
        /\ \A r \in Player : Stake(r)' = Stake(r)
        /\ \A r \in Player \ {p} : gold'[r] = gold[r] /\ row'[r] = row[r]
        /\ gold'[p] \in 0 .. MaxMoney /\ gold'[p] < gold[p]
        /\ row'[p] = row[p] - (gold[p] - gold'[p]) \/ row'[p] = gold'[p]
    <2>1. ~Earn(p, n)
      BY MoneyAssumption DEF Earn, Spend, PayFee, TradeInv, TypeOK
    <2> QED BY <2>1, PurseIs
  <1>2. \A r \in Player : /\ gold[r] \in Nat /\ row[r] \in Nat /\ Stake(r) \in Nat
                          /\ Wealth[r] \in Nat
                          /\ row[r] <= Wealth[r] /\ gold[r] + Stake(r) <= Wealth[r]
    BY WealthIs, StakeType
  <1>3. row'[p] <= Wealth[p] /\ gold'[p] + Stake(p)' <= Wealth[p]
    BY <1>1, <1>2, MoneyAssumption
  <1>4. \A r \in Player : row'[r] <= Wealth[r] /\ gold'[r] + Stake(r)' <= Wealth[r]
    BY <1>1, <1>2, <1>3
  <1> QED BY <1>1, <1>4, LapseIs DEF items

\* Gold earned: no more in the row than in the purse, for one character.
LEMMA EarningIs ==
    ASSUME TradeInv, TradeInv', StakesCapped, NEW p \in Player, NEW n \in 0 .. MaxMoney,
           Earn(p, n)
    PROVE  /\ \A r \in Player \ {p} : Wealth'[r] = Wealth[r]
           /\ UNCHANGED <<Goods, agreed>>
           /\ Wealth'[p] = Wealth[p] \/ (Wealth'[p] > Wealth[p] /\ Earned(p))
  <1>1. /\ UNCHANGED <<presence, items, info, agreed>>
        /\ \A r \in Player : Stake(r)' = Stake(r)
        /\ \A r \in Player \ {p} : gold'[r] = gold[r] /\ row'[r] = row[r]
        /\ gold'[p] \in 0 .. MaxMoney /\ gold'[p] >= gold[p]
        /\ row'[p] = Column(row[p] + (gold'[p] - gold[p]))
    <2>1. ~Spend(p, n) /\ ~PayFee(p, n)
      BY MoneyAssumption DEF Earn, Spend, PayFee, TradeInv, TypeOK
    <2> QED BY <2>1, PurseIs
  <1>2. /\ gold[p] \in 0 .. MaxMoney /\ Stake(p) \in 0 .. MaxMoney
        /\ row[p] \in Words
    BY CappedIs DEF TradeInv, TypeOK
  <1>3. \A r \in Player \ {p} : Wealth'[r] = Wealth[r]
    BY <1>1 DEF Wealth
  <1>4. UNCHANGED <<Goods, agreed>>
    BY <1>1 DEF Goods, items
  <1>5. /\ Wealth[p] = IF row[p] > gold[p] + Stake(p) THEN row[p] ELSE gold[p] + Stake(p)
        /\ Wealth'[p] = IF row'[p] > gold'[p] + Stake(p) THEN row'[p] ELSE gold'[p] + Stake(p)
    BY <1>1 DEF Wealth
  <1>6. CASE row'[p] = row[p]
    <2>1. gold'[p] = gold[p] \/ row[p] = Modulus - 1
      BY <1>1, <1>2, <1>6, MoneyAssumption DEF Column, Words
    <2>2. Wealth'[p] = Wealth[p]
      <3>1. CASE gold'[p] = gold[p]
        BY <1>5, <1>6, <3>1
      <3>2. CASE row[p] = Modulus - 1
        BY <1>1, <1>2, <1>5, <1>6, <3>2, MoneyAssumption
      <3> QED BY <2>1, <3>1, <3>2
    <2> QED BY <1>3, <1>4, <2>2
  <1>7. CASE row'[p] # row[p]
    <2>1. row'[p] > row[p] /\ gold'[p] - gold[p] >= row'[p] - row[p]
      BY <1>1, <1>2, <1>7, MoneyAssumption DEF Column, Words
    <2>2. Earned(p)
      BY <1>1, <2>1 DEF Earned
    <2>3. row[p] \in Nat /\ row'[p] \in Nat
      BY <1>2, <2>1, MoneyAssumption DEF Words, TradeInv, TypeOK
    <2>4. Wealth'[p] >= Wealth[p]
      BY <1>1, <1>2, <1>5, <2>1, <2>3, MoneyAssumption
    <2>5. Wealth[p] \in Int /\ Wealth'[p] \in Int
      BY <1>1, <1>2, <1>5, <2>3, MoneyAssumption
    <2> QED BY <1>3, <1>4, <2>2, <2>4, <2>5
  <1> QED BY <1>6, <1>7

\* What is earned adds to one character's wealth, or to none.
LEMMA EarningIsPromised ==
    ASSUME TradeInv, TradeInv', StakesCapped, NEW p \in Player, NEW n \in 0 .. MaxMoney,
           Earn(p, n)
    PROVE  [Promise!Next]_(Promise!vars)
  <1>1. Wealth' = [r \in Player |-> Wealth'[r]] /\ Wealth = [r \in Player |-> Wealth[r]]
    BY DEF Wealth
  <1> HIDE DEF Wealth
  <1>2. Wealth' = [Wealth EXCEPT ![p] = Wealth'[p]]
    BY <1>1, EarningIs
  <1>3. CASE Wealth'[p] = Wealth[p]
    <2>1. Wealth' = Wealth
      BY <1>1, <1>3, EarningIs
    <2> QED BY <2>1, EarningIs DEF Promise!vars
  <1>4. CASE Wealth'[p] > Wealth[p]
    <2>1. Promise!Earn(p)
      BY <1>2, <1>4, EarningIs DEF Promise!Earn
    <2> QED BY <2>1 DEF Promise!Next
  <1> QED BY <1>3, <1>4, EarningIs

\* Coming and going.
LEMMA ElsewhereLapses ==
    ASSUME TradeInv, TradeInv', NEW p \in Player, Arrive(p) \/ Logout(p) \/ Login(p)
    PROVE  Promise!Lapse
  <1>1. UNCHANGED <<row, inv, hand, info, agreed>> /\ \A r \in Player : Stake(r)' = Stake(r)
    BY DEF Arrive, Logout, Login, money, items, Stake, HasInfo
  <1>2. \A r \in Player : /\ gold[r] \in Nat /\ row[r] \in Nat /\ Stake(r) \in Nat
                          /\ Wealth[r] \in Nat
                          /\ row[r] <= Wealth[r] /\ gold[r] + Stake(r) <= Wealth[r]
    BY WealthIs, StakeType
  <1>3. presence[p] # "zone" /\ Stake(p) = 0
    BY DEF Arrive, Logout, Login, TradeInv, TradesArePaired, Stake
  <1>4. gold'[p] \in {gold[p], 0, Clamp(row[p])}
        /\ \A r \in Player : r # p => gold'[r] = gold[r]
    BY DEF Arrive, Logout, Login, money, TradeInv, TypeOK
  <1>5. Clamp(row[p]) \in Nat /\ Clamp(row[p]) <= row[p]
    BY <1>2, ClampIs, MoneyAssumption
  <1>6. \A r \in Player : row'[r] <= Wealth[r] /\ gold'[r] + Stake(r)' <= Wealth[r]
    BY <1>1, <1>2, <1>3, <1>4, <1>5
  <1> QED BY <1>1, <1>6, LapseIs

\* After a crash every character has what its row has.
LEMMA CrashLapses ==
    ASSUME TradeInv, TradeInv', Crash
    PROVE  Promise!Lapse
  <1>1. \A r \in Player : Wealth[r] \in Nat /\ row[r] <= Wealth[r]
    BY WealthIs
  <1>2. \A r \in Player : gold'[r] = 0 /\ Stake(r)' = 0
    BY DEF Crash, Stake, HasInfo
  <1> QED BY <1>1, <1>2, LapseIs DEF Crash, Void

\* An info is answered, or its time passes; its stakes stay.
LEMMA AnswerKeepsWealth ==
    ASSUME TradeInv, NEW p \in Player, HasInfo(p), NEW offer \in Offers,
           offer.gold = info[p].gold, info' = [info EXCEPT ![p] = offer],
           UNCHANGED <<money, items>>
    PROVE  Wealth' = Wealth /\ Goods' = Goods
  <1>1. \A r \in Player : info'[r] = IF r = p THEN offer ELSE info[r]
    BY DEF TradeInv, TypeOK
  <1>2. \A r \in Player : Stake(r)' = Stake(r)
    BY <1>1, NoneAssumption DEF Stake, HasInfo
  <1> QED BY <1>2 DEF Wealth, Goods, money, items

-----------------------------------------------------------------------------
\* Each packet handler is a step of Bargain, or none.
LEMMA HandlersArePromised ==
    ASSUME TradeInv, TradeInv', StakesCapped, NEW p \in Player, NEW q \in Player, Handlers(p, q)
    PROVE  [Promise!Next]_(Promise!vars)
  <1>1. CASE AcceptFirst(p, q) \/ AcceptUnmatched(p, q)
    <2>1. IsTrading(p, q) /\ Accepted(p)
      BY <1>1 DEF AcceptFirst, AcceptUnmatched, Completes
    <2>2. /\ info[p] \in Offers /\ info[q] \in Offers /\ HasInfo(p)
          /\ info[p].target = q /\ agreed \in [Player -> Deals \cup {None}]
      BY <2>1 DEF TradeInv, TypeOK, IsTrading, HasInfo
    <2> DEFINE offer == [info[p] EXCEPT !.status = "FINISH"]
    <2>3. offer \in Offers /\ offer.gold = info[p].gold
      BY <2>2 DEF Offers
    <2>4. info' = [info EXCEPT ![p] = offer] /\ UNCHANGED <<presence, money, items>>
      BY <2>1, <2>2 DEF Accepted
    <2> HIDE DEF offer
    <2>5. Wealth' = Wealth /\ Goods' = Goods
      BY <2>2, <2>3, <2>4, AnswerKeepsWealth
    <2>6. agreed' = [agreed EXCEPT ![p] = DealOf(p)] /\ agreed'[p] = DealOf(p)
      BY <2>1, <2>2 DEF Accepted
    <2>7. DealOf(p) \in Promise!Deals
      BY <2>2, MoneyAssumption DEF DealOf, Promise!Deals, Offers, Words
    <2>8. Promise!Accept(p)
      BY <2>5, <2>6, <2>7 DEF Promise!Accept
    <2> QED BY <2>8 DEF Promise!Next
  <1>2. CASE AcceptAndTrade(p, q)
    BY <1>2, TradeSwaps DEF Promise!Next
  <1>3. CASE ~(AcceptFirst(p, q) \/ AcceptUnmatched(p, q) \/ AcceptAndTrade(p, q))
    <2>1. SumsHold
      BY <1>3, HandlersKeepSums
    <2>2. UNCHANGED items /\ \A r \in Player : agreed'[r] \in {agreed[r], None}
      <3>1. CASE Request(p, q)
        BY <3>1 DEF Request
      <3>2. CASE Reject(p, q)
        BY <3>2 DEF Reject, CancelBoth, Void
      <3>3. ASSUME NEW i \in Item, AddItem(p, q, i) \/ RemoveItem(p, q, i)
            PROVE  UNCHANGED items /\ \A r \in Player : agreed'[r] \in {agreed[r], None}
        BY <3>3 DEF AddItem, RemoveItem, Restake, Void
      <3>4. ASSUME NEW n, IncreaseMoney(p, q, n) \/ DecreaseMoney(p, q, n)
            PROVE  UNCHANGED items /\ \A r \in Player : agreed'[r] \in {agreed[r], None}
        BY <3>4 DEF IncreaseMoney, DecreaseMoney, Restake, Void
      <3>5. CASE Reconsider(p, q)
        BY <3>5 DEF Reconsider, Void
      <3>6. CASE AcceptTooSoon(p, q) \/ AcceptImpossible(p, q)
        BY <3>6 DEF AcceptTooSoon, AcceptImpossible, CancelTrade, Void
      <3> QED BY <1>3, <3>1, <3>2, <3>3, <3>4, <3>5, <3>6 DEF Handlers
    <2>3. Promise!Lapse
      BY <2>1, <2>2, MovesLapse
    <2> QED BY <2>3 DEF Promise!Next
  <1> QED BY <1>1, <1>2, <1>3

\* Whatever else a character does is a step of Bargain, or none.
LEMMA OwnIsPromised ==
    ASSUME TradeInv, TradeInv', StakesCapped, NEW p \in Player, Own(p)
    PROVE  [Promise!Next]_(Promise!vars)
  <1>1. ASSUME NEW i \in Item,
               TakeInHand(p, i) \/ PutBack(p, i) \/ Drop(p, i) \/ PickUp(p, i) \/ UseUp(p, i)
        PROVE  [Promise!Next]_(Promise!vars)
    BY <1>1, MoveIsPromised
  <1>2. ASSUME NEW n \in 0 .. MaxMoney, Earn(p, n) \/ Spend(p, n) \/ PayFee(p, n)
        PROVE  [Promise!Next]_(Promise!vars)
    BY <1>2, EarningIsPromised, PaymentLapses DEF Promise!Next
  <1>3. CASE Arrive(p) \/ Logout(p) \/ Login(p)
    BY <1>3, ElsewhereLapses DEF Promise!Next
  <1>4. CASE Refuse(p) \/ Elapse(p) \/ LeaveZone(p)
    <2>1. UNCHANGED items /\ \A r \in Player : agreed'[r] \in {agreed[r], None}
      BY <1>4 DEF Refuse, Elapse, LeaveZone, LeaveTrade, CancelTrade, Void
    <2>2. SumsHold
      BY <1>4, RefusalKeepsSums
    <2>3. Promise!Lapse
      BY <2>1, <2>2, MovesLapse
    <2> QED BY <2>3 DEF Promise!Next
  <1> QED BY <1>1, <1>2, <1>3, <1>4 DEF Own

\* The server starts as Bargain does.
LEMMA InitIsPromised == Init => Promise!Init
  <1> SUFFICES ASSUME Init PROVE Promise!Init
    OBVIOUS
  <1>1. TradeInv
    BY InitInv
  <1>2. Goods \in [Player -> SUBSET Item]
    BY <1>1 DEF TradeInv, TypeOK, Goods
  <1>3. \A p, q \in Player : p # q => Goods[p] \cap Goods[q] = {}
    BY <1>1 DEF TradeInv, ItemInOnePlace, Goods
  <1> QED BY <1>1, <1>2, <1>3, WealthIs DEF Promise!Init, Init

\* Every step from a state where no stake is above MAX_MONEY is a step of Bargain, or none.
LEMMA StepIsPromised ==
    ASSUME TradeInv, TradeInv', StakesCapped, [Next]_vars
    PROVE  [Promise!Next]_(Promise!vars)
  <1>1. CASE \E p, q \in Player : Handlers(p, q)
    BY <1>1, HandlersArePromised
  <1>2. CASE \E p \in Player : Own(p)
    BY <1>2, OwnIsPromised
  <1>3. CASE Crash
    BY <1>3, CrashLapses DEF Promise!Next
  <1>4. CASE UNCHANGED vars
    BY <1>4 DEF vars, Promise!vars, Wealth, Goods, Stake, HasInfo
  <1> QED BY <1>1, <1>2, <1>3, <1>4 DEF Next

\* Trading implements Bargain, as long as no stake is above MAX_MONEY: nothing changes hands but
\* by an accepted deal, in one step.
THEOREM TradeKeepsPromise == Spec => ImplementsBargain
  <1>1. TradeInv /\ TradeInv' /\ [Next]_vars
          => [StakesCapped => [Promise!Next]_(Promise!vars)]_vars
    BY StepIsPromised
  <1> QED BY <1>1, InitIsPromised, TradeInvariant, PTL DEF Spec, ImplementsBargain

-----------------------------------------------------------------------------
(* Gold is credited once. *)

\* What the property says of one step.
CreditStep ==
    \A p, q \in Player : IsTrading(p, q) =>
        \/ Wealth'[p] + Wealth'[q] <= Wealth[p] + Wealth[q]
        \/ Earned(p) \/ Earned(q)

\* Nobody can come to more.
LEMMA NobodyGains ==
    ASSUME TradeInv, Wealth' \in [Player -> Nat], \A r \in Player : Wealth'[r] <= Wealth[r]
    PROVE  CreditStep
  <1>1. \A r \in Player : Wealth[r] \in Nat /\ Wealth'[r] \in Nat
    BY WealthIs
  <1> QED BY <1>1 DEF CreditStep

LEMMA LapseGainsNothing == TradeInv /\ Promise!Lapse => CreditStep
  BY NobodyGains DEF Promise!Lapse

LEMMA SumsGainNothing == TradeInv /\ TradeInv' /\ SumsHold => CreditStep
  <1> SUFFICES ASSUME TradeInv, TradeInv', SumsHold PROVE CreditStep
    OBVIOUS
  <1>1. \A r \in Player : /\ gold[r] + Stake(r) \in Nat /\ row[r] \in Nat
                          /\ gold'[r] + Stake(r)' \in Nat
    <2>1. \A r \in Player : gold'[r] \in Nat /\ Stake(r)' \in Nat
      BY MoneyAssumption DEF TradeInv, TypeOK, Stake, HasInfo, Offers, Words
    <2> QED BY <2>1, StakeType
  <1>2. Wealth' \in [Player -> Nat] /\ \A r \in Player : Wealth'[r] <= Wealth[r]
    BY <1>1 DEF SumsHold, Wealth
  <1> QED BY <1>2, NobodyGains

\* A completed trade moves gold between the two who trade, and pairs do not overlap.
LEMMA TradeGainsNothing ==
    ASSUME TradeInv, TradeInv', StakesCapped, NEW a \in Player, NEW b \in Player,
           AcceptAndTrade(a, b)
    PROVE  CreditStep
  <1> SUFFICES ASSUME NEW p \in Player, NEW q \in Player, IsTrading(p, q)
               PROVE  Wealth'[p] + Wealth'[q] <= Wealth[p] + Wealth[q]
    BY DEF CreditStep
  <1>1. /\ Promise!Swap(a, b) /\ IsTrading(a, b) /\ a # b
        /\ \A r \in Player : Wealth[r] \in Nat
    <2>1. Promise!Swap(a, b)
      BY TradeSwaps
    <2>2. IsTrading(a, b)
      BY DEF AcceptAndTrade, Completes
    <2>3. a # b
      BY <2>2 DEF TradeInv, TradesArePaired, IsTrading
    <2> QED BY <2>1, <2>2, <2>3, WealthIs
  <1>2. {p, q} = {a, b} \/ {p, q} \cap {a, b} = {}
    BY <1>1 DEF IsTrading
  <1>3. p # q
    BY DEF TradeInv, TradesArePaired, IsTrading
  <1>4. \A r \in Player : Wealth'[r] \in Nat
    BY <1>1 DEF Promise!Swap
  <1>5. Wealth'[a] + Wealth'[b] <= Wealth[a] + Wealth[b]
    <2>1. agreed[b] \in Deals
      BY <1>1 DEF Promise!Swap, TradeInv, TypeOK
    <2>2. agreed[b].gets \in Nat /\ agreed[b].pays \in Nat
      BY <2>1 DEF Deals
    <2> QED BY <1>1, <1>4, <2>2 DEF Promise!Swap
  <1>6. \A r \in Player \ {a, b} : Wealth'[r] = Wealth[r]
    BY <1>1 DEF Promise!Swap
  <1>7. CASE {p, q} = {a, b}
    <2>1. (p = a /\ q = b) \/ (p = b /\ q = a)
      BY <1>3, <1>7
    <2>2. /\ Wealth[a] \in Nat /\ Wealth[b] \in Nat
          /\ Wealth'[a] \in Nat /\ Wealth'[b] \in Nat
      BY <1>1, <1>4
    <2> QED BY <1>5, <2>1, <2>2
  <1>8. CASE {p, q} \cap {a, b} = {}
    <2>1. p \in Player \ {a, b} /\ q \in Player \ {a, b}
      BY <1>8
    <2>2. Wealth'[p] = Wealth[p] /\ Wealth'[q] = Wealth[q]
      BY <2>1, <1>6
    <2>3. Wealth[p] \in Nat /\ Wealth[q] \in Nat
      BY <1>1
    <2> QED BY <2>2, <2>3
  <1> QED BY <1>2, <1>7, <1>8

\* Who earns may be one of the two; else it is nothing to them.
LEMMA EarningCredits ==
    ASSUME TradeInv, TradeInv', StakesCapped, NEW a \in Player, NEW n \in 0 .. MaxMoney,
           Earn(a, n)
    PROVE  CreditStep
  <1>1. \A r \in Player : Wealth[r] \in Nat
    BY WealthIs
  <1>2. \A r \in Player : Wealth'[r] = Wealth[r] \/ (r = a /\ Earned(a))
    BY EarningIs
  <1> SUFFICES ASSUME NEW p \in Player, NEW q \in Player, ~Earned(p), ~Earned(q)
               PROVE  Wealth'[p] + Wealth'[q] <= Wealth[p] + Wealth[q]
    BY DEF CreditStep
  <1>3. Wealth'[p] = Wealth[p] /\ Wealth'[q] = Wealth[q]
    BY <1>2
  <1>4. Wealth[p] \in Nat /\ Wealth[q] \in Nat
    BY <1>1
  <1> QED BY <1>3, <1>4

(***************************************************************************)
(* While no statement fails where processTrade credits the gold, trading   *)
(* never credits any twice: of any number of characters, no two who trade  *)
(* with each other come to more between them unless one earns it, as long  *)
(* as no stake is above MAX_MONEY.                                         *)
(***************************************************************************)
THEOREM GoldCreditedOnce == Spec => GoldIsCreditedOnce
  <1>1. TradeInv /\ TradeInv' /\ [Next]_vars => (StakesCapped => CreditStep)
    <2> SUFFICES ASSUME TradeInv, TradeInv', StakesCapped, [Next]_vars PROVE CreditStep
      OBVIOUS
    <2>1. CASE SumsHold
      BY <2>1, SumsGainNothing
    <2>2. CASE Crash
      BY <2>2, CrashLapses, LapseGainsNothing
    <2>3. ASSUME NEW p \in Player, Logout(p) \/ Login(p) PROVE CreditStep
      BY <2>3, ElsewhereLapses, LapseGainsNothing
    <2>4. ASSUME NEW p \in Player, NEW n \in 0 .. MaxMoney, Spend(p, n) \/ PayFee(p, n)
          PROVE  CreditStep
      BY <2>4, PaymentLapses, LapseGainsNothing
    <2> QED BY <2>1, <2>2, <2>3, <2>4, StepIs, TradeGainsNothing, EarningCredits
  <1>2. (StakesCapped => CreditStep) =>
          [StakesCapped => \A p, q \in Player : IsTrading(p, q) =>
             \/ Wealth'[p] + Wealth'[q] <= Wealth[p] + Wealth[q]
             \/ Earned(p) \/ Earned(q)]_vars
    BY DEF CreditStep
  <1> QED BY <1>1, <1>2, TradeInvariant, PTL DEF Spec, GoldIsCreditedOnce
=============================================================================
