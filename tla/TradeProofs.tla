------------------------------ MODULE TradeProofs ------------------------------
(***************************************************************************)
(* TradeInv is an inductive invariant of Trade, for any characters, items, *)
(* MAX_MONEY, capacity and word of more than twice MAX_MONEY.              *)
(*                                                                         *)
(* The conjuncts need each other: a refund goes to memory because          *)
(* TradesArePaired, and an acceptance is current because the pair it       *)
(* compares changes only with its owners' infos.                           *)
(*                                                                         *)
(* The last part is about gold.  From a state where no stake is above      *)
(* MAX_MONEY, handlers move gold between a purse and its stake, and lose   *)
(* what setGold cuts: SumsHold.  What that says of sums and of rows are    *)
(* the two action properties.                                              *)
(***************************************************************************)
EXTENDS Trade, TLAPS

\* A sum or a difference of two words, taken as Gold_t, is a word.
LEMMA WordIs ==
    ASSUME NEW a \in Words, NEW b \in Words
    PROVE  Word(a + b) \in Words /\ Word(a - b) \in Words
  BY MoneyAssumption DEF Word, Words

\* setGold never sets more than it is given, nor more than MAX_MONEY.
LEMMA ClampIs ==
    ASSUME NEW n \in Nat
    PROVE  Clamp(n) \in 0 .. MaxMoney /\ Clamp(n) <= n /\ (n <= MaxMoney => Clamp(n) = n)
  BY MoneyAssumption DEF Clamp

\* An amount less its margin is a word.
LEMMA MarginIs ==
    ASSUME NEW n \in Words, NEW held \in Words
    PROVE  WithinMargin(n, held) \in Words
  <1>1. MaxMoney \in Words
    BY MoneyAssumption DEF Words
  <1>2. Word(held + n) \in Words
    BY WordIs
  <1>3. Word(Word(held + n) - MaxMoney) \in Words
    BY <1>1, <1>2, WordIs
  <1> QED BY <1>2, <1>3, WordIs DEF WithinMargin

\* A purse and its stake; what a refund makes of them fits in a purse.
LEMMA StakeType ==
    ASSUME TradeInv, NEW r \in Player
    PROVE  /\ gold[r] \in 0 .. MaxMoney /\ gold[r] \in Words /\ Stake(r) \in Words
           /\ gold[r] \in Nat /\ Stake(r) \in Nat /\ row[r] \in Nat
           /\ Clamp(Word(gold[r] + Stake(r))) \in 0 .. MaxMoney
  <1>1. gold[r] \in 0 .. MaxMoney /\ gold[r] \in Words /\ Stake(r) \in Words /\ row[r] \in Words
    BY MoneyAssumption DEF TradeInv, TypeOK, Stake, HasInfo, Offers, Words
  <1>2. Word(gold[r] + Stake(r)) \in Words
    BY <1>1, WordIs
  <1> QED BY <1>1, <1>2, MoneyAssumption, ClampIs DEF Words

-----------------------------------------------------------------------------
\* CGTradeMoney leaves a purse that setGold has set, and a stake of 32 bits.
LEMMA MoneyIs ==
    ASSUME TradeInv, NEW p \in Player, NEW q \in Player, NEW n \in Words,
           IncreaseMoney(p, q, n) \/ DecreaseMoney(p, q, n)
    PROVE  \E g \in 0 .. MaxMoney, s \in Words :
             /\ gold' = [gold EXCEPT ![p] = g]
             /\ Restake(p, q, [info[p] EXCEPT !.gold = s])
  <1>1. /\ gold[p] \in Words /\ gold[q] \in Words
        /\ info[p].gold \in Words /\ info[q].gold \in Words
    BY StakeType DEF IncreaseMoney, DecreaseMoney, IsTrading, HasInfo, TradeInv, TypeOK, Offers
  <1>2. CASE IncreaseMoney(p, q, n)
    <2> DEFINE moved == WithinMargin(n, Word(gold[q] + info[p].gold))
    <2>1. moved \in Words
      BY <1>1, WordIs, MarginIs
    <2> DEFINE g == Clamp(Word(gold[p] - moved))
               s == Word(info[p].gold + moved)
    <2>2. gold' = [gold EXCEPT ![p] = g] /\ Restake(p, q, [info[p] EXCEPT !.gold = s])
      BY <1>2 DEF IncreaseMoney
    <2> HIDE DEF moved
    <2>3. Word(gold[p] - moved) \in Words /\ s \in Words
      BY <1>1, <2>1, WordIs
    <2>4. g \in 0 .. MaxMoney
      BY <2>3, ClampIs, MoneyAssumption DEF Words
    <2> HIDE DEF g, s
    <2> QED BY <2>2, <2>3, <2>4
  <1>3. CASE DecreaseMoney(p, q, n)
    <2> DEFINE moved == WithinMargin(n, Word(gold[p] + info[q].gold))
    <2>1. moved \in Words
      BY <1>1, WordIs, MarginIs
    <2> DEFINE g == Clamp(Word(gold[p] + moved))
               s == Word(info[p].gold - moved)
    <2>2. gold' = [gold EXCEPT ![p] = g] /\ Restake(p, q, [info[p] EXCEPT !.gold = s])
      BY <1>3 DEF DecreaseMoney
    <2> HIDE DEF moved
    <2>3. Word(gold[p] + moved) \in Words /\ s \in Words
      BY <1>1, <2>1, WordIs
    <2>4. g \in 0 .. MaxMoney
      BY <2>3, ClampIs, MoneyAssumption DEF Words
    <2> HIDE DEF g, s
    <2> QED BY <2>2, <2>3, <2>4
  <1> QED BY <1>2, <1>3

-----------------------------------------------------------------------------
\* What cancelling comes to: both stakes are refunded in memory, both infos are gone.
Cancelled(p, q) ==
    /\ gold' = [r \in Player |-> IF r \in {p, q}
                    THEN Clamp(Word(gold[r] + Stake(r))) ELSE gold[r]]
    /\ row' = row
    /\ info' = [r \in Player |-> IF r \in {p, q} THEN None ELSE info[r]]
    /\ agreed' = [r \in Player |-> IF r \in {p, q} THEN None ELSE agreed[r]]

\* The partner of a cancelled trade is always found, in the zone: no row is credited.
LEMMA CancelTradeIs ==
    ASSUME TradeInv, NEW p \in Player, HasInfo(p), CancelTrade(p)
    PROVE  info[p].target \in Player /\ IsTrading(p, info[p].target)
           /\ info[p].target # p /\ Cancelled(p, info[p].target)
  <1> DEFINE q == info[p].target
  <1>1. /\ q \in Player /\ IsTrading(p, q) /\ q # p
        /\ HasInfo(q) /\ presence[q] # "out"
    BY DEF TradeInv, TypeOK, TradesArePaired, IsTrading, HasInfo, Offers
  <1>2. row' = [r \in Player |-> row[r]]
    BY <1>1 DEF CancelTrade
  <1>3. gold' = [r \in Player |-> IF r \in {p, q} THEN Clamp(Word(gold[r] + Stake(r))) ELSE gold[r]]
    BY <1>1 DEF CancelTrade
  <1>6. row' = row
    BY <1>2 DEF TradeInv, TypeOK
  <1> QED BY <1>1, <1>3, <1>6 DEF CancelTrade, Cancelled, Void

\* cancelTrade of two creatures does the same.
LEMMA CancelBothIs ==
    ASSUME TradeInv, NEW p \in Player, NEW q \in Player, IsTrading(p, q), CancelBoth(p, q)
    PROVE  Cancelled(p, q)
  BY DEF CancelBoth, Cancelled, Void

\* Cancelling a trade, in place or on the way out of the zone.
LEMMA CancelledKeepsInv ==
    ASSUME TradeInv, NEW p \in Player, NEW q \in Player, IsTrading(p, q), Cancelled(p, q),
           UNCHANGED items,
           \/ UNCHANGED presence
           \/ presence' = [presence EXCEPT ![p] = "away"]
    PROVE  TradeInv'
  <1>1. \A r \in Player : gold[r] \in 0 .. MaxMoney /\ Clamp(Word(gold[r] + Stake(r))) \in 0 .. MaxMoney
    BY StakeType
  <1>3. \A r \in Player : info'[r] = IF r \in {p, q} THEN None ELSE info[r]
    BY DEF Cancelled
  <1>4. \A r \in Player : agreed'[r] = IF r \in {p, q} THEN None ELSE agreed[r]
    BY DEF Cancelled
  <1>6. TypeOK'
    <2>1. gold' \in [Player -> 0 .. MaxMoney]
      BY <1>1 DEF Cancelled
    <2>2. info' \in [Player -> Offers \cup {None}] /\ agreed' \in [Player -> Deals \cup {None}]
      BY DEF Cancelled, TradeInv, TypeOK
    <2> QED BY <2>1, <2>2 DEF Cancelled, TradeInv, TypeOK, items
  <1>7. TradesArePaired'
    <2> SUFFICES ASSUME NEW r \in Player, info'[r] # None
        PROVE  /\ presence'[r] = "zone" /\ info'[r].target # r
               /\ IsTrading(r, info[r].target)'
      BY <1>3 DEF TradesArePaired, HasInfo
    <2>1. r \notin {p, q} /\ info'[r] = info[r]
      BY <1>3
    <2>2. /\ presence[r] = "zone" /\ info[r].target # r /\ IsTrading(r, info[r].target)
          /\ info[r].target \in Player
      BY <2>1 DEF TradeInv, TypeOK, TradesArePaired, HasInfo, Offers
    <2>3. info[r].target \notin {p, q}
      BY <2>1, <2>2 DEF IsTrading
    <2> QED BY <2>1, <2>2, <2>3, <1>3 DEF IsTrading, HasInfo, TradeInv, TypeOK
  <1>8. ItemInOnePlace'
    BY DEF TradeInv, ItemInOnePlace, items
  <1>9. AcceptedIsCurrent'
    <2> SUFFICES ASSUME NEW r \in Player
        PROVE  agreed'[r] = IF HasInfo(r)' /\ info'[r].status = "FINISH" THEN DealOf(r)' ELSE None
      BY DEF AcceptedIsCurrent
    <2>1. CASE r \in {p, q}
      BY <2>1, <1>3, <1>4 DEF HasInfo
    <2>2. CASE r \notin {p, q} /\ HasInfo(r)
      <3>1. info[r].target \in Player /\ info[r].target \notin {p, q}
        BY <2>2 DEF TradeInv, TypeOK, TradesArePaired, HasInfo, Offers, IsTrading
      <3> QED BY <2>2, <3>1, <1>3, <1>4 DEF TradeInv, AcceptedIsCurrent, HasInfo, DealOf
    <2>3. CASE r \notin {p, q} /\ ~HasInfo(r)
      BY <2>3, <1>3, <1>4 DEF TradeInv, AcceptedIsCurrent, HasInfo
    <2> QED BY <2>1, <2>2, <2>3
  <1> QED BY <1>6, <1>7, <1>8, <1>9 DEF TradeInv

-----------------------------------------------------------------------------
\* Staking and unstaking items or gold.
LEMMA RestakeKeepsInv ==
    ASSUME TradeInv, NEW p \in Player, NEW q \in Player, IsTrading(p, q),
           NEW offer \in Offers, offer.target = q, Restake(p, q, offer),
           gold' \in [Player -> 0 .. MaxMoney],
           UNCHANGED <<presence, row, items>>
    PROVE  TradeInv'
  <1> DEFINE new == [offer EXCEPT !.status = "TRADING"]
  <1>1. /\ info[p] \in Offers /\ info[q] \in Offers /\ p # q
        /\ new \in Offers /\ new.target = q /\ new.status = "TRADING"
        /\ new # None
        /\ presence[p] = "zone" /\ presence[q] = "zone"
    BY NoneAssumption DEF TradeInv, TypeOK, TradesArePaired, IsTrading, HasInfo, Offers
  <1> HIDE DEF new
  <1>2. info' = [info EXCEPT ![p] = new, ![q].status = "TRADING"]
    BY DEF Restake, new
  <1> DEFINE newq == [info[q] EXCEPT !.status = "TRADING"]
  <1>3. newq \in Offers /\ newq.target = p
        /\ newq.status = "TRADING" /\ newq # None
    BY <1>1, NoneAssumption DEF IsTrading, Offers
  <1>4. \A r \in Player :
          info'[r] = IF r = p THEN new ELSE IF r = q THEN newq ELSE info[r]
    BY <1>1, <1>2 DEF TradeInv, TypeOK
  <1> HIDE DEF newq
  <1>5. \A r \in Player : agreed'[r] = IF r \in {p, q} THEN None ELSE agreed[r]
    BY DEF Restake, Void
  <1>6. TypeOK'
    <2>1. info' \in [Player -> Offers \cup {None}]
      BY <1>1, <1>2, <1>3, <1>4 DEF TradeInv, TypeOK
    <2>2. agreed' \in [Player -> Deals \cup {None}]
      BY DEF Restake, Void, TradeInv, TypeOK
    <2> QED BY <2>1, <2>2 DEF TradeInv, TypeOK, items
  <1>7. TradesArePaired'
    <2> SUFFICES ASSUME NEW r \in Player, info'[r] # None
        PROVE  /\ presence'[r] = "zone" /\ info'[r].target # r
               /\ IsTrading(r, info[r].target)'
      BY DEF TradesArePaired, HasInfo
    <2>1. CASE r \in {p, q}
      BY <2>1, <1>1, <1>3, <1>4 DEF IsTrading, HasInfo
    <2>2. CASE r \notin {p, q}
      <3>1. info'[r] = info[r] /\ presence'[r] = presence[r]
        BY <2>2, <1>4
      <3>2. /\ presence[r] = "zone" /\ info[r].target # r /\ IsTrading(r, info[r].target)
            /\ info[r].target \in Player /\ info[r].target \notin {p, q}
        BY <3>1, <2>2, NoneAssumption
           DEF TradeInv, TypeOK, TradesArePaired, HasInfo, Offers, IsTrading
      <3> QED BY <3>1, <3>2, <1>4 DEF IsTrading, HasInfo
    <2> QED BY <2>1, <2>2
  <1>8. ItemInOnePlace'
    BY DEF TradeInv, ItemInOnePlace, items
  <1>9. AcceptedIsCurrent'
    <2> SUFFICES ASSUME NEW r \in Player
        PROVE  agreed'[r] = IF HasInfo(r)' /\ info'[r].status = "FINISH" THEN DealOf(r)' ELSE None
      BY DEF AcceptedIsCurrent
    <2>1. CASE r \in {p, q}
      BY <2>1, <1>1, <1>3, <1>4, <1>5 DEF HasInfo
    <2>2. CASE r \notin {p, q} /\ HasInfo(r)
      <3>1. info[r].target \in Player /\ info[r].target \notin {p, q}
        BY <2>2 DEF TradeInv, TypeOK, TradesArePaired, HasInfo, Offers, IsTrading
      <3> QED BY <2>2, <3>1, <1>4, <1>5 DEF TradeInv, AcceptedIsCurrent, HasInfo, DealOf
    <2>3. CASE r \notin {p, q} /\ ~HasInfo(r)
      BY <2>3, <1>4, <1>5 DEF TradeInv, AcceptedIsCurrent, HasInfo
    <2> QED BY <2>1, <2>2, <2>3
  <1> QED BY <1>6, <1>7, <1>8, <1>9 DEF TradeInv

\* A step that leaves infos and acceptances alone, and nobody with an info leaves the zone.
LEMMA QuietKeepsPairs ==
    ASSUME TradeInv, UNCHANGED <<info, agreed>>,
           \A r \in Player : presence[r] = "zone" => presence'[r] = "zone"
    PROVE  TradesArePaired' /\ AcceptedIsCurrent' /\ \A r \in Player : Stake(r)' = Stake(r)
  <1>1. TradesArePaired'
    BY DEF TradeInv, TradesArePaired, HasInfo, IsTrading
  <1>2. AcceptedIsCurrent'
    BY DEF TradeInv, AcceptedIsCurrent, HasInfo, DealOf
  <1> QED BY <1>1, <1>2 DEF Stake, HasInfo

\* Items that move between an inventory, a hand and the floor.
LEMMA MoveKeepsInv ==
    ASSUME TradeInv, NEW p \in Player, NEW i \in Item,
           TakeInHand(p, i) \/ PutBack(p, i) \/ Drop(p, i) \/ PickUp(p, i) \/ UseUp(p, i)
    PROVE  TradeInv'
  <1>1. UNCHANGED <<presence, money, info, agreed>>
    BY DEF TakeInHand, PutBack, Drop, PickUp, UseUp
  <1>2. TypeOK'
    BY <1>1 DEF TradeInv, TypeOK, money, TakeInHand, PutBack, Drop, PickUp, UseUp
  <1>3. ItemInOnePlace'
    BY DEF TradeInv, TypeOK, ItemInOnePlace, TakeInHand, PutBack, Drop, PickUp, UseUp
  <1> QED BY <1>1, <1>2, <1>3, QuietKeepsPairs DEF TradeInv

\* Gold that is earned or paid, with its row.
LEMMA PurseKeepsInv ==
    ASSUME TradeInv, NEW p \in Player, NEW n \in 0 .. MaxMoney,
           Earn(p, n) \/ Spend(p, n) \/ PayFee(p, n)
    PROVE  TradeInv'
  <1>1. UNCHANGED <<presence, items, info, agreed>>
    BY DEF Earn, Spend, PayFee
  <1>2. TradesArePaired' /\ AcceptedIsCurrent' /\ \A r \in Player : Stake(r)' = Stake(r)
    BY <1>1, QuietKeepsPairs
  <1>3. gold \in [Player -> 0 .. MaxMoney] /\ row \in [Player -> Words]
    BY DEF TradeInv, TypeOK
  <1>4. gold' \in [Player -> 0 .. MaxMoney] /\ row' \in [Player -> Words]
    <2>1. CASE Earn(p, n)
      BY <2>1, <1>3, MoneyAssumption DEF Earn, Column, Words
    <2>2. CASE Spend(p, n)
      BY <2>2, <1>3, MoneyAssumption DEF Spend, Words
    <2>3. CASE PayFee(p, n)
      BY <2>3, <1>3, MoneyAssumption DEF PayFee, Words
    <2> QED BY <2>1, <2>2, <2>3
  <1>5. TypeOK'
    BY <1>1, <1>4 DEF TradeInv, TypeOK, items
  <1>6. ItemInOnePlace'
    BY <1>1 DEF TradeInv, ItemInOnePlace, items
  <1> QED BY <1>2, <1>5, <1>6 DEF TradeInv

-----------------------------------------------------------------------------
\* A new info is an offer.
LEMMA NewOfferIs ==
    ASSUME NEW p \in Player
    PROVE  NewOffer(p) \in Offers /\ NewOffer(p) # None /\ NewOffer(p).gold = 0
  <1>1. {} \in SUBSET Item /\ 0 \in Words
    BY MoneyAssumption DEF Words
  <1>2. NewOffer(p) \in Offers /\ NewOffer(p).gold = 0
    BY <1>1 DEF NewOffer, Offers
  <1> QED BY <1>2, NoneAssumption

\* An info that was cleared is an offer.
LEMMA OffersAre ==
    ASSUME NEW offer \in Offers
    PROVE  /\ Cleared(offer) \in Offers /\ Cleared(offer) # None
           /\ Cleared(offer).target = offer.target /\ Cleared(offer).gold = 0
           /\ Cleared(offer).status = "TRADING"
  <1>1. {} \in SUBSET Item /\ 0 \in Words
    BY MoneyAssumption DEF Words
  <1>2. Cleared(offer) \in Offers
    BY <1>1 DEF Cleared, Offers
  <1>3. /\ Cleared(offer).target = offer.target /\ Cleared(offer).gold = 0
        /\ Cleared(offer).status = "TRADING"
    BY DEF Cleared, Offers
  <1> QED BY <1>2, <1>3, NoneAssumption

\* A new trade pairs two characters that were in none.
LEMMA RequestKeepsInv ==
    ASSUME TradeInv, NEW p \in Player, NEW q \in Player, Request(p, q)
    PROVE  TradeInv'
  <1>1. /\ p # q /\ presence[p] = "zone" /\ presence[q] = "zone" /\ ~HasInfo(p) /\ ~HasInfo(q)
        /\ UNCHANGED <<presence, money, items, agreed>>
    BY DEF Request
  <1>2. /\ NewOffer(p) \in Offers /\ NewOffer(q) \in Offers
        /\ NewOffer(p) # None /\ NewOffer(q) # None
    BY NewOfferIs
  <1>3. \A r \in Player :
          info'[r] = IF r = p THEN NewOffer(q) ELSE IF r = q THEN NewOffer(p) ELSE info[r]
    <2>1. info' = [info EXCEPT ![p] = NewOffer(q), ![q] = NewOffer(p)]
      BY DEF Request
    <2>2. info \in [Player -> Offers \cup {None}]
      BY DEF TradeInv, TypeOK
    <2> QED BY <1>1, <2>1, <2>2
  <1>4. TypeOK'
    BY <1>1, <1>2 DEF Request, TradeInv, TypeOK, money, items
  <1>5. TradesArePaired'
    <2> SUFFICES ASSUME NEW r \in Player, info'[r] # None
        PROVE  /\ presence'[r] = "zone" /\ info'[r].target # r
               /\ IsTrading(r, info[r].target)'
      BY DEF TradesArePaired, HasInfo
    <2>1. CASE r \in {p, q}
      BY <2>1, <1>1, <1>2, <1>3 DEF IsTrading, HasInfo, NewOffer
    <2>2. CASE r \notin {p, q}
      <3>1. info'[r] = info[r]
        BY <2>2, <1>3
      <3>2. /\ presence[r] = "zone" /\ info[r].target # r /\ IsTrading(r, info[r].target)
            /\ info[r].target \in Player /\ info[r].target \notin {p, q}
        BY <3>1, <1>1 DEF TradeInv, TypeOK, TradesArePaired, HasInfo, Offers, IsTrading
      <3> QED BY <3>1, <3>2, <1>1, <1>3 DEF IsTrading, HasInfo
    <2> QED BY <2>1, <2>2
  <1>6. AcceptedIsCurrent'
    <2> SUFFICES ASSUME NEW r \in Player
        PROVE  agreed'[r] = IF HasInfo(r)' /\ info'[r].status = "FINISH" THEN DealOf(r)' ELSE None
      BY DEF AcceptedIsCurrent
    <2>1. CASE r \in {p, q}
      BY <2>1, <1>1, <1>3 DEF HasInfo, NewOffer, TradeInv, AcceptedIsCurrent
    <2>2. CASE r \notin {p, q} /\ HasInfo(r)
      <3>1. info[r].target \in Player /\ info[r].target \notin {p, q}
        BY <2>2, <1>1 DEF TradeInv, TypeOK, TradesArePaired, HasInfo, Offers, IsTrading
      <3> QED BY <2>2, <3>1, <1>1, <1>3 DEF TradeInv, AcceptedIsCurrent, HasInfo, DealOf
    <2>3. CASE r \notin {p, q} /\ ~HasInfo(r)
      BY <2>3, <1>1, <1>3 DEF TradeInv, AcceptedIsCurrent, HasInfo
    <2> QED BY <2>1, <2>2, <2>3
  <1> QED BY <1>1, <1>4, <1>5, <1>6 DEF TradeInv, ItemInOnePlace, money, items

\* Only the status of an info, or its time, changes.
LEMMA AnswerKeepsInv ==
    ASSUME TradeInv, NEW p \in Player, HasInfo(p), NEW offer \in Offers,
           offer.target = info[p].target, offer.gold = info[p].gold,
           offer.staked = info[p].staked,
           info' = [info EXCEPT ![p] = offer],
           agreed' = [r \in Player |-> IF r = p
                          THEN IF offer.status = "FINISH" THEN DealOf(p) ELSE None
                          ELSE agreed[r]],
           UNCHANGED <<presence, money, items>>
    PROVE  TradeInv'
  <1>1. offer # None /\ info[p] # None
    BY NoneAssumption DEF HasInfo
  <1>2. \A r \in Player : info'[r] = IF r = p THEN offer ELSE info[r]
    BY DEF TradeInv, TypeOK
  <1>3. \A r \in Player : info[r] # None =>
          /\ info[r] \in Offers /\ info[r].target \in Player /\ info[info[r].target] \in Offers
    BY DEF TradeInv, TypeOK, TradesArePaired, IsTrading, HasInfo, Offers
  <1>4. \A r \in Player : info[r] # None =>
          /\ info'[r].target = info[r].target /\ info'[r].gold = info[r].gold
          /\ info'[r].staked = info[r].staked
    BY <1>2
  <1>5. \A r \in Player : (info'[r] = None) <=> (info[r] = None)
    BY <1>1, <1>2
  <1>6. \A r \in Player : info[r] # None => DealOf(r)' = DealOf(r)
    <2> SUFFICES ASSUME NEW r \in Player, info[r] # None
        PROVE  DealOf(r)' = DealOf(r)
      OBVIOUS
    <2>1. info[r].target \in Player /\ info[info[r].target] # None
      BY <1>3, NoneAssumption
    <2>2. /\ info'[info[r].target].gold = info[info[r].target].gold
          /\ info'[info[r].target].staked = info[info[r].target].staked
      BY <1>4, <2>1
    <2> QED BY <1>4, <2>2 DEF DealOf
  <1>7. TypeOK'
    <2>1. DealOf(p) \in Deals
      BY <1>3, <1>1, MoneyAssumption DEF DealOf, Deals, Offers, Words
    <2>2. agreed' \in [Player -> Deals \cup {None}]
      BY <2>1 DEF TradeInv, TypeOK
    <2> QED BY <2>2 DEF TradeInv, TypeOK, money, items
  <1>8. TradesArePaired'
    BY <1>3, <1>4, <1>5 DEF TradeInv, TradesArePaired, IsTrading, HasInfo
  <1>9. AcceptedIsCurrent'
    BY <1>1, <1>2, <1>5, <1>6 DEF TradeInv, AcceptedIsCurrent, HasInfo
  <1> QED BY <1>7, <1>8, <1>9 DEF TradeInv, ItemInOnePlace, money, items

\* Both stakes change hands; the infos stay, with nothing staked.
LEMMA SwapKeepsInv ==
    ASSUME TradeInv, NEW p \in Player, NEW q \in Player, AcceptAndTrade(p, q)
    PROVE  TradeInv'
  <1>1. /\ info[p] \in Offers /\ info[q] \in Offers /\ p # q /\ info[p] # None /\ info[q] # None
        /\ info[p].target = q /\ info[q].target = p
        /\ presence[p] = "zone" /\ presence[q] = "zone"
    BY DEF TradeInv, TypeOK, TradesArePaired, HasInfo, IsTrading, AcceptAndTrade, Completes
  <1>2. /\ Cleared(info[p]) \in Offers /\ Cleared(info[q]) \in Offers
        /\ Cleared(info[p]) # None /\ Cleared(info[q]) # None
        /\ Cleared(info[p]).target = q /\ Cleared(info[q]).target = p
        /\ Cleared(info[p]).gold = 0 /\ Cleared(info[q]).gold = 0
        /\ Cleared(info[p]).status = "TRADING" /\ Cleared(info[q]).status = "TRADING"
    BY <1>1, OffersAre
  <1>3. \A r \in Player : info'[r] = IF r = p THEN Cleared(info[p])
                                     ELSE IF r = q THEN Cleared(info[q]) ELSE info[r]
    <2>1. info' = [info EXCEPT ![p] = Cleared(@), ![q] = Cleared(@)]
      BY DEF AcceptAndTrade
    <2>2. info \in [Player -> Offers \cup {None}]
      BY DEF TradeInv, TypeOK
    <2> QED BY <1>1, <2>1, <2>2
  <1>4. \A r \in Player : agreed'[r] = IF r \in {p, q} THEN None ELSE agreed[r]
    BY DEF AcceptAndTrade, Void
  <1> DEFINE goldp == Clamp(Word(gold[p] + info[q].gold))
             goldq == Clamp(Word(gold[q] + info[p].gold))
  <1>6. goldp \in 0 .. MaxMoney /\ goldq \in 0 .. MaxMoney
    <2>1. /\ gold[p] \in Words /\ gold[q] \in Words
          /\ info[q].gold \in Words /\ info[p].gold \in Words
      BY <1>1, StakeType DEF Offers
    <2>2. Word(gold[p] + info[q].gold) \in Words /\ Word(gold[q] + info[p].gold) \in Words
      BY <2>1, WordIs
    <2> QED BY <2>2, ClampIs DEF Words
  <1>7. \A r \in Player :
          gold'[r] = IF r = p THEN goldp ELSE IF r = q THEN goldq ELSE gold[r]
    BY <1>1 DEF AcceptAndTrade, TradeInv, TypeOK
  <1>8. \A r \in Player :
          row'[r] = IF r = p THEN goldp ELSE IF r = q THEN goldq ELSE row[r]
    BY <1>1 DEF AcceptAndTrade, TradeInv, TypeOK
  <1> HIDE DEF goldp, goldq
  <1>9. /\ gold' \in [Player -> 0 .. MaxMoney]
        /\ row' \in [Player -> Words]
    <2>1. DOMAIN gold' = Player /\ gold' = [r \in Player |-> gold'[r]]
          /\ row' = [r \in Player |-> row'[r]]
      BY DEF AcceptAndTrade, TradeInv, TypeOK
    <2> QED BY <1>6, <1>7, <1>8, <2>1, MoneyAssumption DEF TradeInv, TypeOK, Words
  <1>10. TypeOK'
    <2>1. inv' \in [Player -> SUBSET Item]
      BY <1>1 DEF AcceptAndTrade, TradeInv, TypeOK, Offers
    <2>2. info' \in [Player -> Offers \cup {None}] /\ agreed' \in [Player -> Deals \cup {None}]
      BY <1>2 DEF AcceptAndTrade, Void, TradeInv, TypeOK
    <2> QED BY <1>9, <2>1, <2>2 DEF AcceptAndTrade, TradeInv, TypeOK
  <1>11. TradesArePaired'
    <2> SUFFICES ASSUME NEW r \in Player, info'[r] # None
        PROVE  /\ presence'[r] = "zone" /\ info'[r].target # r
               /\ IsTrading(r, info[r].target)'
      BY DEF TradesArePaired, HasInfo
    <2>0. presence' = presence
      BY DEF AcceptAndTrade
    <2>1. CASE r \in {p, q}
      BY <2>0, <2>1, <1>1, <1>2, <1>3 DEF IsTrading, HasInfo
    <2>2. CASE r \notin {p, q}
      <3>1. info'[r] = info[r]
        BY <2>2, <1>3
      <3>2. /\ presence[r] = "zone" /\ info[r].target # r /\ IsTrading(r, info[r].target)
            /\ info[r].target \in Player /\ info[r].target \notin {p, q}
        BY <3>1, <2>2, <1>1 DEF TradeInv, TypeOK, TradesArePaired, HasInfo, Offers, IsTrading
      <3> QED BY <2>0, <3>1, <3>2, <1>3 DEF IsTrading, HasInfo
    <2> QED BY <2>1, <2>2
  <1>12. ItemInOnePlace'
    <2>1. inv' = [inv EXCEPT ![p] = (@ \ info[p].staked) \cup info[q].staked,
                             ![q] = (@ \ info[q].staked) \cup info[p].staked]
          /\ info[p].staked \subseteq inv[p] /\ info[q].staked \subseteq inv[q]
          /\ hand' = hand /\ floor' = floor
      BY DEF AcceptAndTrade, CanTrade
    <2>2. \A r \in Player : inv'[r] = IF r = p THEN (inv[p] \ info[p].staked) \cup info[q].staked
                              ELSE IF r = q THEN (inv[q] \ info[q].staked) \cup info[p].staked
                              ELSE inv[r]
      BY <1>1, <2>1 DEF TradeInv, TypeOK
    <2>3. /\ \A r \in Player : inv[r] \cap hand[r] = {} /\ (inv[r] \cup hand[r]) \cap floor = {}
          /\ \A r, t \in Player : r # t => (inv[r] \cup hand[r]) \cap (inv[t] \cup hand[t]) = {}
      BY DEF TradeInv, ItemInOnePlace
    <2>4. \A r \in Player : \A x : x \in inv'[r] =>
            \/ x \in inv[r] /\ r \notin {p, q}
            \/ r = p /\ x \in inv[p] /\ x \notin info[p].staked
            \/ r = p /\ x \in info[q].staked
            \/ r = q /\ x \in inv[q] /\ x \notin info[q].staked
            \/ r = q /\ x \in info[p].staked
      BY <2>2
    <2>5. \A r, t \in Player : \A x : x \in inv[r] /\ x \in inv[t] \cup hand[t] => r = t
      BY <2>3
    <2>6. \A r \in Player : \A x : x \in inv[r] => x \notin hand[r] /\ x \notin floor
      BY <2>3
    <2>7. \A r \in Player : \A x : x \in inv'[r] => \E t \in Player : x \in inv[t]
      BY <2>1, <2>4
    <2>8. \A r, t \in Player : \A x : x \in inv'[r] => x \notin hand[t] /\ x \notin floor
      <3> SUFFICES ASSUME NEW r \in Player, NEW t \in Player, NEW x, x \in inv'[r]
          PROVE  x \notin hand[t] /\ x \notin floor
        OBVIOUS
      <3>1. PICK u \in Player : x \in inv[u]
        BY <2>7
      <3>2. x \in hand[t] => u = t
        BY <2>5, <3>1
      <3> QED BY <2>6, <3>1, <3>2
    <2>9. \A r, t \in Player : \A x : x \in inv'[r] /\ x \in inv'[t] => r = t
      BY <1>1, <2>1, <2>4, <2>5
    <2>10. \A r, t \in Player : r # t => hand[r] \cap hand[t] = {}
      BY <2>3
    <2>11. \A r \in Player : hand[r] \cap floor = {}
      BY <2>3
    <2> QED BY <2>1, <2>8, <2>9, <2>10, <2>11 DEF ItemInOnePlace
  <1>13. AcceptedIsCurrent'
    <2> SUFFICES ASSUME NEW r \in Player
        PROVE  agreed'[r] = IF HasInfo(r)' /\ info'[r].status = "FINISH" THEN DealOf(r)' ELSE None
      BY DEF AcceptedIsCurrent
    <2>1. CASE r \in {p, q}
      BY <2>1, <1>2, <1>3, <1>4 DEF HasInfo
    <2>2. CASE r \notin {p, q} /\ HasInfo(r)
      <3>1. info[r].target \in Player /\ info[r].target \notin {p, q}
        BY <2>2, <1>1 DEF TradeInv, TypeOK, TradesArePaired, HasInfo, Offers, IsTrading
      <3> QED BY <2>2, <3>1, <1>3, <1>4 DEF TradeInv, AcceptedIsCurrent, HasInfo, DealOf
    <2>3. CASE r \notin {p, q} /\ ~HasInfo(r)
      BY <2>3, <1>3, <1>4 DEF TradeInv, AcceptedIsCurrent, HasInfo
    <2> QED BY <2>1, <2>2, <2>3
  <1> QED BY <1>10, <1>11, <1>12, <1>13 DEF TradeInv

-----------------------------------------------------------------------------
\* Zone::deleteCreature leaves the trade before the zone.
LEMMA LeaveKeepsInv ==
    ASSUME TradeInv, NEW p \in Player, LeaveZone(p)
    PROVE  TradeInv'
  <1>1. /\ presence' = [presence EXCEPT ![p] = "away"] /\ UNCHANGED items
        /\ presence[p] = "zone"
    BY DEF LeaveZone
  <1>2. CASE HasInfo(p)
    <2>1. CancelTrade(p)
      BY <1>2 DEF LeaveZone, LeaveTrade
    <2> QED BY <1>1, <1>2, <2>1, CancelTradeIs, CancelledKeepsInv
  <1>3. CASE ~HasInfo(p)
    <2>1. UNCHANGED <<money, info, agreed>>
      BY <1>3 DEF LeaveZone, LeaveTrade
    <2>2. \A r \in Player : presence'[r] = IF r = p THEN "away" ELSE presence[r]
      BY <1>1 DEF TradeInv, TypeOK
    <2>3. TypeOK'
      BY <1>1, <2>1 DEF TradeInv, TypeOK, money, items
    <2>4. TradesArePaired'
      BY <1>3, <2>1, <2>2 DEF TradeInv, TradesArePaired, HasInfo, IsTrading
    <2>5. AcceptedIsCurrent'
      BY <2>1 DEF TradeInv, AcceptedIsCurrent, HasInfo, DealOf
    <2> QED BY <1>1, <2>3, <2>4, <2>5 DEF TradeInv, ItemInOnePlace, items
  <1> QED BY <1>2, <1>3

\* Whoever is not in the zone has nothing staked.
LEMMA ElsewhereKeepsInv ==
    ASSUME TradeInv, NEW p \in Player, Arrive(p) \/ Logout(p) \/ Login(p)
    PROVE  TradeInv'
  <1>1. UNCHANGED <<row, items, info, agreed>> /\ presence[p] # "zone"
    BY DEF Arrive, Logout, Login, money
  <1>2. \A r \in Player : r # p => presence'[r] = presence[r] /\ gold'[r] = gold[r]
    BY DEF Arrive, Logout, Login, money, TradeInv, TypeOK
  <1>3. TradesArePaired' /\ AcceptedIsCurrent'
    BY <1>1, <1>2, QuietKeepsPairs
  <1>4. TypeOK'
    <2>1. gold' \in [Player -> 0 .. MaxMoney]
      <3>1. Clamp(row[p]) \in 0 .. MaxMoney
        BY StakeType, ClampIs
      <3> QED BY <3>1, MoneyAssumption DEF Arrive, Logout, Login, money, TradeInv, TypeOK
    <2>2. presence' \in [Player -> {"zone", "away", "out"}]
      BY DEF Arrive, Logout, Login, TradeInv, TypeOK
    <2> QED BY <1>1, <2>1, <2>2 DEF TradeInv, TypeOK, items
  <1> QED BY <1>1, <1>3, <1>4 DEF TradeInv, ItemInOnePlace, items

\* A crash undoes every trade; the rows keep what was staked.
LEMMA CrashKeepsInv ==
    ASSUME TradeInv, Crash
    PROVE  TradeInv'
  <1>2. TypeOK'
    BY MoneyAssumption DEF Crash, Void, TradeInv, TypeOK
  <1>3. TradesArePaired' /\ AcceptedIsCurrent'
    BY DEF Crash, Void, TradesArePaired, AcceptedIsCurrent, HasInfo
  <1>4. ItemInOnePlace'
    BY DEF Crash, TradeInv, ItemInOnePlace
  <1> QED BY <1>2, <1>3, <1>4 DEF TradeInv

-----------------------------------------------------------------------------
\* Nobody trades when the server starts.
LEMMA InitInv == Init => TradeInv
  <1> SUFFICES ASSUME Init PROVE TradeInv
    OBVIOUS
  <1>1. PICK owner \in [Item -> Player] : inv = [p \in Player |-> {i \in Item : owner[i] = p}]
    BY DEF Init
  <1>2. TypeOK
    BY <1>1, MoneyAssumption DEF Init, TypeOK, Words
  <1>3. TradesArePaired /\ AcceptedIsCurrent
    BY DEF Init, TradesArePaired, AcceptedIsCurrent, HasInfo
  <1>4. ItemInOnePlace
    BY <1>1 DEF Init, ItemInOnePlace
  <1> QED BY <1>2, <1>3, <1>4 DEF TradeInv

\* Each packet handler of a trade.
LEMMA HandlersKeepInv ==
    ASSUME TradeInv, NEW p \in Player, NEW q \in Player, Handlers(p, q)
    PROVE  TradeInv'
  <1>0. ASSUME IsTrading(p, q)
        PROVE  /\ info[p] \in Offers /\ info[q] \in Offers /\ HasInfo(p) /\ HasInfo(q)
               /\ info[p].target = q /\ agreed \in [Player -> Deals \cup {None}]
               /\ gold \in [Player -> 0 .. MaxMoney]
    BY <1>0 DEF TradeInv, TypeOK, IsTrading, HasInfo
  <1>1. CASE Request(p, q)
    BY <1>1, RequestKeepsInv
  <1>2. CASE Reject(p, q)
    BY <1>2, CancelBothIs, CancelledKeepsInv DEF Reject
  <1>3. ASSUME NEW i \in Item, AddItem(p, q, i) \/ RemoveItem(p, q, i)
        PROVE  TradeInv'
    <2>1. IsTrading(p, q) /\ info[p] \in Offers /\ UNCHANGED <<presence, money, items>>
      BY <1>0, <1>3 DEF AddItem, RemoveItem
    <2>2. PICK offer \in Offers : offer.target = q /\ Restake(p, q, offer)
      <3>1. CASE AddItem(p, q, i)
        BY <1>0, <2>1, <3>1 DEF AddItem, Offers
      <3>2. CASE RemoveItem(p, q, i)
        <4>1. PICK waits \in {info[p].waiting, TRUE} :
                 Restake(p, q, [info[p] EXCEPT !.staked = @ \ {i}, !.waiting = waits])
          BY <3>2 DEF RemoveItem
        <4> QED BY <1>0, <2>1, <4>1 DEF Offers
      <3> QED BY <1>3, <3>1, <3>2
    <2>3. gold' \in [Player -> 0 .. MaxMoney] /\ UNCHANGED <<presence, row, items>>
      BY <1>0, <2>1 DEF money
    <2> QED BY <2>1, <2>2, <2>3, RestakeKeepsInv
  <1>4. ASSUME NEW n \in Words, IncreaseMoney(p, q, n) \/ DecreaseMoney(p, q, n)
        PROVE  TradeInv'
    <2>1. IsTrading(p, q) /\ UNCHANGED <<presence, row, items>>
      BY <1>4 DEF IncreaseMoney, DecreaseMoney
    <2>2. PICK g \in 0 .. MaxMoney, s \in Words :
             /\ gold' = [gold EXCEPT ![p] = g]
             /\ Restake(p, q, [info[p] EXCEPT !.gold = s])
      BY <1>4, MoneyIs
    <2>3. /\ [info[p] EXCEPT !.gold = s] \in Offers
          /\ [info[p] EXCEPT !.gold = s].target = q
          /\ gold' \in [Player -> 0 .. MaxMoney]
      BY <2>1, <2>2, <1>0 DEF Offers
    <2> QED BY <2>1, <2>2, <2>3, RestakeKeepsInv
  <1>5. CASE Reconsider(p, q)
    <2>1. IsTrading(p, q)
      BY <1>5 DEF Reconsider
    <2> DEFINE offer == [info[p] EXCEPT !.status = "TRADING", !.waiting = TRUE]
    <2>2. /\ offer \in Offers /\ offer.target = info[p].target /\ offer.gold = info[p].gold
          /\ offer.staked = info[p].staked /\ offer.status # "FINISH"
      BY <1>0, <2>1 DEF Offers
    <2>3. info' = [info EXCEPT ![p] = offer] /\ UNCHANGED <<presence, money, items>>
      BY <1>5, <1>0, <2>1 DEF Reconsider
    <2> HIDE DEF offer
    <2>4. agreed' = [r \in Player |-> IF r = p
                         THEN IF offer.status = "FINISH" THEN DealOf(p) ELSE None
                         ELSE agreed[r]]
      BY <1>5, <2>2 DEF Reconsider, Void
    <2> QED BY <1>0, <2>1, <2>2, <2>3, <2>4, AnswerKeepsInv
  <1>6. CASE AcceptTooSoon(p, q) \/ AcceptImpossible(p, q)
    <2>1. HasInfo(p) /\ CancelTrade(p) /\ UNCHANGED <<presence, items>>
      BY <1>6 DEF AcceptTooSoon, AcceptImpossible, Completes, IsTrading
    <2> QED BY <2>1, CancelTradeIs, CancelledKeepsInv
  <1>7. CASE AcceptFirst(p, q) \/ AcceptUnmatched(p, q)
    <2>1. IsTrading(p, q) /\ Accepted(p)
      BY <1>7 DEF AcceptFirst, AcceptUnmatched, Completes
    <2> DEFINE offer == [info[p] EXCEPT !.status = "FINISH"]
    <2>2. /\ offer \in Offers /\ offer.target = info[p].target /\ offer.gold = info[p].gold
          /\ offer.staked = info[p].staked /\ offer.status = "FINISH"
      BY <1>0, <2>1 DEF Offers
    <2>3. info' = [info EXCEPT ![p] = offer] /\ UNCHANGED <<presence, money, items>>
      BY <1>0, <2>1 DEF Accepted
    <2> HIDE DEF offer
    <2>4. agreed' = [r \in Player |-> IF r = p
                         THEN IF offer.status = "FINISH" THEN DealOf(p) ELSE None
                         ELSE agreed[r]]
      BY <1>0, <2>1, <2>2 DEF Accepted
    <2> QED BY <1>0, <2>1, <2>2, <2>3, <2>4, AnswerKeepsInv
  <1>8. CASE AcceptAndTrade(p, q)
    BY <1>8, SwapKeepsInv
  <1>9. 0 .. MaxMoney \subseteq Words
    BY MoneyAssumption DEF Words
  <1> QED BY <1>1, <1>2, <1>3, <1>4, <1>5, <1>6, <1>7, <1>8, <1>9 DEF Handlers

\* Whatever else a character does.
LEMMA OwnKeepsInv ==
    ASSUME TradeInv, NEW p \in Player, Own(p)
    PROVE  TradeInv'
  <1>1. CASE Refuse(p)
    BY <1>1, CancelTradeIs, CancelledKeepsInv DEF Refuse
  <1>2. CASE Elapse(p)
    <2>1. HasInfo(p) /\ info[p] \in Offers
      BY <1>2 DEF Elapse, HasInfo, TradeInv, TypeOK
    <2> DEFINE offer == [info[p] EXCEPT !.waiting = FALSE]
    <2>2. /\ offer \in Offers /\ offer.target = info[p].target /\ offer.gold = info[p].gold
          /\ offer.staked = info[p].staked /\ offer.status = info[p].status
      BY <2>1 DEF Offers
    <2>3. info' = [info EXCEPT ![p] = offer] /\ UNCHANGED <<presence, money, items, agreed>>
      BY <1>2 DEF Elapse
    <2> HIDE DEF offer
    <2>4. agreed[p] = IF offer.status = "FINISH" THEN DealOf(p) ELSE None
      BY <2>1, <2>2 DEF TradeInv, AcceptedIsCurrent
    <2>5. agreed' = [r \in Player |-> IF r = p
                         THEN IF offer.status = "FINISH" THEN DealOf(p) ELSE None
                         ELSE agreed[r]]
      BY <2>3, <2>4 DEF TradeInv, TypeOK
    <2> QED BY <2>1, <2>2, <2>3, <2>5, AnswerKeepsInv
  <1>3. ASSUME NEW i \in Item,
               TakeInHand(p, i) \/ PutBack(p, i) \/ Drop(p, i) \/ PickUp(p, i) \/ UseUp(p, i)
        PROVE  TradeInv'
    BY <1>3, MoveKeepsInv
  <1>4. ASSUME NEW n \in 0 .. MaxMoney, Earn(p, n) \/ Spend(p, n) \/ PayFee(p, n)
        PROVE  TradeInv'
    BY <1>4, PurseKeepsInv
  <1>5. CASE LeaveZone(p)
    BY <1>5, LeaveKeepsInv
  <1>6. CASE Arrive(p) \/ Logout(p) \/ Login(p)
    BY <1>6, ElsewhereKeepsInv
  <1> QED BY <1>1, <1>2, <1>3, <1>4, <1>5, <1>6 DEF Own

\* A step of another part of the server.
LEMMA StutterKeepsInv == ASSUME TradeInv, UNCHANGED vars PROVE TradeInv'
  BY DEF vars, TradeInv, TypeOK, TradesArePaired, ItemInOnePlace, AcceptedIsCurrent,
         HasInfo, IsTrading, DealOf

\* The invariant is inductive.
LEMMA StepKeepsInv == TradeInv /\ [Next]_vars => TradeInv'
  <1> SUFFICES ASSUME TradeInv, [Next]_vars PROVE TradeInv'
    OBVIOUS
  <1>1. CASE \E p, q \in Player : Handlers(p, q)
    BY <1>1, HandlersKeepInv
  <1>2. CASE \E p \in Player : Own(p)
    BY <1>2, OwnKeepsInv
  <1>3. CASE Crash
    BY <1>3, CrashKeepsInv
  <1>4. CASE UNCHANGED vars
    BY <1>4, StutterKeepsInv
  <1> QED BY <1>1, <1>2, <1>3, <1>4 DEF Next

\* Every reachable state of a zone's trades satisfies the invariant.
THEOREM TradeInvariant == Spec => []TradeInv
  BY InitInv, StepKeepsInv, PTL DEF Spec

\* Every variable keeps its type: no purse exceeds MAX_MONEY.
THEOREM TradeTypeOK == Spec => []TypeOK
  BY TradeInvariant, PTL DEF TradeInv

\* Infos always come in pairs, of two characters in the zone.
THEOREM TradesStayPaired == Spec => []TradesArePaired
  BY TradeInvariant, PTL DEF TradeInv

\* No interleaving of swaps, moves and pick-ups leaves an item in two places.
THEOREM ItemsStayInOnePlace == Spec => []ItemInOnePlace
  BY TradeInvariant, PTL DEF TradeInv

\* What the first to accept agreed to is what both still stake.
THEOREM AcceptancesStayCurrent == Spec => []AcceptedIsCurrent
  BY TradeInvariant, PTL DEF TradeInv

-----------------------------------------------------------------------------
(* What characters hold and stake, and their rows. *)

\* A step that moves gold between purses and stakes of the same characters, and none to a row.
\* What it loses is cut at MAX_MONEY.
SumsHold ==
    /\ row' = row
    /\ \A r \in Player :
          /\ \/ gold'[r] + Stake(r)' = gold[r] + Stake(r)
             \/ gold'[r] = MaxMoney /\ gold'[r] + Stake(r)' < gold[r] + Stake(r)
          /\ presence'[r] # "out" => presence[r] # "out"

\* A purse and a stake that is capped.
LEMMA CappedIs ==
    ASSUME TradeInv, StakesCapped, NEW r \in Player
    PROVE  /\ gold[r] \in 0 .. MaxMoney /\ Stake(r) \in 0 .. MaxMoney
           /\ Word(gold[r] + Stake(r)) = gold[r] + Stake(r)
  <1>1. gold[r] \in 0 .. MaxMoney /\ Stake(r) \in 0 .. MaxMoney
    BY StakeType, MoneyAssumption DEF StakesCapped
  <1> QED BY <1>1, MoneyAssumption DEF Word

\* INCREASE in whole numbers: the sender has purse and stake, the receiver has held.
LEMMA IncreaseIs ==
    ASSUME NEW purse \in 0 .. MaxMoney, NEW stake \in 0 .. MaxMoney, NEW held \in 0 .. MaxMoney,
           NEW n \in 0 .. purse, NEW moved, moved = WithinMargin(n, Word(held + stake)),
           NEW g, g = Clamp(Word(purse - moved)), NEW s, s = Word(stake + moved)
    PROVE  g + s = purse + stake \/ (g = MaxMoney /\ g + s < purse + stake)
  <1>1. Word(held + stake) = held + stake /\ MaxMoney \in Nat /\ Modulus \in Nat
    BY MoneyAssumption DEF Word
  <1> DEFINE d == MaxMoney - held - stake
  <1>2. CASE moved = n
    <2>1. Word(purse - moved) = purse - n /\ Word(stake + moved) = stake + n
      BY <1>2, MoneyAssumption DEF Word
    <2> QED BY <2>1, MoneyAssumption DEF Clamp
  <1>3. CASE moved = Word(d) /\ n > d
    <2>1. CASE d >= 0
      <3>1. moved = d
        BY <1>3, <2>1, MoneyAssumption DEF Word
      <3>2. Word(purse - moved) = purse - d /\ Word(stake + moved) = stake + d
        BY <1>3, <2>1, <3>1, MoneyAssumption DEF Word
      <3> QED BY <1>3, <2>1, <3>2, MoneyAssumption DEF Clamp
    <2>2. CASE d < 0
      <3>1. moved = d + Modulus
        BY <1>3, <2>2, MoneyAssumption DEF Word
      <3>2. Word(purse - moved) = purse - d /\ Word(stake + moved) = stake + d
        BY <2>2, <3>1, MoneyAssumption DEF Word
      <3> QED BY <2>2, <3>2, MoneyAssumption DEF Clamp
    <2> QED BY <2>1, <2>2, MoneyAssumption
  <1>4. moved = n \/ (moved = Word(d) /\ n > d)
    <2>1. CASE held + stake + n >= Modulus
      <3>1. Word(held + stake + n) = held + stake + n - Modulus
        BY <2>1, MoneyAssumption DEF Word
      <3>2. Word(held + stake + n) <= MaxMoney
        BY <3>1, MoneyAssumption
      <3>3. moved = n
        BY <1>1, <3>1, <3>2, MoneyAssumption DEF WithinMargin
      <3> QED BY <3>3
    <2>2. CASE held + stake + n < Modulus
      <3>1. Word(held + stake + n) = held + stake + n
        BY <2>2, MoneyAssumption DEF Word
      <3>2. CASE held + stake + n > MaxMoney
        <4>1. Word(held + stake + n - MaxMoney) = held + stake + n - MaxMoney
          BY <2>2, <3>2, MoneyAssumption DEF Word
        <4>2. n - (held + stake + n - MaxMoney) = d
          BY MoneyAssumption
        <4> QED BY <1>1, <3>1, <3>2, <4>1, <4>2, MoneyAssumption DEF WithinMargin
      <3>3. CASE held + stake + n <= MaxMoney
        BY <1>1, <3>1, <3>3, MoneyAssumption DEF WithinMargin
      <3> QED BY <3>2, <3>3, MoneyAssumption
    <2> QED BY <2>1, <2>2, MoneyAssumption
  <1> QED BY <1>2, <1>3, <1>4

\* DECREASE: the sender has purse and stake, the receiver has staked held.
LEMMA DecreaseIs ==
    ASSUME NEW purse \in 0 .. MaxMoney, NEW stake \in 0 .. MaxMoney, NEW held \in 0 .. MaxMoney,
           NEW n \in 0 .. stake, NEW moved, moved = WithinMargin(n, Word(purse + held)),
           NEW g, g = Clamp(Word(purse + moved)), NEW s, s = Word(stake - moved)
    PROVE  g + s = purse + stake \/ (g = MaxMoney /\ g + s < purse + stake)
  <1>1. Word(purse + held) = purse + held /\ MaxMoney \in Nat /\ Modulus \in Nat
    BY MoneyAssumption DEF Word
  <1> DEFINE d == MaxMoney - purse - held
  <1>2. CASE moved = n
    <2>1. Word(purse + moved) = purse + n /\ Word(stake - moved) = stake - n
      BY <1>2, MoneyAssumption DEF Word
    <2> QED BY <2>1, MoneyAssumption DEF Clamp
  <1>3. CASE moved = Word(d) /\ n > d
    <2>1. CASE d >= 0
      <3>1. moved = d
        BY <1>3, <2>1, MoneyAssumption DEF Word
      <3>2. Word(purse + moved) = purse + d /\ Word(stake - moved) = stake - d
        BY <1>3, <2>1, <3>1, MoneyAssumption DEF Word
      <3> QED BY <1>3, <2>1, <3>2, MoneyAssumption DEF Clamp
    <2>2. CASE d < 0
      <3>1. moved = d + Modulus
        BY <1>3, <2>2, MoneyAssumption DEF Word
      <3>2. Word(purse + moved) = purse + d /\ Word(stake - moved) = stake - d
        BY <2>2, <3>1, MoneyAssumption DEF Word
      <3> QED BY <2>2, <3>2, MoneyAssumption DEF Clamp
    <2> QED BY <2>1, <2>2, MoneyAssumption
  <1>4. moved = n \/ (moved = Word(d) /\ n > d)
    <2>1. CASE purse + held + n >= Modulus
      <3>1. Word(purse + held + n) = purse + held + n - Modulus
        BY <2>1, MoneyAssumption DEF Word
      <3>2. Word(purse + held + n) <= MaxMoney
        BY <3>1, MoneyAssumption
      <3>3. moved = n
        BY <1>1, <3>1, <3>2, MoneyAssumption DEF WithinMargin
      <3> QED BY <3>3
    <2>2. CASE purse + held + n < Modulus
      <3>1. Word(purse + held + n) = purse + held + n
        BY <2>2, MoneyAssumption DEF Word
      <3>2. CASE purse + held + n > MaxMoney
        <4>1. Word(purse + held + n - MaxMoney) = purse + held + n - MaxMoney
          BY <2>2, <3>2, MoneyAssumption DEF Word
        <4>2. n - (purse + held + n - MaxMoney) = d
          BY MoneyAssumption
        <4> QED BY <1>1, <3>1, <3>2, <4>1, <4>2, MoneyAssumption DEF WithinMargin
      <3>3. CASE purse + held + n <= MaxMoney
        BY <1>1, <3>1, <3>3, MoneyAssumption DEF WithinMargin
      <3> QED BY <3>2, <3>3, MoneyAssumption
    <2> QED BY <2>1, <2>2, MoneyAssumption
  <1> QED BY <1>2, <1>3, <1>4

\* Both stakes of a cancelled trade go back where they came from.
LEMMA CancelledSums ==
    ASSUME TradeInv, StakesCapped, NEW p \in Player, NEW q \in Player, Cancelled(p, q),
           \A r \in Player : presence'[r] # "out" => presence[r] # "out"
    PROVE  SumsHold
  <1> SUFFICES ASSUME NEW r \in Player
      PROVE  \/ gold'[r] + Stake(r)' = gold[r] + Stake(r)
             \/ gold'[r] = MaxMoney /\ gold'[r] + Stake(r)' < gold[r] + Stake(r)
    BY DEF SumsHold, Cancelled
  <1>1. /\ gold[r] \in 0 .. MaxMoney /\ Stake(r) \in 0 .. MaxMoney
        /\ Word(gold[r] + Stake(r)) = gold[r] + Stake(r)
    BY CappedIs
  <1>2. CASE r \in {p, q}
    <2>1. gold'[r] = Clamp(gold[r] + Stake(r)) /\ Stake(r)' = 0
      BY <1>1, <1>2 DEF Cancelled, Stake, HasInfo
    <2> QED BY <1>1, <2>1, MoneyAssumption DEF Clamp
  <1>3. CASE r \notin {p, q}
    BY <1>3 DEF Cancelled, Stake, HasInfo
  <1> QED BY <1>2, <1>3

\* What leaves a purse comes into its stake, or is cut.
LEMMA RestakeSums ==
    ASSUME TradeInv, NEW p \in Player, NEW q \in Player, IsTrading(p, q),
           NEW offer \in Offers, NEW g,
           \/ g + offer.gold = gold[p] + Stake(p)
           \/ g = MaxMoney /\ g + offer.gold < gold[p] + Stake(p),
           gold' = [gold EXCEPT ![p] = g], Restake(p, q, offer),
           UNCHANGED <<presence, row>>
    PROVE  SumsHold
  <1>1. /\ info[p] \in Offers /\ info[q] \in Offers /\ p # q /\ info[p] # None /\ info[q] # None
    BY DEF TradeInv, TypeOK, TradesArePaired, IsTrading, HasInfo, Offers
  <1>2. /\ [offer EXCEPT !.status = "TRADING"] # None
        /\ [offer EXCEPT !.status = "TRADING"].gold = offer.gold
        /\ [info[q] EXCEPT !.status = "TRADING"] # None
        /\ [info[q] EXCEPT !.status = "TRADING"].gold = info[q].gold
    BY <1>1, NoneAssumption DEF Offers
  <1>3. \A r \in Player : info'[r] = IF r = p THEN [offer EXCEPT !.status = "TRADING"]
                                     ELSE IF r = q THEN [info[q] EXCEPT !.status = "TRADING"]
                                     ELSE info[r]
    <2>1. info' = [info EXCEPT ![p] = [offer EXCEPT !.status = "TRADING"],
                               ![q].status = "TRADING"]
      BY DEF Restake
    <2>2. info \in [Player -> Offers \cup {None}]
      BY DEF TradeInv, TypeOK
    <2> QED BY <1>1, <2>1, <2>2
  <1>4. \A r \in Player : Stake(r)' = IF r = p THEN offer.gold ELSE Stake(r)
    BY <1>1, <1>2, <1>3 DEF Stake, HasInfo
  <1>5. \A r \in Player : gold'[r] = IF r = p THEN g ELSE gold[r]
    BY DEF TradeInv, TypeOK
  <1> QED BY <1>4, <1>5 DEF SumsHold

\* CGTradeMoney, while no stake is above MAX_MONEY.
LEMMA MoneySums ==
    ASSUME TradeInv, StakesCapped, NEW p \in Player, NEW q \in Player, NEW n \in Words,
           IncreaseMoney(p, q, n) \/ DecreaseMoney(p, q, n)
    PROVE  SumsHold
  <1>1. IsTrading(p, q) /\ UNCHANGED <<presence, row>>
    BY DEF IncreaseMoney, DecreaseMoney
  <1>2. /\ info[p] \in Offers /\ info[q] \in Offers
        /\ info[p].gold = Stake(p) /\ info[q].gold = Stake(q)
    BY <1>1 DEF TradeInv, TypeOK, IsTrading, HasInfo, Stake
  <1>3. /\ gold[p] \in 0 .. MaxMoney /\ gold[q] \in 0 .. MaxMoney
        /\ Stake(p) \in 0 .. MaxMoney /\ Stake(q) \in 0 .. MaxMoney
    BY CappedIs
  <1>4. n \in Nat
    BY MoneyAssumption DEF Words
  <1>5. CASE IncreaseMoney(p, q, n)
    <2> DEFINE moved == WithinMargin(n, Word(gold[q] + Stake(p)))
               g == Clamp(Word(gold[p] - moved))
               s == Word(Stake(p) + moved)
    <2>1. /\ gold' = [gold EXCEPT ![p] = g] /\ n \in 0 .. gold[p]
          /\ Restake(p, q, [info[p] EXCEPT !.gold = s])
      BY <1>2, <1>3, <1>4, <1>5 DEF IncreaseMoney
    <2>2. g + s = gold[p] + Stake(p) \/ (g = MaxMoney /\ g + s < gold[p] + Stake(p))
      BY <1>3, <2>1, IncreaseIs
    <2>3. s \in Words
      <3>1. moved \in Words
        BY <1>3, StakeType, WordIs, MarginIs
      <3> QED BY <3>1, StakeType, WordIs
    <2> HIDE DEF g, s
    <2>4. [info[p] EXCEPT !.gold = s] \in Offers /\ [info[p] EXCEPT !.gold = s].gold = s
      BY <1>2, <2>3 DEF Offers
    <2> QED BY <1>1, <2>1, <2>2, <2>4, RestakeSums
  <1>6. CASE DecreaseMoney(p, q, n)
    <2> DEFINE moved == WithinMargin(n, Word(gold[p] + Stake(q)))
               g == Clamp(Word(gold[p] + moved))
               s == Word(Stake(p) - moved)
    <2>1. /\ gold' = [gold EXCEPT ![p] = g] /\ n \in 0 .. Stake(p)
          /\ Restake(p, q, [info[p] EXCEPT !.gold = s])
      BY <1>2, <1>3, <1>4, <1>6 DEF DecreaseMoney
    <2>2. g + s = gold[p] + Stake(p) \/ (g = MaxMoney /\ g + s < gold[p] + Stake(p))
      BY <1>3, <2>1, DecreaseIs
    <2>3. s \in Words
      <3>1. moved \in Words
        BY <1>3, StakeType, WordIs, MarginIs
      <3> QED BY <3>1, StakeType, WordIs
    <2> HIDE DEF g, s
    <2>4. [info[p] EXCEPT !.gold = s] \in Offers /\ [info[p] EXCEPT !.gold = s].gold = s
      BY <1>2, <2>3 DEF Offers
    <2> QED BY <1>1, <2>1, <2>2, <2>4, RestakeSums
  <1> QED BY <1>5, <1>6

\* Nothing is moved, and the stakes are what they were.
LEMMA StillSums ==
    ASSUME UNCHANGED money, \A r \in Player : Stake(r)' = Stake(r),
           \A r \in Player : presence'[r] # "out" => presence[r] # "out"
    PROVE  SumsHold
  BY DEF SumsHold, money

\* One info becomes another with the same stake.
LEMMA AnswerSums ==
    ASSUME TradeInv, NEW p \in Player, HasInfo(p), NEW offer \in Offers,
           offer.gold = info[p].gold, info' = [info EXCEPT ![p] = offer],
           UNCHANGED <<presence, money>>
    PROVE  SumsHold
  <1>1. \A r \in Player : info'[r] = IF r = p THEN offer ELSE info[r]
    BY DEF TradeInv, TypeOK
  <1>2. \A r \in Player : Stake(r)' = Stake(r)
    BY <1>1, NoneAssumption DEF Stake, HasInfo
  <1> QED BY <1>2, StillSums

\* No handler of a trade but the one that completes it makes or loses gold.
LEMMA HandlersKeepSums ==
    ASSUME TradeInv, StakesCapped, NEW p \in Player, NEW q \in Player, Handlers(p, q)
    PROVE  SumsHold \/ AcceptAndTrade(p, q)
  <1>0. ASSUME IsTrading(p, q)
        PROVE  /\ info[p] \in Offers /\ HasInfo(p) /\ info[p].target = q
               /\ gold \in [Player -> 0 .. MaxMoney]
    BY <1>0 DEF TradeInv, TypeOK, IsTrading, HasInfo
  <1>1. CASE Request(p, q)
    <2>1. /\ ~HasInfo(p) /\ ~HasInfo(q) /\ UNCHANGED <<presence, money>>
          /\ info' = [info EXCEPT ![p] = NewOffer(q), ![q] = NewOffer(p)]
      BY <1>1 DEF Request
    <2>2. \A r \in Player : r \in {p, q} => /\ info[r] = None
                                           /\ info'[r] \in {NewOffer(p), NewOffer(q)}
      BY <2>1 DEF TradeInv, TypeOK, HasInfo
    <2>3. \A r \in Player : r \notin {p, q} => info'[r] = info[r]
      BY <2>1 DEF TradeInv, TypeOK
    <2>4. NewOffer(p).gold = 0 /\ NewOffer(q).gold = 0
      BY NewOfferIs
    <2>5. \A r \in Player : Stake(r)' = Stake(r)
      BY <2>2, <2>3, <2>4 DEF Stake, HasInfo
    <2> QED BY <2>1, <2>5, StillSums
  <1>2. CASE Reject(p, q)
    BY <1>2, CancelBothIs, CancelledSums DEF Reject
  <1>3. ASSUME NEW i \in Item, AddItem(p, q, i) \/ RemoveItem(p, q, i)
        PROVE  SumsHold
    <2>1. IsTrading(p, q) /\ UNCHANGED <<presence, money>>
      BY <1>3 DEF AddItem, RemoveItem
    <2>2. PICK offer \in Offers : offer.gold = Stake(p) /\ Restake(p, q, offer)
      <3>1. CASE AddItem(p, q, i)
        BY <1>0, <2>1, <3>1 DEF AddItem, Offers, Stake
      <3>2. CASE RemoveItem(p, q, i)
        <4>1. PICK waits \in {info[p].waiting, TRUE} :
                 Restake(p, q, [info[p] EXCEPT !.staked = @ \ {i}, !.waiting = waits])
          BY <3>2 DEF RemoveItem
        <4> QED BY <1>0, <2>1, <4>1 DEF Offers, Stake
      <3> QED BY <1>3, <3>1, <3>2
    <2>3. gold' = [gold EXCEPT ![p] = gold[p]] /\ UNCHANGED <<presence, row>>
      BY <1>0, <2>1 DEF money
    <2> QED BY <2>1, <2>2, <2>3, RestakeSums
  <1>4. ASSUME NEW n \in Words, IncreaseMoney(p, q, n) \/ DecreaseMoney(p, q, n)
        PROVE  SumsHold
    BY <1>4, MoneySums
  <1>5. ASSUME IsTrading(p, q), UNCHANGED <<presence, money>>, NEW offer,
               offer \in {[info[p] EXCEPT !.status = "TRADING", !.waiting = TRUE],
                          [info[p] EXCEPT !.status = "FINISH"]},
               info' = [info EXCEPT ![p] = offer]
        PROVE  SumsHold
    <2>1. offer \in Offers /\ offer.gold = info[p].gold
      BY <1>0, <1>5 DEF Offers
    <2> QED BY <1>0, <1>5, <2>1, AnswerSums
  <1>6. CASE Reconsider(p, q)
    <2>1. info' = [info EXCEPT ![p] = [info[p] EXCEPT !.status = "TRADING", !.waiting = TRUE]]
      BY <1>6, <1>0 DEF Reconsider, IsTrading, HasInfo, TradeInv, TypeOK
    <2> QED BY <1>5, <1>6, <2>1 DEF Reconsider
  <1>7. CASE AcceptFirst(p, q) \/ AcceptUnmatched(p, q)
    <2>1. IsTrading(p, q) /\ Accepted(p)
      BY <1>7 DEF AcceptFirst, AcceptUnmatched, Completes
    <2>2. info' = [info EXCEPT ![p] = [info[p] EXCEPT !.status = "FINISH"]]
      BY <2>1 DEF Accepted
    <2> QED BY <1>5, <2>1, <2>2 DEF Accepted
  <1>8. CASE AcceptTooSoon(p, q) \/ AcceptImpossible(p, q)
    <2>1. HasInfo(p) /\ CancelTrade(p) /\ UNCHANGED presence
      BY <1>8 DEF AcceptTooSoon, AcceptImpossible, Completes, IsTrading
    <2> QED BY <2>1, CancelTradeIs, CancelledSums
  <1>9. 0 .. MaxMoney \subseteq Words
    BY MoneyAssumption DEF Words
  <1> QED BY <1>1, <1>2, <1>3, <1>4, <1>6, <1>7, <1>8, <1>9 DEF Handlers

\* A refusal, time, and leaving the zone do not either.
LEMMA RefusalKeepsSums ==
    ASSUME TradeInv, StakesCapped, NEW p \in Player, Refuse(p) \/ Elapse(p) \/ LeaveZone(p)
    PROVE  SumsHold
  <1>1. CASE Refuse(p)
    BY <1>1, CancelTradeIs, CancelledSums DEF Refuse
  <1>2. CASE Elapse(p)
    <2> DEFINE offer == [info[p] EXCEPT !.waiting = FALSE]
    <2>1. HasInfo(p) /\ info[p] \in Offers
      BY <1>2 DEF Elapse, HasInfo, TradeInv, TypeOK
    <2>2. offer \in Offers /\ offer.gold = info[p].gold
      BY <2>1 DEF Offers
    <2>3. info' = [info EXCEPT ![p] = offer] /\ UNCHANGED <<presence, money>>
      BY <1>2 DEF Elapse
    <2> HIDE DEF offer
    <2> QED BY <2>1, <2>2, <2>3, AnswerSums
  <1>3. CASE LeaveZone(p)
    <2>1. \A r \in Player : presence'[r] # "out" => presence[r] # "out"
      BY <1>3 DEF LeaveZone, TradeInv, TypeOK
    <2>2. CASE HasInfo(p)
      BY <1>3, <2>1, <2>2, CancelTradeIs, CancelledSums DEF LeaveZone, LeaveTrade
    <2>3. CASE ~HasInfo(p)
      BY <1>3, <2>1, <2>3, StillSums DEF LeaveZone, LeaveTrade, Stake, HasInfo
    <2> QED BY <2>2, <2>3
  <1> QED BY <1>1, <1>2, <1>3

\* Of what else a character does, only earning, paying, and coming and going does.
LEMMA OwnKeepsSums ==
    ASSUME TradeInv, StakesCapped, NEW p \in Player, Own(p)
    PROVE  \/ SumsHold
           \/ Logout(p) \/ Login(p)
           \/ \E n \in 0 .. MaxMoney : Earn(p, n) \/ Spend(p, n) \/ PayFee(p, n)
  <1>1. ASSUME NEW i \in Item,
               TakeInHand(p, i) \/ PutBack(p, i) \/ Drop(p, i) \/ PickUp(p, i) \/ UseUp(p, i)
        PROVE  SumsHold
    BY <1>1, StillSums DEF TakeInHand, PutBack, Drop, PickUp, UseUp, Stake, HasInfo
  <1>2. CASE Arrive(p)
    BY <1>2, StillSums DEF Arrive, Stake, HasInfo, TradeInv, TypeOK
  <1> QED BY <1>1, <1>2, RefusalKeepsSums DEF Own

\* What a completed trade leaves: two purses, two rows that hold the same, and nothing staked.
LEMMA SwapSums ==
    ASSUME TradeInv, NEW p \in Player, NEW q \in Player, AcceptAndTrade(p, q)
    PROVE  /\ presence' = presence
           /\ \A r \in {p, q} : Stake(r)' = 0 /\ row'[r] = gold'[r] /\ gold'[r] \in 0 .. MaxMoney
           /\ \A r \in Player \ {p, q} :
                 Stake(r)' = Stake(r) /\ gold'[r] = gold[r] /\ row'[r] = row[r]
  <1>1. /\ info[p] \in Offers /\ info[q] \in Offers /\ p # q
        /\ info \in [Player -> Offers \cup {None}]
        /\ gold \in [Player -> 0 .. MaxMoney] /\ row \in [Player -> Words]
    BY DEF TradeInv, TypeOK, TradesArePaired, HasInfo, IsTrading, AcceptAndTrade, Completes
  <1>2. info' = [info EXCEPT ![p] = Cleared(@), ![q] = Cleared(@)] /\ presence' = presence
    BY DEF AcceptAndTrade
  <1>3. \A r \in {p, q} : Stake(r)' = 0
    BY <1>1, <1>2, OffersAre DEF Stake, HasInfo
  <1>4. \A r \in Player \ {p, q} : Stake(r)' = Stake(r)
    BY <1>1, <1>2 DEF Stake, HasInfo
  <1>5. \A r \in {p, q} : row'[r] = gold'[r] /\ gold'[r] \in 0 .. MaxMoney
    <2>1. TradeInv'
      BY SwapKeepsInv
    <2>2. \A r \in Player : gold'[r] \in 0 .. MaxMoney
      BY <2>1 DEF TradeInv, TypeOK
    <2> QED BY <1>1, <2>2 DEF AcceptAndTrade
  <1>6. \A r \in Player \ {p, q} : row'[r] = row[r] /\ gold'[r] = gold[r]
    BY <1>1 DEF AcceptAndTrade
  <1> QED BY <1>2, <1>3, <1>4, <1>5, <1>6

\* Gold that comes in or is paid, for one character.
LEMMA PurseIs ==
    ASSUME TradeInv, NEW p \in Player, NEW n \in 0 .. MaxMoney,
           Earn(p, n) \/ Spend(p, n) \/ PayFee(p, n)
    PROVE  /\ UNCHANGED <<presence, items, info, agreed>>
           /\ \A r \in Player : Stake(r)' = Stake(r)
           /\ \A r \in Player \ {p} : gold'[r] = gold[r] /\ row'[r] = row[r]
           /\ gold'[p] \in 0 .. MaxMoney /\ row'[p] \in Words
           /\ \/ /\ Earn(p, n) /\ gold'[p] >= gold[p]
                 /\ row'[p] = Column(row[p] + (gold'[p] - gold[p]))
              \/ Spend(p, n) /\ gold'[p] < gold[p] /\ row'[p] = row[p] - (gold[p] - gold'[p])
              \/ PayFee(p, n) /\ gold'[p] < gold[p] /\ row'[p] = gold'[p]
  <1>1. /\ UNCHANGED <<presence, items, info, agreed>> /\ n \in Nat /\ n > 0
        /\ \A r \in Player : Stake(r)' = Stake(r)
    BY MoneyAssumption DEF Earn, Spend, PayFee, Stake, HasInfo
  <1>2. /\ \A r \in Player : gold[r] \in 0 .. MaxMoney /\ row[r] \in Words
        /\ gold \in [Player -> 0 .. MaxMoney] /\ row \in [Player -> Words]
    BY DEF TradeInv, TypeOK
  <1>3. \A r \in Player \ {p} : gold'[r] = gold[r] /\ row'[r] = row[r]
    BY <1>2 DEF Earn, Spend, PayFee
  <1>4. gold'[p] \in 0 .. MaxMoney /\ row'[p] \in Words
    <2>1. TradeInv'
      BY PurseKeepsInv
    <2> QED BY <2>1 DEF TradeInv, TypeOK
  <1>5. CASE Earn(p, n)
    <2> DEFINE moved == IF gold[p] + n > MaxMoney THEN MaxMoney - gold[p] ELSE n
    <2>1. gold'[p] = gold[p] + moved /\ row'[p] = Column(row[p] + moved)
      BY <1>2, <1>5 DEF Earn
    <2>2. moved \in Nat
      BY <1>1, <1>2, MoneyAssumption
    <2> HIDE DEF moved
    <2>3. gold'[p] >= gold[p] /\ gold'[p] - gold[p] = moved
      BY <1>2, <2>1, <2>2, MoneyAssumption
    <2> QED BY <1>1, <1>3, <1>4, <1>5, <2>1, <2>3
  <1>6. CASE Spend(p, n)
    <2>1. gold'[p] = gold[p] - n /\ row'[p] = row[p] - n
      BY <1>2, <1>6 DEF Spend
    <2>2. gold'[p] < gold[p] /\ row'[p] = row[p] - (gold[p] - gold'[p])
      BY <1>1, <1>2, <2>1, MoneyAssumption DEF Words
    <2> QED BY <1>1, <1>3, <1>4, <1>6, <2>2
  <1>7. CASE PayFee(p, n)
    <2>1. gold'[p] = gold[p] - n /\ row'[p] = gold[p] - n
      BY <1>2, <1>7 DEF PayFee
    <2>2. gold'[p] < gold[p] /\ row'[p] = gold'[p]
      BY <1>1, <1>2, <2>1, MoneyAssumption
    <2> QED BY <1>1, <1>3, <1>4, <1>7, <2>2
  <1> QED BY <1>5, <1>6, <1>7

\* Whoever logs out or comes back has nothing staked; the purse is lost, or read from the row.
LEMMA ElsewhereIs ==
    ASSUME TradeInv, NEW p \in Player, Logout(p) \/ Login(p)
    PROVE  /\ UNCHANGED <<row, items, info, agreed>> /\ Stake(p) = 0
           /\ \A r \in Player : Stake(r)' = Stake(r)
           /\ \A r \in Player \ {p} : presence'[r] = presence[r] /\ gold'[r] = gold[r]
           /\ \/ presence'[p] = "out" /\ gold'[p] = 0
              \/ presence[p] = "out" /\ gold'[p] = Clamp(row[p])
  <1>1. /\ UNCHANGED <<row, items, info, agreed>> /\ \A r \in Player : Stake(r)' = Stake(r)
        /\ \A r \in Player \ {p} : presence'[r] = presence[r] /\ gold'[r] = gold[r]
    BY DEF Logout, Login, Stake, HasInfo, TradeInv, TypeOK
  <1>2. Stake(p) = 0
    BY DEF Logout, Login, TradeInv, TradesArePaired, Stake
  <1>3. \/ presence'[p] = "out" /\ gold'[p] = 0
        \/ presence[p] = "out" /\ gold'[p] = Clamp(row[p])
    BY DEF Logout, Login, TradeInv, TypeOK
  <1> QED BY <1>1, <1>2, <1>3

\* Every step, as far as gold goes, from a state where no stake is above MAX_MONEY.
LEMMA StepIs ==
    ASSUME TradeInv, StakesCapped, [Next]_vars
    PROVE  \/ SumsHold
           \/ Crash
           \/ \E p, q \in Player : AcceptAndTrade(p, q)
           \/ \E p \in Player : Logout(p) \/ Login(p)
           \/ \E p \in Player, n \in 0 .. MaxMoney : Earn(p, n) \/ Spend(p, n) \/ PayFee(p, n)
  <1>1. CASE \E p, q \in Player : Handlers(p, q)
    BY <1>1, HandlersKeepSums
  <1>2. CASE \E p \in Player : Own(p)
    BY <1>2, OwnKeepsSums
  <1>3. CASE UNCHANGED vars
    BY <1>3, StillSums DEF vars, money, Stake, HasInfo
  <1> QED BY <1>1, <1>2, <1>3 DEF Next

-----------------------------------------------------------------------------
\* What RowsDriftByFeesAndCuts says of one step.
RowStep ==
    \A p \in Player : RowIsWhole(p) /\ ~RowIsWhole(p)' => FeeWhileStaking(p) \/ CutAtCap(p)

\* Where sums hold, a whole row becomes one that promises too much, if a purse is cut.
LEMMA SumsKeepRows ==
    ASSUME TradeInv, TradeInv', SumsHold
    PROVE  RowStep
  <1> SUFFICES ASSUME NEW r \in Player, RowIsWhole(r), ~RowIsWhole(r)'
               PROVE  CutAtCap(r)
    BY DEF RowStep
  <1>1. /\ row[r] = gold[r] + Stake(r) /\ row'[r] = row[r]
        /\ row'[r] # gold'[r] + Stake(r)'
    BY DEF SumsHold, RowIsWhole
  <1>2. gold'[r] = MaxMoney /\ gold'[r] + Stake(r)' < gold[r] + Stake(r)
    BY <1>1 DEF SumsHold
  <1> QED BY <1>1, <1>2 DEF CutAtCap

\* Who earns or pays has the same in the row as in the purse; a fee is written from the purse.
LEMMA PurseKeepsRows ==
    ASSUME TradeInv, StakesCapped, NEW p \in Player, NEW n \in 0 .. MaxMoney,
           Earn(p, n) \/ Spend(p, n) \/ PayFee(p, n)
    PROVE  RowStep
  <1>1. /\ UNCHANGED <<presence, info>> /\ Stake(p)' = Stake(p)
        /\ \A r \in Player \ {p} : RowIsWhole(r) => RowIsWhole(r)'
    BY PurseIs DEF RowIsWhole
  <1>2. gold[p] \in 0 .. MaxMoney /\ Stake(p) \in 0 .. MaxMoney /\ gold'[p] \in 0 .. MaxMoney
    BY CappedIs, PurseIs
  <1> SUFFICES ASSUME RowIsWhole(p), ~RowIsWhole(p)'
               PROVE  FeeWhileStaking(p)
    BY <1>1 DEF RowStep
  <1>3. row[p] = gold[p] + Stake(p) /\ row'[p] # gold'[p] + Stake(p)
    BY <1>1 DEF RowIsWhole
  <1>4. CASE Earn(p, n) /\ row'[p] = Column(row[p] + (gold'[p] - gold[p]))
    BY <1>2, <1>3, <1>4, MoneyAssumption DEF Column
  <1>5. CASE row'[p] = row[p] - (gold[p] - gold'[p])
    BY <1>2, <1>3, <1>5
  <1>6. CASE gold'[p] < gold[p] /\ row'[p] = gold'[p]
    BY <1>1, <1>2, <1>3, <1>6, MoneyAssumption DEF FeeWhileStaking
  <1> QED BY <1>4, <1>5, <1>6, PurseIs

\* A character comes back with all its row promises, up to MAX_MONEY.
LEMMA ElsewhereKeepsRows ==
    ASSUME TradeInv, NEW p \in Player, Logout(p) \/ Login(p)
    PROVE  RowStep
  <1>1. /\ UNCHANGED row /\ Stake(p)' = 0
        /\ \A r \in Player \ {p} : RowIsWhole(r) => RowIsWhole(r)'
    BY ElsewhereIs DEF RowIsWhole
  <1> SUFFICES ASSUME ~RowIsWhole(p)'
               PROVE  CutAtCap(p)
    BY <1>1 DEF RowStep
  <1>2. gold'[p] = Clamp(row[p]) /\ row'[p] # gold'[p] + 0
    BY <1>1, ElsewhereIs DEF RowIsWhole
  <1>3. row[p] \in Nat
    BY StakeType
  <1> QED BY <1>1, <1>2, <1>3, MoneyAssumption DEF CutAtCap, Clamp

\* A character's row falls behind what it holds and stakes by nothing but a fee paid while gold
\* is staked, and gets ahead of it by nothing but a purse that is cut at MAX_MONEY: in any
\* number of trades, refunds, logouts and logins, as long as no stake is above MAX_MONEY.
THEOREM RowsDriftOnlyByFeesAndCuts == Spec => RowsDriftByFeesAndCuts
  <1>1. TradeInv /\ TradeInv' /\ [Next]_vars => (StakesCapped => RowStep)
    <2> SUFFICES ASSUME TradeInv, TradeInv', StakesCapped, [Next]_vars PROVE RowStep
      OBVIOUS
    <2>1. ASSUME NEW p \in Player, NEW q \in Player, AcceptAndTrade(p, q) PROVE RowStep
      <3>1. \A r \in {p, q} : RowIsWhole(r)'
        BY <2>1, SwapSums, MoneyAssumption DEF RowIsWhole
      <3>2. \A r \in Player \ {p, q} : RowIsWhole(r) => RowIsWhole(r)'
        BY <2>1, SwapSums DEF RowIsWhole
      <3> QED BY <3>1, <3>2 DEF RowStep
    <2>2. CASE Crash
      BY <2>2 DEF Crash, RowStep, RowIsWhole
    <2> QED BY <2>1, <2>2, StepIs, SumsKeepRows, PurseKeepsRows, ElsewhereKeepsRows
  <1>2. (StakesCapped => RowStep) =>
          [StakesCapped => \A p \in Player :
             RowIsWhole(p) /\ ~RowIsWhole(p)' => FeeWhileStaking(p) \/ CutAtCap(p)]_vars
    BY DEF RowStep
  <1> QED BY <1>1, <1>2, TradeInvariant, PTL DEF Spec, RowsDriftByFeesAndCuts

-----------------------------------------------------------------------------
\* What StakesOutgrowPurseByEarning says of one step.
FitStep == StakesFit /\ ~StakesFit' => \E p \in Player : EarnsWhileStaking(p)

\* Where what each holds and stakes fits in a purse, each stake does.
LEMMA FitIsCapped == TradeInv /\ StakesFit => StakesCapped
  <1> SUFFICES ASSUME TradeInv, StakesFit, NEW r \in Player
               PROVE  Stake(r) <= MaxMoney
    BY DEF StakesCapped
  <1> QED BY StakeType, MoneyAssumption DEF StakesFit

\* Only one who has gold staked and gets more outgrows its purse.
LEMMA PurseKeepsFit ==
    ASSUME TradeInv, NEW p \in Player, NEW n \in 0 .. MaxMoney,
           Earn(p, n) \/ Spend(p, n) \/ PayFee(p, n)
    PROVE  FitStep
  <1> SUFFICES ASSUME StakesFit, ~EarnsWhileStaking(p), NEW r \in Player
               PROVE  gold'[r] + Stake(r)' <= MaxMoney
    BY DEF FitStep, StakesFit
  <1>1. gold[r] + Stake(r) <= MaxMoney /\ Stake(r)' = Stake(r)
    BY PurseIs DEF StakesFit
  <1>2. gold[p] \in 0 .. MaxMoney /\ gold'[p] \in 0 .. MaxMoney /\ Stake(p) \in Nat
    BY StakeType, PurseIs
  <1>3. Stake(p) = 0 \/ gold'[p] <= gold[p]
    BY <1>2, PurseIs, MoneyAssumption DEF EarnsWhileStaking
  <1>4. CASE r = p
    BY <1>1, <1>2, <1>3, <1>4, MoneyAssumption
  <1>5. CASE r # p
    BY <1>1, <1>5, PurseIs
  <1> QED BY <1>4, <1>5

\* Purse and stake of a character stay within MAX_MONEY together, through any number of margins,
\* refunds, swaps, crashes and logins, until it earns while gold of its own is staked.
THEOREM OutgrownOnlyByEarning == Spec => StakesOutgrowPurseByEarning
  <1>1. TradeInv /\ TradeInv' /\ [Next]_vars => FitStep
    <2> SUFFICES ASSUME TradeInv, TradeInv', StakesFit, [Next]_vars PROVE FitStep
      BY DEF FitStep
    <2>0. StakesCapped /\ \A r \in Player : gold[r] + Stake(r) <= MaxMoney
      BY FitIsCapped DEF StakesFit
    <2>1. ASSUME SumsHold PROVE StakesFit'
      <3>1. \A r \in Player : gold[r] \in Nat /\ Stake(r) \in Nat /\ gold'[r] \in Nat
        BY StakeType, MoneyAssumption DEF TradeInv, TypeOK
      <3>2. \A r \in Player : Stake(r)' \in Nat
        BY MoneyAssumption DEF TradeInv, TypeOK, Stake, HasInfo, Offers, Words
      <3> QED BY <2>0, <2>1, <3>1, <3>2, MoneyAssumption DEF SumsHold, StakesFit
    <2>2. ASSUME NEW p \in Player, NEW q \in Player, AcceptAndTrade(p, q) PROVE StakesFit'
      <3>1. \A r \in {p, q} : gold'[r] + Stake(r)' <= MaxMoney
        BY <2>2, SwapSums, MoneyAssumption
      <3>2. \A r \in Player \ {p, q} : gold'[r] + Stake(r)' <= MaxMoney
        BY <2>0, <2>2, SwapSums
      <3> QED BY <3>1, <3>2 DEF StakesFit
    <2>3. ASSUME NEW p \in Player, Logout(p) \/ Login(p) PROVE StakesFit'
      <3>1. Stake(p)' = 0 /\ gold'[p] \in 0 .. MaxMoney
        BY <2>3, ElsewhereIs DEF TradeInv, TypeOK
      <3>2. \A r \in Player \ {p} : gold'[r] + Stake(r)' <= MaxMoney
        BY <2>0, <2>3, ElsewhereIs
      <3> QED BY <3>1, <3>2, MoneyAssumption DEF StakesFit
    <2>4. ASSUME Crash PROVE StakesFit'
      BY <2>4, MoneyAssumption DEF Crash, StakesFit, Stake, HasInfo
    <2> QED BY <2>0, <2>1, <2>2, <2>3, <2>4, StepIs, PurseKeepsFit DEF FitStep
  <1>2. FitStep =>
          [StakesFit /\ ~StakesFit' => \E p \in Player : EarnsWhileStaking(p)]_vars
    BY DEF FitStep
  <1> QED BY <1>1, <1>2, TradeInvariant, PTL DEF Spec, StakesOutgrowPurseByEarning
=============================================================================
