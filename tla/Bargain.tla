-------------------------------- MODULE Bargain --------------------------------
(***************************************************************************)
(* What trading promises two characters, without its protocol: each accepts *)
(* a deal, and either nothing passes between them, or one step swaps what  *)
(* the first one to accept agreed to, while that acceptance stands.  No    *)
(* step but an earning adds to what a character can count on, and an item  *)
(* changes hands in a swap or over the floor.                              *)
(***************************************************************************)
EXTENDS Integers

CONSTANTS Player, Item, None

VARIABLES wealth, \* the gold a character can still come to have
          goods,  \* its items
          accord  \* the deal it has accepted, or None

vars == <<wealth, goods, accord>>

Deals == [with : Player, gives : SUBSET Item, pays : Nat, takes : SUBSET Item, gets : Nat]

Init ==
    /\ wealth \in [Player -> Nat]
    /\ goods \in [Player -> SUBSET Item]
    /\ \A p, q \in Player : p # q => goods[p] \cap goods[q] = {}
    /\ accord = [p \in Player |-> None]

\* A character accepts a deal.
Accept(p) ==
    /\ accord'[p] \in Deals
    /\ accord' = [accord EXCEPT ![p] = accord'[p]]
    /\ UNCHANGED <<wealth, goods>>

\* Acceptances lapse, gold is spent or lost.
Lapse ==
    /\ wealth' \in [Player -> Nat]
    /\ \A p \in Player : wealth'[p] <= wealth[p]
    /\ accord' \in [Player -> Deals \cup {None}]
    /\ \A p \in Player : accord'[p] \in {accord[p], None}
    /\ UNCHANGED goods

Earn(p) ==
    /\ wealth'[p] > wealth[p]
    /\ wealth' = [wealth EXCEPT ![p] = wealth'[p]]
    /\ UNCHANGED <<goods, accord>>

\* An item is dropped ...
Lose(p, i) ==
    /\ i \in goods[p]
    /\ goods' = [goods EXCEPT ![p] = @ \ {i}]
    /\ UNCHANGED <<wealth, accord>>

\* ... and found, when nobody has it.
Find(p, i) ==
    /\ \A q \in Player : i \notin goods[q]
    /\ goods' = [goods EXCEPT ![p] = @ \cup {i}]
    /\ UNCHANGED <<wealth, accord>>

\* q accepted deal with p, and p's own acceptance completes it.
Swap(p, q) ==
    LET deal == accord[q]
    IN  /\ deal # None
        /\ deal.with = p /\ p # q
        /\ deal.gives \subseteq goods[q]
        /\ deal.takes \subseteq goods[p]
        /\ goods' = [goods EXCEPT ![p] = (@ \ deal.takes) \cup deal.gives,
                                  ![q] = (@ \ deal.gives) \cup deal.takes]
        /\ wealth' \in [Player -> Nat]
        /\ wealth'[p] <= wealth[p] - deal.gets + deal.pays
        /\ wealth'[q] <= wealth[q] - deal.pays + deal.gets
        /\ \A r \in Player \ {p, q} : wealth'[r] = wealth[r]
        /\ accord' = [accord EXCEPT ![p] = None, ![q] = None]

Next ==
    \/ \E p \in Player : Accept(p) \/ Earn(p)
    \/ Lapse
    \/ \E p \in Player, i \in Item : Lose(p, i) \/ Find(p, i)
    \/ \E p, q \in Player : Swap(p, q)

Spec == Init /\ [][Next]_vars
=============================================================================
