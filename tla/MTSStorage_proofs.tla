------------------------ MODULE MTSStorage_proofs ------------------------
(***************************************************************************)
(* Proofs about MTSStorage for any number of players, items and listings.  *)
(***************************************************************************)
EXTENDS MTSStorage, FiniteSetTheorems, TLAPS

(* What a session works on: a listing that was given out, or a cart's item.*)
HandledListings ==
    \A p \in Player :
        /\ pc[p] \in {"listed", "buying", "deliver", "charged", "crediting"} => arg[p] \in 1..packageId
        /\ pc[p] = "taking" => arg[p] \in Item

(* Everybody who ever listed something has a cart, sold or not: stronger   *)
(* than SellersAreLoaded, and what a purchase in progress needs to last.   *)
ListersAreLoaded == \A i \in 1..packageId : sellerOf[i] \in loaded

IndInv == TypeOK /\ HandledListings /\ ListersAreLoaded

LEMMA InitIndInv == Init => IndInv
<1> SUFFICES ASSUME Init PROVE IndInv
    OBVIOUS
<1> USE LimitAssumption DEF Init, Id
<1>1. (CHOOSE x \in Item : TRUE) \in Item /\ (CHOOSE p \in Player : TRUE) \in Player
    BY OwnerAssumption
<1>2. 1..packageId = {}
    OBVIOUS
<1>3. TypeOK
    <2>1. itemOf \in [Id -> Item] /\ sellerOf \in [Id -> Player] /\ arg \in [Player -> Id \cup Item]
        BY <1>1
    <2>2. notYetSold \in [Player -> SUBSET Id] /\ transfer \in [Player -> SUBSET Item]
          /\ bag \in [Player -> SUBSET Item] /\ refund \in [Player -> SUBSET (1..packageId)]
        OBVIOUS
    <2>3. hand \in [Player -> Nat] /\ owedNX \in [Player -> Nat]
          /\ sold \in [Player -> Nat] /\ settled \in [Player -> Nat]
        OBVIOUS
    <2>4. packageId \in 0..MaxListings /\ buyNow \subseteq 1..packageId /\ overdue \subseteq 1..packageId
          /\ loaded \subseteq Player /\ failures \in 0..MaxFailures
        <3>1. packageId = 0 /\ buyNow = {} /\ overdue = {} /\ loaded = {} /\ failures = 0
            OBVIOUS
        <3> QED BY ONLY <3>1, LimitAssumption
    <2>6. torn \in BOOLEAN
        OBVIOUS
    <2>5. pc \in [Player -> {"idle", "listed", "buying", "deliver", "charged", "crediting",
                          "settling", "taking", "ending", "expiring", "refunding"}]
        OBVIOUS
    <2> HIDE DEF Init
    <2> QED BY <2>1, <2>2, <2>3, <2>4, <2>5, <2>6 DEF TypeOK
<1> QED BY <1>2, <1>3 DEF IndInv, HandledListings, ListersAreLoaded

(* The listing a session works on has an item and a seller. *)
LEMMA HandledListing ==
    ASSUME IndInv, NEW p \in Player,
           pc[p] \in {"listed", "buying", "deliver", "charged", "crediting"}
    PROVE  arg[p] \in Id /\ itemOf[arg[p]] \in Item /\ sellerOf[arg[p]] \in Player
BY LimitAssumption DEF IndInv, TypeOK, HandledListings, Id

(* One step per action of Next. *)
LEMMA NextIndInv == IndInv /\ [Next]_vars => IndInv'
<1> SUFFICES ASSUME IndInv, [Next]_vars PROVE IndInv'
    OBVIOUS
<1> USE LimitAssumption DEF IndInv, TypeOK, HandledListings, ListersAreLoaded, Id,
        market, carts, money, Go, GoWith, HasCart
<1>1. ASSUME NEW p \in Player, NEW x \in Item, addToBuyNow(p, x) PROVE IndInv'
    <2> HIDE DEF IndInv, TypeOK, HandledListings, ListersAreLoaded
    <2>0. packageId \in Nat /\ packageId < MaxListings
        BY <1>1 DEF addToBuyNow, IndInv, TypeOK
    <2>1. packageId + 1 \in Id /\ 1..(packageId + 1) = (1..packageId) \cup {packageId + 1}
        BY <2>0
    <2> USE DEF IndInv, TypeOK, HandledListings, ListersAreLoaded
    <2>2. TypeOK'
        <3>0. /\ packageId' = packageId + 1 /\ buyNow' = buyNow \cup {packageId + 1} /\ overdue' = overdue
              /\ buyNow \subseteq 1..packageId /\ overdue \subseteq 1..packageId
            BY <1>1 DEF addToBuyNow, NextId
        <3>1. packageId' \in 0..MaxListings /\ buyNow' \subseteq 1..packageId' /\ overdue' \subseteq 1..packageId'
            BY ONLY <2>0, <2>1, <3>0, LimitAssumption
        <3>2. itemOf' \in [Id -> Item] /\ sellerOf' \in [Id -> Player]
            BY <1>1, <2>1 DEF addToBuyNow, NextId
        <3>3. refund' \in [Player -> SUBSET (1..packageId')]
            <4>1. refund' = refund /\ refund \in [Player -> SUBSET (1..packageId)]
                BY <1>1 DEF addToBuyNow
            <4> QED BY ONLY <2>1, <3>0, <4>1
        <3>4. /\ loaded' \subseteq Player
              /\ notYetSold' \in [Player -> SUBSET Id] /\ transfer' \in [Player -> SUBSET Item]
              /\ bag' \in [Player -> SUBSET Item] /\ pc' \in [Player -> {"idle", "listed", "buying", "deliver", "charged", "crediting",
                          "settling", "taking", "ending", "expiring", "refunding"}]
              /\ arg' \in [Player -> Id \cup Item]
            BY <1>1, <2>1 DEF addToBuyNow, NextId
        <3>5. hand' \in [Player -> Nat] /\ owedNX' \in [Player -> Nat]
              /\ sold' \in [Player -> Nat] /\ settled' \in [Player -> Nat]
              /\ torn' \in BOOLEAN /\ failures' \in 0..MaxFailures
            BY <1>1 DEF addToBuyNow
        <3> QED BY <3>1, <3>2, <3>3, <3>4, <3>5
    <2>3. HandledListings'
        BY <1>1, <2>1 DEF addToBuyNow, NextId
    <2>4. ListersAreLoaded'
        BY <1>1, <2>1, SMTT(30) DEF addToBuyNow, NextId
    <2> QED BY <2>2, <2>3, <2>4
<1>2. ASSUME NEW p \in Player, NEW x \in Item, Transfer(p, x) PROVE IndInv'
    BY <1>2 DEF Transfer
<1>3. ASSUME NEW p \in Player, NEW i \in Id, Buy(p, i) PROVE IndInv'
    BY <1>3 DEF Buy
<1>4. ASSUME NEW p \in Player, NEW i \in Id, Cancel(p, i) PROVE IndInv'
    BY <1>4 DEF Cancel
<1>5. ASSUME NEW p \in Player, getCart(p) PROVE IndInv'
    BY <1>5 DEF getCart
<1>6. ASSUME NEW p \in Player, FinishSale(p) PROVE IndInv'
    <2>1. arg[p] \in Id /\ itemOf[arg[p]] \in Item /\ sellerOf[arg[p]] \in Player
        BY <1>6, HandledListing DEF FinishSale
    <2> QED BY <1>6, <2>1 DEF FinishSale
<1>7. ASSUME NEW p \in Player, TakeOff(p) PROVE IndInv'
    <2>1. arg[p] \in Id /\ itemOf[arg[p]] \in Item /\ sellerOf[arg[p]] \in Player
        BY <1>7, HandledListing DEF TakeOff
    <2>2. CASE StillListed(arg[p])
        <3>1. sold \in [Player -> Nat] /\ sold' = [sold EXCEPT ![sellerOf[arg[p]]] = @ + 1]
            BY <1>7, <2>2 DEF TakeOff
        <3>2. sold' \in [Player -> Nat]
            BY ONLY <2>1, <3>1
        <3> QED BY <1>7, <2>1, <2>2, <3>2 DEF TakeOff
    <2>3. CASE ~StillListed(arg[p])
        BY <1>7, <2>3 DEF TakeOff
    <2> QED BY <2>2, <2>3
<1>8. ASSUME NEW p \in Player, Deliver(p) PROVE IndInv'
    <2>1. arg[p] \in Id /\ itemOf[arg[p]] \in Item /\ sellerOf[arg[p]] \in Player
        BY <1>8, HandledListing DEF Deliver
    <2> QED BY <1>8, <2>1 DEF Deliver
<1>9. ASSUME NEW p \in Player, ReadOwed(p) PROVE IndInv'
    <2>1. arg[p] \in Id /\ itemOf[arg[p]] \in Item /\ sellerOf[arg[p]] \in Player
        BY <1>9, HandledListing DEF ReadOwed
    <2> QED BY <1>9, <2>1 DEF ReadOwed
<1>10. ASSUME NEW p \in Player, increaseOwedNX(p) PROVE IndInv'
    <2>1. arg[p] \in Id /\ itemOf[arg[p]] \in Item /\ sellerOf[arg[p]] \in Player
        BY <1>10, HandledListing DEF increaseOwedNX
    <2>2. /\ owedNX \in [Player -> Nat] /\ hand[p] \in Nat /\ torn' \in BOOLEAN
          /\ owedNX' = [owedNX EXCEPT ![sellerOf[arg[p]]] = hand[p] + 1]
        BY <1>10 DEF increaseOwedNX, Credit
    <2>3. owedNX' \in [Player -> Nat]
        BY ONLY <2>1, <2>2
    <2> QED BY <1>10, <2>1, <2>2, <2>3 DEF increaseOwedNX
<1>11. ASSUME NEW p \in Player, MTSUpdate(p) PROVE IndInv'
    BY <1>11 DEF MTSUpdate
<1>12. ASSUME NEW p \in Player, getSetOwedNX(p) PROVE IndInv'
    <2>1. owedNX' \in [Player -> Nat] /\ settled' \in [Player -> Nat] /\ torn' \in BOOLEAN
        BY <1>12 DEF getSetOwedNX
    <2> QED BY <1>12, <2>1 DEF getSetOwedNX
<1>13. ASSUME NEW p \in Player, removeFromInventory(p) PROVE IndInv'
    <2>1. transfer' \in [Player -> SUBSET Item]
        BY <1>13 DEF removeFromInventory
    <2> QED BY <1>13, <2>1 DEF removeFromInventory
<1>14. ASSUME NEW p \in Player, sendMTSPackets(p) PROVE IndInv'
    BY <1>14 DEF sendMTSPackets, Shown
<1>15. ASSUME NEW p \in Player, saveBuyNow(p) PROVE IndInv'
    BY <1>15 DEF saveBuyNow
<1>16. ASSUME NEW p \in Player, FailSave(p) PROVE IndInv'
    <2>1. PICK last \in {0} \cup (buyNow \ overdue) :
                refund' = [refund EXCEPT ![p] = {i \in overdue \cap buyNow : i < last}]
        BY <1>16 DEF FailSave
    <2>2. {i \in overdue \cap buyNow : i < last} \in SUBSET (1..packageId)
        OBVIOUS
    <2>3. refund' \in [Player -> SUBSET (1..packageId)]
        BY <2>1, <2>2
    <2>4. failures' \in 0..MaxFailures
        BY <1>16 DEF FailSave
    <2>5. Go(p, "refunding") /\ UNCHANGED <<market, carts, money, bag, arg, hand>>
        BY <1>16 DEF FailSave
    <2> QED BY <2>3, <2>4, <2>5
<1>17. ASSUME NEW p \in Player, Refund(p) PROVE IndInv'
    <2>1. \A q \in Player : {itemOf[i] : i \in RefundedTo(p, q)} \subseteq Item
        BY DEF RefundedTo
    <2>2. notYetSold' \in [Player -> SUBSET Id] /\ transfer' \in [Player -> SUBSET Item]
        BY <1>17, <2>1 DEF Refund
    <2>3. refund' \in [Player -> SUBSET (1..packageId)]
        BY <1>17 DEF Refund
    <2> QED BY <1>17, <2>2, <2>3 DEF Refund
<1>18. ASSUME NEW i \in Id, EndingDatePasses(i) PROVE IndInv'
    BY <1>18 DEF EndingDatePasses
<1>19. CASE UNCHANGED vars
    BY <1>19 DEF vars
<1> QED BY <1>1, <1>2, <1>3, <1>4, <1>5, <1>6, <1>7, <1>8, <1>9, <1>10, <1>11, <1>12, <1>13,
           <1>14, <1>15, <1>16, <1>17, <1>18, <1>19 DEF Next

(* The typing, and the cart of everybody who ever sold something. *)
THEOREM IndInvHolds == Spec => []IndInv
BY InitIndInv, NextIndInv, PTL DEF Spec

(* The market's and the carts' fields keep their types. *)
THEOREM TypeCorrect == Spec => []TypeOK
BY IndInvHolds, PTL DEF IndInv

(* getCart of a seller, at a purchase or a refund, always finds the cart   *)
(* that his own session registered: the unlocked look of getCart never     *)
(* creates a second one for him.                                           *)
THEOREM SellersHaveCarts == Spec => []SellersAreLoaded
<1>1. IndInv => SellersAreLoaded
    BY DEF IndInv, TypeOK, ListersAreLoaded, SellersAreLoaded
<1> QED BY <1>1, IndInvHolds, PTL

-----------------------------------------------------------------------------
(* Where an item counts as being, kind by kind, as in Places. *)
InBag(x, p) == x \in bag[p] /\ ~(pc[p] = "listed" /\ itemOf[arg[p]] = x)
OnSale(x, i) == i \in buyNow /\ itemOf[i] = x
InCart(x, p) == x \in transfer[p] /\ ~(pc[p] = "taking" /\ arg[p] = x)
Taken(x, p) == pc[p] = "deliver" /\ itemOf[arg[p]] = x
InRefund(x, p, i) == i \in refund[p] /\ itemOf[i] = x

(* What a session holds in its hands: refunds only between taking them off *)
(* and handing them out, an item moved out of the cart is in the inventory,*)
(* and a listing somebody took off the market is off it for good.          *)
Hands ==
    \A p \in Player :
        /\ refund[p] # {} => pc[p] = "refunding"
        /\ pc[p] = "taking" => arg[p] \in bag[p]
        /\ pc[p] = "deliver" => arg[p] \notin buyNow
        /\ failures = 0 => refund[p] \cap buyNow = {}

(* An item is in some place, and in one place only. *)
Somewhere(x) ==
    \/ \E p \in Player : InBag(x, p) \/ InCart(x, p) \/ Taken(x, p)
    \/ \E i \in Id : OnSale(x, i)
    \/ \E p \in Player, i \in Id : InRefund(x, p, i)

Once(x) ==
    /\ \A p, q \in Player :
          /\ InBag(x, p) /\ InBag(x, q) => p = q
          /\ InCart(x, p) /\ InCart(x, q) => p = q
          /\ Taken(x, p) /\ Taken(x, q) => p = q
          /\ ~(InBag(x, p) /\ InCart(x, q))
          /\ ~(InBag(x, p) /\ Taken(x, q))
          /\ ~(InCart(x, p) /\ Taken(x, q))
    /\ \A i \in Id : OnSale(x, i) =>
          /\ \A j \in Id : OnSale(x, j) => i = j
          /\ \A p \in Player : ~InBag(x, p) /\ ~InCart(x, p) /\ ~Taken(x, p)
    /\ \A p \in Player, i \in Id : InRefund(x, p, i) =>
          /\ \A q \in Player, j \in Id : InRefund(x, q, j) => p = q /\ i = j
          /\ \A j \in Id : ~OnSale(x, j)
          /\ \A q \in Player : ~InBag(x, q) /\ ~InCart(x, q) /\ ~Taken(x, q)

(* The inductive invariant behind NothingLost and NothingDoubled. *)
ItemsInv ==
    /\ Hands
    /\ \A x \in Item : Somewhere(x)
    /\ failures = 0 => \A x \in Item : Once(x)

(* A step that leaves every item where it counts as being. *)
ItemsStay ==
    /\ \A x \in Item, q \in Player :
          /\ InBag(x, q)' <=> InBag(x, q)
          /\ InCart(x, q)' <=> InCart(x, q)
          /\ Taken(x, q)' <=> Taken(x, q)
    /\ \A x \in Item, i \in Id : OnSale(x, i)' <=> OnSale(x, i)
    /\ \A x \in Item, q \in Player, i \in Id : InRefund(x, q, i)' <=> InRefund(x, q, i)

(* A step of that kind preserves ItemsInv. *)
LEMMA ItemsKept ==
    ASSUME ItemsInv, ItemsStay, Hands', failures' = failures PROVE ItemsInv'
<1>1. ASSUME NEW x \in Item PROVE Somewhere(x)'
    BY DEF ItemsInv, ItemsStay, Somewhere
<1>2. ASSUME NEW x \in Item, failures = 0 PROVE Once(x)'
    BY <1>2 DEF ItemsInv, ItemsStay, Once
<1> QED BY <1>1, <1>2 DEF ItemsInv

(* One step per action: first where it moves an item from and to, kind by  *)
(* kind, then ItemsInv from that alone.                                    *)
LEMMA NextItemsInv == ASSUME IndInv, ItemsInv, [Next]_vars PROVE ItemsInv'
<1> USE LimitAssumption DEF market, carts, money, Go, GoWith, HasCart
<1>1. ASSUME NEW p \in Player, NEW y \in Item, addToBuyNow(p, y) PROVE ItemsInv'
    <2> USE <1>1 DEF addToBuyNow, NextId
    <2>n. packageId + 1 \in Id /\ packageId + 1 \notin 1..packageId /\ packageId \in Nat
        BY DEF IndInv, TypeOK, Id
    <2>1. Hands'
        BY <2>n DEF IndInv, TypeOK, ItemsInv, Hands, HandledListings, Id
    <2>2. \A x \in Item, q \in Player : InBag(x, q)' <=> InBag(x, q) /\ ~(q = p /\ x = y)
        BY <2>n DEF IndInv, TypeOK, HandledListings, InBag
    <2>3. \A x \in Item, i \in Id : OnSale(x, i)' <=> OnSale(x, i) \/ (i = packageId + 1 /\ x = y)
        BY <2>n DEF IndInv, TypeOK, HandledListings, OnSale
    <2>4. \A x \in Item, q \in Player : InCart(x, q)' <=> InCart(x, q)
        BY <2>n DEF IndInv, TypeOK, HandledListings, InCart
    <2>5. \A x \in Item, q \in Player : Taken(x, q)' <=> Taken(x, q)
        BY <2>n DEF IndInv, TypeOK, HandledListings, Taken
    <2>6. \A x \in Item, q \in Player, i \in Id : InRefund(x, q, i)' <=> InRefund(x, q, i)
        BY <2>n DEF IndInv, TypeOK, HandledListings, InRefund
    <2>7. InBag(y, p)
        BY DEF IndInv, TypeOK, InBag
    <2> HIDE DEF addToBuyNow, NextId
    <2>8. ASSUME NEW x \in Item PROVE Somewhere(x)'
        BY <2>n, <2>2, <2>3, <2>4, <2>5, <2>6, <2>7 DEF ItemsInv, Somewhere
    <2>9. ASSUME NEW x \in Item, failures = 0 PROVE Once(x)'
        BY <2>n, <2>2, <2>3, <2>4, <2>5, <2>6, <2>7, <2>9 DEF ItemsInv, Once
    <2> QED BY <2>1, <2>8, <2>9 DEF ItemsInv, addToBuyNow
<1>2. ASSUME NEW p \in Player, NEW y \in Item, Transfer(p, y) PROVE ItemsInv'
    <2> USE <1>2 DEF Transfer
    <2>n. y \in transfer[p] /\ pc[p] = "idle"
        OBVIOUS
    <2>1. Hands'
        BY <2>n DEF IndInv, TypeOK, ItemsInv, Hands, HandledListings, Id
    <2>2. \A x \in Item, q \in Player : InBag(x, q)' <=> InBag(x, q) \/ (q = p /\ x = y)
        BY <2>n DEF IndInv, TypeOK, HandledListings, InBag
    <2>3. \A x \in Item, i \in Id : OnSale(x, i)' <=> OnSale(x, i)
        BY <2>n DEF IndInv, TypeOK, HandledListings, OnSale
    <2>4. \A x \in Item, q \in Player : InCart(x, q)' <=> InCart(x, q) /\ ~(q = p /\ x = y)
        BY <2>n DEF IndInv, TypeOK, HandledListings, InCart
    <2>5. \A x \in Item, q \in Player : Taken(x, q)' <=> Taken(x, q)
        BY <2>n DEF IndInv, TypeOK, HandledListings, Taken
    <2>6. \A x \in Item, q \in Player, i \in Id : InRefund(x, q, i)' <=> InRefund(x, q, i)
        BY <2>n DEF IndInv, TypeOK, HandledListings, InRefund
    <2>7. InCart(y, p)
        BY DEF IndInv, TypeOK, InCart
    <2> HIDE DEF Transfer
    <2>8. ASSUME NEW x \in Item PROVE Somewhere(x)'
        BY <2>n, <2>2, <2>3, <2>4, <2>5, <2>6, <2>7 DEF ItemsInv, Somewhere
    <2>9. ASSUME NEW x \in Item, failures = 0 PROVE Once(x)'
        BY <2>n, <2>2, <2>3, <2>4, <2>5, <2>6, <2>7, <2>9 DEF ItemsInv, Once
    <2> QED BY <2>1, <2>8, <2>9 DEF ItemsInv, Transfer
<1>3. ASSUME NEW p \in Player, NEW i \in Id, Buy(p, i) PROVE ItemsInv'
    <2>1. Hands'
        BY <1>3 DEF IndInv, TypeOK, ItemsInv, Hands, HandledListings, Id, Buy
    <2>2. ItemsStay
        BY <1>3 DEF IndInv, TypeOK, HandledListings, ItemsStay, InBag, OnSale, InCart, Taken, InRefund, Buy
    <2> QED BY <1>3, <2>1, <2>2, ItemsKept DEF Buy
<1>4. ASSUME NEW p \in Player, NEW k \in Id, Cancel(p, k) PROVE ItemsInv'
    <2> USE <1>4 DEF Cancel
    <2>n. itemOf[k] \in Item
        BY DEF IndInv, TypeOK
    <2>1. Hands'
        BY <2>n DEF IndInv, TypeOK, ItemsInv, Hands, HandledListings, Id
    <2>2. \A x \in Item, q \in Player : InBag(x, q)' <=> InBag(x, q)
        BY <2>n DEF IndInv, TypeOK, HandledListings, InBag
    <2>3. \A x \in Item, i \in Id : OnSale(x, i)' <=> OnSale(x, i) /\ i # k
        BY <2>n DEF IndInv, TypeOK, HandledListings, OnSale
    <2>4. \A x \in Item, q \in Player : InCart(x, q)' <=> InCart(x, q)
        BY <2>n DEF IndInv, TypeOK, HandledListings, InCart
    <2>5. \A x \in Item, q \in Player : Taken(x, q)' <=> Taken(x, q) \/ (q = p /\ x = itemOf[k])
        BY <2>n DEF IndInv, TypeOK, HandledListings, Taken
    <2>6. \A x \in Item, q \in Player, i \in Id : InRefund(x, q, i)' <=> InRefund(x, q, i)
        BY <2>n DEF IndInv, TypeOK, HandledListings, InRefund
    <2>7. \A x \in Item : OnSale(x, k) <=> x = itemOf[k]
        BY DEF OnSale
    <2> HIDE DEF Cancel
    <2>8. ASSUME NEW x \in Item PROVE Somewhere(x)'
        BY <2>n, <2>2, <2>3, <2>4, <2>5, <2>6, <2>7 DEF ItemsInv, Somewhere
    <2>9. ASSUME NEW x \in Item, failures = 0 PROVE Once(x)'
        BY <2>n, <2>2, <2>3, <2>4, <2>5, <2>6, <2>7, <2>9 DEF ItemsInv, Once
    <2> QED BY <2>1, <2>8, <2>9 DEF ItemsInv, Cancel
<1>5. ASSUME NEW p \in Player, getCart(p) PROVE ItemsInv'
    <2>1. Hands'
        BY <1>5 DEF IndInv, TypeOK, ItemsInv, Hands, HandledListings, Id, getCart
    <2>2. ItemsStay
        BY <1>5 DEF IndInv, TypeOK, HandledListings, ItemsStay, InBag, OnSale, InCart, Taken, InRefund, getCart
    <2> QED BY <1>5, <2>1, <2>2, ItemsKept DEF getCart
<1>6. ASSUME NEW p \in Player, FinishSale(p) PROVE ItemsInv'
    <2>1. Hands'
        BY <1>6 DEF IndInv, TypeOK, ItemsInv, Hands, HandledListings, Id, FinishSale
    <2>2. ItemsStay
        BY <1>6 DEF IndInv, TypeOK, HandledListings, ItemsStay, InBag, OnSale, InCart, Taken, InRefund, FinishSale
    <2> QED BY <1>6, <2>1, <2>2, ItemsKept DEF FinishSale
<1>7. ASSUME NEW p \in Player, TakeOff(p), ~StillListed(arg[p]) PROVE ItemsInv'
    <2>1. Hands'
        BY <1>7 DEF IndInv, TypeOK, ItemsInv, Hands, HandledListings, Id, TakeOff
    <2>2. ItemsStay
        BY <1>7 DEF IndInv, TypeOK, HandledListings, ItemsStay, InBag, OnSale, InCart, Taken, InRefund, TakeOff
    <2> QED BY <1>7, <2>1, <2>2, ItemsKept DEF TakeOff
<1>8. ASSUME NEW p \in Player, TakeOff(p), StillListed(arg[p]) PROVE ItemsInv'
    <2> USE <1>8 DEF TakeOff, StillListed
    <2>n. arg[p] \in Id /\ itemOf[arg[p]] \in Item
        BY HandledListing
    <2>1. Hands'
        BY <2>n DEF IndInv, TypeOK, ItemsInv, Hands, HandledListings, Id
    <2>2. \A x \in Item, q \in Player : InBag(x, q)' <=> InBag(x, q)
        BY <2>n DEF IndInv, TypeOK, HandledListings, InBag
    <2>3. \A x \in Item, i \in Id : OnSale(x, i)' <=> OnSale(x, i) /\ i # arg[p]
        BY <2>n DEF IndInv, TypeOK, HandledListings, OnSale
    <2>4. \A x \in Item, q \in Player : InCart(x, q)' <=> InCart(x, q)
        BY <2>n DEF IndInv, TypeOK, HandledListings, InCart
    <2>5. \A x \in Item, q \in Player : Taken(x, q)' <=> Taken(x, q) \/ (q = p /\ x = itemOf[arg[p]])
        BY <2>n DEF IndInv, TypeOK, HandledListings, Taken
    <2>6. \A x \in Item, q \in Player, i \in Id : InRefund(x, q, i)' <=> InRefund(x, q, i)
        BY <2>n DEF IndInv, TypeOK, HandledListings, InRefund
    <2>7. \A x \in Item : OnSale(x, arg[p]) <=> x = itemOf[arg[p]]
        BY DEF OnSale
    <2> HIDE DEF TakeOff, StillListed
    <2>8. ASSUME NEW x \in Item PROVE Somewhere(x)'
        BY <2>n, <2>2, <2>3, <2>4, <2>5, <2>6, <2>7 DEF ItemsInv, Somewhere
    <2>9. ASSUME NEW x \in Item, failures = 0 PROVE Once(x)'
        BY <2>n, <2>2, <2>3, <2>4, <2>5, <2>6, <2>7, <2>9 DEF ItemsInv, Once
    <2> QED BY <2>1, <2>8, <2>9 DEF ItemsInv, TakeOff
<1>9. ASSUME NEW p \in Player, Deliver(p) PROVE ItemsInv'
    <2> USE <1>9 DEF Deliver
    <2>n. arg[p] \in Id /\ itemOf[arg[p]] \in Item
        BY HandledListing
    <2>1. Hands'
        BY <2>n DEF IndInv, TypeOK, ItemsInv, Hands, HandledListings, Id
    <2>2. \A x \in Item, q \in Player : InBag(x, q)' <=> InBag(x, q)
        BY <2>n DEF IndInv, TypeOK, HandledListings, InBag
    <2>3. \A x \in Item, i \in Id : OnSale(x, i)' <=> OnSale(x, i)
        BY <2>n DEF IndInv, TypeOK, HandledListings, OnSale
    <2>4. \A x \in Item, q \in Player : InCart(x, q)' <=> InCart(x, q) \/ (q = p /\ x = itemOf[arg[p]])
        BY <2>n DEF IndInv, TypeOK, HandledListings, InCart
    <2>5. \A x \in Item, q \in Player : Taken(x, q)' <=> Taken(x, q) /\ ~(q = p /\ x = itemOf[arg[p]])
        BY <2>n DEF IndInv, TypeOK, HandledListings, Taken
    <2>6. \A x \in Item, q \in Player, i \in Id : InRefund(x, q, i)' <=> InRefund(x, q, i)
        BY <2>n DEF IndInv, TypeOK, HandledListings, InRefund
    <2>7. Taken(itemOf[arg[p]], p)
        BY DEF Taken
    <2> HIDE DEF Deliver
    <2>8. ASSUME NEW x \in Item PROVE Somewhere(x)'
        BY <2>n, <2>2, <2>3, <2>4, <2>5, <2>6, <2>7 DEF ItemsInv, Somewhere
    <2>9. ASSUME NEW x \in Item, failures = 0 PROVE Once(x)'
        BY <2>n, <2>2, <2>3, <2>4, <2>5, <2>6, <2>7, <2>9 DEF ItemsInv, Once
    <2> QED BY <2>1, <2>8, <2>9 DEF ItemsInv, Deliver
<1>10. ASSUME NEW p \in Player, ReadOwed(p) PROVE ItemsInv'
    <2>1. Hands'
        BY <1>10 DEF IndInv, TypeOK, ItemsInv, Hands, HandledListings, Id, ReadOwed
    <2>2. ItemsStay
        BY <1>10 DEF IndInv, TypeOK, HandledListings, ItemsStay, InBag, OnSale, InCart, Taken, InRefund, ReadOwed
    <2> QED BY <1>10, <2>1, <2>2, ItemsKept DEF ReadOwed
<1>11. ASSUME NEW p \in Player, increaseOwedNX(p) PROVE ItemsInv'
    <2>1. Hands'
        BY <1>11 DEF IndInv, TypeOK, ItemsInv, Hands, HandledListings, Id, increaseOwedNX, Credit
    <2>2. ItemsStay
        BY <1>11 DEF IndInv, TypeOK, HandledListings, ItemsStay, InBag, OnSale, InCart, Taken, InRefund, increaseOwedNX, Credit
    <2> QED BY <1>11, <2>1, <2>2, ItemsKept DEF increaseOwedNX
<1>12. ASSUME NEW p \in Player, MTSUpdate(p) PROVE ItemsInv'
    <2>1. Hands'
        BY <1>12 DEF IndInv, TypeOK, ItemsInv, Hands, HandledListings, Id, MTSUpdate
    <2>2. ItemsStay
        BY <1>12 DEF IndInv, TypeOK, HandledListings, ItemsStay, InBag, OnSale, InCart, Taken, InRefund, MTSUpdate
    <2> QED BY <1>12, <2>1, <2>2, ItemsKept DEF MTSUpdate
<1>13. ASSUME NEW p \in Player, getSetOwedNX(p) PROVE ItemsInv'
    <2>1. Hands'
        BY <1>13 DEF IndInv, TypeOK, ItemsInv, Hands, HandledListings, Id, getSetOwedNX
    <2>2. ItemsStay
        BY <1>13 DEF IndInv, TypeOK, HandledListings, ItemsStay, InBag, OnSale, InCart, Taken, InRefund, getSetOwedNX
    <2> QED BY <1>13, <2>1, <2>2, ItemsKept DEF getSetOwedNX
<1>14. ASSUME NEW p \in Player, removeFromInventory(p) PROVE ItemsInv'
    <2>1. Hands'
        BY <1>14 DEF IndInv, TypeOK, ItemsInv, Hands, HandledListings, Id, removeFromInventory
    <2>2. ItemsStay
        BY <1>14 DEF IndInv, TypeOK, HandledListings, ItemsStay, InBag, OnSale, InCart, Taken, InRefund, removeFromInventory
    <2> QED BY <1>14, <2>1, <2>2, ItemsKept DEF removeFromInventory
<1>15. ASSUME NEW p \in Player, sendMTSPackets(p) PROVE ItemsInv'
    <2>1. Hands'
        BY <1>15 DEF IndInv, TypeOK, ItemsInv, Hands, HandledListings, Id, sendMTSPackets
    <2>2. ItemsStay
        BY <1>15 DEF IndInv, TypeOK, HandledListings, ItemsStay, InBag, OnSale, InCart, Taken, InRefund, sendMTSPackets
    <2> QED BY <1>15, <2>1, <2>2, ItemsKept DEF sendMTSPackets
<1>16. ASSUME NEW p \in Player, saveBuyNow(p) PROVE ItemsInv'
    <2> USE <1>16 DEF saveBuyNow
    <2>n. refund[p] = {}
        BY DEF ItemsInv, Hands
    <2>1. Hands'
        BY <2>n DEF IndInv, TypeOK, ItemsInv, Hands, HandledListings, Id
    <2>2. \A x \in Item, q \in Player : InBag(x, q)' <=> InBag(x, q)
        BY <2>n DEF IndInv, TypeOK, HandledListings, InBag, OnSale
    <2>3. \A x \in Item, i \in Id : OnSale(x, i)' <=> OnSale(x, i) /\ i \notin overdue
        BY <2>n DEF IndInv, TypeOK, HandledListings, OnSale, OnSale
    <2>4. \A x \in Item, q \in Player : InCart(x, q)' <=> InCart(x, q)
        BY <2>n DEF IndInv, TypeOK, HandledListings, InCart, OnSale
    <2>5. \A x \in Item, q \in Player : Taken(x, q)' <=> Taken(x, q)
        BY <2>n DEF IndInv, TypeOK, HandledListings, Taken, OnSale
    <2>6. \A x \in Item, q \in Player, i \in Id : InRefund(x, q, i)' <=> InRefund(x, q, i) \/ (q = p /\ OnSale(x, i) /\ i \in overdue)
        BY <2>n DEF IndInv, TypeOK, HandledListings, InRefund, OnSale
    <2>7. \A x \in Item, i \in Id : ~InRefund(x, p, i)
        BY <2>n DEF InRefund
    <2> HIDE DEF saveBuyNow
    <2>8. ASSUME NEW x \in Item PROVE Somewhere(x)'
        BY <2>n, <2>2, <2>3, <2>4, <2>5, <2>6, <2>7 DEF ItemsInv, Somewhere
    <2>9. ASSUME NEW x \in Item, failures = 0 PROVE Once(x)'
        BY <2>n, <2>2, <2>3, <2>4, <2>5, <2>6, <2>7, <2>9 DEF ItemsInv, Once
    <2> QED BY <2>1, <2>8, <2>9 DEF ItemsInv, saveBuyNow
<1>17. ASSUME NEW p \in Player, FailSave(p) PROVE ItemsInv'
    <2>1. PICK last \in {0} \cup (buyNow \ overdue) :
                refund' = [refund EXCEPT ![p] = {i \in overdue \cap buyNow : i < last}]
        BY <1>17 DEF FailSave
    <2>2. /\ pc' = [pc EXCEPT ![p] = "refunding"] /\ pc[p] = "expiring" /\ refund[p] = {}
          /\ failures' # 0 /\ UNCHANGED <<market, carts, money, bag, arg, hand>>
        BY <1>17 DEF FailSave, ItemsInv, Hands, IndInv, TypeOK
    <2>3. Hands'
        BY <2>1, <2>2 DEF IndInv, TypeOK, ItemsInv, Hands
    <2>4. \A x \in Item, q \in Player : (InBag(x, q) => InBag(x, q)') /\ (InCart(x, q) => InCart(x, q)')
        BY <2>2 DEF IndInv, TypeOK, InBag, InCart
    <2>6. \A x \in Item, q \in Player, i \in Id : InRefund(x, q, i) => InRefund(x, q, i)'
        BY <2>1, <2>2 DEF IndInv, TypeOK, InRefund
    <2>7. ASSUME NEW x \in Item PROVE Somewhere(x)'
        <3>1. CASE \E q \in Player : InBag(x, q) \/ InCart(x, q)
            BY <2>4, <3>1 DEF Somewhere
        <3>2. CASE \E q \in Player : Taken(x, q)
            <4>1. PICK q \in Player : Taken(x, q)
                BY <3>2
            <4>2. Taken(x, q)'
                BY <2>2, <4>1 DEF IndInv, TypeOK, Taken
            <4> QED BY <4>2 DEF Somewhere
        <3>3. CASE \E i \in Id : OnSale(x, i)
            <4>1. PICK i \in Id : OnSale(x, i)
                BY <3>3
            <4>2. OnSale(x, i)'
                BY <2>2, <4>1 DEF OnSale
            <4> QED BY <4>2 DEF Somewhere
        <3>4. CASE \E q \in Player, i \in Id : InRefund(x, q, i)
            BY <2>6, <3>4 DEF Somewhere
        <3>5. Somewhere(x)
            BY DEF ItemsInv
        <3> QED BY <3>1, <3>2, <3>3, <3>4, <3>5 DEF Somewhere
    <2> QED BY <2>2, <2>3, <2>7 DEF ItemsInv
<1>18. ASSUME NEW p \in Player, Refund(p) PROVE ItemsInv'
    <2> USE <1>18 DEF Refund
    <2>n. /\ \A i \in refund[p] : i \in Id /\ i \in 1..packageId /\ sellerOf[i] \in Player /\ itemOf[i] \in Item
          /\ \A i \in refund[p] : sellerOf[i] \in loaded
        BY DEF IndInv, TypeOK, ListersAreLoaded, Id
    <2>1. Hands'
        BY DEF IndInv, TypeOK, ItemsInv, Hands
    <2>2. \A x \in Item, q \in Player : InBag(x, q)' <=> InBag(x, q)
        BY DEF IndInv, TypeOK, HandledListings, InBag
    <2>3. \A x \in Item, i \in Id : OnSale(x, i)' <=> OnSale(x, i)
        BY DEF OnSale
    <2>4. \A x \in Item, q \in Player :
              InCart(x, q)' <=> \/ InCart(x, q)
                               \/ /\ \E i \in Id : InRefund(x, p, i) /\ sellerOf[i] = q
                                  /\ ~(pc[q] = "taking" /\ arg[q] = x)
        <3>1. ASSUME NEW x \in Item, NEW q \in Player
              PROVE  x \in transfer'[q] <=> x \in transfer[q] \/ \E i \in Id : InRefund(x, p, i) /\ sellerOf[i] = q
            <4>1. transfer'[q] = transfer[q] \cup {itemOf[i] : i \in RefundedTo(p, q)}
                BY <3>1
            <4>2. \A i : i \in RefundedTo(p, q) <=> i \in Id /\ i \in refund[p] /\ sellerOf[i] = q
                BY <2>n DEF RefundedTo
            <4> QED BY <4>1, <4>2 DEF InRefund
        <3>2. \A q \in Player : ~(pc[q] = "taking") <=> ~(pc'[q] = "taking")
            BY DEF IndInv, TypeOK
        <3> QED BY <3>1, <3>2 DEF InCart
    <2>5. \A x \in Item, q \in Player : Taken(x, q)' <=> Taken(x, q)
        BY DEF IndInv, TypeOK, HandledListings, Taken
    <2>6. \A x \in Item, q \in Player, i \in Id : InRefund(x, q, i)' <=> InRefund(x, q, i) /\ q # p
        BY DEF IndInv, TypeOK, InRefund
    <2>7. \A q \in Player : pc[q] = "taking" => InBag(arg[q], q)
        BY DEF ItemsInv, Hands, InBag
    <2>8. \A x \in Item, i \in Id : InRefund(x, p, i) => sellerOf[i] \in Player
        BY <2>n DEF InRefund
    <2> HIDE DEF Refund
    <2>9. ASSUME NEW x \in Item PROVE Somewhere(x)'
        BY <2>2, <2>3, <2>4, <2>5, <2>6, <2>7, <2>8 DEF ItemsInv, Somewhere
    <2>10. ASSUME NEW x \in Item, failures = 0 PROVE Once(x)'
        BY <2>2, <2>3, <2>4, <2>5, <2>6, <2>8, <2>10 DEF ItemsInv, Once
    <2> QED BY <2>1, <2>9, <2>10 DEF ItemsInv, Refund
<1>19. ASSUME NEW i \in Id, EndingDatePasses(i) PROVE ItemsInv'
    <2>1. Hands'
        BY <1>19 DEF IndInv, TypeOK, ItemsInv, Hands, HandledListings, Id, EndingDatePasses
    <2>2. ItemsStay
        BY <1>19 DEF IndInv, TypeOK, HandledListings, ItemsStay, InBag, OnSale, InCart, Taken, InRefund, EndingDatePasses
    <2> QED BY <1>19, <2>1, <2>2, ItemsKept DEF EndingDatePasses
<1>20. CASE UNCHANGED vars
    <2>1. Hands' /\ ItemsStay
        BY <1>20 DEF vars, ItemsInv, Hands, ItemsStay, InBag, OnSale, InCart, Taken, InRefund
    <2> QED BY <1>20, <2>1, ItemsKept DEF vars
<1> QED BY <1>1, <1>2, <1>3, <1>4, <1>5, <1>6, <1>7, <1>8, <1>9, <1>10, <1>11, <1>12, <1>13, <1>14, <1>15, <1>16, <1>17, <1>18, <1>19, <1>20 DEF Next

LEMMA InitItemsInv == Init => ItemsInv
<1> SUFFICES ASSUME Init PROVE ItemsInv
    OBVIOUS
<1> USE OwnerAssumption DEF Init
<1>1. Hands
    BY DEF Hands
<1>2. \A x \in Item, p \in Player :
          (InBag(x, p) <=> Owner[x] = p) /\ ~InCart(x, p) /\ ~Taken(x, p)
    BY DEF InBag, InCart, Taken
<1>3. \A x \in Item, p \in Player, i \in Id : ~OnSale(x, i) /\ ~InRefund(x, p, i)
    BY DEF OnSale, InRefund
<1> HIDE DEF Init
<1>4. ASSUME NEW x \in Item PROVE Somewhere(x) /\ Once(x)
    <2>1. Owner[x] \in Player
        OBVIOUS
    <2>2. Somewhere(x)
        <3>1. InBag(x, Owner[x])
            BY <1>2, <2>1
        <3> QED BY <2>1, <3>1 DEF Somewhere
    <2>3. Once(x)
        BY <1>2, <1>3 DEF Once
    <2> QED BY <2>2, <2>3
<1> QED BY <1>1, <1>4 DEF ItemsInv

LEMMA ItemsInvHolds == Spec => []ItemsInv
<1>1. IndInv /\ ItemsInv /\ [Next]_vars => ItemsInv'
    BY NextItemsInv
<1> QED BY <1>1, InitItemsInv, IndInvHolds, PTL DEF Spec

(* Places is the five kinds together. *)
LEMMA PlacesAre ==
    ASSUME NEW x \in Item, TypeOK
    PROVE  \A a : a \in Places(x) <=>
              \/ \E p \in Player : a = <<"bag", p>> /\ InBag(x, p)
              \/ \E p \in Player : a = <<"cart", p>> /\ InCart(x, p)
              \/ \E p \in Player : a = <<"taken", p>> /\ Taken(x, p)
              \/ \E i \in Id : a = <<"listed", i>> /\ OnSale(x, i)
              \/ \E p \in Player, i \in Id : a = <<"refund", p, i>> /\ InRefund(x, p, i)
<1> DEFINE B == {<<"bag", p>> : p \in {q \in Player : x \in bag[q] /\ ~(pc[q] = "listed" /\ itemOf[arg[q]] = x)}}
           L == {<<"listed", i>> : i \in {j \in buyNow : itemOf[j] = x}}
           C == {<<"cart", p>> : p \in {q \in Player : x \in transfer[q] /\ ~(pc[q] = "taking" /\ arg[q] = x)}}
           T == {<<"taken", p>> : p \in {q \in Player : pc[q] = "deliver" /\ itemOf[arg[q]] = x}}
           R(p) == {<<"refund", p, i>> : i \in {j \in refund[p] : itemOf[j] = x}}
<1>0. buyNow \subseteq Id /\ \A p \in Player : refund[p] \subseteq Id
    BY LimitAssumption DEF TypeOK, Id
<1>1. \A a : a \in B <=> \E p \in Player : a = <<"bag", p>> /\ InBag(x, p)
    BY DEF InBag
<1>2. \A a : a \in L <=> \E i \in Id : a = <<"listed", i>> /\ OnSale(x, i)
    BY <1>0 DEF OnSale
<1>3. \A a : a \in C <=> \E p \in Player : a = <<"cart", p>> /\ InCart(x, p)
    BY DEF InCart
<1>4. \A a : a \in T <=> \E p \in Player : a = <<"taken", p>> /\ Taken(x, p)
    BY DEF Taken
<1>5. \A p \in Player : \A a : a \in R(p) <=> \E i \in Id : a = <<"refund", p, i>> /\ InRefund(x, p, i)
    BY <1>0 DEF InRefund
<1>6. \A a : a \in UNION {R(p) : p \in Player} <=> \E p \in Player : a \in R(p)
    <2> HIDE DEF R
    <2> QED OBVIOUS
<1>7. Places(x) = B \cup L \cup C \cup T \cup UNION {R(p) : p \in Player}
    BY DEF Places
<1> HIDE DEF B, L, C, T
<1>8. \A a : a \in UNION {R(p) : p \in Player}
              <=> \E p \in Player, i \in Id : a = <<"refund", p, i>> /\ InRefund(x, p, i)
    <2> HIDE DEF R
    <2> QED BY <1>5, <1>6
<1> HIDE DEF R
<1>9. \A a : a \in Places(x) <=> a \in B \/ a \in C \/ a \in T \/ a \in L \/ a \in UNION {R(p) : p \in Player}
    BY <1>7
<1> QED BY <1>1, <1>2, <1>3, <1>4, <1>8, <1>9

(* No sequence of market handlers and failing saves loses an item. *)
THEOREM ItemsAreNeverLost == Spec => []NothingLost
<1>1. IndInv /\ ItemsInv => NothingLost
    <2> SUFFICES ASSUME IndInv, ItemsInv, NEW x \in Item PROVE Places(x) # {}
        BY DEF NothingLost
    <2>1. Somewhere(x) /\ TypeOK
        BY DEF ItemsInv, IndInv
    <2>2. \E a : a \in Places(x)
        <3>1. CASE \E p \in Player : InBag(x, p) \/ InCart(x, p) \/ Taken(x, p)
            <4>1. PICK p \in Player : InBag(x, p) \/ InCart(x, p) \/ Taken(x, p)
                BY <3>1
            <4>2. \/ <<"bag", p>> \in Places(x)
                  \/ <<"cart", p>> \in Places(x)
                  \/ <<"taken", p>> \in Places(x)
                BY <2>1, <4>1, PlacesAre
            <4> QED BY <4>2
        <3>2. CASE \E i \in Id : OnSale(x, i)
            <4>1. PICK i \in Id : OnSale(x, i)
                BY <3>2
            <4>2. <<"listed", i>> \in Places(x)
                BY <2>1, <4>1, PlacesAre
            <4> QED BY <4>2
        <3>3. CASE \E p \in Player, i \in Id : InRefund(x, p, i)
            <4>1. PICK p \in Player, i \in Id : InRefund(x, p, i)
                BY <3>3
            <4>2. <<"refund", p, i>> \in Places(x)
                BY <2>1, <4>1, PlacesAre
            <4> QED BY <4>2
        <3> QED BY <2>1, <3>1, <3>2, <3>3 DEF Somewhere
    <2> QED BY <2>2
<1> QED BY <1>1, IndInvHolds, ItemsInvHolds, PTL

(* Without a failed save every item is in exactly one place, so that no    *)
(* two of the buyers, the cancelling seller and the refund get it.         *)
THEOREM ItemsAreNeverDoubled == Spec => []NothingDoubled
<1>1. IndInv /\ ItemsInv => NothingDoubled
    <2> SUFFICES ASSUME IndInv, ItemsInv, failures = 0, NEW x \in Item PROVE Cardinality(Places(x)) <= 1
        BY DEF NothingDoubled
    <2>1. Once(x) /\ TypeOK
        BY DEF ItemsInv, IndInv
    <2>0. \A a : a \in Places(x) =>
              \/ \E p \in Player : a = <<"bag", p>> /\ InBag(x, p)
              \/ \E p \in Player : a = <<"cart", p>> /\ InCart(x, p)
              \/ \E p \in Player : a = <<"taken", p>> /\ Taken(x, p)
              \/ \E i \in Id : a = <<"listed", i>> /\ OnSale(x, i)
              \/ \E p \in Player, i \in Id : a = <<"refund", p, i>> /\ InRefund(x, p, i)
        BY <2>1, PlacesAre
    <2>2. ASSUME NEW a \in Places(x), NEW b \in Places(x) PROVE a = b
        BY <2>0, <2>1 DEF Once
    <2>3. CASE Places(x) = {}
        BY <2>3, FS_EmptySet
    <2>4. CASE Places(x) # {}
        <3>1. PICK a : a \in Places(x)
            BY <2>4
        <3>2. \A b : b \in Places(x) <=> b = a
            BY <2>2, <3>1
        <3>3. Places(x) = {a}
            BY <3>2
        <3>4. Cardinality({a}) = 1
            BY FS_Singleton
        <3> QED BY <3>3, <3>4
    <2> QED BY <2>3, <2>4
<1> QED BY <1>1, IndInvHolds, ItemsInvHolds, PTL

-----------------------------------------------------------------------------
(* A listing of the seller's own list, or just being added to it. *)
Shows(i) == i \in notYetSold[sellerOf[i]] \/ (pc[sellerOf[i]] = "listed" /\ arg[sellerOf[i]] = i)

LEMMA NextOwnListings ==
    ASSUME IndInv, Hands, OwnListingsShown, [Next]_vars PROVE OwnListingsShown'
<1> TypeOK
    BY DEF IndInv
<1> USE LimitAssumption DEF market, carts, money, Go, GoWith
<1>1. ASSUME NEW p \in Player, NEW x \in Item, addToBuyNow(p, x) PROVE OwnListingsShown'
    <2> SUFFICES ASSUME failures = 0, NEW j \in buyNow' PROVE Shows(j)'
        BY <1>1 DEF OwnListingsShown, Shows, addToBuyNow
    <2>1. pc[p] = "idle" /\ pc'[p] = "listed" /\ arg'[p] = packageId + 1 /\ sellerOf'[packageId + 1] = p
        BY <1>1 DEF addToBuyNow, NextId, TypeOK, Id
    <2>2. \A q \in Player : q # p => pc'[q] = pc[q] /\ arg'[q] = arg[q]
        BY <1>1 DEF addToBuyNow, NextId, TypeOK
    <2>3. notYetSold' = notYetSold /\ buyNow' = buyNow \cup {packageId + 1}
        BY <1>1 DEF addToBuyNow, NextId
    <2>4. CASE j = packageId + 1
        BY <2>1, <2>4 DEF Shows
    <2>5. CASE j # packageId + 1
        <3>1. j \in buyNow /\ Shows(j)
            BY <2>3, <2>5 DEF OwnListingsShown, Shows
        <3>2. j \in Id /\ sellerOf[j] \in Player
            BY <3>1 DEF TypeOK, Id
        <3>3. sellerOf'[j] = sellerOf[j]
            BY <1>1, <2>5, <3>2 DEF addToBuyNow, NextId, TypeOK
        <3> QED BY <2>1, <2>2, <2>3, <3>1, <3>2, <3>3 DEF Shows
    <2> QED BY <2>4, <2>5
<1>2. ASSUME NEW p \in Player, NEW x \in Item, Transfer(p, x) PROVE OwnListingsShown'
    <2> SUFFICES ASSUME failures = 0, NEW j \in buyNow' PROVE Shows(j)'
        BY <1>2 DEF OwnListingsShown, Shows, Transfer
    <2>1. j \in buyNow /\ Shows(j)
        BY <1>2 DEF Transfer, OwnListingsShown, Shows
    <2>2. j \in Id /\ sellerOf[j] \in Player /\ sellerOf' = sellerOf
        BY <1>2, <2>1 DEF Transfer, TypeOK, Id
    <2>3. \A q \in Player : q # p => pc'[q] = pc[q] /\ arg'[q] = arg[q]
        BY <1>2 DEF Transfer, TypeOK
    <2>4. pc[p] # "listed"
        BY <1>2 DEF Transfer
    <2>5. j \in notYetSold[sellerOf[j]] => j \in notYetSold'[sellerOf[j]]
        BY <1>2, <2>1, <2>2 DEF Transfer, TypeOK
    <2> QED BY <2>1, <2>2, <2>3, <2>4, <2>5 DEF Shows
<1>3. ASSUME NEW p \in Player, NEW i \in Id, Buy(p, i) PROVE OwnListingsShown'
    <2> SUFFICES ASSUME failures = 0, NEW j \in buyNow' PROVE Shows(j)'
        BY <1>3 DEF OwnListingsShown, Shows, Buy
    <2>1. j \in buyNow /\ Shows(j)
        BY <1>3 DEF Buy, OwnListingsShown, Shows
    <2>2. j \in Id /\ sellerOf[j] \in Player /\ sellerOf' = sellerOf
        BY <1>3, <2>1, SMTT(30) DEF Buy, TypeOK, Id
    <2>3. \A q \in Player : q # p => pc'[q] = pc[q] /\ arg'[q] = arg[q]
        BY <1>3 DEF Buy, TypeOK
    <2>4. pc[p] # "listed"
        BY <1>3 DEF Buy
    <2>5. j \in notYetSold[sellerOf[j]] => j \in notYetSold'[sellerOf[j]]
        BY <1>3, <2>1, <2>2 DEF Buy, TypeOK
    <2> QED BY <2>1, <2>2, <2>3, <2>4, <2>5 DEF Shows
<1>4. ASSUME NEW p \in Player, NEW i \in Id, Cancel(p, i) PROVE OwnListingsShown'
    <2> SUFFICES ASSUME failures = 0, NEW j \in buyNow' PROVE Shows(j)'
        BY <1>4 DEF OwnListingsShown, Shows, Cancel
    <2>1. j \in buyNow /\ Shows(j)
        BY <1>4 DEF Cancel, OwnListingsShown, Shows
    <2>2. j \in Id /\ sellerOf[j] \in Player /\ sellerOf' = sellerOf
        BY <1>4, <2>1, SMTT(30) DEF Cancel, TypeOK, Id
    <2>3. \A q \in Player : q # p => pc'[q] = pc[q] /\ arg'[q] = arg[q]
        BY <1>4 DEF Cancel, TypeOK
    <2>4. pc[p] # "listed"
        BY <1>4 DEF Cancel
    <2>5. j \in notYetSold[sellerOf[j]] => j \in notYetSold'[sellerOf[j]]
        BY <1>4, <2>1, <2>2 DEF Cancel, TypeOK
    <2> QED BY <2>1, <2>2, <2>3, <2>4, <2>5 DEF Shows
<1>5. ASSUME NEW p \in Player, getCart(p) PROVE OwnListingsShown'
    BY <1>5 DEF getCart, IndInv, TypeOK, HandledListings, Hands, OwnListingsShown, Id
<1>6. ASSUME NEW p \in Player, FinishSale(p) PROVE OwnListingsShown'
    <2> SUFFICES ASSUME failures = 0, NEW j \in buyNow' PROVE Shows(j)'
        BY <1>6 DEF OwnListingsShown, Shows, FinishSale
    <2>1. j \in buyNow /\ Shows(j)
        BY <1>6 DEF FinishSale, OwnListingsShown, Shows
    <2>2. j \in Id /\ sellerOf[j] \in Player /\ sellerOf' = sellerOf
        BY <1>6, <2>1 DEF FinishSale, TypeOK, Id
    <2>3. \A q \in Player : q # p => pc'[q] = pc[q] /\ arg'[q] = arg[q]
        BY <1>6 DEF FinishSale, TypeOK
    <2>4. pc[p] = "listed"
        BY <1>6 DEF FinishSale
    <2>5. notYetSold[sellerOf[j]] \subseteq notYetSold'[sellerOf[j]] /\ arg[p] \in notYetSold'[p]
        BY <1>6, <2>1, <2>2 DEF FinishSale, TypeOK
    <2> QED BY <2>1, <2>2, <2>3, <2>4, <2>5 DEF Shows
<1>7. ASSUME NEW p \in Player, TakeOff(p) PROVE OwnListingsShown'
    <2> SUFFICES ASSUME failures = 0, NEW j \in buyNow' PROVE Shows(j)'
        BY <1>7 DEF OwnListingsShown, Shows, TakeOff
    <2>1. j \in buyNow /\ Shows(j)
        BY <1>7 DEF TakeOff, OwnListingsShown, Shows
    <2>2. j \in Id /\ sellerOf[j] \in Player /\ sellerOf' = sellerOf
        BY <1>7, <2>1 DEF TakeOff, TypeOK, Id
    <2>3. \A q \in Player : q # p => pc'[q] = pc[q] /\ arg'[q] = arg[q]
        BY <1>7 DEF TakeOff, TypeOK
    <2>4. pc[p] # "listed"
        BY <1>7 DEF TakeOff
    <2>5. j \in notYetSold[sellerOf[j]] => j \in notYetSold'[sellerOf[j]]
        BY <1>7, <2>1, <2>2 DEF TakeOff, TypeOK
    <2> QED BY <2>1, <2>2, <2>3, <2>4, <2>5 DEF Shows
<1>8. ASSUME NEW p \in Player, Deliver(p) PROVE OwnListingsShown'
    <2> SUFFICES ASSUME failures = 0, NEW j \in buyNow' PROVE Shows(j)'
        BY <1>8 DEF OwnListingsShown, Shows, Deliver
    <2>1. j \in buyNow /\ Shows(j)
        BY <1>8 DEF Deliver, OwnListingsShown, Shows
    <2>2. j \in Id /\ sellerOf[j] \in Player /\ sellerOf' = sellerOf
        BY <1>8, <2>1 DEF Deliver, TypeOK, Id
    <2>3. \A q \in Player : q # p => pc'[q] = pc[q] /\ arg'[q] = arg[q]
        BY <1>8 DEF Deliver, TypeOK
    <2>4. pc[p] # "listed"
        BY <1>8 DEF Deliver
    <2>5. j \in notYetSold[sellerOf[j]] => j \in notYetSold'[sellerOf[j]]
        BY <1>8, <2>1, <2>2 DEF Deliver, TypeOK, Hands
    <2> QED BY <2>1, <2>2, <2>3, <2>4, <2>5 DEF Shows
<1>9. ASSUME NEW p \in Player, ReadOwed(p) PROVE OwnListingsShown'
    <2> SUFFICES ASSUME failures = 0, NEW j \in buyNow' PROVE Shows(j)'
        BY <1>9 DEF OwnListingsShown, Shows, ReadOwed
    <2>1. j \in buyNow /\ Shows(j)
        BY <1>9 DEF ReadOwed, OwnListingsShown, Shows
    <2>2. j \in Id /\ sellerOf[j] \in Player /\ sellerOf' = sellerOf
        BY <1>9, <2>1 DEF ReadOwed, TypeOK, Id
    <2>3. \A q \in Player : q # p => pc'[q] = pc[q] /\ arg'[q] = arg[q]
        BY <1>9 DEF ReadOwed, TypeOK
    <2>4. pc[p] # "listed"
        BY <1>9 DEF ReadOwed
    <2>5. j \in notYetSold[sellerOf[j]] => j \in notYetSold'[sellerOf[j]]
        BY <1>9, <2>1, <2>2 DEF ReadOwed, TypeOK
    <2> QED BY <2>1, <2>2, <2>3, <2>4, <2>5 DEF Shows
<1>10. ASSUME NEW p \in Player, increaseOwedNX(p) PROVE OwnListingsShown'
    <2> SUFFICES ASSUME failures = 0, NEW j \in buyNow' PROVE Shows(j)'
        BY <1>10 DEF OwnListingsShown, Shows, increaseOwedNX
    <2>1. j \in buyNow /\ Shows(j)
        BY <1>10 DEF increaseOwedNX, Credit, OwnListingsShown, Shows
    <2>2. j \in Id /\ sellerOf[j] \in Player /\ sellerOf' = sellerOf
        BY <1>10, <2>1 DEF increaseOwedNX, Credit, TypeOK, Id
    <2>3. \A q \in Player : q # p => pc'[q] = pc[q] /\ arg'[q] = arg[q]
        BY <1>10 DEF increaseOwedNX, Credit, TypeOK
    <2>4. pc[p] # "listed"
        BY <1>10 DEF increaseOwedNX, Credit
    <2>5. j \in notYetSold[sellerOf[j]] => j \in notYetSold'[sellerOf[j]]
        BY <1>10, <2>1, <2>2 DEF increaseOwedNX, Credit, TypeOK
    <2> QED BY <2>1, <2>2, <2>3, <2>4, <2>5 DEF Shows
<1>11. ASSUME NEW p \in Player, MTSUpdate(p) PROVE OwnListingsShown'
    <2> SUFFICES ASSUME failures = 0, NEW j \in buyNow' PROVE Shows(j)'
        BY <1>11 DEF OwnListingsShown, Shows, MTSUpdate
    <2>1. j \in buyNow /\ Shows(j)
        BY <1>11 DEF MTSUpdate, OwnListingsShown, Shows
    <2>2. j \in Id /\ sellerOf[j] \in Player /\ sellerOf' = sellerOf
        BY <1>11, <2>1 DEF MTSUpdate, TypeOK, Id
    <2>3. \A q \in Player : q # p => pc'[q] = pc[q] /\ arg'[q] = arg[q]
        BY <1>11 DEF MTSUpdate, TypeOK
    <2>4. pc[p] # "listed"
        BY <1>11 DEF MTSUpdate
    <2>5. j \in notYetSold[sellerOf[j]] => j \in notYetSold'[sellerOf[j]]
        BY <1>11, <2>1, <2>2 DEF MTSUpdate, TypeOK
    <2> QED BY <2>1, <2>2, <2>3, <2>4, <2>5 DEF Shows
<1>12. ASSUME NEW p \in Player, getSetOwedNX(p) PROVE OwnListingsShown'
    <2> SUFFICES ASSUME failures = 0, NEW j \in buyNow' PROVE Shows(j)'
        BY <1>12 DEF OwnListingsShown, Shows, getSetOwedNX
    <2>1. j \in buyNow /\ Shows(j)
        BY <1>12 DEF getSetOwedNX, OwnListingsShown, Shows
    <2>2. j \in Id /\ sellerOf[j] \in Player /\ sellerOf' = sellerOf
        BY <1>12, <2>1 DEF getSetOwedNX, TypeOK, Id
    <2>3. \A q \in Player : q # p => pc'[q] = pc[q] /\ arg'[q] = arg[q]
        BY <1>12 DEF getSetOwedNX, TypeOK
    <2>4. pc[p] # "listed"
        BY <1>12 DEF getSetOwedNX
    <2>5. j \in notYetSold[sellerOf[j]] => j \in notYetSold'[sellerOf[j]]
        BY <1>12, <2>1, <2>2 DEF getSetOwedNX, TypeOK
    <2> QED BY <2>1, <2>2, <2>3, <2>4, <2>5 DEF Shows
<1>13. ASSUME NEW p \in Player, removeFromInventory(p) PROVE OwnListingsShown'
    <2> SUFFICES ASSUME failures = 0, NEW j \in buyNow' PROVE Shows(j)'
        BY <1>13 DEF OwnListingsShown, Shows, removeFromInventory
    <2>1. j \in buyNow /\ Shows(j)
        BY <1>13 DEF removeFromInventory, OwnListingsShown, Shows
    <2>2. j \in Id /\ sellerOf[j] \in Player /\ sellerOf' = sellerOf
        BY <1>13, <2>1 DEF removeFromInventory, TypeOK, Id
    <2>3. \A q \in Player : q # p => pc'[q] = pc[q] /\ arg'[q] = arg[q]
        BY <1>13 DEF removeFromInventory, TypeOK
    <2>4. pc[p] # "listed"
        BY <1>13 DEF removeFromInventory
    <2>5. j \in notYetSold[sellerOf[j]] => j \in notYetSold'[sellerOf[j]]
        BY <1>13, <2>1, <2>2 DEF removeFromInventory, TypeOK
    <2> QED BY <2>1, <2>2, <2>3, <2>4, <2>5 DEF Shows
<1>14. ASSUME NEW p \in Player, sendMTSPackets(p) PROVE OwnListingsShown'
    <2> SUFFICES ASSUME failures = 0, NEW j \in buyNow' PROVE Shows(j)'
        BY <1>14 DEF OwnListingsShown, Shows, sendMTSPackets
    <2>1. j \in buyNow /\ Shows(j)
        BY <1>14 DEF sendMTSPackets, Shown, OwnListingsShown, Shows
    <2>2. j \in Id /\ sellerOf[j] \in Player /\ sellerOf' = sellerOf
        BY <1>14, <2>1 DEF sendMTSPackets, Shown, TypeOK, Id
    <2>3. \A q \in Player : q # p => pc'[q] = pc[q] /\ arg'[q] = arg[q]
        BY <1>14 DEF sendMTSPackets, Shown, TypeOK
    <2>4. pc[p] # "listed"
        BY <1>14 DEF sendMTSPackets, Shown
    <2>5. j \in notYetSold[sellerOf[j]] => j \in notYetSold'[sellerOf[j]]
        BY <1>14, <2>1, <2>2 DEF sendMTSPackets, Shown, TypeOK
    <2> QED BY <2>1, <2>2, <2>3, <2>4, <2>5 DEF Shows
<1>15. ASSUME NEW p \in Player, saveBuyNow(p) PROVE OwnListingsShown'
    <2>1. /\ pc[p] = "expiring" /\ pc' = [pc EXCEPT ![p] = "refunding"] /\ buyNow' = buyNow \ overdue
          /\ UNCHANGED <<arg, sellerOf, notYetSold, failures>>
        BY <1>15 DEF saveBuyNow
    <2>2. \A j \in buyNow : sellerOf[j] \in Player /\ (Shows(j) => Shows(j)')
        <3>1. \A j \in buyNow : sellerOf[j] \in Player
            BY DEF TypeOK, Id
        <3>2. \A q \in Player : pc[q] = "listed" => pc'[q] = "listed"
            BY <2>1 DEF TypeOK
        <3> QED BY <2>1, <3>1, <3>2 DEF Shows
    <2> QED BY <2>1, <2>2 DEF OwnListingsShown, Shows
<1>16. ASSUME NEW p \in Player, FailSave(p) PROVE OwnListingsShown'
    BY <1>16 DEF FailSave, IndInv, TypeOK, HandledListings, Hands, OwnListingsShown, Id
<1>17. ASSUME NEW p \in Player, Refund(p) PROVE OwnListingsShown'
    BY <1>17 DEF Refund, IndInv, TypeOK, HandledListings, Hands, OwnListingsShown, Id
<1>18. ASSUME NEW i \in Id, EndingDatePasses(i) PROVE OwnListingsShown'
    BY <1>18 DEF EndingDatePasses, IndInv, TypeOK, HandledListings, Hands, OwnListingsShown, Id
<1>19. CASE UNCHANGED vars
    BY <1>19 DEF vars, OwnListingsShown
<1> QED BY <1>1, <1>2, <1>3, <1>4, <1>5, <1>6, <1>7, <1>8, <1>9, <1>10, <1>11, <1>12, <1>13, <1>14, <1>15, <1>16, <1>17, <1>18, <1>19 DEF Next

(* Every listing is in its seller's own list from the end of the sale to   *)
(* the end of the listing, whatever the buyers and the refunds do to that  *)
(* list meanwhile: the limit of ten counts what is really on the market.   *)
THEOREM OwnListingsAreShown == Spec => []OwnListingsShown
<1>1. Init => OwnListingsShown
    BY DEF Init, OwnListingsShown
<1>2. IndInv /\ Hands /\ OwnListingsShown /\ [Next]_vars => OwnListingsShown'
    BY NextOwnListings
<1>3. ItemsInv => Hands
    BY DEF ItemsInv
<1> QED BY <1>1, <1>2, <1>3, IndInvHolds, ItemsInvHolds, PTL DEF Spec

-----------------------------------------------------------------------------
(* Nobody buys from himself, and the buyers who have yet to pay are few    *)
(* enough to be counted.                                                   *)
PayersInv ==
    /\ \A p \in Player : pc[p] \in {"buying", "charged", "crediting"} => sellerOf[arg[p]] # p
    /\ \A p \in Player : IsFiniteSet(Paying(p))

MoneyInv == PayersInv /\ SellersPaidUnlessTorn

(* A step that leaves the money and the payers alone preserves MoneyInv.   *)
LEMMA MoneyKept ==
    ASSUME MoneyInv, \A s \in Player : Paying(s)' = Paying(s), UNCHANGED money,
           \A p \in Player : pc'[p] \in {"buying", "charged", "crediting"} => sellerOf'[arg'[p]] # p
    PROVE  MoneyInv'
BY DEF MoneyInv, PayersInv, SellersPaidUnlessTorn, money

LEMMA NextMoneyInv == ASSUME IndInv, MoneyInv, [Next]_vars PROVE MoneyInv'
<1> USE LimitAssumption DEF market, carts, Go, GoWith
<1>1. ASSUME NEW p \in Player, NEW x \in Item, addToBuyNow(p, x) PROVE MoneyInv'
    <2>1. packageId + 1 \notin 1..packageId /\ packageId + 1 \in Id
        BY <1>1 DEF addToBuyNow, IndInv, TypeOK, Id
    <2>2. \A q \in Player : pc[q] \in {"buying", "deliver", "charged", "crediting"} =>
              arg[q] \in 1..packageId /\ sellerOf'[arg[q]] = sellerOf[arg[q]]
        <3>1. \A q \in Player : pc[q] \in {"buying", "deliver", "charged", "crediting"} =>
                  arg[q] \in 1..packageId /\ arg[q] \in Id
            BY DEF IndInv, TypeOK, HandledListings, Id
        <3>2. sellerOf' = [sellerOf EXCEPT ![packageId + 1] = p] /\ sellerOf \in [Id -> Player]
            BY <1>1 DEF addToBuyNow, NextId, IndInv, TypeOK
        <3> QED BY <2>1, <3>1, <3>2
    <2>3. \A q \in Player : \/ q # p /\ pc'[q] = pc[q] /\ arg'[q] = arg[q]
                            \/ pc[q] = "idle" /\ pc'[q] = "listed"
        BY <1>1 DEF addToBuyNow, IndInv, TypeOK
    <2>4. \A s \in Player : Paying(s)' = Paying(s)
        BY <2>2, <2>3 DEF Paying
    <2>5. \A q \in Player : pc'[q] \in {"buying", "charged", "crediting"} => sellerOf'[arg'[q]] # q
        BY <2>2, <2>3 DEF MoneyInv, PayersInv
    <2> QED BY <1>1, <2>4, <2>5, MoneyKept DEF addToBuyNow, money
<1>2. ASSUME NEW p \in Player, NEW x \in Item, Transfer(p, x) PROVE MoneyInv'
    <2>1. \A s \in Player : Paying(s)' = Paying(s)
        BY <1>2 DEF IndInv, TypeOK, HandledListings, Paying, Transfer
    <2>2. \A q \in Player : pc'[q] \in {"buying", "charged", "crediting"} => sellerOf'[arg'[q]] # q
        BY <1>2 DEF IndInv, TypeOK, HandledListings, MoneyInv, PayersInv, Transfer
    <2> QED BY <1>2, <2>1, <2>2, MoneyKept DEF Transfer, money
<1>3. ASSUME NEW p \in Player, NEW i \in Id, Buy(p, i) PROVE MoneyInv'
    <2>1. \A s \in Player : Paying(s)' = Paying(s)
        BY <1>3 DEF IndInv, TypeOK, HandledListings, Paying, Buy
    <2>2. \A q \in Player : pc'[q] \in {"buying", "charged", "crediting"} => sellerOf'[arg'[q]] # q
        BY <1>3 DEF IndInv, TypeOK, HandledListings, MoneyInv, PayersInv, Buy
    <2> QED BY <1>3, <2>1, <2>2, MoneyKept DEF Buy, money
<1>4. ASSUME NEW p \in Player, NEW i \in Id, Cancel(p, i) PROVE MoneyInv'
    <2>1. \A s \in Player : Paying(s)' = Paying(s)
        BY <1>4 DEF IndInv, TypeOK, HandledListings, Paying, Cancel
    <2>2. \A q \in Player : pc'[q] \in {"buying", "charged", "crediting"} => sellerOf'[arg'[q]] # q
        BY <1>4 DEF IndInv, TypeOK, HandledListings, MoneyInv, PayersInv, Cancel
    <2> QED BY <1>4, <2>1, <2>2, MoneyKept DEF Cancel, money
<1>5. ASSUME NEW p \in Player, getCart(p) PROVE MoneyInv'
    <2>1. \A s \in Player : Paying(s)' = Paying(s)
        BY <1>5 DEF IndInv, TypeOK, HandledListings, Paying, getCart
    <2>2. \A q \in Player : pc'[q] \in {"buying", "charged", "crediting"} => sellerOf'[arg'[q]] # q
        BY <1>5 DEF IndInv, TypeOK, HandledListings, MoneyInv, PayersInv, getCart
    <2> QED BY <1>5, <2>1, <2>2, MoneyKept DEF getCart, money
<1>6. ASSUME NEW p \in Player, FinishSale(p) PROVE MoneyInv'
    <2>1. \A s \in Player : Paying(s)' = Paying(s)
        BY <1>6 DEF IndInv, TypeOK, HandledListings, Paying, FinishSale
    <2>2. \A q \in Player : pc'[q] \in {"buying", "charged", "crediting"} => sellerOf'[arg'[q]] # q
        BY <1>6 DEF IndInv, TypeOK, HandledListings, MoneyInv, PayersInv, FinishSale
    <2> QED BY <1>6, <2>1, <2>2, MoneyKept DEF FinishSale, money
<1>7. ASSUME NEW p \in Player, TakeOff(p) PROVE MoneyInv'
    <2>1. arg[p] \in Id /\ sellerOf[arg[p]] \in Player /\ sellerOf[arg[p]] # p
        BY <1>7, HandledListing DEF TakeOff, MoneyInv, PayersInv
    <2>2. CASE ~StillListed(arg[p])
        <3>1. \A s \in Player : Paying(s)' = Paying(s)
            BY <1>7, <2>2 DEF TakeOff, IndInv, TypeOK, Paying
        <3>2. \A q \in Player : pc'[q] \in {"buying", "charged", "crediting"} => sellerOf'[arg'[q]] # q
            BY <1>7, <2>2 DEF TakeOff, IndInv, TypeOK, MoneyInv, PayersInv
        <3> QED BY <1>7, <2>2, <3>1, <3>2, MoneyKept DEF TakeOff, money
    <2>3. CASE StillListed(arg[p])
        <3> DEFINE s == sellerOf[arg[p]]
        <3>1. /\ pc' = [pc EXCEPT ![p] = "deliver"] /\ pc[p] = "buying" /\ sold' = [sold EXCEPT ![s] = @ + 1]
              /\ UNCHANGED <<arg, sellerOf, owedNX, settled, torn>>
            BY <1>7, <2>3 DEF TakeOff
        <3>2. s \in Player /\ s # p
            BY <2>1
        <3>3. ASSUME NEW q \in Player
              PROVE  Paying(q)' = IF q = s THEN Paying(q) \cup {p} ELSE Paying(q)
            <4>1. \A r \in Player : r # p => pc'[r] = pc[r]
                BY <3>1 DEF IndInv, TypeOK
            <4>2. pc'[p] = "deliver"
                BY <3>1 DEF IndInv, TypeOK
            <4>3. \A r : r \in Paying(q)' <=> (r \in Paying(q) \/ (r = p /\ q = s))
                BY <3>1, <3>2, <4>1, <4>2 DEF Paying
            <4> QED BY <4>3
        <3>4. \A q \in Player : IsFiniteSet(Paying(q)) /\ p \notin Paying(q)
            BY <3>1 DEF MoneyInv, PayersInv, Paying
        <3>5. ASSUME NEW q \in Player
              PROVE  /\ IsFiniteSet(Paying(q)')
                     /\ Cardinality(Paying(q)') = Cardinality(Paying(q)) + (IF q = s THEN 1 ELSE 0)
                     /\ Cardinality(Paying(q)) \in Nat
            BY <3>3, <3>4, FS_AddElement, FS_CardinalityType
        <3>6. PayersInv'
            BY <3>1, <3>5 DEF MoneyInv, PayersInv, IndInv, TypeOK
        <3>7. SellersPaidUnlessTorn'
            <4>1. \A q \in Player : settled[q] \in Nat /\ owedNX[q] \in Nat /\ sold[q] \in Nat
                                   /\ sold'[q] = sold[q] + (IF q = s THEN 1 ELSE 0)
                BY <3>1, <3>2 DEF IndInv, TypeOK
            <4> HIDE DEF s
            <4>2. ASSUME NEW q \in Player, ~torn PROVE sold'[q] = settled[q] + owedNX[q] + Cardinality(Paying(q)')
                <5>1. sold[q] = settled[q] + owedNX[q] + Cardinality(Paying(q))
                    BY <4>2 DEF MoneyInv, SellersPaidUnlessTorn
                <5> QED BY <3>5, <4>1, <5>1
            <4> QED BY <3>1, <4>2 DEF SellersPaidUnlessTorn
        <3> QED BY <3>6, <3>7 DEF MoneyInv
    <2> QED BY <2>2, <2>3
<1>8. ASSUME NEW p \in Player, Deliver(p) PROVE MoneyInv'
    <2>1. \A s \in Player : Paying(s)' = Paying(s)
        BY <1>8 DEF IndInv, TypeOK, HandledListings, Paying, Deliver
    <2>2. \A q \in Player : pc'[q] \in {"buying", "charged", "crediting"} => sellerOf'[arg'[q]] # q
        BY <1>8 DEF IndInv, TypeOK, HandledListings, MoneyInv, PayersInv, Deliver
    <2> QED BY <1>8, <2>1, <2>2, MoneyKept DEF Deliver, money
<1>9. ASSUME NEW p \in Player, ReadOwed(p) PROVE MoneyInv'
    <2>1. \A s \in Player : Paying(s)' = Paying(s)
        BY <1>9 DEF IndInv, TypeOK, HandledListings, Paying, ReadOwed
    <2>2. \A q \in Player : pc'[q] \in {"buying", "charged", "crediting"} => sellerOf'[arg'[q]] # q
        BY <1>9 DEF IndInv, TypeOK, HandledListings, MoneyInv, PayersInv, ReadOwed
    <2> QED BY <1>9, <2>1, <2>2, MoneyKept DEF ReadOwed, money
<1>10. ASSUME NEW p \in Player, increaseOwedNX(p) PROVE MoneyInv'
    <2> DEFINE s == sellerOf[arg[p]]
    <2>1. arg[p] \in Id /\ s \in Player /\ s # p
        BY <1>10, HandledListing DEF increaseOwedNX, MoneyInv, PayersInv
    <2>2. /\ pc' = [pc EXCEPT ![p] = "ending"] /\ pc[p] = "crediting"
          /\ owedNX' = [owedNX EXCEPT ![s] = hand[p] + 1] /\ torn' = (torn \/ owedNX[s] # hand[p])
          /\ UNCHANGED <<arg, sellerOf, sold, settled>>
        BY <1>10 DEF increaseOwedNX, Credit
    <2>3. ASSUME NEW q \in Player
          PROVE  Paying(q)' = IF q = s THEN Paying(q) \ {p} ELSE Paying(q)
        <3>1. \A r \in Player : r # p => pc'[r] = pc[r]
            BY <2>2 DEF IndInv, TypeOK
        <3>2. pc'[p] = "ending"
            BY <2>2 DEF IndInv, TypeOK
        <3>3. \A r : r \in Paying(q)' <=> (r \in Paying(q) /\ ~(r = p /\ q = s))
            BY <2>1, <2>2, <3>1, <3>2 DEF Paying
        <3> QED BY <3>3
    <2>4. \A q \in Player : IsFiniteSet(Paying(q)) /\ (q = s => p \in Paying(q))
        BY <2>1, <2>2 DEF MoneyInv, PayersInv, Paying
    <2>5. ASSUME NEW q \in Player
          PROVE  /\ IsFiniteSet(Paying(q)')
                 /\ Cardinality(Paying(q)') = Cardinality(Paying(q)) - (IF q = s THEN 1 ELSE 0)
                 /\ Cardinality(Paying(q)) \in Nat
        BY <2>3, <2>4, FS_RemoveElement, FS_CardinalityType
    <2>7. PayersInv'
        BY <2>2, <2>5 DEF MoneyInv, PayersInv, IndInv, TypeOK
    <2>8. SellersPaidUnlessTorn'
        <3>0. owedNX \in [Player -> Nat] /\ settled \in [Player -> Nat] /\ sold \in [Player -> Nat]
            BY DEF IndInv, TypeOK
        <3>1. \A q \in Player : settled[q] \in Nat /\ owedNX[q] \in Nat /\ sold[q] \in Nat
                               /\ (~torn' => owedNX'[q] = owedNX[q] + (IF q = s THEN 1 ELSE 0))
            <4>1. \A q \in Player : owedNX'[q] = IF q = s THEN hand[p] + 1 ELSE owedNX[q]
                BY <2>1, <2>2, <3>0
            <4>2. ~torn' => hand[p] = owedNX[s]
                BY <2>2
            <4> HIDE DEF s
            <4> QED BY <3>0, <4>1, <4>2
        <3> HIDE DEF s
        <3>2. ASSUME NEW q \in Player, ~torn' PROVE sold[q] = settled[q] + owedNX'[q] + Cardinality(Paying(q)')
            <4>1. sold[q] = settled[q] + owedNX[q] + Cardinality(Paying(q))
                BY <2>2, <3>2 DEF MoneyInv, SellersPaidUnlessTorn
            <4> QED BY <2>5, <3>1, <3>2, <4>1
        <3> QED BY <2>2, <3>2 DEF SellersPaidUnlessTorn
    <2> QED BY <2>7, <2>8 DEF MoneyInv
<1>11. ASSUME NEW p \in Player, MTSUpdate(p) PROVE MoneyInv'
    <2>1. \A s \in Player : Paying(s)' = Paying(s)
        BY <1>11 DEF IndInv, TypeOK, HandledListings, Paying, MTSUpdate
    <2>2. \A q \in Player : pc'[q] \in {"buying", "charged", "crediting"} => sellerOf'[arg'[q]] # q
        BY <1>11 DEF IndInv, TypeOK, HandledListings, MoneyInv, PayersInv, MTSUpdate
    <2> QED BY <1>11, <2>1, <2>2, MoneyKept DEF MTSUpdate, money
<1>12. ASSUME NEW p \in Player, getSetOwedNX(p) PROVE MoneyInv'
    <2>1. /\ pc' = [pc EXCEPT ![p] = "ending"] /\ pc[p] = "settling"
          /\ owedNX' = [owedNX EXCEPT ![p] = 0] /\ settled' = [settled EXCEPT ![p] = @ + hand[p]]
          /\ torn' = (torn \/ owedNX[p] # hand[p]) /\ UNCHANGED <<arg, sellerOf, sold>>
        BY <1>12 DEF getSetOwedNX
    <2>2. \A q \in Player : Paying(q)' = Paying(q)
        BY <2>1 DEF IndInv, TypeOK, Paying
    <2>3. PayersInv'
        BY <2>1, <2>2 DEF MoneyInv, PayersInv, IndInv, TypeOK
    <2>4. SellersPaidUnlessTorn'
        <3> SUFFICES ASSUME ~torn, owedNX[p] = hand[p], NEW q \in Player
                     PROVE  sold[q] = settled'[q] + owedNX'[q] + Cardinality(Paying(q))
            BY <2>1, <2>2 DEF SellersPaidUnlessTorn
        <3>1. sold[q] = settled[q] + owedNX[q] + Cardinality(Paying(q))
            BY DEF MoneyInv, SellersPaidUnlessTorn
        <3>2. Cardinality(Paying(q)) \in Nat /\ settled[q] \in Nat /\ owedNX[q] \in Nat /\ sold[q] \in Nat
            BY FS_CardinalityType DEF MoneyInv, PayersInv, IndInv, TypeOK
        <3>3. /\ owedNX'[q] = IF q = p THEN 0 ELSE owedNX[q]
              /\ settled'[q] = IF q = p THEN settled[q] + owedNX[q] ELSE settled[q]
            BY <2>1 DEF IndInv, TypeOK
        <3> QED BY <3>1, <3>2, <3>3
    <2> QED BY <2>3, <2>4 DEF MoneyInv
<1>13. ASSUME NEW p \in Player, removeFromInventory(p) PROVE MoneyInv'
    <2>1. \A s \in Player : Paying(s)' = Paying(s)
        BY <1>13 DEF IndInv, TypeOK, HandledListings, Paying, removeFromInventory
    <2>2. \A q \in Player : pc'[q] \in {"buying", "charged", "crediting"} => sellerOf'[arg'[q]] # q
        BY <1>13 DEF IndInv, TypeOK, HandledListings, MoneyInv, PayersInv, removeFromInventory
    <2> QED BY <1>13, <2>1, <2>2, MoneyKept DEF removeFromInventory, money
<1>14. ASSUME NEW p \in Player, sendMTSPackets(p) PROVE MoneyInv'
    <2>1. \A s \in Player : Paying(s)' = Paying(s)
        BY <1>14 DEF IndInv, TypeOK, HandledListings, Paying, sendMTSPackets
    <2>2. \A q \in Player : pc'[q] \in {"buying", "charged", "crediting"} => sellerOf'[arg'[q]] # q
        BY <1>14 DEF IndInv, TypeOK, HandledListings, MoneyInv, PayersInv, sendMTSPackets
    <2> QED BY <1>14, <2>1, <2>2, MoneyKept DEF sendMTSPackets, money
<1>15. ASSUME NEW p \in Player, saveBuyNow(p) PROVE MoneyInv'
    <2>1. \A s \in Player : Paying(s)' = Paying(s)
        BY <1>15 DEF IndInv, TypeOK, HandledListings, Paying, saveBuyNow
    <2>2. \A q \in Player : pc'[q] \in {"buying", "charged", "crediting"} => sellerOf'[arg'[q]] # q
        BY <1>15 DEF IndInv, TypeOK, HandledListings, MoneyInv, PayersInv, saveBuyNow
    <2> QED BY <1>15, <2>1, <2>2, MoneyKept DEF saveBuyNow, money
<1>16. ASSUME NEW p \in Player, FailSave(p) PROVE MoneyInv'
    <2>1. \A s \in Player : Paying(s)' = Paying(s)
        BY <1>16 DEF IndInv, TypeOK, HandledListings, Paying, FailSave
    <2>2. \A q \in Player : pc'[q] \in {"buying", "charged", "crediting"} => sellerOf'[arg'[q]] # q
        BY <1>16 DEF IndInv, TypeOK, HandledListings, MoneyInv, PayersInv, FailSave
    <2> QED BY <1>16, <2>1, <2>2, MoneyKept DEF FailSave, money
<1>17. ASSUME NEW p \in Player, Refund(p) PROVE MoneyInv'
    <2>1. \A s \in Player : Paying(s)' = Paying(s)
        BY <1>17 DEF IndInv, TypeOK, HandledListings, Paying, Refund
    <2>2. \A q \in Player : pc'[q] \in {"buying", "charged", "crediting"} => sellerOf'[arg'[q]] # q
        BY <1>17 DEF IndInv, TypeOK, HandledListings, MoneyInv, PayersInv, Refund
    <2> QED BY <1>17, <2>1, <2>2, MoneyKept DEF Refund, money
<1>18. ASSUME NEW i \in Id, EndingDatePasses(i) PROVE MoneyInv'
    <2>1. \A s \in Player : Paying(s)' = Paying(s)
        BY <1>18 DEF IndInv, TypeOK, HandledListings, Paying, EndingDatePasses
    <2>2. \A q \in Player : pc'[q] \in {"buying", "charged", "crediting"} => sellerOf'[arg'[q]] # q
        BY <1>18 DEF IndInv, TypeOK, HandledListings, MoneyInv, PayersInv, EndingDatePasses
    <2> QED BY <1>18, <2>1, <2>2, MoneyKept DEF EndingDatePasses, money
<1>19. CASE UNCHANGED vars
    BY <1>19 DEF vars, money, MoneyInv, PayersInv, SellersPaidUnlessTorn, Paying
<1> QED BY <1>1, <1>2, <1>3, <1>4, <1>5, <1>6, <1>7, <1>8, <1>9, <1>10, <1>11, <1>12, <1>13, <1>14, <1>15, <1>16, <1>17, <1>18, <1>19 DEF Next

LEMMA InitMoneyInv == Init => MoneyInv
<1> SUFFICES ASSUME Init PROVE MoneyInv
    OBVIOUS
<1>1. \A p \in Player : sold[p] = 0 /\ settled[p] = 0 /\ owedNX[p] = 0 /\ pc[p] = "idle"
    BY DEF Init
<1>2. IsFiniteSet({}) /\ Cardinality({}) = 0
    BY FS_EmptySet
<1>3. \A p \in Player : Paying(p) = {}
    BY <1>1 DEF Paying
<1>4. PayersInv
    BY <1>1, <1>2, <1>3 DEF PayersInv
<1>5. SellersPaidUnlessTorn
    <2> SUFFICES ASSUME NEW p \in Player PROVE sold[p] = settled[p] + owedNX[p] + Cardinality(Paying(p))
        BY DEF SellersPaidUnlessTorn
    <2>1. Cardinality(Paying(p)) = 0
        BY <1>2, <1>3
    <2> QED BY <1>1, <2>1
<1> QED BY <1>4, <1>5 DEF MoneyInv

(* A seller's cart has been credited, or settled, once for every listing   *)
(* of his that others took off the market, or the taker is still on the    *)
(* way to increaseOwedNX: until a write of owedNX overran another.         *)
THEOREM SellersArePaid == Spec => []SellersPaidUnlessTorn
<1>1. IndInv /\ MoneyInv /\ [Next]_vars => MoneyInv'
    BY NextMoneyInv
<1>2. MoneyInv => SellersPaidUnlessTorn
    BY DEF MoneyInv
<1> QED BY <1>1, <1>2, InitMoneyInv, IndInvHolds, PTL DEF Spec
=============================================================================
