----------------------------- MODULE MTSStorage -----------------------------
(***************************************************************************)
(* The item market: server/MTSStorage.java and MTSCart.java with their     *)
(* only client, handling/cashshop/handler/MTSOperation.java.  buyNow is    *)
(* guarded by mutex, the carts' map by cart_mutex; no operation holds both *)
(* except to read, and a purchase, a sale, a refund of expired items and   *)
(* the seller's credit are several critical sections or none at all.       *)
(*                                                                         *)
(* A player's handlers run in order on his session, those of different     *)
(* players concurrently.  Items are told apart by Item.equals, so no two   *)
(* of Item are equal to it.  Each listing costs one unit.  A call on an    *)
(* ArrayList of a cart counts as one step; owedNX, a plain int, is read    *)
(* and written in two.  Views, search and the wish list are left out.      *)
(***************************************************************************)
EXTENDS Integers, FiniteSets

CONSTANTS
    Player, Item,
    Owner,          \* who holds an item when the market opens
    Limit,          \* ten listings per seller
    MaxListings,    \* bound on packageId
    MaxFailures     \* bound on SQLExceptions inside saveBuyNow

ASSUME OwnerAssumption == Owner \in [Item -> Player] /\ Player # {} /\ Item # {}
ASSUME LimitAssumption == Limit \in Nat \ {0} /\ MaxListings \in Nat /\ MaxFailures \in Nat

Id == 1..MaxListings

VARIABLES
    packageId,      \* number of ids given out
    buyNow,         \* the listed ids
    itemOf, sellerOf,   \* MTSItemInfo's item and cid
    overdue,        \* ids whose ending date has passed
    loaded,         \* players with a cart in idToCart
    notYetSold, transfer, owedNX,   \* MTSCart's fields
    bag,            \* the players' inventories
    pc, arg, hand,  \* per session: place in a handler, id or item, a read of owedNX
    refund,         \* per session: the ids saveBuyNow took to refund
    sold, settled,  \* history: listings others bought, units paid to the seller
    torn,           \* history: owedNX was written over a change
    failures        \* history: saves that failed

market == <<packageId, buyNow, itemOf, sellerOf, overdue>>
carts == <<loaded, notYetSold, transfer>>
money == <<owedNX, sold, settled, torn>>
vars == <<packageId, buyNow, itemOf, sellerOf, overdue, loaded, notYetSold, transfer, owedNX,
          bag, pc, arg, hand, refund, sold, settled, torn, failures>>

TypeOK ==
    /\ packageId \in 0..MaxListings
    /\ buyNow \subseteq 1..packageId /\ overdue \subseteq 1..packageId
    /\ itemOf \in [Id -> Item] /\ sellerOf \in [Id -> Player]
    /\ loaded \subseteq Player
    /\ notYetSold \in [Player -> SUBSET Id] /\ transfer \in [Player -> SUBSET Item]
    /\ bag \in [Player -> SUBSET Item]
    /\ pc \in [Player -> {"idle", "listed", "buying", "deliver", "charged", "crediting",
                          "settling", "taking", "ending", "expiring", "refunding"}]
    /\ arg \in [Player -> Id \cup Item]
    /\ refund \in [Player -> SUBSET (1..packageId)]
    /\ hand \in [Player -> Nat] /\ owedNX \in [Player -> Nat]
    /\ sold \in [Player -> Nat] /\ settled \in [Player -> Nat]
    /\ torn \in BOOLEAN /\ failures \in 0..MaxFailures

Init ==
    /\ packageId = 0 /\ buyNow = {} /\ overdue = {}
    /\ itemOf = [i \in Id |-> CHOOSE x \in Item : TRUE]
    /\ sellerOf = [i \in Id |-> CHOOSE p \in Player : TRUE]
    /\ loaded = {}
    /\ notYetSold = [p \in Player |-> {}] /\ refund = [p \in Player |-> {}]
    /\ transfer = [p \in Player |-> {}]
    /\ bag = [p \in Player |-> {x \in Item : Owner[x] = p}]
    /\ pc = [p \in Player |-> "idle"]
    /\ arg = [p \in Player |-> CHOOSE x \in Item : TRUE]
    /\ hand = [p \in Player |-> 0] /\ owedNX = [p \in Player |-> 0]
    /\ sold = [p \in Player |-> 0] /\ settled = [p \in Player |-> 0]
    /\ torn = FALSE /\ failures = 0

Go(p, place) == pc' = [pc EXCEPT ![p] = place]
GoWith(p, place, a) == Go(p, place) /\ arg' = [arg EXCEPT ![p] = a]

-----------------------------------------------------------------------------
HasCart_Assumed(p) == TRUE
HasCart(p) == p \in loaded

(* The first packet of a player's visit: getCart builds his cart. *)
getCart(p) ==
    /\ pc[p] = "idle"
    /\ ~HasCart(p)
    /\ loaded' = loaded \cup {p}
    /\ UNCHANGED <<market, notYetSold, transfer, money, bag, pc, arg, hand, refund, failures>>

(* Put up for sale: the listing is visible from here on. *)
NextId_GetAndIncrement == packageId
NextId == packageId + 1

addToBuyNow(p, x) ==
    /\ pc[p] = "idle" /\ HasCart(p)
    /\ x \in bag[p]
    /\ Cardinality(notYetSold[p]) < Limit
    /\ packageId < MaxListings
    /\ packageId' = packageId + 1
    /\ buyNow' = buyNow \cup {NextId}
    /\ itemOf' = [itemOf EXCEPT ![NextId] = x]
    /\ sellerOf' = [sellerOf EXCEPT ![NextId] = p]
    /\ GoWith(p, "listed", NextId)
    /\ UNCHANGED <<overdue, carts, money, bag, hand, refund, failures>>

(* addToNotYetSold and removeFromSlot, by then perhaps after the sale. *)
FinishSale(p) ==
    /\ pc[p] = "listed"
    /\ notYetSold' = [notYetSold EXCEPT ![p] = @ \cup {arg[p]}]
    /\ bag' = [bag EXCEPT ![p] = @ \ {itemOf[arg[p]]}]
    /\ Go(p, "ending")
    /\ UNCHANGED <<market, loaded, transfer, money, arg, hand, refund, failures>>

(* getSingleItem and the buyer's checks. *)
Buy(p, i) ==
    /\ pc[p] = "idle" /\ HasCart(p)
    /\ i \in buyNow
    /\ sellerOf[i] # p
    /\ GoWith(p, "buying", i)
    /\ UNCHANGED <<market, carts, money, bag, hand, refund, failures>>

StillListed_AsSeen(i) == TRUE
StillListed(i) == i \in buyNow

(* removeFromBuyNow: one winner takes the item off the market ... *)
TakeOff(p) ==
    /\ pc[p] = "buying"
    /\ IF StillListed(arg[p])
       THEN /\ buyNow' = buyNow \ {arg[p]}
            /\ sold' = [sold EXCEPT ![sellerOf[arg[p]]] = @ + 1]
            /\ Go(p, "deliver")
       ELSE UNCHANGED <<buyNow, sold>> /\ Go(p, "ending")
    /\ UNCHANGED <<packageId, itemOf, sellerOf, overdue, carts, owedNX, settled, torn,
                   bag, arg, hand, refund, failures>>

Cancel(p, i) ==
    /\ pc[p] = "idle" /\ HasCart(p)
    /\ i \in buyNow
    /\ sellerOf[i] = p
    /\ buyNow' = buyNow \ {i}
    /\ GoWith(p, "deliver", i)
    /\ UNCHANGED <<packageId, itemOf, sellerOf, overdue, carts, money, bag, hand, refund, failures>>

(* ... and puts it into the taker's cart, under cart_mutex only. *)
Deliver(p) ==
    /\ pc[p] = "deliver"
    /\ notYetSold' = [q \in Player |-> notYetSold[q] \ {arg[p]}]
    /\ transfer' = [transfer EXCEPT ![p] = @ \cup {itemOf[arg[p]]}]
    /\ Go(p, IF sellerOf[arg[p]] = p THEN "ending" ELSE "charged")
    /\ UNCHANGED <<market, loaded, money, bag, arg, hand, refund, failures>>

(* increaseOwedNX on the seller's cart, which SellersAreLoaded says exists. *)
ReadOwed(p) ==
    /\ pc[p] = "charged"
    /\ hand' = [hand EXCEPT ![p] = owedNX[sellerOf[arg[p]]]]
    /\ Go(p, "crediting")
    /\ UNCHANGED <<market, carts, money, bag, arg, refund, failures>>

Credit_Overwritten(p, s) == owedNX' = [owedNX EXCEPT ![s] = 1]
Credit(p, s) == owedNX' = [owedNX EXCEPT ![s] = hand[p] + 1]

increaseOwedNX(p) ==
    LET s == sellerOf[arg[p]] IN
    /\ pc[p] = "crediting"
    /\ Credit(p, s)
    /\ torn' = (torn \/ owedNX[s] # hand[p])
    /\ Go(p, "ending")
    /\ UNCHANGED <<market, carts, sold, settled, bag, arg, hand, refund, failures>>

(* MTSUpdate pays what the cart owes: getSetOwedNX reads, then clears. *)
MTSUpdate(p) ==
    /\ pc[p] = "idle" /\ HasCart(p)
    /\ hand' = [hand EXCEPT ![p] = owedNX[p]]
    /\ Go(p, "settling")
    /\ UNCHANGED <<market, carts, money, bag, arg, refund, failures>>

getSetOwedNX(p) ==
    /\ pc[p] = "settling"
    /\ owedNX' = [owedNX EXCEPT ![p] = 0]
    /\ settled' = [settled EXCEPT ![p] = @ + hand[p]]
    /\ torn' = (torn \/ owedNX[p] # hand[p])
    /\ Go(p, "ending")
    /\ UNCHANGED <<market, carts, sold, bag, arg, hand, refund, failures>>

(* Transfer to the inventory: addbyItem, then removeFromInventory. *)
Transfer(p, x) ==
    /\ pc[p] = "idle" /\ HasCart(p)
    /\ x \in transfer[p]
    /\ bag' = [bag EXCEPT ![p] = @ \cup {x}]
    /\ GoWith(p, "taking", x)
    /\ UNCHANGED <<market, carts, money, hand, refund, failures>>

removeFromInventory(p) ==
    /\ pc[p] = "taking"
    /\ transfer' = [transfer EXCEPT ![p] = @ \ {arg[p]}]
    /\ Go(p, "ending")
    /\ UNCHANGED <<market, loaded, notYetSold, money, bag, arg, hand, refund, failures>>

(* Every handler ends in sendMTSPackets: getCurrentNotYetSold drops what   *)
(* is no longer listed, then checkExpirations may find the hour over.      *)
Shown_Sold(p) == notYetSold[p] \ buyNow
Shown(p) == notYetSold[p] \cap buyNow

sendMTSPackets(p) ==
    /\ pc[p] = "ending"
    /\ notYetSold' = [notYetSold EXCEPT ![p] = Shown(p)]
    /\ \E place \in {"idle", "expiring"} : Go(p, place)
    /\ UNCHANGED <<market, loaded, transfer, money, bag, arg, hand, refund, failures>>

-----------------------------------------------------------------------------
(* saveBuyNow, on the session whose handler found the hour over.           *)

EndingDatePasses(i) ==
    /\ i \in buyNow \ overdue
    /\ overdue' = overdue \cup {i}
    /\ UNCHANGED <<packageId, buyNow, itemOf, sellerOf, carts, money, bag, pc, arg, hand, refund, failures>>

(* Under mutex: the overdue listings are taken off. *)
saveBuyNow(p) ==
    /\ pc[p] = "expiring"
    /\ refund' = [refund EXCEPT ![p] = overdue \cap buyNow]
    /\ buyNow' = buyNow \ overdue
    /\ Go(p, "refunding")
    /\ UNCHANGED <<packageId, itemOf, sellerOf, overdue, carts, money, bag, arg, hand, failures>>

(* The database fails, at once or at a listing that is not overdue: what   *)
(* was collected before it is refunded, but nothing is taken off.          *)
FailSave(p) ==
    /\ pc[p] = "expiring"
    /\ failures < MaxFailures
    /\ failures' = failures + 1
    /\ \E last \in {0} \cup (buyNow \ overdue) :
          refund' = [refund EXCEPT ![p] = {i \in overdue \cap buyNow : i < last}]
    /\ Go(p, "refunding")
    /\ UNCHANGED <<market, carts, money, bag, arg, hand>>

RefundedTo_OwnSession(p, q) == {i \in refund[p] : sellerOf[i] = q /\ q = p}
RefundedTo(p, q) == {i \in refund[p] : sellerOf[i] = q /\ q \in loaded}

(* Under cart_mutex: every loaded cart gets its seller's items back. *)
Refund(p) ==
    /\ pc[p] = "refunding"
    /\ notYetSold' = [q \in Player |-> notYetSold[q] \ refund[p]]
    /\ transfer' = [q \in Player |-> transfer[q] \cup {itemOf[i] : i \in RefundedTo(p, q)}]
    /\ refund' = [refund EXCEPT ![p] = {}]
    /\ Go(p, "idle")
    /\ UNCHANGED <<market, loaded, money, bag, arg, hand, failures>>

-----------------------------------------------------------------------------
Next ==
    \/ \E p \in Player, x \in Item : addToBuyNow(p, x) \/ Transfer(p, x)
    \/ \E p \in Player, i \in Id : Buy(p, i) \/ Cancel(p, i)
    \/ \E p \in Player : getCart(p) \/ FinishSale(p) \/ TakeOff(p) \/ Deliver(p) \/ ReadOwed(p)
    \/ \E p \in Player : increaseOwedNX(p) \/ MTSUpdate(p) \/ getSetOwedNX(p) \/ removeFromInventory(p)
    \/ \E p \in Player : sendMTSPackets(p) \/ saveBuyNow(p) \/ FailSave(p) \/ Refund(p)
    \/ \E i \in Id : EndingDatePasses(i)

Spec == Init /\ [][Next]_vars

-----------------------------------------------------------------------------
(* Where item x is: inventories, listings, carts, and in a handler's hands.*)
(* A seller's copy no longer counts once it is listed, nor does a cart's   *)
(* once the item is in the inventory.                                      *)
Places(x) ==
    {<<"bag", p>> : p \in {q \in Player : x \in bag[q] /\ ~(pc[q] = "listed" /\ itemOf[arg[q]] = x)}}
    \cup {<<"listed", i>> : i \in {j \in buyNow : itemOf[j] = x}}
    \cup {<<"cart", p>> : p \in {q \in Player : x \in transfer[q] /\ ~(pc[q] = "taking" /\ arg[q] = x)}}
    \cup {<<"taken", p>> : p \in {q \in Player : pc[q] = "deliver" /\ itemOf[arg[q]] = x}}
    \cup UNION {{<<"refund", p, i>> : i \in {j \in refund[p] : itemOf[j] = x}} : p \in Player}

(* No sequence of sales, cancellations, purchases, transfers and refunds   *)
(* loses an item, not even when a save fails.                              *)
NothingLost == \A x \in Item : Places(x) # {}

(* As long as no save failed, no interleaving doubles an item: not two     *)
(* buyers, not a buyer and the seller who cancels, not an expiry.          *)
NothingDoubled == failures = 0 => \A x \in Item : Cardinality(Places(x)) <= 1

(* A listing's seller has a cart, so a refund or a credit finds one.       *)
SellersAreLoaded == \A i \in buyNow \cup UNION {refund[p] : p \in Player} : sellerOf[i] \in loaded

(* The seller's own list, which the limit of ten is measured by, holds all *)
(* his listings but the one he is just adding.                             *)
OwnListingsShown ==
    failures = 0 => \A i \in buyNow :
        i \in notYetSold[sellerOf[i]] \/ (pc[sellerOf[i]] = "listed" /\ arg[sellerOf[i]] = i)

(* Buyers who have taken something off the market of p and not paid yet.   *)
Paying(p) == {q \in Player : pc[q] \in {"deliver", "charged", "crediting"} /\ sellerOf[arg[q]] = p /\ q # p}

(* A seller is paid once for each listing somebody bought, unless a write  *)
(* of owedNX overran another.                                              *)
SellersPaidUnlessTorn ==
    ~torn => \A p \in Player : sold[p] = settled[p] + owedNX[p] + Cardinality(Paying(p))
=============================================================================
