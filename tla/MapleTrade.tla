----------------------------- MODULE MapleTrade -----------------------------
(***************************************************************************)
(* Trades between two players: server/MapleTrade.java as the handlers of   *)
(* PlayerInteractionHandler.java, a change of map and a logout call it.    *)
(* Nothing in it is synchronized: each player's session runs its own calls *)
(* in order, and a confirmation, a cancellation or a refusal settles the   *)
(* other player's half of the trade as well as its own.                    *)
(*                                                                         *)
(* A session is the sequence of statements its call still has to execute.  *)
(* Goods are items or amounts of mesos, which the code treats alike: they  *)
(* leave the inventory when they are put into a trade.  Mesos always come  *)
(* back.  Nobody asks addFromDrop whether an item did: it is refused when  *)
(* the inventory has no room by then (check() looks before an exchange,    *)
(* and what it sees is anything) or its player has left, and a buff whose  *)
(* time is running is not even offered; the list is emptied all the same.  *)
(* Chat and the visited flag (inTrade) are left out, and so is a partner   *)
(* without a client: only disposed clones have none, and they do not act.  *)
(***************************************************************************)
EXTENDS Integers, Sequences

CONSTANTS
    Player, Good,
    Item,       \* the goods that need room; the others are mesos
    Owner,      \* who holds a good at first
    MaxTrades   \* bound on the MapleTrade objects ever made

ASSUME PlayerAssumption == Player # {}
ASSUME ItemAssumption == Item \subseteq Good
ASSUME OwnerAssumption == Owner \in [Good -> Player]
ASSUME TradesAssumption == MaxTrades \in Nat \ {0}

Trade == 1..MaxTrades
None == 0

VARIABLES
    made,               \* number of trades made
    trade,              \* MapleCharacter.trade
    chr, partner, locked, items, exchange,  \* MapleTrade's fields
    bag,                \* how often each good is in a player's inventory
    todo,               \* what each session still executes of its call
    settled,            \* history: trades somebody began to settle
    torn,               \* history: a trade was settled again
    crossed,            \* history: an invitation met or left a trade that has another partner
    astray,             \* history: goods put into a trade settled or closed before,
                        \* or in one that was closed in place of an earlier one
    spilled             \* history: goods an inventory refused

fields == <<chr, partner, locked, items, exchange>>
history == <<settled, torn, crossed, astray, spilled>>
vars == <<made, trade, chr, partner, locked, items, exchange, bag, todo,
          settled, torn, crossed, astray, spilled>>

Kind == {"start", "offer", "answer", "put", "copy", "settle", "give", "empty",
         "return", "clear", "close"}

Line == Kind \X (0..made) \X (Good \cup Player \cup 0..made)

TypeOK ==
    /\ made \in 0..MaxTrades
    /\ trade \in [Player -> 0..made]
    /\ chr \in [Trade -> Player]
    /\ partner \in [Trade -> 0..made] /\ locked \in [Trade -> BOOLEAN]
    /\ items \in [Trade -> SUBSET Good] /\ exchange \in [Trade -> SUBSET Good]
    /\ bag \in [Player -> [Good -> Nat]]
    /\ todo \in [Player -> Seq(Line)]
    /\ settled \subseteq 1..made
    /\ torn \in BOOLEAN /\ crossed \in BOOLEAN
    /\ astray \subseteq Good /\ spilled \subseteq Item

Init ==
    /\ made = 0
    /\ trade = [p \in Player |-> None]
    /\ chr = [t \in Trade |-> CHOOSE p \in Player : TRUE]
    /\ partner = [t \in Trade |-> None] /\ locked = [t \in Trade |-> FALSE]
    /\ items = [t \in Trade |-> {}] /\ exchange = [t \in Trade |-> {}]
    /\ bag = [p \in Player |-> [g \in Good |-> IF Owner[g] = p THEN 1 ELSE 0]]
    /\ todo = [p \in Player |-> <<>>]
    /\ settled = {} /\ torn = FALSE /\ crossed = FALSE /\ astray = {} /\ spilled = {}

-----------------------------------------------------------------------------
(* Statements of a call: what they do, a trade, and a second operand.      *)
Do(kind, t) == <<kind, t, None>>
Cancel(t) == <<Do("return", t), Do("clear", t)>>

(* cancelTrade(t): the partner of a session's own trade is set by nobody   *)
(* else, so that it may be read at once.                                   *)
CancelBoth(t) ==
    Cancel(t) \o (IF partner[t] = None THEN <<>> ELSE Cancel(partner[t]) \o <<Do("close", partner[t])>>)
              \o <<Do("close", t)>>
Halves(t) == {t, partner[t]} \ {None}

CompleteTrade_EmptyFirst(t) == <<Do("empty", t), Do("give", t)>>
CompleteTrade(t) == <<Do("give", t), Do("empty", t)>>

Idle(p) == todo[p] = <<>>
Begin(p, call) == todo' = [todo EXCEPT ![p] = call]
At(p, kind) == todo[p] # <<>> /\ Head(todo[p])[1] = kind
This(p) == Head(todo[p])[2]
Operand(p) == Head(todo[p])[3]
Continue(p, first) == todo' = [todo EXCEPT ![p] = first \o Tail(@)]

(* Whoever settles the trades T from here on, perhaps not as the first.    *)
Settle(T) ==
    /\ settled' = settled \cup T
    /\ torn' = (torn \/ T \cap settled # {})
    /\ UNCHANGED <<crossed, astray, spilled>>

(* Player p has a trade that has a partner already.                        *)
Paired(p) == trade[p] # None /\ partner[trade[p]] # None

(* The trade q has by now is the one p's invitation made.                  *)
Met(p, q) == trade[q] # None /\ partner[trade[q]] = trade[p]

(* A new MapleTrade of player p. *)
New(p, with) ==
    /\ made < MaxTrades
    /\ made' = made + 1
    /\ chr' = [chr EXCEPT ![made'] = p]
    /\ trade' = [trade EXCEPT ![p] = made']
    /\ partner' = [partner EXCEPT ![made'] = with]

Gained_Reversed(n, g, G) == n - (IF g \in G THEN 1 ELSE 0)
Gained(n, g, G) == n + (IF g \in G THEN 1 ELSE 0)

Received(p, G) == bag' = [bag EXCEPT ![p] = [g \in Good |-> Gained(@[g], g, G)]]

HandOut(p, G) == \E refused \in SUBSET (G \cap Item) :
    /\ Received(p, G \ refused)
    /\ spilled' = spilled \cup refused

-----------------------------------------------------------------------------
(* The calls.                                                              *)

startTrade(p) ==
    /\ Idle(p) /\ trade[p] = None
    /\ Begin(p, <<Do("start", None)>>)
    /\ UNCHANGED <<made, trade, fields, bag, history>>

(* INVITE_TRADE: the invited must not have a trade (hasBlockedInventory).  *)
inviteTrade(p, q) ==
    /\ Idle(p) /\ p # q
    /\ trade[p] # None /\ trade[q] = None
    /\ Begin(p, <<<<"offer", trade[p], q>>>>)
    /\ UNCHANGED <<made, trade, fields, bag, history>>

(* The checks of setItems and setMeso, and the withdrawal.                 *)
MayAdd_EvenLocked(t) == partner[t] # None
MayAdd(t) == partner[t] # None /\ ~locked[t]

Withdrawn_Kept(p, g) == bag
Withdrawn(p, g) == [bag EXCEPT ![p][g] = @ - 1]

setItems(p, g) ==
    /\ Idle(p) /\ trade[p] # None
    /\ MayAdd(trade[p])
    /\ bag[p][g] > 0
    /\ bag' = Withdrawn(p, g)
    /\ Begin(p, <<<<"put", trade[p], g>>>>)
    /\ UNCHANGED <<made, trade, fields, history>>

completeTrade(p) ==
    /\ Idle(p) /\ trade[p] # None
    /\ partner[trade[p]] # None /\ ~locked[trade[p]]
    /\ locked' = [locked EXCEPT ![trade[p]] = TRUE]
    /\ LET call == <<trade[p], partner[trade[p]]>>
       IN Begin(p, <<<<"copy", call[1], call[2]>>, <<"settle", call[1], call[2]>>>>)
    /\ UNCHANGED <<made, trade, chr, partner, items, exchange, bag, history>>

(* EXIT, a change of map, a logout. *)
cancelTrade(p) ==
    /\ Idle(p) /\ trade[p] # None
    /\ Begin(p, CancelBoth(trade[p]))
    /\ Settle(Halves(trade[p]))
    /\ UNCHANGED <<made, trade, fields, bag>>

(* DENY_TRADE: the other's current trade first, then one's own.            *)
declineTrade(p) ==
    /\ Idle(p) /\ trade[p] # None
    /\ LET mine == trade[p]
           theirs == IF partner[mine] = None THEN None ELSE trade[chr[partner[mine]]]
       IN /\ Begin(p, (IF theirs = None THEN <<>> ELSE Cancel(theirs) \o <<Do("close", theirs)>>)
                      \o Cancel(mine) \o <<Do("close", mine)>>)
          /\ Settle({mine, theirs} \ {None})
    /\ UNCHANGED <<made, trade, fields, bag>>

-----------------------------------------------------------------------------
(* The statements.                                                         *)

Start(p) ==
    /\ At(p, "start")
    /\ New(p, None)
    /\ Continue(p, <<>>)
    /\ UNCHANGED <<locked, items, exchange, bag, history>>

(* inviteTrade looks again: if the invited has got a trade meanwhile, the  *)
(* inviter's is cancelled.  An earlier look may have found none, and a     *)
(* trade the invited got since is then overwritten.                        *)
Offer(p) ==
    LET q == Operand(p) IN
    /\ At(p, "offer")
    /\ New(q, trade[p])
    /\ Continue(p, <<<<"answer", None, q>>>>)
    /\ crossed' = (crossed \/ Paired(p) \/ Paired(q))
    /\ UNCHANGED <<locked, items, exchange, bag, settled, torn, astray, spilled>>

TooLate(p) ==
    /\ At(p, "offer")
    /\ trade[Operand(p)] # None
    /\ Continue(p, IF trade[p] = None THEN <<>> ELSE CancelBoth(trade[p]))
    /\ Settle(IF trade[p] = None THEN {} ELSE Halves(trade[p]))
    /\ UNCHANGED <<made, trade, fields, bag>>

(* ... and the inviter's trade gets the trade the invited has by now.      *)
Answer(p) ==
    /\ At(p, "answer")
    /\ IF trade[p] = None \/ locked[trade[p]]
       THEN UNCHANGED <<partner, crossed>>
       ELSE /\ partner' = [partner EXCEPT ![trade[p]] = trade[Operand(p)]]
            /\ crossed' = (crossed \/ Paired(p) \/ ~Met(p, Operand(p)))
    /\ Continue(p, <<>>)
    /\ UNCHANGED <<made, trade, chr, locked, items, exchange, bag, settled, torn, astray, spilled>>

addItem(p) ==
    /\ At(p, "put")
    /\ items' = [items EXCEPT ![This(p)] = @ \cup {Operand(p)}]
    /\ astray' = astray \cup IF This(p) \in settled \/ trade[p] # This(p) THEN {Operand(p)} ELSE {}
    /\ Continue(p, <<>>)
    /\ UNCHANGED <<made, trade, chr, partner, locked, exchange, bag, settled, torn, crossed, spilled>>

Copy(p) ==
    /\ At(p, "copy")
    /\ exchange' = [exchange EXCEPT ![Operand(p)] = items[This(p)]]
    /\ Continue(p, <<>>)
    /\ UNCHANGED <<made, trade, chr, partner, locked, items, bag, history>>

(* The second to confirm settles both halves: the exchange, or for want of *)
(* room the return.                                                        *)
FirstToConfirm(p) ==
    /\ At(p, "settle")
    /\ ~locked[Operand(p)]
    /\ Continue(p, <<>>)
    /\ UNCHANGED <<made, trade, fields, bag, history>>

SecondToConfirm(p) ==
    LET local == This(p)
        other == Operand(p)
    IN /\ At(p, "settle")
       /\ locked[other]
       /\ \E parts \in {CompleteTrade(local) \o CompleteTrade(other), Cancel(other) \o Cancel(local)} :
             Continue(p, parts \o <<Do("close", other), Do("close", local)>>)
       /\ Settle({local, other})
       /\ UNCHANGED <<made, trade, fields, bag>>

Give(p) ==
    /\ At(p, "give")
    /\ HandOut(chr[This(p)], exchange[This(p)])
    /\ Continue(p, <<>>)
    /\ UNCHANGED <<made, trade, fields, settled, torn, crossed, astray>>

Empty(p) ==
    /\ At(p, "empty")
    /\ exchange' = [exchange EXCEPT ![This(p)] = {}]
    /\ Continue(p, <<>>)
    /\ UNCHANGED <<made, trade, chr, partner, locked, items, bag, history>>

Return(p) ==
    /\ At(p, "return")
    /\ HandOut(chr[This(p)], items[This(p)])
    /\ Continue(p, <<>>)
    /\ UNCHANGED <<made, trade, fields, settled, torn, crossed, astray>>

Clear(p) ==
    /\ At(p, "clear")
    /\ items' = [items EXCEPT ![This(p)] = {}]
    /\ Continue(p, <<>>)
    /\ UNCHANGED <<made, trade, chr, partner, locked, exchange, bag, history>>

(* setTrade(null) *)
Close(p) ==
    /\ At(p, "close")
    /\ trade' = [trade EXCEPT ![chr[This(p)]] = None]
    /\ LET now == trade[chr[This(p)]]
       IN astray' = astray \cup IF now \notin {This(p), None} THEN items[now] ELSE {}
    /\ Continue(p, <<>>)
    /\ UNCHANGED <<made, fields, bag, settled, torn, crossed, spilled>>

-----------------------------------------------------------------------------
Call(p) ==
    \/ startTrade(p) \/ completeTrade(p) \/ cancelTrade(p) \/ declineTrade(p)
    \/ \E q \in Player : inviteTrade(p, q)
    \/ \E g \in Good : setItems(p, g)

Statement(p) ==
    \/ Start(p) \/ Offer(p) \/ TooLate(p) \/ Answer(p) \/ addItem(p) \/ Copy(p)
    \/ FirstToConfirm(p) \/ SecondToConfirm(p) \/ Give(p) \/ Empty(p)
    \/ Return(p) \/ Clear(p) \/ Close(p)

Next == \E p \in Player : Call(p) \/ Statement(p)

Spec == Init /\ [][Next]_vars

-----------------------------------------------------------------------------
(* No trade was settled twice, and no invitations crossed.                 *)
Orderly == ~torn /\ ~crossed

(* However the calls of several players interleave, no good gets into two  *)
(* inventories, and none that was refused turns up again, unless a trade   *)
(* was settled twice or invitations crossed.                               *)
NothingDoubled ==
    Orderly => \A g \in Good : \A p, q \in Player :
        /\ bag[p][g] <= 1
        /\ bag[p][g] > 0 => (bag[q][g] > 0 => p = q) /\ g \notin spilled

(* When all trades are closed, a good is in some inventory, unless one     *)
(* refused it, a trade was settled twice or invitations crossed, or the    *)
(* good itself was put into a trade settled or closed meanwhile, or was in *)
(* one that was closed in place of an earlier one.                         *)
AllClosed == \A p \in Player : Idle(p) /\ trade[p] = None
NothingLost ==
    AllClosed /\ Orderly =>
        \A g \in Good \ (spilled \cup astray) : \E p \in Player : bag[p][g] > 0

(* What a player has confirmed stays as it is until it is settled, whoever *)
(* settles it.                                                             *)
OffersStayAsConfirmed ==
    [][\A t \in Trade : locked[t] /\ t \notin settled => items'[t] = items[t] /\ locked'[t]]_vars

-----------------------------------------------------------------------------
(* The strengthening that makes OffersStayAsConfirmed provable: what a     *)
(* session has still to execute.  A trade whose goods it returns is being  *)
(* settled, and a good on its way goes into an open trade of its own.      *)
Sound(p) == {s \in Line :
    /\ s[1] \notin {"start", "offer", "answer"} => s[2] # None
    /\ s[1] \in {"offer", "answer"} => s[3] \in Player
    /\ s[1] \in {"copy", "settle"} => s[3] \in 1..made
    /\ s[1] = "put" => s[3] \in Good /\ chr[s[2]] = p /\ ~locked[s[2]]
    /\ s[1] = "clear" => s[2] \in settled}

OwnTrade == \A p \in Player : trade[p] # None => chr[trade[p]] = p

IndInv == TypeOK /\ OwnTrade /\ \A p \in Player : todo[p] \in Seq(Sound(p))
=============================================================================
