------------------------- MODULE MapleTrade_proofs -------------------------
(***************************************************************************)
(* Proofs about MapleTrade for any number of players, goods and trades.    *)
(***************************************************************************)
EXTENDS MapleTrade, SequenceTheorems, TLAPS

(* A call's program and what is left of one.                               *)
LEMMA Programs ==
    ASSUME NEW S
    PROVE  /\ <<>> \in Seq(S)
           /\ \A a \in S : <<a>> \in Seq(S)
           /\ \A a, b \in S : <<a, b>> \in Seq(S)
           /\ \A s, t \in Seq(S) : s \o t \in Seq(S)
           /\ \A s \in Seq(S) : s # <<>> => Head(s) \in S /\ Tail(s) \in Seq(S)
BY ConcatProperties, HeadTailProperties, EmptySeq

(* Fields but the programs: what TypeOK says of them.                      *)
Typed ==
    /\ made \in 0..MaxTrades
    /\ trade \in [Player -> 0..made]
    /\ chr \in [Trade -> Player]
    /\ partner \in [Trade -> 0..made] /\ locked \in [Trade -> BOOLEAN]
    /\ items \in [Trade -> SUBSET Good] /\ exchange \in [Trade -> SUBSET Good]
    /\ bag \in [Player -> [Good -> Nat]]
    /\ settled \subseteq 1..made
    /\ torn \in BOOLEAN /\ crossed \in BOOLEAN
    /\ astray \subseteq Good /\ spilled \subseteq Item

SoundPrograms == todo \in [Player -> Seq(Line)] /\ \A p \in Player : todo[p] \in Seq(Sound(p))

LEMMA IndInvParts == IndInv <=> Typed /\ OwnTrade /\ SoundPrograms
BY DEF IndInv, TypeOK, Typed, SoundPrograms

LEMMA InitIndInv == Init => IndInv
<1> SUFFICES ASSUME Init PROVE IndInv
    OBVIOUS
<1>1. (CHOOSE p \in Player : TRUE) \in Player
    BY PlayerAssumption
<1>2. Typed
    <2> USE DEF Init, None
    <2>1. made \in 0..MaxTrades /\ settled \subseteq 1..made
        BY TradesAssumption
    <2>2. trade \in [Player -> 0..made] /\ partner \in [Trade -> 0..made]
        OBVIOUS
    <2>3. chr \in [Trade -> Player] /\ locked \in [Trade -> BOOLEAN]
        BY <1>1
    <2>4. items \in [Trade -> SUBSET Good] /\ exchange \in [Trade -> SUBSET Good]
        <3>1. items = [t \in Trade |-> {}] /\ exchange = [t \in Trade |-> {}]
            OBVIOUS
        <3> QED BY ONLY <3>1
    <2>5. bag \in [Player -> [Good -> Nat]]
        OBVIOUS
    <2>6. torn \in BOOLEAN /\ crossed \in BOOLEAN /\ astray \subseteq Good /\ spilled \subseteq Item
        OBVIOUS
    <2> HIDE DEF Init
    <2> QED BY <2>1, <2>2, <2>3, <2>4, <2>5, <2>6 DEF Typed
<1>3. OwnTrade
    BY DEF Init, OwnTrade
<1>4. SoundPrograms
    BY Programs DEF Init, SoundPrograms
<1> QED BY <1>2, <1>3, <1>4, IndInvParts

(* What is sound for a session stays so if trades only get settled and no  *)
(* trade of its own is locked.                                             *)
LEMMA SoundStays ==
    ASSUME Typed, NEW q \in Player,
           made' \in made..MaxTrades, settled \subseteq settled',
           \A t \in 1..made : chr'[t] = chr[t],
           \A t \in 1..made : chr[t] = q => locked'[t] = locked[t]
    PROVE  Sound(q) \subseteq Sound(q)'
<1> SUFFICES ASSUME NEW s \in Sound(q) PROVE s \in Sound(q)'
    OBVIOUS
<1>1. s \in Line /\ 0..made \subseteq 0..made' /\ 1..made \subseteq 1..made'
    BY DEF Sound, Typed
<1>2. s \in Line'
    BY <1>1 DEF Line
<1>3. s[2] # None => s[2] \in 1..made
    BY <1>1 DEF Line, None, Typed
<1> QED BY <1>1, <1>2, <1>3 DEF Sound

(* One session replaces its program, the others keep theirs.               *)
LEMMA ProgramReplaced ==
    ASSUME IndInv, NEW p \in Player, NEW new,
           todo' = [todo EXCEPT ![p] = new],
           new \in Seq(Sound(p)'),
           \A q \in Player : Sound(q) \subseteq Sound(q)'
    PROVE  SoundPrograms'
<1>1. \A q \in Player : todo'[q] \in Seq(Sound(q)')
    <2> SUFFICES ASSUME NEW q \in Player PROVE todo'[q] \in Seq(Sound(q)')
        OBVIOUS
    <2>1. todo[q] \in Seq(Sound(q)')
        BY SeqMonotonic DEF IndInv
    <2>2. todo \in [Player -> Seq(Line)]
        BY DEF IndInv, TypeOK
    <2> QED BY <2>1, <2>2
<1>2. \A q \in Player : Sound(q)' \subseteq Line'
    BY DEF Sound
<1>3. \A q \in Player : todo'[q] \in Seq(Line')
    BY <1>1, <1>2, SeqMonotonic
<1>4. todo' \in [Player -> Seq(Line')]
    BY <1>3 DEF IndInv, TypeOK
<1> QED BY <1>1, <1>4 DEF SoundPrograms

(* What the statement a session is at may rely on.                         *)
LEMMA Current ==
    ASSUME IndInv, NEW p \in Player, todo[p] # <<>>
    PROVE  /\ Head(todo[p]) \in Sound(p)
           /\ Tail(todo[p]) \in Seq(Sound(p))
           /\ This(p) \in 0..made
           /\ Head(todo[p])[1] \notin {"start", "offer", "answer"} => This(p) \in 1..made
           /\ Head(todo[p])[1] \in {"offer", "answer"} => Operand(p) \in Player
           /\ Head(todo[p])[1] \in {"copy", "settle"} => Operand(p) \in 1..made
           /\ Head(todo[p])[1] = "put" => Operand(p) \in Good /\ chr[This(p)] = p /\ ~locked[This(p)]
           /\ Head(todo[p])[1] = "clear" => This(p) \in settled
<1>1. todo[p] \in Seq(Sound(p))
    BY DEF IndInv
<1>2. Head(todo[p]) \in Sound(p) /\ Tail(todo[p]) \in Seq(Sound(p))
    BY <1>1, Programs
<1>3. Head(todo[p]) \in Line
    BY <1>2 DEF Sound
<1>4. This(p) \in 0..made
    BY <1>3 DEF Line, This
<1>5. Head(todo[p])[1] \notin {"start", "offer", "answer"} => This(p) \in 1..made
    <2>1. made \in Nat
        BY DEF IndInv, TypeOK
    <2> QED BY ONLY <1>2, <1>4, <2>1 DEF Sound, This, None
<1> QED BY <1>2, <1>4, <1>5 DEF Sound, This, Operand

(* A step that leaves made, chr, locked as they are and at most settles.   *)
LEMMA OrdinaryStep ==
    ASSUME IndInv, NEW p \in Player, NEW first,
           UNCHANGED <<made, chr, locked>>, settled \subseteq settled',
           Typed', OwnTrade',
           first \in Seq(Sound(p)'),
           \/ todo' = [todo EXCEPT ![p] = first]
           \/ todo[p] # <<>> /\ todo' = [todo EXCEPT ![p] = first \o Tail(todo[p])]
    PROVE  IndInv'
<1>1. Typed
    BY IndInvParts
<1>2. \A q \in Player : Sound(q) \subseteq Sound(q)'
    <2>1. made' \in made..MaxTrades /\ \A t \in 1..made : chr'[t] = chr[t] /\ locked'[t] = locked[t]
        BY <1>1, TradesAssumption DEF Typed
    <2> QED BY ONLY <1>1, <2>1, settled \subseteq settled', SoundStays
<1>3. PICK new : new \in Seq(Sound(p)') /\ todo' = [todo EXCEPT ![p] = new]
    <2>1. CASE todo' = [todo EXCEPT ![p] = first]
        BY <2>1
    <2>2. CASE todo[p] # <<>> /\ todo' = [todo EXCEPT ![p] = first \o Tail(todo[p])]
        <3>1. Tail(todo[p]) \in Seq(Sound(p)')
            BY <1>2, <2>2, Current, SeqMonotonic
        <3>2. first \o Tail(todo[p]) \in Seq(Sound(p)')
            BY <3>1, Programs
        <3> QED BY <2>2, <3>2
    <2> QED BY <2>1, <2>2
<1>4. SoundPrograms'
    BY <1>2, <1>3, ProgramReplaced
<1> QED BY ONLY <1>4, Typed', OwnTrade' DEF IndInv, TypeOK, Typed, SoundPrograms
(* A step that makes a trade for player o.                                 *)
LEMMA MakingStep ==
    ASSUME IndInv, NEW p \in Player, NEW o \in Player, NEW with \in 0..made, NEW first,
           New(o, with), UNCHANGED <<locked, items, exchange, bag, settled, torn, astray, spilled>>, crossed' \in BOOLEAN,
           first \in Seq(Sound(p)'),
           todo[p] # <<>>, todo' = [todo EXCEPT ![p] = first \o Tail(todo[p])]
    PROVE  IndInv'
<1>0. Typed /\ OwnTrade
    BY IndInvParts
<1>1. /\ made' = made + 1 /\ made' \in 1..MaxTrades /\ made \in Nat
      /\ 0..made \subseteq 0..made' /\ 1..made \subseteq 1..made' /\ made' \notin 0..made
    BY <1>0, TradesAssumption DEF New, Typed
<1>2. \A t \in 1..made : chr'[t] = chr[t] /\ t \in Trade
    BY <1>0, <1>1, TradesAssumption DEF New, Typed, Trade
<1>3. Typed'
    <2>1. trade' \in [Player -> 0..made'] /\ chr' \in [Trade -> Player] /\ partner' \in [Trade -> 0..made']
        <3>1. /\ trade \in [Player -> 0..made'] /\ partner \in [Trade -> 0..made'] /\ chr \in [Trade -> Player]
              /\ made' \in 0..made' /\ with \in 0..made'
            BY <1>0, <1>1 DEF Typed
        <3>2. trade' = [trade EXCEPT ![o] = made'] /\ chr' = [chr EXCEPT ![made'] = o]
              /\ partner' = [partner EXCEPT ![made'] = with]
            BY DEF New
        <3> QED BY ONLY <3>1, <3>2, o \in Player
    <2> QED BY ONLY <1>0, <1>1, <2>1, UNCHANGED <<locked, items, exchange, bag, settled, torn, astray, spilled>>,
                    crossed' \in BOOLEAN DEF Typed
<1>4. OwnTrade'
    <2> SUFFICES ASSUME NEW q \in Player, trade'[q] # None PROVE chr'[trade'[q]] = q
        BY DEF OwnTrade
    <2>1. CASE q = o
        BY <1>0, <1>1, <2>1 DEF New, Typed, Trade
    <2>2. CASE q # o
        BY <1>0, <1>2, <2>2 DEF New, Typed, OwnTrade, None
    <2> QED BY <2>1, <2>2
<1>5. \A q \in Player : Sound(q) \subseteq Sound(q)'
    <2>1. made' \in made..MaxTrades /\ settled \subseteq settled' /\ \A t \in 1..made : locked'[t] = locked[t]
        BY <1>1
    <2> QED BY ONLY <1>0, <1>2, <2>1, SoundStays
<1>6. first \o Tail(todo[p]) \in Seq(Sound(p)')
    <2>1. Tail(todo[p]) \in Seq(Sound(p)')
        BY <1>5, Current, SeqMonotonic
    <2> QED BY <2>1, Programs
<1>7. SoundPrograms'
    BY <1>5, <1>6, ProgramReplaced
<1> QED BY ONLY <1>3, <1>4, <1>7 DEF IndInv, TypeOK, Typed, SoundPrograms

(* The programs that settle a trade t, its settling noted.                 *)
LEMMA Settling ==
    ASSUME Typed, NEW p \in Player, NEW t \in 1..made, made' = made
    PROVE  /\ t \in settled' => Cancel(t) \in Seq(Sound(p)')
           /\ CompleteTrade(t) \in Seq(Sound(p)')
           /\ <<Do("close", t)>> \in Seq(Sound(p)')
<1>1. \A k \in {"give", "empty", "return", "close"} : Do(k, t) \in Sound(p)'
    BY DEF Do, Sound, Line, Kind, Typed, None
<1>2. t \in settled' => Do("clear", t) \in Sound(p)'
    BY DEF Do, Sound, Line, Kind, Typed, None
<1> QED BY <1>1, <1>2, Programs DEF Cancel, CompleteTrade

LEMMA SettlingBoth ==
    ASSUME Typed, NEW p \in Player, NEW t \in 1..made, made' = made, Halves(t) \subseteq settled'
    PROVE  CancelBoth(t) \in Seq(Sound(p)')
<1>1. t \in settled' /\ Cancel(t) \in Seq(Sound(p)') /\ <<Do("close", t)>> \in Seq(Sound(p)')
    BY Settling DEF Halves, Typed, None
<1>2. CASE partner[t] = None
    BY <1>1, <1>2, Programs DEF CancelBoth
<1>3. CASE partner[t] # None
    <2>1. partner[t] \in 1..made /\ partner[t] \in settled'
        <3>1. t \in Trade /\ partner[t] \in 0..made
            BY TradesAssumption DEF Typed, Trade
        <3> QED BY <1>3, <3>1 DEF Halves, Typed, None
    <2>2. Cancel(partner[t]) \in Seq(Sound(p)') /\ <<Do("close", partner[t])>> \in Seq(Sound(p)')
        BY <2>1, Settling
    <2>3. Cancel(t) \o (Cancel(partner[t]) \o <<Do("close", partner[t])>>) \o <<Do("close", t)>> \in Seq(Sound(p)')
        BY <1>1, <2>2, Programs
    <2> QED BY <1>3, <2>3 DEF CancelBoth
<1> QED BY <1>2, <1>3

(* Settling keeps the types of the history.                                *)
LEMMA SettleTyped ==
    ASSUME Typed, NEW T, T \subseteq 1..made, Settle(T), made' = made
    PROVE  /\ settled \subseteq settled' /\ T \subseteq settled' /\ settled' \subseteq 1..made'
           /\ torn' \in BOOLEAN /\ crossed' \in BOOLEAN /\ astray' \subseteq Good /\ spilled' \subseteq Item
BY DEF Settle, Typed

(* One step per action of Next. *)
LEMMA NextIndInv == IndInv /\ [Next]_vars => IndInv'
<1> SUFFICES ASSUME IndInv, [Next]_vars PROVE IndInv'
    OBVIOUS
<1>0. Typed /\ OwnTrade /\ SoundPrograms
    BY IndInvParts
<1> USE TradesAssumption DEF fields, history, Continue, Begin
<1>1. ASSUME NEW p \in Player, startTrade(p) PROVE IndInv'
    <2>1. <<Do("start", None)>> \in Seq(Sound(p)')
        BY <1>1, <1>0, Programs DEF startTrade, Do, Sound, Line, Kind, Typed, None
    <2>2. Typed' /\ OwnTrade'
        BY <1>1, <1>0 DEF startTrade, Typed, OwnTrade
    <2> QED BY <1>1, <2>1, <2>2, OrdinaryStep DEF startTrade
<1>2. ASSUME NEW p \in Player, NEW q \in Player, inviteTrade(p, q) PROVE IndInv'
    <2>1. <<<<"offer", trade[p], q>>>> \in Seq(Sound(p)')
        BY <1>2, <1>0, Programs DEF inviteTrade, Sound, Line, Kind, Typed, None
    <2>2. Typed' /\ OwnTrade'
        BY <1>2, <1>0 DEF inviteTrade, Typed, OwnTrade
    <2> QED BY <1>2, <2>1, <2>2, OrdinaryStep DEF inviteTrade
<1>3. ASSUME NEW p \in Player, NEW g \in Good, setItems(p, g) PROVE IndInv'
    <2>1. <<<<"put", trade[p], g>>>> \in Seq(Sound(p)')
        BY <1>3, <1>0, Programs DEF setItems, MayAdd, OwnTrade, Sound, Line, Kind, Typed, None
    <2>2. bag' \in [Player -> [Good -> Nat]]
        BY <1>3, <1>0 DEF setItems, Withdrawn, Typed
    <2>3. Typed' /\ OwnTrade'
        BY <1>3, <1>0, <2>2 DEF setItems, Typed, OwnTrade
    <2> QED BY <1>3, <2>1, <2>3, OrdinaryStep DEF setItems
<1>4. ASSUME NEW p \in Player, completeTrade(p) PROVE IndInv'
    <2> DEFINE t == trade[p]
               call == <<<<"copy", t, partner[t]>>, <<"settle", t, partner[t]>>>>
    <2>1. t \in 1..made /\ partner[t] \in 1..made /\ chr[t] = p
        BY <1>4, <1>0 DEF completeTrade, Typed, OwnTrade, Trade, None
    <2>2. locked' = [locked EXCEPT ![t] = TRUE] /\ todo' = [todo EXCEPT ![p] = call]
          /\ todo[p] = <<>> /\ UNCHANGED <<made, trade, chr, partner, items, exchange, bag, history>>
        BY <1>4 DEF completeTrade, Idle
    <2>3. Typed' /\ OwnTrade'
        BY <1>0, <2>2 DEF Typed, OwnTrade
    <2>4. \A q \in Player \ {p} : Sound(q) \subseteq Sound(q)'
        <3> SUFFICES ASSUME NEW q \in Player \ {p} PROVE Sound(q) \subseteq Sound(q)'
            OBVIOUS
        <3>1. made' \in made..MaxTrades /\ settled \subseteq settled' /\ \A u \in 1..made : chr'[u] = chr[u]
            BY <1>0, <2>2 DEF Typed
        <3>2. \A u \in 1..made : chr[u] = q => locked'[u] = locked[u]
            <4>1. 1..made \subseteq Trade /\ locked \in [Trade -> BOOLEAN]
                BY <1>0, TradesAssumption DEF Typed, Trade
            <4>2. chr[t] # q /\ locked' = [locked EXCEPT ![t] = TRUE]
                BY <2>1, <2>2
            <4> HIDE DEF t
            <4> QED BY ONLY <4>1, <4>2
        <3> QED BY ONLY <1>0, <3>1, <3>2, q \in Player, SoundStays
    <2>5. call \in Seq(Sound(p)')
        BY <1>0, <2>1, <2>2, Programs DEF Sound, Line, Kind, Typed, None
    <2>6. \A q \in Player : todo'[q] \in Seq(Sound(q)')
        <3> SUFFICES ASSUME NEW q \in Player PROVE todo'[q] \in Seq(Sound(q)')
            OBVIOUS
        <3>1. CASE q = p
            BY <1>0, <2>2, <2>5, <3>1 DEF SoundPrograms
        <3>2. CASE q # p
            BY <1>0, <2>2, <2>4, <3>2, SeqMonotonic DEF SoundPrograms
        <3> QED BY <3>1, <3>2
    <2>7. todo' \in [Player -> Seq(Line')]
        <3>1. \A q \in Player : Sound(q)' \subseteq Line'
            BY DEF Sound
        <3>2. \A q \in Player : todo'[q] \in Seq(Line')
            BY ONLY <2>6, <3>1, SeqMonotonic
        <3>3. todo \in [Player -> Seq(Line)]
            BY <1>0 DEF SoundPrograms
        <3> QED BY ONLY <2>2, <3>2, <3>3
    <2> QED BY ONLY <2>3, <2>6, <2>7 DEF IndInv, TypeOK, Typed
<1>5. ASSUME NEW p \in Player, cancelTrade(p) PROVE IndInv'
    <2>1. trade[p] \in 1..made /\ Halves(trade[p]) \subseteq 1..made /\ made' = made
        BY <1>5, <1>0 DEF cancelTrade, Typed, Halves, Trade, None
    <2>2. settled \subseteq settled' /\ Halves(trade[p]) \subseteq settled' /\ settled' \subseteq 1..made'
          /\ torn' \in BOOLEAN /\ crossed' \in BOOLEAN /\ astray' \subseteq Good /\ spilled' \subseteq Item
        BY <1>5, <1>0, <2>1, SettleTyped DEF cancelTrade
    <2>3. CancelBoth(trade[p]) \in Seq(Sound(p)')
        BY <1>0, <2>1, <2>2, SettlingBoth
    <2>4. Typed' /\ OwnTrade'
        BY <1>5, <1>0, <2>2 DEF cancelTrade, Typed, OwnTrade
    <2> QED BY <1>5, <2>2, <2>3, <2>4, OrdinaryStep DEF cancelTrade
<1>6. ASSUME NEW p \in Player, declineTrade(p) PROVE IndInv'
    <2> DEFINE mine == trade[p]
               theirs == IF partner[mine] = None THEN None ELSE trade[chr[partner[mine]]]
               other == IF theirs = None THEN <<>> ELSE Cancel(theirs) \o <<Do("close", theirs)>>
               call == other \o Cancel(mine) \o <<Do("close", mine)>>
    <2>1. mine \in 1..made /\ theirs \in 0..made /\ made' = made
        <3>1. mine \in 1..made /\ made' = made
            BY <1>6, <1>0 DEF declineTrade, Typed, None
        <3>2. CASE partner[mine] = None
            BY <1>0, <3>1, <3>2 DEF Typed, None
        <3>3. CASE partner[mine] # None
            <4>1. chr[partner[mine]] \in Player
                BY <1>0, <3>1, <3>3, SMTT(30) DEF Typed, Trade, None
            <4>2. trade[chr[partner[mine]]] \in 0..made
                BY <1>0, <4>1 DEF Typed
            <4>3. theirs = trade[chr[partner[mine]]]
                BY ONLY <3>3
            <4> QED BY ONLY <3>1, <4>2, <4>3
        <3> QED BY <3>1, <3>2, <3>3
    <2>2. Settle({mine, theirs} \ {None}) /\ todo' = [todo EXCEPT ![p] = call]
          /\ UNCHANGED <<made, trade, fields, bag>>
        BY <1>6 DEF declineTrade
    <2>3. {mine, theirs} \ {None} \subseteq 1..made
        BY ONLY <2>1, <1>0, SMTT(30) DEF None, Typed
    <2>4. settled \subseteq settled' /\ {mine, theirs} \ {None} \subseteq settled' /\ settled' \subseteq 1..made'
          /\ torn' \in BOOLEAN /\ crossed' \in BOOLEAN /\ astray' \subseteq Good /\ spilled' \subseteq Item
        BY ONLY <1>0, <2>1, <2>2, <2>3, SettleTyped
    <2>5. Cancel(mine) \in Seq(Sound(p)') /\ <<Do("close", mine)>> \in Seq(Sound(p)')
        BY <1>0, <2>1, <2>4, Settling DEF None
    <2>6. other \in Seq(Sound(p)')
        <3>1. CASE theirs = None
            BY <3>1, Programs
        <3>2. CASE theirs # None
            <4>1. theirs \in 1..made /\ theirs \in settled'
                BY <2>1, <2>4, <3>2 DEF None
            <4>2. Cancel(theirs) \in Seq(Sound(p)') /\ <<Do("close", theirs)>> \in Seq(Sound(p)')
                BY <1>0, <2>1, <4>1, Settling, SMTT(30)
            <4> HIDE DEF theirs
            <4> QED BY <3>2, <4>2, Programs
        <3> QED BY <3>1, <3>2
    <2>7. call \in Seq(Sound(p)')
        <3> HIDE DEF other, mine
        <3> QED BY <2>5, <2>6, Programs
    <2>8. Typed' /\ OwnTrade'
        BY <1>0, <2>2, <2>4 DEF Typed, OwnTrade
    <2> HIDE DEF call
    <2> QED BY <2>2, <2>4, <2>7, <2>8, OrdinaryStep
<1>7. ASSUME NEW p \in Player, Start(p) PROVE IndInv'
    <2>1. New(p, None) /\ todo[p] # <<>> /\ None \in 0..made
        BY <1>7, <1>0 DEF Start, At, Typed, None
    <2>2. crossed' \in BOOLEAN
        BY <1>7, <1>0 DEF Start, Typed
    <2> QED BY <1>7, <2>1, <2>2, Programs, MakingStep DEF Start
<1>8. ASSUME NEW p \in Player, Offer(p) PROVE IndInv'
    <2>1. New(Operand(p), trade[p]) /\ todo[p] # <<>> /\ trade[p] \in 0..made /\ Operand(p) \in Player
        BY <1>8, <1>0, Current DEF Offer, At, Typed
    <2>2. made' \in Nat /\ <<"answer", None, Operand(p)>> \in Sound(p)'
        BY <1>0, <2>1 DEF New, Sound, Line, Kind, Typed, None
    <2>3. <<<<"answer", None, Operand(p)>>>> \in Seq(Sound(p)')
        BY <2>2, Programs
    <2>4. crossed' \in BOOLEAN
        BY <1>8, <1>0 DEF Offer, Typed, Paired
    <2> QED BY <1>8, <2>1, <2>3, <2>4, MakingStep DEF Offer
<1>9. ASSUME NEW p \in Player, TooLate(p) PROVE IndInv'
    <2>1. /\ trade[p] \in 0..made /\ made' = made /\ todo[p] # <<>>
          /\ trade[p] # None => trade[p] \in 1..made /\ Halves(trade[p]) \subseteq 1..made
        BY <1>9, <1>0 DEF TooLate, At, Typed, Halves, Trade, None
    <2>2. settled \subseteq settled' /\ settled' \subseteq 1..made'
          /\ (trade[p] # None => Halves(trade[p]) \subseteq settled')
          /\ torn' \in BOOLEAN /\ crossed' \in BOOLEAN /\ astray' \subseteq Good /\ spilled' \subseteq Item
        BY <1>9, <1>0, <2>1, SettleTyped DEF TooLate
    <2>3. (IF trade[p] = None THEN <<>> ELSE CancelBoth(trade[p])) \in Seq(Sound(p)')
        <3>1. CASE trade[p] = None
            BY <3>1, Programs
        <3>2. CASE trade[p] # None
            BY <1>0, <2>1, <2>2, <3>2, SettlingBoth
        <3> QED BY <3>1, <3>2
    <2>4. Typed' /\ OwnTrade'
        BY <1>9, <1>0, <2>2 DEF TooLate, Typed, OwnTrade
    <2> QED BY <1>9, <2>1, <2>2, <2>3, <2>4, OrdinaryStep DEF TooLate
<1>10. ASSUME NEW p \in Player, Answer(p) PROVE IndInv'
    <2>1. Operand(p) \in Player /\ todo[p] # <<>>
        BY <1>10, Current DEF Answer, At
    <2>2. Typed' /\ OwnTrade'
        BY <1>10, <1>0, <2>1, ZenonT(60) DEF Answer, Typed, OwnTrade
    <2> QED BY <1>10, <2>1, <2>2, Programs, OrdinaryStep DEF Answer
<1>11. ASSUME NEW p \in Player, addItem(p) PROVE IndInv'
    <2>1. Operand(p) \in Good /\ todo[p] # <<>>
        BY <1>11, Current DEF addItem, At
    <2>a. astray' \subseteq Good
        BY <1>11, <1>0, <2>1 DEF addItem, Typed
    <2>2. Typed' /\ OwnTrade'
        BY <1>11, <1>0, <2>1, <2>a DEF addItem, Typed, OwnTrade
    <2> QED BY <1>11, <2>1, <2>2, Programs, OrdinaryStep DEF addItem
<1>12. ASSUME NEW p \in Player, Copy(p) PROVE IndInv'
    <2>1. This(p) \in 1..made /\ todo[p] # <<>>
        BY <1>12, Current DEF Copy, At
    <2>2. Typed' /\ OwnTrade'
        <3>1. items[This(p)] \in SUBSET Good
            BY <1>0, <2>1, TradesAssumption DEF Typed, Trade
        <3>2. exchange' \in [Trade -> SUBSET Good]
            BY <1>12, <1>0, <3>1 DEF Copy, Typed
        <3> QED BY <1>12, <1>0, <3>2 DEF Copy, Typed, OwnTrade
    <2> QED BY <1>12, <2>1, <2>2, Programs, OrdinaryStep DEF Copy
<1>13. ASSUME NEW p \in Player, FirstToConfirm(p) PROVE IndInv'
    <2>1. Typed' /\ OwnTrade'
        BY <1>13, <1>0 DEF FirstToConfirm, Typed, OwnTrade
    <2> QED BY <1>13, <2>1, Programs, OrdinaryStep DEF FirstToConfirm, At
<1>14. ASSUME NEW p \in Player, SecondToConfirm(p) PROVE IndInv'
    <2> DEFINE local == This(p)
               other == Operand(p)
    <2>1. local \in 1..made /\ other \in 1..made /\ todo[p] # <<>> /\ made' = made
        BY <1>14, Current DEF SecondToConfirm, At, fields
    <2>2. Settle({local, other}) /\ UNCHANGED <<made, trade, fields, bag>>
        BY <1>14 DEF SecondToConfirm
    <2>3. PICK parts \in {CompleteTrade(local) \o CompleteTrade(other), Cancel(other) \o Cancel(local)} :
              Continue(p, parts \o <<Do("close", other), Do("close", local)>>)
        BY <1>14 DEF SecondToConfirm
    <2> HIDE DEF local, other
    <2>4. settled \subseteq settled' /\ {local, other} \subseteq settled' /\ settled' \subseteq 1..made'
          /\ torn' \in BOOLEAN /\ crossed' \in BOOLEAN /\ astray' \subseteq Good /\ spilled' \subseteq Item
        BY <1>0, <2>1, <2>2, SettleTyped
    <2>5. \A t \in {local, other} : Cancel(t) \in Seq(Sound(p)') /\ CompleteTrade(t) \in Seq(Sound(p)')
        BY <1>0, <2>1, <2>4, Settling
    <2>6. parts \in Seq(Sound(p)')
        <3>1. CASE parts = CompleteTrade(local) \o CompleteTrade(other)
            BY ONLY <2>5, <3>1, Programs
        <3>2. CASE parts = Cancel(other) \o Cancel(local)
            BY ONLY <2>5, <3>2, Programs
        <3> QED BY <2>3, <3>1, <3>2
    <2>7. Do("close", other) \in Sound(p)' /\ Do("close", local) \in Sound(p)'
        BY <1>0, <2>1 DEF Do, Sound, Line, Kind, Typed, None
    <2>8. parts \o <<Do("close", other), Do("close", local)>> \in Seq(Sound(p)')
        BY <2>6, <2>7, Programs
    <2>9. Typed' /\ OwnTrade'
        BY <1>0, <2>2, <2>4 DEF Typed, OwnTrade
    <2> QED BY <2>1, <2>2, <2>3, <2>4, <2>8, <2>9, OrdinaryStep
<1>h. ASSUME NEW o, NEW G, HandOut(o, G)
      PROVE  bag' \in [Player -> [Good -> Nat]] /\ spilled' \subseteq Item
    <2>1. PICK refused \in SUBSET (G \cap Item) : Received(o, G \ refused) /\ spilled' = spilled \cup refused
        BY <1>h DEF HandOut
    <2>2. bag' = [bag EXCEPT ![o] = [g \in Good |-> Gained(@[g], g, G \ refused)]]
        BY <2>1 DEF Received
    <2>3. \A H : \A n \in Nat, g \in Good : Gained(n, g, H) \in Nat
        BY DEF Gained
    <2>4. bag' \in [Player -> [Good -> Nat]]
        BY ONLY <1>0, <2>2, <2>3 DEF Typed
    <2>5. spilled' \subseteq Item
        BY ONLY <1>0, <2>1 DEF Typed
    <2> QED BY ONLY <2>4, <2>5
<1>15. ASSUME NEW p \in Player, Give(p) PROVE IndInv'
    <2>1. bag' \in [Player -> [Good -> Nat]] /\ spilled' \subseteq Item
        BY <1>15, <1>h DEF Give
    <2>2. Typed' /\ OwnTrade'
        BY <1>15, <1>0, <2>1 DEF Give, Typed, OwnTrade
    <2> QED BY <1>15, <2>2, Programs, OrdinaryStep DEF Give, At
<1>16. ASSUME NEW p \in Player, Empty(p) PROVE IndInv'
    <2>1. Typed' /\ OwnTrade'
        BY <1>16, <1>0 DEF Empty, Typed, OwnTrade
    <2> QED BY <1>16, <2>1, Programs, OrdinaryStep DEF Empty, At
<1>17. ASSUME NEW p \in Player, Return(p) PROVE IndInv'
    <2>1. bag' \in [Player -> [Good -> Nat]] /\ spilled' \subseteq Item
        BY <1>17, <1>h DEF Return
    <2>2. Typed' /\ OwnTrade'
        BY <1>17, <1>0, <2>1 DEF Return, Typed, OwnTrade
    <2> QED BY <1>17, <2>2, Programs, OrdinaryStep DEF Return, At
<1>18. ASSUME NEW p \in Player, Clear(p) PROVE IndInv'
    <2>1. Typed' /\ OwnTrade'
        BY <1>18, <1>0 DEF Clear, Typed, OwnTrade
    <2> QED BY <1>18, <2>1, Programs, OrdinaryStep DEF Clear, At
<1>19. ASSUME NEW p \in Player, Close(p) PROVE IndInv'
    <2>1. Typed' /\ OwnTrade'
        <3>1. trade' = [trade EXCEPT ![chr[This(p)]] = None] /\ None \in 0..made
            BY <1>19, <1>0 DEF Close, Typed, None
        <3>2. trade' \in [Player -> 0..made] /\ \A q \in Player : trade'[q] \in {trade[q], None}
            BY ONLY <1>0, <3>1 DEF Typed
        <3>3. astray' \subseteq Good
            <4> DEFINE now == trade[chr[This(p)]]
            <4>1. chr[This(p)] \in Player
                <5>1. This(p) \in 1..made
                    BY <1>19, Current DEF Close, At
                <5>2. This(p) \in Trade
                    BY <1>0, <5>1, TradesAssumption DEF Typed, Trade
                <5> QED BY <1>0, <5>2 DEF Typed
            <4>2. now \in 0..made
                BY <1>0, <4>1 DEF Typed
            <4>3. now # None => items[now] \subseteq Good
                BY <1>0, <4>2, TradesAssumption DEF Typed, Trade, None
            <4>4. astray' = astray \cup IF now \notin {This(p), None} THEN items[now] ELSE {}
                BY <1>19 DEF Close
            <4> HIDE DEF now
            <4> QED BY ONLY <1>0, <4>3, <4>4 DEF Typed
        <3> QED BY <1>19, <1>0, <3>2, <3>3 DEF Close, Typed, OwnTrade
    <2> QED BY <1>19, <2>1, Programs, OrdinaryStep DEF Close, At
<1>20. ASSUME UNCHANGED vars PROVE IndInv'
    <2>1. Typed' /\ OwnTrade'
        BY <1>20, <1>0 DEF vars, Typed, OwnTrade
    <2>2. \A q \in Player : Sound(q)' = Sound(q)
        BY <1>20 DEF vars, Sound, Line
    <2>3. SoundPrograms'
        BY <1>20, <1>0, <2>2 DEF vars, SoundPrograms, Line
    <2> QED BY ONLY <2>1, <2>3 DEF IndInv, TypeOK, Typed, SoundPrograms
<1> QED BY <1>1, <1>2, <1>3, <1>4, <1>5, <1>6, <1>7, <1>8, <1>9, <1>10, <1>11, <1>12,
           <1>13, <1>14, <1>15, <1>16, <1>17, <1>18, <1>19, <1>20 DEF Next, Call, Statement

(* In every reachable state the programs of the sessions are sound.        *)
THEOREM IndInvHolds == Spec => []IndInv
BY InitIndInv, NextIndInv, PTL DEF Spec

(* The variables of MapleTrade keep their types.                           *)
THEOREM TypeCorrect == Spec => []TypeOK
BY IndInvHolds, PTL DEF IndInv

(* A step leaves a confirmed offer nobody settles as it is.                *)
LEMMA OfferKept ==
    ASSUME IndInv, [Next]_vars, NEW t \in Trade, locked[t], t \notin settled
    PROVE  items'[t] = items[t] /\ locked'[t]
<1>0. Typed
    BY IndInvParts
<1>1. ASSUME NEW p \in Player, addItem(p) PROVE items'[t] = items[t]
    <2>1. ~locked[This(p)]
        BY <1>1, Current DEF addItem, At
    <2> QED BY <1>0, <1>1, <2>1 DEF addItem, Typed
<1>2. ASSUME NEW p \in Player, Clear(p) PROVE items'[t] = items[t]
    <2>1. This(p) \in settled
        BY <1>2, Current DEF Clear, At
    <2> QED BY <1>0, <1>2, <2>1 DEF Clear, Typed
<1>3. items'[t] = items[t]
    BY <1>1, <1>2 DEF Next, vars, fields, Call, Statement, startTrade, inviteTrade, setItems, completeTrade,
        cancelTrade, declineTrade, Start, Offer, TooLate, Answer, Copy, FirstToConfirm, SecondToConfirm,
        Give, Empty, Return, Close
<1>4. locked'[t]
    BY <1>0 DEF Typed, Next, vars, fields, Call, Statement, startTrade, inviteTrade, setItems, completeTrade,
        cancelTrade, declineTrade, Start, Offer, TooLate, Answer, addItem, Copy, FirstToConfirm, SecondToConfirm,
        Give, Empty, Return, Clear, Close
<1> QED BY <1>3, <1>4

(* What a player has confirmed, completeTrade's lock, stays as it is until *)
(* somebody begins to settle it.                                           *)
THEOREM ConfirmedOffersStay == Spec => OffersStayAsConfirmed
<1>1. IndInv /\ [Next]_vars =>
          [\A t \in Trade : locked[t] /\ t \notin settled => items'[t] = items[t] /\ locked'[t]]_vars
    BY OfferKept
<1> QED BY <1>1, IndInvHolds, PTL DEF Spec, OffersStayAsConfirmed
=============================================================================
