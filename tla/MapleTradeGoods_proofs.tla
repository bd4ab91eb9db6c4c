----------------------- MODULE MapleTradeGoods_proofs -----------------------
(***************************************************************************)
(* Proofs that trades neither double nor lose goods, for any number of     *)
(* players, goods and trades.  They are about histories in which no trade  *)
(* was settled twice and no invitations crossed.                           *)
(*                                                                         *)
(* The invariant comes in layers, each resting on those before it: who is  *)
(* whose partner; who is settling what; what a copied offer still stands   *)
(* for; and where each good is, which no two places can be.  That it is in *)
(* some place rests on a further layer: what a confirmation still under    *)
(* way will do, and which trades are still open.                           *)
(***************************************************************************)
EXTENDS MapleTrade_proofs

(* Statements with operands out of any state. *)
AnyLine == Kind \X Nat \X (Good \cup Player \cup Nat)

LinesOf(s) == {s[i] : i \in 1..Len(s)}
Due(p) == LinesOf(todo[p])
Rest(p) == IF todo[p] = <<>> THEN <<>> ELSE Tail(todo[p])
Pending(kind, t) == \E p \in Player : \E s \in Due(p) : s[1] = kind /\ s[2] = t

(* A step of session p replaces the statement it is at, if any, by others. *)
Runs(p, new) == todo' = [todo EXCEPT ![p] = new \o Rest(p)]

(* Goods are returned or given once, before the list they are taken from   *)
(* is emptied.                                                             *)
MayPrecede(a, b) ==
    /\ a[1] = "put" => b[1] # "put"
    /\ a[1] \in {"return", "clear"} /\ b[1] = "return" => a[2] # b[2]
    /\ a[1] \in {"give", "empty"} /\ b[1] = "give" => a[2] # b[2]
Tidy(s) == \A i, j \in 1..Len(s) : i < j => MayPrecede(s[i], s[j])

-----------------------------------------------------------------------------
(* Sequences of statements.                                                *)

LEMMA LinesOfSeq ==
    ASSUME NEW S, NEW s \in Seq(S)
    PROVE  LinesOf(s) \subseteq S
BY DEF LinesOf

LEMMA LinesOfFew ==
    /\ LinesOf(<<>>) = {}
    /\ \A a : LinesOf(<<a>>) = {a}
    /\ \A a, b : LinesOf(<<a, b>>) = {a, b}
<1>1. \A a : LinesOf(<<a>>) = {a}
    <2> TAKE a
    <2>1. Len(<<a>>) = 1 /\ <<a>>[1] = a
        OBVIOUS
    <2> QED BY <2>1 DEF LinesOf
<1>2. \A a, b : LinesOf(<<a, b>>) = {a, b}
    <2> TAKE a, b
    <2>1. Len(<<a, b>>) = 2 /\ <<a, b>>[1] = a /\ <<a, b>>[2] = b /\ 1..2 = {1, 2}
        OBVIOUS
    <2> QED BY <2>1 DEF LinesOf
<1>3. LinesOf(<<>>) = {}
    BY DEF LinesOf
<1> QED BY <1>1, <1>2, <1>3

LEMMA LinesOfConcat ==
    ASSUME NEW S, NEW s \in Seq(S), NEW t \in Seq(S)
    PROVE  LinesOf(s \o t) = LinesOf(s) \cup LinesOf(t)
<1>1. /\ Len(s) \in Nat /\ Len(t) \in Nat /\ Len(s \o t) = Len(s) + Len(t)
      /\ \A i \in 1..(Len(s) + Len(t)) : (s \o t)[i] = IF i <= Len(s) THEN s[i] ELSE t[i - Len(s)]
    BY ConcatProperties, LenProperties
<1>2. ASSUME NEW x \in LinesOf(s \o t) PROVE x \in LinesOf(s) \cup LinesOf(t)
    <2>1. PICK i \in 1..(Len(s) + Len(t)) : x = (s \o t)[i]
        BY <1>1 DEF LinesOf
    <2>2. CASE i <= Len(s)
        BY <1>1, <2>1, <2>2 DEF LinesOf
    <2>3. CASE i > Len(s)
        <3>1. i - Len(s) \in 1..Len(t) /\ x = t[i - Len(s)]
            BY <1>1, <2>1, <2>3
        <3> QED BY <3>1 DEF LinesOf
    <2> QED BY <1>1, <2>1, <2>2, <2>3
<1>3. ASSUME NEW x \in LinesOf(s) PROVE x \in LinesOf(s \o t)
    <2>1. PICK i \in 1..Len(s) : x = s[i]
        BY DEF LinesOf
    <2>2. i \in 1..(Len(s) + Len(t)) /\ x = (s \o t)[i]
        BY <1>1, <2>1
    <2> QED BY <1>1, <2>2 DEF LinesOf
<1>4. ASSUME NEW x \in LinesOf(t) PROVE x \in LinesOf(s \o t)
    <2>1. PICK i \in 1..Len(t) : x = t[i]
        BY DEF LinesOf
    <2>2. i + Len(s) \in 1..(Len(s) + Len(t)) /\ x = (s \o t)[i + Len(s)]
        BY <1>1, <2>1
    <2> QED BY <1>1, <2>2 DEF LinesOf
<1> QED BY <1>2, <1>3, <1>4

LEMMA LinesOfTail ==
    ASSUME NEW S, NEW s \in Seq(S), s # <<>>
    PROVE  LinesOf(s) = {Head(s)} \cup LinesOf(Tail(s))
<1>1. /\ Len(s) \in Nat \ {0} /\ Head(s) = s[1] /\ Len(Tail(s)) = Len(s) - 1
      /\ \A i \in 1..(Len(s) - 1) : Tail(s)[i] = s[i + 1]
    BY HeadTailProperties, EmptySeq, LenProperties
<1>2. ASSUME NEW x \in LinesOf(s) PROVE x \in {Head(s)} \cup LinesOf(Tail(s))
    <2>1. PICK i \in 1..Len(s) : x = s[i]
        BY DEF LinesOf
    <2>2. CASE i # 1
        <3>1. i - 1 \in 1..(Len(s) - 1) /\ x = Tail(s)[i - 1]
            BY <1>1, <2>1, <2>2
        <3> QED BY <1>1, <3>1 DEF LinesOf
    <2> QED BY <1>1, <2>1, <2>2
<1>3. ASSUME NEW x \in LinesOf(Tail(s)) PROVE x \in LinesOf(s)
    <2>1. PICK i \in 1..(Len(s) - 1) : x = Tail(s)[i]
        BY <1>1 DEF LinesOf
    <2>2. i + 1 \in 1..Len(s) /\ x = s[i + 1]
        BY <1>1, <2>1
    <2> QED BY <2>2 DEF LinesOf
<1>4. Head(s) \in LinesOf(s)
    BY <1>1 DEF LinesOf
<1> QED BY <1>2, <1>3, <1>4

LEMMA TidyFew ==
    /\ Tidy(<<>>)
    /\ \A a : Tidy(<<a>>)
    /\ \A a, b : MayPrecede(a, b) => Tidy(<<a, b>>)
<1>1. \A a : Tidy(<<a>>)
    <2> TAKE a
    <2>1. Len(<<a>>) = 1
        OBVIOUS
    <2> QED BY <2>1 DEF Tidy
<1>2. \A a, b : MayPrecede(a, b) => Tidy(<<a, b>>)
    <2> TAKE a, b
    <2>1. Len(<<a, b>>) = 2 /\ <<a, b>>[1] = a /\ <<a, b>>[2] = b
        OBVIOUS
    <2>2. \A i, j \in 1..2 : i < j => i = 1 /\ j = 2
        OBVIOUS
    <2> HIDE DEF MayPrecede
    <2> QED BY <2>1, <2>2 DEF Tidy
<1>3. Tidy(<<>>)
    BY DEF Tidy
<1> QED BY <1>1, <1>2, <1>3

LEMMA TidyConcat ==
    ASSUME NEW S, NEW s \in Seq(S), NEW t \in Seq(S), Tidy(s), Tidy(t),
           \A a \in LinesOf(s), b \in LinesOf(t) : MayPrecede(a, b)
    PROVE  Tidy(s \o t)
<1>1. /\ Len(s) \in Nat /\ Len(t) \in Nat /\ Len(s \o t) = Len(s) + Len(t)
      /\ \A i \in 1..(Len(s) + Len(t)) : (s \o t)[i] = IF i <= Len(s) THEN s[i] ELSE t[i - Len(s)]
    BY ConcatProperties, LenProperties
<1> SUFFICES ASSUME NEW i \in 1..(Len(s) + Len(t)), NEW j \in 1..(Len(s) + Len(t)), i < j
             PROVE  MayPrecede((s \o t)[i], (s \o t)[j])
    BY <1>1 DEF Tidy
<1>2. CASE j <= Len(s)
    <2>1. i \in 1..Len(s) /\ j \in 1..Len(s) /\ (s \o t)[i] = s[i] /\ (s \o t)[j] = s[j]
        BY <1>1, <1>2
    <2> QED BY <2>1 DEF Tidy
<1>3. CASE i > Len(s)
    <2>1. i - Len(s) \in 1..Len(t) /\ j - Len(s) \in 1..Len(t) /\ i - Len(s) < j - Len(s)
          /\ (s \o t)[i] = t[i - Len(s)] /\ (s \o t)[j] = t[j - Len(s)]
        BY <1>1, <1>3
    <2> QED BY <2>1 DEF Tidy
<1>4. CASE i <= Len(s) /\ j > Len(s)
    <2>1. i \in 1..Len(s) /\ j - Len(s) \in 1..Len(t) /\ (s \o t)[i] = s[i] /\ (s \o t)[j] = t[j - Len(s)]
        BY <1>1, <1>4
    <2> QED BY <2>1 DEF LinesOf
<1> QED BY <1>1, <1>2, <1>3, <1>4

LEMMA TidyTail ==
    ASSUME NEW S, NEW s \in Seq(S), s # <<>>, Tidy(s)
    PROVE  Tidy(Tail(s)) /\ \A b \in LinesOf(Tail(s)) : MayPrecede(Head(s), b)
<1>1. /\ Len(s) \in Nat \ {0} /\ Head(s) = s[1] /\ Len(Tail(s)) = Len(s) - 1
      /\ \A i \in 1..(Len(s) - 1) : Tail(s)[i] = s[i + 1]
    BY HeadTailProperties, EmptySeq, LenProperties
<1>2. Tidy(Tail(s))
    <2> SUFFICES ASSUME NEW i \in 1..(Len(s) - 1), NEW j \in 1..(Len(s) - 1), i < j
                 PROVE  MayPrecede(Tail(s)[i], Tail(s)[j])
        BY <1>1 DEF Tidy
    <2>1. i + 1 \in 1..Len(s) /\ j + 1 \in 1..Len(s) /\ i + 1 < j + 1
          /\ Tail(s)[i] = s[i + 1] /\ Tail(s)[j] = s[j + 1]
        BY <1>1
    <2> QED BY <2>1 DEF Tidy
<1>3. ASSUME NEW b \in LinesOf(Tail(s)) PROVE MayPrecede(Head(s), b)
    <2>1. PICK i \in 1..(Len(s) - 1) : b = Tail(s)[i]
        BY <1>1 DEF LinesOf
    <2>2. 1 \in 1..Len(s) /\ i + 1 \in 1..Len(s) /\ 1 < i + 1 /\ b = s[i + 1]
        BY <1>1, <2>1
    <2> QED BY <1>1, <2>2 DEF Tidy
<1> QED BY <1>2, <1>3

-----------------------------------------------------------------------------
(* Programs.                                                               *)

LEMMA DueTyped ==
    ASSUME IndInv, NEW p \in Player
    PROVE  /\ todo \in [Player -> Seq(AnyLine)] /\ todo[p] \in Seq(AnyLine) /\ Rest(p) \in Seq(AnyLine)
           /\ Due(p) \subseteq Sound(p)
           /\ \A s \in Due(p) : s[1] \notin {"start", "offer", "answer"} => s[2] \in 1..made
<1>1. made \in Nat /\ todo \in [Player -> Seq(Line)] /\ todo[p] \in Seq(Sound(p))
    BY DEF IndInv, TypeOK
<1>2. Line \subseteq AnyLine
    BY <1>1 DEF Line, AnyLine
<1>3. Seq(Line) \subseteq Seq(AnyLine)
    BY <1>2, SeqMonotonic
<1>4. Rest(p) \in Seq(AnyLine)
    BY <1>1, <1>3, HeadTailProperties, EmptySeq DEF Rest
<1>5. Due(p) \subseteq Sound(p)
    BY <1>1, LinesOfSeq DEF Due
<1>6. \A s \in Due(p) : s[1] \notin {"start", "offer", "answer"} => s[2] \in 1..made
    <2> SUFFICES ASSUME NEW s \in Due(p), s[1] \notin {"start", "offer", "answer"} PROVE s[2] \in 1..made
        OBVIOUS
    <2>1. s \in Line /\ s[2] # None
        BY <1>5 DEF Sound
    <2>2. s[2] \in 0..made
        BY <2>1 DEF Line
    <2> QED BY <1>1, <2>1, <2>2 DEF None
<1> QED BY <1>1, <1>3, <1>4, <1>5, <1>6

LEMMA RunsLines ==
    ASSUME IndInv, NEW p \in Player, NEW new \in Seq(AnyLine), Runs(p, new)
    PROVE  /\ Due(p)' = LinesOf(new) \cup LinesOf(Rest(p))
           /\ LinesOf(Rest(p)) \subseteq Due(p)
           /\ \A q \in Player : q # p => Due(q)' = Due(q) /\ todo'[q] = todo[q]
           /\ todo[p] # <<>> => Head(todo[p]) \in Due(p) /\ Due(p) = {Head(todo[p])} \cup LinesOf(Rest(p))
           /\ todo[p] = <<>> => Due(p) = {} /\ LinesOf(Rest(p)) = {}
<1>1. todo \in [Player -> Seq(AnyLine)] /\ todo[p] \in Seq(AnyLine) /\ Rest(p) \in Seq(AnyLine)
    BY DueTyped
<1>2. todo'[p] = new \o Rest(p) /\ \A q \in Player : q # p => todo'[q] = todo[q]
    BY <1>1 DEF Runs
<1>3. Due(p)' = LinesOf(new) \cup LinesOf(Rest(p))
    BY <1>1, <1>2, LinesOfConcat DEF Due
<1>4. CASE todo[p] # <<>>
    <2>1. LinesOf(todo[p]) = {Head(todo[p])} \cup LinesOf(Tail(todo[p]))
        BY <1>1, <1>4, LinesOfTail
    <2> QED BY <1>2, <1>3, <1>4, <2>1 DEF Due, Rest
<1>5. CASE todo[p] = <<>>
    BY <1>2, <1>3, <1>5, LinesOfFew DEF Due, Rest
<1> QED BY <1>4, <1>5

LEMMA BeginRuns ==
    ASSUME NEW p \in Player, Idle(p), NEW call \in Seq(AnyLine), Begin(p, call)
    PROVE  Runs(p, call)
<1>1. call \o <<>> = call
    BY ConcatEmptySeq
<1> QED BY <1>1 DEF Idle, Begin, Runs, Rest

LEMMA ContinueRuns ==
    ASSUME NEW p \in Player, todo[p] # <<>>, NEW new, Continue(p, new)
    PROVE  Runs(p, new)
BY DEF Continue, Runs, Rest

LEMMA OneLine ==
    \A s \in AnyLine : /\ <<s>> \in Seq(AnyLine) /\ LinesOf(<<s>>) = {s} /\ Tidy(<<s>>)
                       /\ <<>> \in Seq(AnyLine) /\ LinesOf(<<>>) = {} /\ Tidy(<<>>)
BY Programs, LinesOfFew, TidyFew

(* The programs of the calls and the statements that do not settle.        *)
LEMMA SmallPrograms ==
    ASSUME IndInv, NEW p \in Player
    PROVE  /\ startTrade(p) => Runs(p, <<Do("start", None)>>) /\ Do("start", None) \in AnyLine
           /\ \A q \in Player : inviteTrade(p, q) =>
                 Runs(p, <<<<"offer", trade[p], q>>>>) /\ <<"offer", trade[p], q>> \in AnyLine
           /\ \A g \in Good : setItems(p, g) =>
                 Runs(p, <<<<"put", trade[p], g>>>>) /\ <<"put", trade[p], g>> \in AnyLine
           /\ completeTrade(p) =>
                 LET t == trade[p]
                     call == <<<<"copy", t, partner[t]>>, <<"settle", t, partner[t]>>>>
                 IN Runs(p, call) /\ call \in Seq(AnyLine)
                    /\ LinesOf(call) = {<<"copy", t, partner[t]>>, <<"settle", t, partner[t]>>} /\ Tidy(call)
           /\ Offer(p) => Runs(p, <<<<"answer", None, Operand(p)>>>>) /\ <<"answer", None, Operand(p)>> \in AnyLine
           /\ \/ Start(p) \/ Answer(p) \/ addItem(p) \/ Copy(p) \/ FirstToConfirm(p) \/ Give(p)
              \/ Empty(p) \/ Return(p) \/ Clear(p) \/ Close(p)
              => Runs(p, <<>>)
<1>1. made \in Nat /\ trade \in [Player -> 0..made] /\ partner \in [Trade -> 0..made]
    BY DEF IndInv, TypeOK
<1>2. trade[p] \in Nat
    BY <1>1
<1>3. startTrade(p) => Runs(p, <<Do("start", None)>>) /\ Do("start", None) \in AnyLine
    <2>1. Do("start", None) \in AnyLine
        BY DEF Do, AnyLine, Kind, None
    <2> QED BY <2>1, OneLine, BeginRuns DEF startTrade
<1>4. \A q \in Player : inviteTrade(p, q) =>
          Runs(p, <<<<"offer", trade[p], q>>>>) /\ <<"offer", trade[p], q>> \in AnyLine
    <2> TAKE q \in Player
    <2>1. <<"offer", trade[p], q>> \in AnyLine
        BY <1>2 DEF AnyLine, Kind
    <2> QED BY <2>1, OneLine, BeginRuns DEF inviteTrade
<1>5. \A g \in Good : setItems(p, g) =>
          Runs(p, <<<<"put", trade[p], g>>>>) /\ <<"put", trade[p], g>> \in AnyLine
    <2> TAKE g \in Good
    <2>1. <<"put", trade[p], g>> \in AnyLine
        BY <1>2 DEF AnyLine, Kind
    <2> QED BY <2>1, OneLine, BeginRuns DEF setItems
<1>6. ASSUME completeTrade(p)
      PROVE  LET t == trade[p]
                 call == <<<<"copy", t, partner[t]>>, <<"settle", t, partner[t]>>>>
             IN Runs(p, call) /\ call \in Seq(AnyLine)
                /\ LinesOf(call) = {<<"copy", t, partner[t]>>, <<"settle", t, partner[t]>>} /\ Tidy(call)
    <2> DEFINE t == trade[p]
               call == <<<<"copy", t, partner[t]>>, <<"settle", t, partner[t]>>>>
    <2>1. t \in Nat /\ partner[t] \in Nat
        <3>1. t \in 0..made /\ t # None /\ made \in 0..MaxTrades
            BY <1>1, <1>6 DEF completeTrade, IndInv, TypeOK
        <3>2. t \in Trade
            BY <3>1, TradesAssumption DEF Trade, None
        <3> QED BY <1>1, <1>2, <3>2
    <2>2. <<"copy", t, partner[t]>> \in AnyLine /\ <<"settle", t, partner[t]>> \in AnyLine
        BY <2>1 DEF AnyLine, Kind
    <2>3. call \in Seq(AnyLine)
        BY <2>2, Programs
    <2>4. MayPrecede(<<"copy", t, partner[t]>>, <<"settle", t, partner[t]>>)
        BY DEF MayPrecede
    <2>5. Idle(p) /\ Begin(p, call)
        BY <1>6 DEF completeTrade
    <2>6. Runs(p, call)
        BY ONLY <2>3, <2>5, p \in Player, BeginRuns
    <2> QED BY <2>3, <2>4, <2>6, LinesOfFew, TidyFew
<1>7. Offer(p) => Runs(p, <<<<"answer", None, Operand(p)>>>>) /\ <<"answer", None, Operand(p)>> \in AnyLine
    <2> SUFFICES ASSUME Offer(p)
                 PROVE  Runs(p, <<<<"answer", None, Operand(p)>>>>) /\ <<"answer", None, Operand(p)>> \in AnyLine
        OBVIOUS
    <2>1. todo[p] # <<>> /\ Continue(p, <<<<"answer", None, Operand(p)>>>>) /\ Operand(p) \in Player
        BY Current DEF Offer, At
    <2> QED BY <2>1, ContinueRuns DEF AnyLine, Kind, None
<1>8. \/ Start(p) \/ Answer(p) \/ addItem(p) \/ Copy(p) \/ FirstToConfirm(p) \/ Give(p)
      \/ Empty(p) \/ Return(p) \/ Clear(p) \/ Close(p)
      => Runs(p, <<>>)
    <2> SUFFICES ASSUME \/ Start(p) \/ Answer(p) \/ addItem(p) \/ Copy(p) \/ FirstToConfirm(p) \/ Give(p)
                        \/ Empty(p) \/ Return(p) \/ Clear(p) \/ Close(p)
                 PROVE  Runs(p, <<>>)
        OBVIOUS
    <2>1. todo[p] # <<>> /\ Continue(p, <<>>)
        BY DEF Start, Answer, addItem, Copy, FirstToConfirm, Give, Empty, Return, Clear, Close, At
    <2> QED BY <2>1, ContinueRuns
<1> QED BY <1>3, <1>4, <1>5, <1>6, <1>7, <1>8
-----------------------------------------------------------------------------
(* Who is whose partner.                                                   *)

Fresh ==
    \A t \in Trade : t \notin 1..made =>
        items[t] = {} /\ exchange[t] = {} /\ partner[t] = None /\ ~locked[t]

Invitations == \A p \in Player : \A s \in Due(p) : s[1] \in {"offer", "answer"} => s[3] # p

(* A trade's partner is of another player, and has no other partner; no    *)
(* two trades have the same.                                               *)
Partners ==
    /\ \A t, u \in 1..made : partner[t] = u => chr[t] # chr[u] /\ partner[u] \in {None, t}
    /\ \A t, u \in 1..made : partner[t] = partner[u] /\ partner[t] # None => t = u
    /\ \A t \in 1..made : locked[t] => partner[t] # None

(* A trade whose invitation is out gets its partner next, or was closed.   *)
Unanswered ==
    \A t, u \in 1..made : partner[t] = u /\ partner[u] = None /\ trade[chr[u]] = u => At(chr[u], "answer")

Confirming == \A p \in Player : \A s \in Due(p) : s[1] \in {"copy", "settle"} => partner[s[2]] = s[3]

PairInv == Fresh /\ Invitations /\ Partners /\ Unanswered /\ Confirming

LEMMA TradesTyped ==
    ASSUME IndInv
    PROVE  /\ made \in Nat /\ made \in 0..MaxTrades /\ 1..made \subseteq Trade
           /\ \A t \in 1..made : chr[t] \in Player /\ partner[t] \in 0..made /\ locked[t] \in BOOLEAN
           /\ \A p \in Player : trade[p] \in 0..made /\ (trade[p] # None => trade[p] \in 1..made /\ chr[trade[p]] = p)
<1>1. made \in 0..MaxTrades /\ trade \in [Player -> 0..made] /\ chr \in [Trade -> Player]
      /\ partner \in [Trade -> 0..made] /\ locked \in [Trade -> BOOLEAN] /\ OwnTrade
    BY DEF IndInv, TypeOK
<1>2. made \in Nat /\ 1..made \subseteq Trade
    BY <1>1, TradesAssumption DEF Trade
<1> QED BY <1>1, <1>2 DEF OwnTrade, None

(* Steps that leave the trades and their partners as they are.             *)
LEMMA SamePartners ==
    ASSUME IndInv, PairInv, NEW p \in Player, NEW new \in Seq(AnyLine), Runs(p, new),
           UNCHANGED <<made, chr, partner>>,
           \A q \in Player : trade'[q] \in {trade[q], None},
           \A t \in Trade : t \notin 1..made => items'[t] = items[t] /\ exchange'[t] = exchange[t] /\ locked'[t] = locked[t],
           \A t \in 1..made : locked'[t] => partner[t] # None,
           ~At(p, "answer"),
           \A s \in LinesOf(new) : /\ s[1] \in {"offer", "answer"} => s[3] # p
                                   /\ s[1] \in {"copy", "settle"} => partner[s[2]] = s[3]
    PROVE  PairInv'
<1>0. /\ Due(p)' = LinesOf(new) \cup LinesOf(Rest(p)) /\ LinesOf(Rest(p)) \subseteq Due(p)
      /\ \A q \in Player : q # p => Due(q)' = Due(q) /\ todo'[q] = todo[q]
    BY RunsLines
<1>1. Fresh'
    BY DEF PairInv, Fresh
<1>2. Invitations'
    BY <1>0 DEF PairInv, Invitations
<1>3. Partners'
    BY DEF PairInv, Partners
<1>4. Unanswered'
    <2> SUFFICES ASSUME NEW t \in 1..made, NEW u \in 1..made, partner[t] = u, partner[u] = None, trade'[chr[u]] = u
                 PROVE  At(chr[u], "answer")'
        BY DEF Unanswered
    <2>1. chr[u] \in Player /\ u # None
        BY TradesTyped DEF None
    <2>2. At(chr[u], "answer")
        BY <2>1 DEF PairInv, Unanswered
    <2>3. chr[u] # p
        BY <2>2
    <2> QED BY <1>0, <2>1, <2>2, <2>3 DEF At
<1>5. Confirming'
    BY <1>0 DEF PairInv, Confirming
<1> QED BY <1>1, <1>2, <1>3, <1>4, <1>5 DEF PairInv

(* Steps that make a trade: its partner, if any, is an unpaired trade of   *)
(* the session that made it, which will answer.                            *)
LEMMA OnePartnerMore ==
    ASSUME IndInv, PairInv, NEW p \in Player, NEW o \in Player, NEW with \in 0..made, New(o, with),
           NEW new \in Seq(AnyLine), Runs(p, new),
           UNCHANGED <<locked, items, exchange>>,
           ~At(p, "answer"),
           \A s \in LinesOf(new) : s[1] \notin {"copy", "settle"} /\ (s[1] \in {"offer", "answer"} => s[3] # p),
           with # None => /\ partner[with] = None /\ \A t \in 1..made : partner[t] # with
                          /\ chr[with] = p /\ o # p /\ At(p, "answer")'
    PROVE  PairInv'
<1>0. /\ Due(p)' = LinesOf(new) \cup LinesOf(Rest(p)) /\ LinesOf(Rest(p)) \subseteq Due(p)
      /\ \A q \in Player : q # p => Due(q)' = Due(q) /\ todo'[q] = todo[q]
    BY RunsLines
<1>t. /\ made \in Nat /\ made \in 0..MaxTrades /\ 1..made \subseteq Trade
      /\ \A t \in 1..made : chr[t] \in Player /\ partner[t] \in 0..made
    BY TradesTyped
<1> DEFINE n == made + 1
<1>n. made' = n /\ n \in Trade /\ n \notin 1..made /\ n \notin 0..made /\ 1..n = 1..made \cup {n}
    BY <1>t, TradesAssumption DEF New, Trade
<1>f. chr \in [Trade -> Player] /\ partner \in [Trade -> 0..made] /\ trade \in [Player -> 0..made]
    BY DEF IndInv, TypeOK
<1>u. /\ \A t \in 1..made : chr'[t] = chr[t] /\ partner'[t] = partner[t]
      /\ chr'[n] = o /\ partner'[n] = with
      /\ \A q \in Player : trade'[q] \in {trade[q], n}
    BY <1>n, <1>t, <1>f DEF New
<1>l. ~locked[n]
    BY <1>n DEF PairInv, Fresh
<1> HIDE DEF n
<1>1. Fresh'
    <2> SUFFICES ASSUME NEW t \in Trade, t \notin 1..n
                 PROVE  items[t] = {} /\ exchange[t] = {} /\ partner'[t] = None /\ ~locked[t]
        BY <1>n DEF Fresh
    <2>1. t \notin 1..made /\ t # n
        BY <1>n
    <2>2. partner'[t] = partner[t]
        BY <2>1, <1>n, <1>f DEF New
    <2> QED BY <2>1, <2>2 DEF PairInv, Fresh
<1>2. Invitations'
    BY <1>0 DEF PairInv, Invitations
<1>3. \A t, u \in 1..n : partner'[t] = u => chr'[t] # chr'[u] /\ partner'[u] \in {None, t}
    <2> SUFFICES ASSUME NEW t \in 1..n, NEW u \in 1..n, partner'[t] = u
                 PROVE  chr'[t] # chr'[u] /\ partner'[u] \in {None, t}
        OBVIOUS
    <2>1. u \in 1..made
        BY <1>n, <1>t, <1>u
    <2>2. CASE t = n
        BY <2>1, <2>2, <1>u, <1>t DEF None
    <2>3. CASE t # n
        <3>1. t \in 1..made
            BY <1>n, <2>3
        <3> QED BY <2>1, <3>1, <1>u DEF PairInv, Partners
    <2> QED BY <2>2, <2>3
<1>4. \A t, u \in 1..n : partner'[t] = partner'[u] /\ partner'[t] # None => t = u
    <2> SUFFICES ASSUME NEW t \in 1..n, NEW u \in 1..n, partner'[t] = partner'[u], partner'[t] # None
                 PROVE  t = u
        OBVIOUS
    <2>1. CASE t # n /\ u # n
        <3>1. t \in 1..made /\ u \in 1..made
            BY <1>n, <2>1
        <3> QED BY <3>1, <1>u DEF PairInv, Partners
    <2>2. CASE t = n /\ u # n
        <3>1. u \in 1..made
            BY <1>n, <2>2
        <3> QED BY <3>1, <2>2, <1>u
    <2>3. CASE t # n /\ u = n
        <3>1. t \in 1..made
            BY <1>n, <2>3
        <3> QED BY <3>1, <2>3, <1>u
    <2> QED BY <2>1, <2>2, <2>3
<1>5. \A t \in 1..n : locked[t] => partner'[t] # None
    BY <1>n, <1>u, <1>l DEF PairInv, Partners
<1>6. Partners'
    BY <1>3, <1>4, <1>5, <1>n DEF Partners
<1>7. Unanswered'
    <2> SUFFICES ASSUME NEW t \in 1..n, NEW u \in 1..n, partner'[t] = u, partner'[u] = None, trade'[chr'[u]] = u
                 PROVE  todo'[chr'[u]] # <<>> /\ Head(todo'[chr'[u]])[1] = "answer"
        BY <1>n DEF Unanswered, At
    <2>1. u \in 1..made /\ u # None
        BY <1>n, <1>t, <1>u DEF None
    <2>2. chr'[u] = chr[u] /\ chr[u] \in Player /\ partner[u] = None /\ trade[chr[u]] = u
        BY <2>1, <1>u, <1>t, <1>n
    <2>3. CASE t = n
        <3>1. chr[u] = p /\ At(p, "answer")'
            BY <2>1, <2>3, <1>u
        <3> QED BY <2>2, <3>1 DEF At
    <2>4. CASE t # n
        <3>1. t \in 1..made
            BY <1>n, <2>4
        <3>2. At(chr[u], "answer")
            BY <2>1, <2>2, <3>1, <1>u DEF PairInv, Unanswered
        <3>3. chr[u] # p
            BY <3>2
        <3> QED BY <1>0, <2>2, <3>2, <3>3 DEF At
    <2> QED BY <2>3, <2>4
<1>8. Confirming'
    <2> SUFFICES ASSUME NEW q \in Player, NEW s \in Due(q)', s[1] \in {"copy", "settle"}
                 PROVE  partner'[s[2]] = s[3]
        BY DEF Confirming
    <2>1. s \in Due(q)
        BY <1>0
    <2>2. s[2] \in 1..made
        BY <2>1, DueTyped
    <2> QED BY <2>1, <2>2, <1>u DEF PairInv, Confirming
<1> QED BY <1>1, <1>2, <1>6, <1>7, <1>8 DEF PairInv

LEMMA StartPairs == ASSUME IndInv, PairInv, NEW p \in Player, Start(p) PROVE PairInv'
<1>1. Runs(p, <<>>) /\ <<>> \in Seq(AnyLine) /\ LinesOf(<<>>) = {}
    BY SmallPrograms, OneLine, LinesOfFew, EmptySeq
<1>2. ~At(p, "answer") /\ New(p, None) /\ None \in 0..made /\ UNCHANGED <<locked, items, exchange>>
    BY TradesTyped DEF Start, At, None
<1> QED BY <1>1, <1>2, OnePartnerMore

LEMMA OfferPairs ==
    ASSUME IndInv, PairInv, NEW p \in Player, Offer(p), Orderly' PROVE PairInv'
<1> DEFINE new == <<<<"answer", None, Operand(p)>>>>
           u == trade[p]
<1>1. Runs(p, new) /\ new \in Seq(AnyLine) /\ LinesOf(new) = {<<"answer", None, Operand(p)>>}
    BY SmallPrograms, OneLine
<1>2. /\ ~At(p, "answer") /\ New(Operand(p), u) /\ u \in 0..made /\ UNCHANGED <<locked, items, exchange>>
      /\ Operand(p) \in Player /\ todo[p] # <<>> /\ Head(todo[p])[1] = "offer"
      /\ (u # None => u \in 1..made /\ chr[u] = p)
    BY TradesTyped, Current DEF Offer, At
<1>3. Operand(p) # p
    <2>1. Head(todo[p]) \in Due(p)
        BY <1>1, <1>2, RunsLines
    <2> QED BY <1>2, <2>1 DEF PairInv, Invitations, Operand
<1>4. At(p, "answer")'
    <2>1. todo'[p] = new \o Rest(p)
        BY <1>1, DueTyped DEF Runs
    <2>2. new \o Rest(p) # <<>> /\ Head(new \o Rest(p)) = <<"answer", None, Operand(p)>>
        <3>1. Rest(p) \in Seq(AnyLine) /\ Len(new) = 1 /\ new[1] = <<"answer", None, Operand(p)>>
            BY DueTyped
        <3>2. new \o Rest(p) \in Seq(AnyLine) /\ Len(new \o Rest(p)) = 1 + Len(Rest(p)) /\ (new \o Rest(p))[1] = new[1]
              /\ Len(Rest(p)) \in Nat
            BY ONLY <1>1, <3>1, ConcatProperties, LenProperties
        <3> HIDE DEF new
        <3> QED BY ONLY <3>1, <3>2, HeadTailProperties, EmptySeq
    <2> QED BY <2>1, <2>2 DEF At
<1>5. u # None => partner[u] = None /\ \A t \in 1..made : partner[t] # u
    <2> SUFFICES ASSUME u # None PROVE partner[u] = None /\ \A t \in 1..made : partner[t] # u
        OBVIOUS
    <2>1. partner[u] = None
        BY DEF Offer, Orderly, Paired
    <2> QED BY <1>2, <2>1 DEF PairInv, Unanswered
<1> HIDE DEF new, u
<1>6. \A s \in LinesOf(new) : s[1] \notin {"copy", "settle"} /\ (s[1] \in {"offer", "answer"} => s[3] # p)
    BY <1>1, <1>3
<1>7. u # None => /\ partner[u] = None /\ \A t \in 1..made : partner[t] # u
                  /\ chr[u] = p /\ Operand(p) # p /\ At(p, "answer")'
    BY <1>2, <1>3, <1>4, <1>5
<1> QED BY ONLY IndInv, PairInv, p \in Player, <1>1, <1>2, <1>6, <1>7, OnePartnerMore

LEMMA AnswerPairs ==
    ASSUME IndInv, PairInv, NEW p \in Player, Answer(p), Orderly' PROVE PairInv'
<1>0. /\ Runs(p, <<>>) /\ <<>> \in Seq(AnyLine) /\ LinesOf(<<>>) = {}
      /\ UNCHANGED <<made, trade, chr, locked, items, exchange>>
      /\ At(p, "answer") /\ Operand(p) \in Player /\ Head(todo[p]) \in Due(p)
    <2>1. Runs(p, <<>>) /\ <<>> \in Seq(AnyLine) /\ LinesOf(<<>>) = {}
        BY SmallPrograms, LinesOfFew, EmptySeq
    <2> QED BY <2>1, RunsLines, Current DEF Answer, At
<1>1. /\ LinesOf(Rest(p)) \subseteq Due(p) /\ Due(p)' = LinesOf(Rest(p))
      /\ \A q \in Player : q # p => Due(q)' = Due(q) /\ todo'[q] = todo[q]
    <2>1. /\ Due(p)' = LinesOf(<<>>) \cup LinesOf(Rest(p)) /\ LinesOf(Rest(p)) \subseteq Due(p)
          /\ \A q \in Player : q # p => Due(q)' = Due(q) /\ todo'[q] = todo[q]
        BY <1>0, RunsLines
    <2> QED BY <1>0, <2>1
<1>t. /\ \A t \in 1..made : chr[t] \in Player /\ partner[t] \in 0..made /\ t # None
      /\ \A q \in Player : trade[q] \in 0..made /\ (trade[q] # None => trade[q] \in 1..made /\ chr[trade[q]] = q)
    BY TradesTyped DEF None
<1>2. Invitations'
    BY <1>0, <1>1 DEF PairInv, Invitations
<1> DEFINE u == trade[p]
           w == trade[Operand(p)]
<1>3. CASE u = None \/ locked[u]
    <2>1. partner' = partner
        BY <1>3 DEF Answer
    <2>2. Fresh' /\ Partners'
        BY <1>0, <2>1 DEF PairInv, Fresh, Partners
    <2>3. Unanswered'
        <3> SUFFICES ASSUME NEW t \in 1..made, NEW v \in 1..made, partner[t] = v, partner[v] = None, trade[chr[v]] = v
                     PROVE  todo'[chr[v]] # <<>> /\ Head(todo'[chr[v]])[1] = "answer"
            BY <1>0, <2>1 DEF Unanswered, At
        <3>1. At(chr[v], "answer") /\ chr[v] \in Player
            BY <1>t DEF PairInv, Unanswered
        <3>2. chr[v] # p
            BY <1>3, <1>t DEF PairInv, Partners
        <3> QED BY <1>1, <3>1, <3>2 DEF At
    <2>4. Confirming'
        BY <1>0, <1>1, <2>1 DEF PairInv, Confirming
    <2> QED BY <1>2, <2>2, <2>3, <2>4 DEF PairInv
<1>4. CASE ~(u = None \/ locked[u])
    <2>1. partner' = [partner EXCEPT ![u] = w] /\ partner[u] = None /\ w # None /\ partner[w] = u
        BY <1>4 DEF Answer, Orderly, Paired, Met
    <2>2. u \in 1..made /\ w \in 1..made /\ chr[u] = p /\ chr[w] = Operand(p) /\ u # None
        BY <1>0, <1>4, <1>t, <2>1
    <2>3. Operand(p) # p
        BY <1>0 DEF PairInv, Invitations, At, Operand
    <2>4. partner'[u] = w /\ \A t \in Trade : t # u => partner'[t] = partner[t]
        <3>1. partner \in [Trade -> 0..made] /\ u \in Trade
            BY <2>2, TradesTyped DEF IndInv, TypeOK
        <3> QED BY <2>1, <3>1
    <2>p. 1..made \subseteq Trade
        BY TradesTyped
    <2> HIDE DEF u, w
    <2>5. Fresh'
        BY <1>0, <2>2, <2>4 DEF PairInv, Fresh
    <2>6. ASSUME NEW t \in 1..made, NEW v \in 1..made, partner'[t] = v
          PROVE  chr[t] # chr[v] /\ partner'[v] \in {None, t}
        <3>1. CASE t = u
            BY <2>1, <2>2, <2>3, <2>4, <2>6, <2>p, <3>1
        <3>2. CASE t # u /\ v = u
            <4>1. partner[t] = u
                BY <2>4, <2>6, <2>p, <3>2
            <4>2. t = w
                BY <2>1, <2>2, <4>1 DEF PairInv, Partners
            <4> QED BY <2>2, <2>3, <2>4, <3>2, <4>2
        <3>3. CASE t # u /\ v # u
            BY <2>4, <2>6, <2>p, <3>3 DEF PairInv, Partners
        <3> QED BY <3>1, <3>2, <3>3
    <2>7. ASSUME NEW t \in 1..made, NEW v \in 1..made, partner'[t] = partner'[v], partner'[t] # None
          PROVE  t = v
        <3>1. \A x \in 1..made : x # u => partner[x] # w
            <4> SUFFICES ASSUME NEW x \in 1..made, x # u, partner[x] = w PROVE FALSE
                OBVIOUS
            <4>1. partner[w] \in {None, x}
                BY <2>2 DEF PairInv, Partners
            <4> QED BY <2>1, <2>2, <4>1
        <3>2. CASE t = u /\ v # u
            BY <2>4, <2>7, <2>p, <3>1, <3>2
        <3>3. CASE v = u /\ t # u
            BY <2>4, <2>7, <2>p, <3>1, <3>3
        <3>4. CASE t # u /\ v # u
            BY <2>4, <2>7, <2>p, <3>4 DEF PairInv, Partners
        <3> QED BY <3>2, <3>3, <3>4
    <2>8. \A t \in 1..made : locked[t] => partner'[t] # None
        BY <2>1, <2>4, <2>p DEF PairInv, Partners
    <2>9. Partners'
        BY <1>0, <2>6, <2>7, <2>8 DEF Partners
    <2>10. Unanswered'
        <3> SUFFICES ASSUME NEW t \in 1..made, NEW v \in 1..made, partner'[t] = v, partner'[v] = None, trade[chr[v]] = v
                     PROVE  todo'[chr[v]] # <<>> /\ Head(todo'[chr[v]])[1] = "answer"
            BY <1>0 DEF Unanswered, At
        <3>1. v # u /\ partner[v] = None
            BY <2>1, <2>4, <2>p
        <3>2. t # u /\ partner[t] = v
            BY <2>1, <2>2, <2>4, <2>p, <3>1
        <3>3. At(chr[v], "answer") /\ chr[v] \in Player
            BY <1>t, <3>1, <3>2 DEF PairInv, Unanswered
        <3>4. chr[v] # p
            BY <3>1 DEF u
        <3> QED BY <1>1, <3>3, <3>4 DEF At
    <2>11. Confirming'
        <3> SUFFICES ASSUME NEW q \in Player, NEW s \in Due(q)', s[1] \in {"copy", "settle"}
                     PROVE  partner'[s[2]] = s[3]
            BY DEF Confirming
        <3>1. s \in Due(q)
            BY <1>1
        <3>2. s[2] \in 1..made /\ s[3] \in 1..made /\ partner[s[2]] = s[3]
            BY <3>1, DueTyped DEF PairInv, Confirming, Sound
        <3>3. s[2] # u
            BY <1>t, <2>1, <3>2
        <3> QED BY <2>4, <2>p, <3>2, <3>3
    <2> QED BY <1>2, <2>5, <2>9, <2>10, <2>11 DEF PairInv
<1> QED BY <1>3, <1>4

-----------------------------------------------------------------------------
(* The programs that settle trades.                                        *)

SettlingKind == {"return", "clear", "give", "empty", "close"}

(* A tidy program of statements of these kinds about these trades. *)
Block(s, K, T) == s \in Seq(AnyLine) /\ Tidy(s) /\ \A x \in LinesOf(s) : x[1] \in K /\ x[2] \in T

Joinable(s, K, T, t, L, U) ==
    /\ Block(s, K, T) /\ Block(t, L, U) /\ K \subseteq SettlingKind /\ L \subseteq SettlingKind
    /\ T \cap U = {} \/ L = {"close"}

LEMMA JoinedBlocks ==
    ASSUME NEW s, NEW K, NEW T, NEW t, NEW L, NEW U, Joinable(s, K, T, t, L, U)
    PROVE  Block(s \o t, K \cup L, T \cup U) /\ LinesOf(s \o t) = LinesOf(s) \cup LinesOf(t)
<1> USE DEF Joinable
<1>1. LinesOf(s \o t) = LinesOf(s) \cup LinesOf(t)
    BY LinesOfConcat DEF Block
<1>2. \A a \in LinesOf(s), b \in LinesOf(t) : MayPrecede(a, b)
    <2> SUFFICES ASSUME NEW a \in LinesOf(s), NEW b \in LinesOf(t) PROVE MayPrecede(a, b)
        OBVIOUS
    <2>1. a[1] \in SettlingKind /\ a[2] \in T /\ b[1] \in L /\ b[2] \in U
        BY DEF Block
    <2>2. a[1] # "put"
        BY <2>1 DEF SettlingKind
    <2> QED BY <2>1, <2>2 DEF MayPrecede
<1>3. Tidy(s \o t)
    BY <1>2, TidyConcat DEF Block
<1>4. s \o t \in Seq(AnyLine)
    BY ConcatProperties DEF Block
<1> QED BY <1>1, <1>3, <1>4 DEF Block

LEMMA PairBlock ==
    ASSUME NEW t \in Nat
    PROVE  /\ Block(Cancel(t), {"return", "clear"}, {t}) /\ LinesOf(Cancel(t)) = {Do("return", t), Do("clear", t)}
           /\ Block(CompleteTrade(t), {"give", "empty"}, {t})
           /\ LinesOf(CompleteTrade(t)) = {Do("give", t), Do("empty", t)}
           /\ Block(<<Do("close", t)>>, {"close"}, {t}) /\ LinesOf(<<Do("close", t)>>) = {Do("close", t)}
<1>1. \A k \in SettlingKind : Do(k, t) \in AnyLine /\ Do(k, t)[1] = k /\ Do(k, t)[2] = t
    BY DEF Do, AnyLine, Kind, SettlingKind, None
<1>2. MayPrecede(Do("return", t), Do("clear", t)) /\ MayPrecede(Do("give", t), Do("empty", t))
    BY DEF MayPrecede, Do
<1>3. Cancel(t) \in Seq(AnyLine) /\ CompleteTrade(t) \in Seq(AnyLine)
    BY <1>1, Programs DEF Cancel, CompleteTrade, SettlingKind
<1>4. /\ Tidy(Cancel(t)) /\ LinesOf(Cancel(t)) = {Do("return", t), Do("clear", t)}
      /\ Tidy(CompleteTrade(t)) /\ LinesOf(CompleteTrade(t)) = {Do("give", t), Do("empty", t)}
    BY <1>2, TidyFew, LinesOfFew DEF Cancel, CompleteTrade
<1>5. <<Do("close", t)>> \in Seq(AnyLine) /\ Tidy(<<Do("close", t)>>) /\ LinesOf(<<Do("close", t)>>) = {Do("close", t)}
    BY <1>1, OneLine DEF SettlingKind
<1> QED BY <1>1, <1>3, <1>4, <1>5 DEF Block, SettlingKind

(* Cancelling trades t and u and closing them in the one or the other way. *)
LEMMA CancelTwo ==
    ASSUME NEW t \in Nat, NEW u \in Nat, t # u
    PROVE  /\ LET s == Cancel(t) \o (Cancel(u) \o <<Do("close", u)>>) \o <<Do("close", t)>>
              IN Block(s, {"return", "clear", "close"}, {t, u}) /\ Do("return", t) \in LinesOf(s) /\ Do("return", u) \in LinesOf(s)
           /\ LET s == Cancel(t) \o <<Do("close", t)>> \o Cancel(u) \o <<Do("close", u)>>
              IN Block(s, {"return", "clear", "close"}, {t, u}) /\ Do("return", t) \in LinesOf(s) /\ Do("return", u) \in LinesOf(s)
           /\ LET s == Cancel(t) \o Cancel(u) \o <<Do("close", t), Do("close", u)>>
              IN Block(s, {"return", "clear", "close"}, {t, u}) /\ Do("return", t) \in LinesOf(s) /\ Do("return", u) \in LinesOf(s)
           /\ LET s == CompleteTrade(u) \o CompleteTrade(t) \o <<Do("close", t), Do("close", u)>>
              IN Block(s, {"give", "empty", "close"}, {t, u}) /\ Do("give", t) \in LinesOf(s) /\ Do("give", u) \in LinesOf(s)
<1> DEFINE K == {"return", "clear"}
           C == {"close"}
           ct == Cancel(t)
           cu == Cancel(u)
           xt == <<Do("close", t)>>
           xu == <<Do("close", u)>>
           gt == CompleteTrade(t)
           gu == CompleteTrade(u)
           both == <<Do("close", t), Do("close", u)>>
<1>1. /\ Block(ct, K, {t}) /\ Do("return", t) \in LinesOf(ct)
      /\ Block(cu, K, {u}) /\ Do("return", u) \in LinesOf(cu)
      /\ Block(gt, {"give", "empty"}, {t}) /\ Do("give", t) \in LinesOf(gt)
      /\ Block(gu, {"give", "empty"}, {u}) /\ Do("give", u) \in LinesOf(gu)
      /\ Block(xt, C, {t}) /\ Block(xu, C, {u})
    BY PairBlock
<1>2. both = xt \o xu
    OBVIOUS
<1>3. Block(both, C, {t, u})
    <2>0. Joinable(xt, C, {t}, xu, C, {u})
        BY <1>1 DEF Joinable, SettlingKind
    <2>1. Block(xt \o xu, C \cup C, {t} \cup {u})
        BY ONLY <2>0, JoinedBlocks
    <2>2. C \cup C = C /\ {t} \cup {u} = {t, u}
        OBVIOUS
    <2> QED BY <1>2, <2>1, <2>2
<1>s. K \subseteq SettlingKind /\ C \subseteq SettlingKind /\ K \cup C \subseteq SettlingKind /\ {"give", "empty"} \subseteq SettlingKind
    BY DEF SettlingKind
<1>d. {t} \cap {u} = {} /\ {u} \cap {t} = {} /\ C = {"close"}
    OBVIOUS
<1>k. /\ K \cup C = {"return", "clear", "close"} /\ K \cup (K \cup C) = K \cup C /\ (K \cup C) \cup K = K \cup C
      /\ (K \cup C) \cup C = K \cup C /\ K \cup K = K /\ {t} \cup {u} = {t, u} /\ {u} \cup {t} = {t, u}
      /\ {u} \cup {u} = {u} /\ {t} \cup {t} = {t}
      /\ {t, u} \cup {t} = {t, u} /\ {t, u} \cup {u} = {t, u} /\ {t, u} \cup {t, u} = {t, u}
      /\ {"give", "empty"} \cup {"give", "empty"} = {"give", "empty"}
      /\ {"give", "empty"} \cup C = {"give", "empty", "close"}
    BY DEF SettlingKind
<1> HIDE DEF K, C, ct, cu, xt, xu, gt, gu, both
<1>4. Block(ct \o (cu \o xu) \o xt, K \cup C, {t, u})
      /\ Do("return", t) \in LinesOf(ct \o (cu \o xu) \o xt) /\ Do("return", u) \in LinesOf(ct \o (cu \o xu) \o xt)
    <2>1. Block(cu \o xu, K \cup C, {u}) /\ LinesOf(cu \o xu) = LinesOf(cu) \cup LinesOf(xu)
        <3>1. Joinable(cu, K, {u}, xu, C, {u})
            BY ONLY <1>1, <1>s, <1>d DEF Joinable
        <3>2. Block(cu \o xu, K \cup C, {u} \cup {u}) /\ LinesOf(cu \o xu) = LinesOf(cu) \cup LinesOf(xu)
            BY ONLY <3>1, JoinedBlocks
        <3> QED BY <3>2, <1>k
    <2>2. Block(ct \o (cu \o xu), K \cup C, {t, u}) /\ LinesOf(ct \o (cu \o xu)) = LinesOf(ct) \cup LinesOf(cu \o xu)
        <3>1. Joinable(ct, K, {t}, cu \o xu, K \cup C, {u})
            BY ONLY <1>1, <1>s, <1>d, <2>1 DEF Joinable
        <3>2. Block(ct \o (cu \o xu), K \cup (K \cup C), {t} \cup {u})
              /\ LinesOf(ct \o (cu \o xu)) = LinesOf(ct) \cup LinesOf(cu \o xu)
            BY ONLY <3>1, JoinedBlocks
        <3> QED BY <3>2, <1>k
    <2>3. Block(ct \o (cu \o xu) \o xt, K \cup C, {t, u})
          /\ LinesOf(ct \o (cu \o xu) \o xt) = LinesOf(ct \o (cu \o xu)) \cup LinesOf(xt)
        <3>1. Joinable(ct \o (cu \o xu), K \cup C, {t, u}, xt, C, {t})
            BY ONLY <1>1, <1>s, <1>d, <2>2 DEF Joinable
        <3>2. Block(ct \o (cu \o xu) \o xt, (K \cup C) \cup C, {t, u} \cup {t})
              /\ LinesOf(ct \o (cu \o xu) \o xt) = LinesOf(ct \o (cu \o xu)) \cup LinesOf(xt)
            BY ONLY <3>1, JoinedBlocks
        <3> QED BY <3>2, <1>k
    <2> QED BY <1>1, <2>1, <2>2, <2>3
<1>5. Block(ct \o xt \o cu \o xu, K \cup C, {t, u})
      /\ Do("return", t) \in LinesOf(ct \o xt \o cu \o xu) /\ Do("return", u) \in LinesOf(ct \o xt \o cu \o xu)
    <2>1. Block(ct \o xt, K \cup C, {t}) /\ LinesOf(ct \o xt) = LinesOf(ct) \cup LinesOf(xt)
        <3>1. Joinable(ct, K, {t}, xt, C, {t})
            BY ONLY <1>1, <1>s, <1>d DEF Joinable
        <3>2. Block(ct \o xt, K \cup C, {t} \cup {t}) /\ LinesOf(ct \o xt) = LinesOf(ct) \cup LinesOf(xt)
            BY ONLY <3>1, JoinedBlocks
        <3> QED BY <3>2, <1>k
    <2>2. Block(ct \o xt \o cu, K \cup C, {t, u}) /\ LinesOf(ct \o xt \o cu) = LinesOf(ct \o xt) \cup LinesOf(cu)
        <3>1. Joinable(ct \o xt, K \cup C, {t}, cu, K, {u})
            BY ONLY <1>1, <1>s, <1>d, <2>1 DEF Joinable
        <3>2. Block(ct \o xt \o cu, (K \cup C) \cup K, {t} \cup {u})
              /\ LinesOf(ct \o xt \o cu) = LinesOf(ct \o xt) \cup LinesOf(cu)
            BY ONLY <3>1, JoinedBlocks
        <3> QED BY <3>2, <1>k
    <2>3. Block(ct \o xt \o cu \o xu, K \cup C, {t, u})
          /\ LinesOf(ct \o xt \o cu \o xu) = LinesOf(ct \o xt \o cu) \cup LinesOf(xu)
        <3>1. Joinable(ct \o xt \o cu, K \cup C, {t, u}, xu, C, {u})
            BY ONLY <1>1, <1>s, <1>d, <2>2 DEF Joinable
        <3>2. Block(ct \o xt \o cu \o xu, (K \cup C) \cup C, {t, u} \cup {u})
              /\ LinesOf(ct \o xt \o cu \o xu) = LinesOf(ct \o xt \o cu) \cup LinesOf(xu)
            BY ONLY <3>1, JoinedBlocks
        <3> QED BY <3>2, <1>k
    <2> QED BY <1>1, <2>1, <2>2, <2>3
<1>6. Block(ct \o cu \o both, K \cup C, {t, u})
      /\ Do("return", t) \in LinesOf(ct \o cu \o both) /\ Do("return", u) \in LinesOf(ct \o cu \o both)
    <2>1. Block(ct \o cu, K, {t, u}) /\ LinesOf(ct \o cu) = LinesOf(ct) \cup LinesOf(cu)
        <3>1. Joinable(ct, K, {t}, cu, K, {u})
            BY ONLY <1>1, <1>s, <1>d DEF Joinable
        <3>2. Block(ct \o cu, K \cup K, {t} \cup {u}) /\ LinesOf(ct \o cu) = LinesOf(ct) \cup LinesOf(cu)
            BY ONLY <3>1, JoinedBlocks
        <3> QED BY <3>2, <1>k
    <2>2. Block(ct \o cu \o both, K \cup C, {t, u})
          /\ LinesOf(ct \o cu \o both) = LinesOf(ct \o cu) \cup LinesOf(both)
        <3>1. Joinable(ct \o cu, K, {t, u}, both, C, {t, u})
            BY ONLY <1>3, <1>s, <1>d, <2>1 DEF Joinable
        <3>2. Block(ct \o cu \o both, K \cup C, {t, u} \cup {t, u})
              /\ LinesOf(ct \o cu \o both) = LinesOf(ct \o cu) \cup LinesOf(both)
            BY ONLY <3>1, JoinedBlocks
        <3> QED BY <3>2, <1>k
    <2> QED BY <1>1, <2>1, <2>2
<1>7. Block(gu \o gt \o both, {"give", "empty", "close"}, {t, u})
      /\ Do("give", t) \in LinesOf(gu \o gt \o both) /\ Do("give", u) \in LinesOf(gu \o gt \o both)
    <2> DEFINE G == {"give", "empty"}
    <2>1. Block(gu \o gt, G, {t, u}) /\ LinesOf(gu \o gt) = LinesOf(gu) \cup LinesOf(gt)
        <3>1. Joinable(gu, G, {u}, gt, G, {t})
            BY ONLY <1>1, <1>s, <1>d DEF Joinable
        <3>2. Block(gu \o gt, G \cup G, {u} \cup {t}) /\ LinesOf(gu \o gt) = LinesOf(gu) \cup LinesOf(gt)
            BY ONLY <3>1, JoinedBlocks
        <3> QED BY <3>2, <1>k
    <2>2. Block(gu \o gt \o both, G \cup C, {t, u})
          /\ LinesOf(gu \o gt \o both) = LinesOf(gu \o gt) \cup LinesOf(both)
        <3>1. Joinable(gu \o gt, G, {t, u}, both, C, {t, u})
            BY ONLY <1>3, <1>s, <1>d, <2>1 DEF Joinable
        <3>2. Block(gu \o gt \o both, G \cup C, {t, u} \cup {t, u})
              /\ LinesOf(gu \o gt \o both) = LinesOf(gu \o gt) \cup LinesOf(both)
            BY ONLY <3>1, JoinedBlocks
        <3> QED BY <3>2, <1>k
    <2> QED BY <1>1, <1>k, <2>1, <2>2
<1> QED BY <1>4, <1>5, <1>6, <1>7, <1>k DEF ct, cu, xt, xu, gt, gu, both

LEMMA CancelOne ==
    ASSUME NEW t \in Nat
    PROVE  /\ LET s == Cancel(t) \o <<>> \o <<Do("close", t)>>
              IN Block(s, {"return", "clear", "close"}, {t}) /\ Do("return", t) \in LinesOf(s)
           /\ LET s == <<>> \o Cancel(t) \o <<Do("close", t)>>
              IN Block(s, {"return", "clear", "close"}, {t}) /\ Do("return", t) \in LinesOf(s)
<1> DEFINE s == Cancel(t) \o <<Do("close", t)>>
<1>1. Block(Cancel(t), {"return", "clear"}, {t}) /\ Do("return", t) \in LinesOf(Cancel(t))
      /\ Block(<<Do("close", t)>>, {"close"}, {t})
    BY PairBlock
<1>2. Joinable(Cancel(t), {"return", "clear"}, {t}, <<Do("close", t)>>, {"close"}, {t})
    BY <1>1 DEF Joinable, SettlingKind
<1>3. Block(s, {"return", "clear"} \cup {"close"}, {t} \cup {t})
      /\ LinesOf(s) = LinesOf(Cancel(t)) \cup LinesOf(<<Do("close", t)>>)
    BY ONLY <1>2, JoinedBlocks
<1>4. {"return", "clear"} \cup {"close"} = {"return", "clear", "close"} /\ {t} \cup {t} = {t}
    OBVIOUS
<1>5. Cancel(t) \o <<>> = Cancel(t) /\ <<>> \o Cancel(t) = Cancel(t)
    BY <1>1, ConcatEmptySeq DEF Block
<1> QED BY <1>1, <1>3, <1>4, <1>5

(* Session p starts to settle the trades T: it returns the goods of each,  *)
(* or gives the goods of each to its partner.                              *)
Returned(new, T) ==
    /\ \A s \in LinesOf(new) : s[1] \in {"return", "clear", "close"}
    /\ \A t \in T : Do("return", t) \in LinesOf(new)
Given(new, T) ==
    /\ \A s \in LinesOf(new) : s[1] \in {"give", "empty", "close"}
    /\ \A t \in T : Do("give", t) \in LinesOf(new)

AtSettling(p, T) == todo[p] = <<>> \/ At(p, "offer") \/ (At(p, "settle") /\ This(p) \in T)

Settles(p, new, T) ==
    /\ AtSettling(p, T) /\ Runs(p, new) /\ Block(new, SettlingKind, T)
    /\ T \subseteq 1..made /\ T \cap settled = {} /\ settled' = settled \cup T
    /\ UNCHANGED <<made, trade, fields, bag, crossed, astray, spilled>>
    /\ ~At(p, "answer")
    /\ \/ Returned(new, T)
       \/ /\ Given(new, T) /\ At(p, "settle")
          /\ T = {This(p), Operand(p)} /\ partner[This(p)] = Operand(p) /\ partner[Operand(p)] = This(p)
          /\ locked[Operand(p)]

LEMMA BlockReturns ==
    ASSUME NEW s, NEW T, Block(s, {"return", "clear", "close"}, T),
           \A t \in T : Do("return", t) \in LinesOf(s)
    PROVE  Block(s, SettlingKind, T) /\ Returned(s, T)
BY DEF Block, SettlingKind, Returned

LEMMA SettleSettles ==
    ASSUME NEW T, Settle(T), ~torn'
    PROVE  T \cap settled = {} /\ settled' = settled \cup T /\ crossed' = crossed /\ UNCHANGED <<astray, spilled>>
BY DEF Settle

LEMMA CancelBothReturns ==
    ASSUME IndInv, PairInv, NEW t \in 1..made
    PROVE  Block(CancelBoth(t), SettlingKind, Halves(t)) /\ Returned(CancelBoth(t), Halves(t)) /\ Halves(t) \subseteq 1..made
<1>1. t \in Nat /\ t # None /\ partner[t] \in 0..made /\ made \in Nat
    BY TradesTyped DEF None
<1>2. CASE partner[t] = None
    <2>1. CancelBoth(t) = Cancel(t) \o <<>> \o <<Do("close", t)>> /\ Halves(t) = {t}
        BY <1>1, <1>2 DEF CancelBoth, Halves
    <2>2. Block(CancelBoth(t), {"return", "clear", "close"}, {t}) /\ Do("return", t) \in LinesOf(CancelBoth(t))
        BY <1>1, <2>1, CancelOne
    <2> QED BY <2>1, <2>2, BlockReturns
<1>3. CASE partner[t] # None
    <2> DEFINE u == partner[t]
    <2>1. u \in 1..made /\ u \in Nat /\ u # t
        BY <1>1, <1>3 DEF PairInv, Partners, None
    <2>2. CancelBoth(t) = Cancel(t) \o (Cancel(u) \o <<Do("close", u)>>) \o <<Do("close", t)>> /\ Halves(t) = {t, u}
        BY <1>1, <1>3 DEF CancelBoth, Halves
    <2> HIDE DEF u
    <2>3. Block(CancelBoth(t), {"return", "clear", "close"}, {t, u})
          /\ Do("return", t) \in LinesOf(CancelBoth(t)) /\ Do("return", u) \in LinesOf(CancelBoth(t))
        BY ONLY <1>1, <2>1, <2>2, CancelTwo
    <2>4. Block(CancelBoth(t), SettlingKind, {t, u}) /\ Returned(CancelBoth(t), {t, u})
        BY <2>3, BlockReturns
    <2> QED BY <2>1, <2>2, <2>4
<1> QED BY <1>2, <1>3

LEMMA SettlingSteps ==
    ASSUME IndInv, PairInv, Orderly', NEW p \in Player,
           cancelTrade(p) \/ declineTrade(p) \/ TooLate(p) \/ SecondToConfirm(p)
    PROVE  \E new \in Seq(AnyLine) : \E T : Settles(p, new, T)
<1> USE DEF fields, history
<1>t. /\ made \in Nat
      /\ \A q \in Player : trade[q] \in 0..made /\ (trade[q] # None => trade[q] \in 1..made /\ chr[trade[q]] = q)
    BY TradesTyped
<1>1. ASSUME cancelTrade(p) PROVE Settles(p, CancelBoth(trade[p]), Halves(trade[p])) /\ CancelBoth(trade[p]) \in Seq(AnyLine)
    <2>1. trade[p] \in 1..made /\ Idle(p) /\ Begin(p, CancelBoth(trade[p])) /\ Settle(Halves(trade[p]))
          /\ UNCHANGED <<made, trade, fields, bag>>
        BY <1>t, <1>1 DEF cancelTrade
    <2>2. Block(CancelBoth(trade[p]), SettlingKind, Halves(trade[p])) /\ Returned(CancelBoth(trade[p]), Halves(trade[p]))
          /\ Halves(trade[p]) \subseteq 1..made /\ CancelBoth(trade[p]) \in Seq(AnyLine)
        BY <2>1, CancelBothReturns DEF Block
    <2>3. Runs(p, CancelBoth(trade[p])) /\ ~At(p, "answer") /\ AtSettling(p, Halves(trade[p]))
        BY <2>1, <2>2, BeginRuns DEF Idle, At, AtSettling
    <2> QED BY <2>1, <2>2, <2>3, SettleSettles DEF Settles, Orderly
<1>2. ASSUME TooLate(p)
      PROVE  \E new \in Seq(AnyLine) : \E T : Settles(p, new, T)
    <2>1. /\ todo[p] # <<>> /\ ~At(p, "answer") /\ UNCHANGED <<made, trade, fields, bag>>
          /\ Continue(p, IF trade[p] = None THEN <<>> ELSE CancelBoth(trade[p]))
          /\ Settle(IF trade[p] = None THEN {} ELSE Halves(trade[p]))
          /\ \A T : AtSettling(p, T)
        BY <1>2 DEF TooLate, At, AtSettling
    <2>2. CASE trade[p] = None
        <3>1. Runs(p, <<>>) /\ Settle({})
            BY <2>1, <2>2, ContinueRuns
        <3>2. Block(<<>>, SettlingKind, {}) /\ Returned(<<>>, {}) /\ <<>> \in Seq(AnyLine)
            BY LinesOfFew, TidyFew, EmptySeq DEF Block, Returned
        <3>3. Settles(p, <<>>, {})
            BY <2>1, <3>1, <3>2, SettleSettles DEF Settles, Orderly
        <3> QED BY <3>2, <3>3
    <2>3. CASE trade[p] # None
        <3>1. Runs(p, CancelBoth(trade[p])) /\ Settle(Halves(trade[p])) /\ trade[p] \in 1..made
            BY <1>t, <2>1, <2>3, ContinueRuns
        <3>2. Block(CancelBoth(trade[p]), SettlingKind, Halves(trade[p])) /\ Returned(CancelBoth(trade[p]), Halves(trade[p]))
              /\ Halves(trade[p]) \subseteq 1..made /\ CancelBoth(trade[p]) \in Seq(AnyLine)
            BY <3>1, CancelBothReturns DEF Block
        <3>3. Settles(p, CancelBoth(trade[p]), Halves(trade[p]))
            BY <2>1, <3>1, <3>2, SettleSettles DEF Settles, Orderly
        <3> QED BY <3>2, <3>3
    <2> QED BY <2>2, <2>3
<1>3. ASSUME declineTrade(p)
      PROVE  \E new \in Seq(AnyLine) : \E T : Settles(p, new, T)
    <2> DEFINE mine == trade[p]
               theirs == IF partner[mine] = None THEN None ELSE trade[chr[partner[mine]]]
               call == (IF theirs = None THEN <<>> ELSE Cancel(theirs) \o <<Do("close", theirs)>>)
                       \o Cancel(mine) \o <<Do("close", mine)>>
               T == {mine, theirs} \ {None}
    <2>1. /\ mine \in 1..made /\ mine \in Nat /\ mine # None
          /\ Idle(p) /\ Begin(p, call) /\ Settle(T) /\ UNCHANGED <<made, trade, fields, bag>>
        <3>1. mine \in 1..made /\ mine # None
            BY <1>t, <1>3 DEF declineTrade
        <3>2. Idle(p) /\ Begin(p, call) /\ Settle(T) /\ UNCHANGED <<made, trade, fields, bag>>
            BY <1>3 DEF declineTrade
        <3> QED BY <3>1, <3>2
    <2>2. theirs # None => theirs \in 1..made /\ theirs \in Nat /\ theirs # mine
        <3> SUFFICES ASSUME theirs # None PROVE theirs \in 1..made /\ theirs # mine
            BY <1>t
        <3>1. partner[mine] \in 1..made /\ chr[mine] = p
            BY <1>t, <2>1, TradesTyped DEF None
        <3>2. chr[partner[mine]] \in Player /\ chr[partner[mine]] # p
            BY <2>1, <3>1, TradesTyped DEF PairInv, Partners
        <3>3. theirs = trade[chr[partner[mine]]]
            BY <3>1 DEF None
        <3> QED BY <1>t, <2>1, <3>2, <3>3
    <2> HIDE DEF theirs
    <2>3. Block(call, {"return", "clear", "close"}, T) /\ \A t \in T : Do("return", t) \in LinesOf(call)
        <3>1. CASE theirs = None
            <4>1. call = <<>> \o Cancel(mine) \o <<Do("close", mine)>> /\ T = {mine}
                BY <2>1, <3>1
            <4> HIDE DEF mine, call, T
            <4> QED BY <2>1, <4>1, CancelOne
        <3>2. CASE theirs # None
            <4>1. call = Cancel(theirs) \o <<Do("close", theirs)>> \o Cancel(mine) \o <<Do("close", mine)>>
                  /\ T = {theirs, mine}
                BY <2>1, <3>2
            <4> HIDE DEF mine, call, T
            <4>2. Block(call, {"return", "clear", "close"}, {theirs, mine})
                  /\ Do("return", theirs) \in LinesOf(call) /\ Do("return", mine) \in LinesOf(call)
                BY ONLY <2>1, <2>2, <3>2, <4>1, CancelTwo
            <4> QED BY <4>1, <4>2
        <3> QED BY <3>1, <3>2
    <2>4. T \subseteq 1..made
        BY <2>1, <2>2
    <2> HIDE DEF mine, call, T
    <2>5. Block(call, SettlingKind, T) /\ Returned(call, T) /\ call \in Seq(AnyLine)
        BY <2>3, BlockReturns DEF Block
    <2>6. Runs(p, call) /\ ~At(p, "answer") /\ AtSettling(p, T)
        BY <2>1, <2>5, BeginRuns DEF Idle, At, AtSettling
    <2>7. Settles(p, call, T)
        BY <2>1, <2>4, <2>5, <2>6, SettleSettles DEF Settles, Orderly
    <2> QED BY <2>5, <2>7
<1>4. ASSUME SecondToConfirm(p)
      PROVE  \E new \in Seq(AnyLine) : \E T : Settles(p, new, T)
    <2> DEFINE local == This(p)
               other == Operand(p)
               T == {local, other}
               exchanged == CompleteTrade(local) \o CompleteTrade(other) \o <<Do("close", other), Do("close", local)>>
               returned == Cancel(other) \o Cancel(local) \o <<Do("close", other), Do("close", local)>>
    <2>1. /\ At(p, "settle") /\ locked[other] /\ Settle(T) /\ UNCHANGED <<made, trade, fields, bag>>
          /\ Continue(p, exchanged) \/ Continue(p, returned)
        BY <1>4 DEF SecondToConfirm
    <2>2. local \in 1..made /\ other \in 1..made /\ local \in Nat /\ other \in Nat
        BY <1>t, <2>1, Current DEF At
    <2>3. partner[local] = other /\ partner[other] = local /\ local # other
        <3>1. Head(todo[p]) \in Due(p) /\ Head(todo[p])[1] = "settle" /\ todo[p] # <<>>
            <4>1. todo[p] # <<>> /\ todo[p] \in Seq(AnyLine)
                BY <2>1, DueTyped DEF At
            <4>2. LinesOf(todo[p]) = {Head(todo[p])} \cup LinesOf(Tail(todo[p]))
                BY <4>1, LinesOfTail
            <4> QED BY <2>1, <4>1, <4>2 DEF Due, At
        <3>2. partner[local] = other
            BY <3>1 DEF PairInv, Confirming, This, Operand
        <3> QED BY <2>1, <2>2, <3>2 DEF PairInv, Partners
    <2>4. T \subseteq 1..made /\ ~At(p, "answer") /\ todo[p] # <<>> /\ AtSettling(p, T)
        BY <2>1, <2>2 DEF At, AtSettling
    <2>5. Block(exchanged, {"give", "empty", "close"}, {other, local}) /\ Do("give", other) \in LinesOf(exchanged)
          /\ Do("give", local) \in LinesOf(exchanged)
          /\ Block(returned, {"return", "clear", "close"}, {other, local}) /\ Do("return", other) \in LinesOf(returned)
          /\ Do("return", local) \in LinesOf(returned)
        <3> HIDE DEF local, other
        <3> QED BY ONLY <2>2, <2>3, CancelTwo
    <2>6. T = {other, local}
        OBVIOUS
    <2> HIDE DEF exchanged, returned, T
    <2>7. Block(returned, SettlingKind, T) /\ Returned(returned, T) /\ returned \in Seq(AnyLine)
        BY <2>5, <2>6, BlockReturns DEF Block
    <2>8. Block(exchanged, SettlingKind, T) /\ Given(exchanged, T) /\ exchanged \in Seq(AnyLine)
        BY <2>5, <2>6 DEF Block, Given, SettlingKind
    <2>9. T \cap settled = {} /\ settled' = settled \cup T /\ crossed' = crossed /\ UNCHANGED <<astray, spilled>>
        BY <2>1, SettleSettles DEF Orderly
    <2>10. CASE Continue(p, exchanged)
        <3>1. Runs(p, exchanged)
            BY <2>4, <2>10, ContinueRuns
        <3>2. Settles(p, exchanged, T)
            BY <2>1, <2>3, <2>4, <2>8, <2>9, <3>1 DEF Settles, T
        <3> QED BY <2>8, <3>2
    <2>11. CASE Continue(p, returned)
        <3>1. Runs(p, returned)
            BY <2>4, <2>11, ContinueRuns
        <3>2. Settles(p, returned, T)
            BY <2>1, <2>4, <2>7, <2>9, <3>1 DEF Settles
        <3> QED BY <2>7, <3>2
    <2> QED BY <2>1, <2>10, <2>11
<1> QED BY <1>1, <1>2, <1>3, <1>4

(* What a session does next, for the layers that follow.                   *)
StepOf(p) ==
    \/ startTrade(p) \/ completeTrade(p)
    \/ \E q \in Player : inviteTrade(p, q)
    \/ \E g \in Good : setItems(p, g)
    \/ Start(p) \/ Offer(p) \/ Answer(p) \/ addItem(p) \/ Copy(p) \/ FirstToConfirm(p)
    \/ Give(p) \/ Empty(p) \/ Return(p) \/ Clear(p) \/ Close(p)
    \/ \E new \in Seq(AnyLine) : \E T : Settles(p, new, T)

LEMMA StepCases ==
    ASSUME IndInv, PairInv, Orderly', Next
    PROVE  \E p \in Player : StepOf(p)
<1>1. PICK p \in Player : Call(p) \/ Statement(p)
    BY DEF Next
<1>2. CASE cancelTrade(p) \/ declineTrade(p) \/ TooLate(p) \/ SecondToConfirm(p)
    BY <1>2, SettlingSteps DEF StepOf
<1>3. CASE ~(cancelTrade(p) \/ declineTrade(p) \/ TooLate(p) \/ SecondToConfirm(p))
    BY <1>1, <1>3 DEF StepOf, Call, Statement
<1> QED BY <1>2, <1>3

(* The line a session is at.                                               *)
LEMMA AtLine ==
    ASSUME IndInv, NEW p \in Player, todo[p] # <<>>
    PROVE  /\ Head(todo[p]) \in Due(p) /\ Due(p) = {Head(todo[p])} \cup LinesOf(Rest(p))
           /\ Head(todo[p])[1] \notin {"start", "offer", "answer"} => This(p) \in 1..made
           /\ Head(todo[p])[1] \in {"copy", "settle"} => Operand(p) \in 1..made
           /\ Head(todo[p])[1] = "put" => Operand(p) \in Good /\ chr[This(p)] = p /\ ~locked[This(p)]
<1>1. todo[p] \in Seq(AnyLine)
    BY DueTyped
<1>2. LinesOf(todo[p]) = {Head(todo[p])} \cup LinesOf(Tail(todo[p]))
    BY <1>1, LinesOfTail
<1> QED BY <1>2, Current DEF Due, Rest

LEMMA NextPairs ==
    ASSUME IndInv, PairInv, Orderly', NEW p \in Player, StepOf(p)
    PROVE  PairInv'
<1> USE DEF fields, history
<1>0. /\ \A t \in 1..made : locked[t] => partner[t] # None
      /\ <<>> \in Seq(AnyLine) /\ LinesOf(<<>>) = {}
      /\ \A q \in Player : trade'[q] = trade[q] => trade'[q] \in {trade[q], None}
    BY LinesOfFew, EmptySeq DEF PairInv, Partners
<1>1. CASE startTrade(p)
    <2>1. Runs(p, <<Do("start", None)>>) /\ <<Do("start", None)>> \in Seq(AnyLine)
          /\ LinesOf(<<Do("start", None)>>) = {Do("start", None)}
        BY <1>1, SmallPrograms, OneLine
    <2>2. ~At(p, "answer") /\ UNCHANGED <<made, trade, fields>>
        BY <1>1 DEF startTrade, Idle, At
    <2>3. \A s \in LinesOf(<<Do("start", None)>>) : s[1] \notin {"offer", "answer", "copy", "settle"}
        BY <2>1 DEF Do
    <2> QED BY ONLY IndInv, PairInv, p \in Player, <1>0, <2>1, <2>2, <2>3, SamePartners DEF fields
<1>2. ASSUME NEW q \in Player, inviteTrade(p, q) PROVE PairInv'
    <2> DEFINE new == <<<<"offer", trade[p], q>>>>
    <2>1. Runs(p, new) /\ new \in Seq(AnyLine) /\ LinesOf(new) = {<<"offer", trade[p], q>>}
        BY <1>2, SmallPrograms, OneLine
    <2>2. ~At(p, "answer") /\ UNCHANGED <<made, trade, fields>> /\ p # q
        BY <1>2 DEF inviteTrade, Idle, At
    <2>3. \A s \in LinesOf(new) : s[3] # p /\ s[1] \notin {"copy", "settle"}
        BY <2>1, <2>2
    <2> HIDE DEF new
    <2> QED BY ONLY IndInv, PairInv, p \in Player, <1>0, <2>1, <2>2, <2>3, SamePartners DEF fields
<1>3. ASSUME NEW g \in Good, setItems(p, g) PROVE PairInv'
    <2> DEFINE new == <<<<"put", trade[p], g>>>>
    <2>1. Runs(p, new) /\ new \in Seq(AnyLine) /\ LinesOf(new) = {<<"put", trade[p], g>>}
        BY <1>3, SmallPrograms, OneLine
    <2>2. ~At(p, "answer") /\ UNCHANGED <<made, trade, fields>>
        BY <1>3 DEF setItems, Idle, At
    <2>3. \A s \in LinesOf(new) : s[1] \notin {"offer", "answer", "copy", "settle"}
        BY <2>1
    <2> HIDE DEF new
    <2> QED BY ONLY IndInv, PairInv, p \in Player, <1>0, <2>1, <2>2, <2>3, SamePartners DEF fields
<1>4. CASE completeTrade(p)
    <2> DEFINE t == trade[p]
               call == <<<<"copy", t, partner[t]>>, <<"settle", t, partner[t]>>>>
    <2>1. Runs(p, call) /\ call \in Seq(AnyLine) /\ LinesOf(call) = {<<"copy", t, partner[t]>>, <<"settle", t, partner[t]>>}
        BY <1>4, SmallPrograms
    <2>2. ~At(p, "answer") /\ UNCHANGED <<made, trade, chr, partner, items, exchange>> /\ partner[t] # None
          /\ locked' = [locked EXCEPT ![t] = TRUE] /\ t # None
        BY <1>4 DEF completeTrade, Idle, At
    <2>3. \A s \in LinesOf(call) : s[1] \notin {"offer", "answer"} /\ partner[s[2]] = s[3]
        BY <2>1
    <2>4. t \in 1..made /\ 1..made \subseteq Trade /\ locked \in [Trade -> BOOLEAN]
        BY <2>2, TradesTyped DEF IndInv, TypeOK
    <2> HIDE DEF call, t
    <2>5. /\ \A x \in Trade : x \notin 1..made => locked'[x] = locked[x]
          /\ \A x \in 1..made : locked'[x] => partner[x] # None
        BY <1>0, <2>2, <2>4
    <2> QED BY ONLY IndInv, PairInv, p \in Player, <1>0, <2>1, <2>2, <2>3, <2>5, SamePartners
<1>5. CASE addItem(p) \/ Copy(p) \/ FirstToConfirm(p) \/ Give(p) \/ Empty(p) \/ Return(p) \/ Clear(p) \/ Close(p)
    <2>1. Runs(p, <<>>)
        BY <1>5, SmallPrograms
    <2>2. ~At(p, "answer") /\ UNCHANGED <<made, chr, partner, locked>>
          /\ (Head(todo[p])[1] \notin {"start", "offer", "answer"} /\ todo[p] # <<>>)
        BY <1>5 DEF addItem, Copy, FirstToConfirm, Give, Empty, Return, Clear, Close, At
    <2>3. \A q \in Player : trade'[q] \in {trade[q], None}
        <3>1. trade \in [Player -> 0..made]
            BY DEF IndInv, TypeOK
        <3> QED BY <1>5, <3>1 DEF addItem, Copy, FirstToConfirm, Give, Empty, Return, Clear, Close
    <2>4. \A t \in Trade : t \notin 1..made => items'[t] = items[t] /\ exchange'[t] = exchange[t] /\ locked'[t] = locked[t]
        <3>1. This(p) \in 1..made /\ (At(p, "copy") => Operand(p) \in 1..made)
            BY <2>2, AtLine DEF At
        <3>2. items \in [Trade -> SUBSET Good] /\ exchange \in [Trade -> SUBSET Good]
            BY DEF IndInv, TypeOK
        <3> QED BY <1>5, <2>2, <3>1, <3>2 DEF addItem, Copy, FirstToConfirm, Give, Empty, Return, Clear, Close
    <2>5. \A t \in 1..made : locked'[t] => partner[t] # None
        BY <1>0, <2>2
    <2> QED BY ONLY IndInv, PairInv, p \in Player, <1>0, <2>1, <2>2, <2>3, <2>4, <2>5, SamePartners
<1>6. ASSUME NEW new \in Seq(AnyLine), NEW T, Settles(p, new, T) PROVE PairInv'
    <2>1. /\ Runs(p, new) /\ ~At(p, "answer") /\ UNCHANGED <<made, trade, fields>>
          /\ \A s \in LinesOf(new) : s[1] \notin {"offer", "answer", "copy", "settle"}
        BY <1>6 DEF Settles, Block, SettlingKind
    <2> QED BY ONLY IndInv, PairInv, p \in Player, new \in Seq(AnyLine), <1>0, <2>1, SamePartners DEF fields
<1>7. CASE Start(p)
    BY <1>7, StartPairs
<1>8. CASE Offer(p)
    BY <1>8, OfferPairs
<1>9. CASE Answer(p)
    BY <1>9, AnswerPairs
<1> QED BY <1>1, <1>2, <1>3, <1>4, <1>5, <1>6, <1>7, <1>8, <1>9 DEF StepOf

-----------------------------------------------------------------------------
(* Who is settling what.                                                   *)

(* What is being settled was noted.                                        *)
Noted == \A p \in Player : \A s \in Due(p) : s[1] \in SettlingKind => s[2] \in settled

(* Goods are given to a trade only when its partner is settled with it.    *)
GivesBoth ==
    \A p \in Player : \A s \in Due(p) : s[1] \in {"give", "empty"} =>
        partner[s[2]] \in settled /\ partner[partner[s[2]]] = s[2]

(* One session settles a trade, and does not return what it gives away.    *)
OneSettler ==
    \A p, q \in Player : \A a \in Due(p), b \in Due(q) :
        a[1] \in SettlingKind /\ b[1] \in SettlingKind /\ a[2] = b[2] => p = q
OneWay ==
    \A p, q \in Player : \A a \in Due(p), b \in Due(q) :
        a[1] \in {"return", "clear"} /\ b[1] = "give" => partner[a[2]] # b[2]
AllTidy == \A p \in Player : Tidy(todo[p])

SettleInv == Noted /\ GivesBoth /\ OneSettler /\ OneWay /\ AllTidy

(* A step that settles nothing. *)
Quiet(p, new) ==
    /\ Runs(p, new) /\ Tidy(new)
    /\ \A s \in LinesOf(new) : s[1] \notin SettlingKind /\ (s[1] = "put" => todo[p] = <<>>)
    /\ settled' = settled
    /\ \A t \in 1..made : partner[t] # None => partner'[t] = partner[t]
    /\ \A t \in 1..made : partner[t] = None /\ partner'[t] # None =>
          partner'[t] \in 1..made /\ partner[partner'[t]] = t

LEMMA QuietSteps ==
    ASSUME IndInv, Orderly', NEW p \in Player, StepOf(p),
           ~\E new \in Seq(AnyLine) : \E T : Settles(p, new, T)
    PROVE  \E new \in Seq(AnyLine) : Quiet(p, new)
<1> USE DEF fields, history
<1>0. <<>> \in Seq(AnyLine) /\ LinesOf(<<>>) = {} /\ Tidy(<<>>)
    BY LinesOfFew, TidyFew, EmptySeq
<1>t. /\ made \in Nat /\ 1..made \subseteq Trade
      /\ partner \in [Trade -> 0..made]
      /\ \A q \in Player : trade[q] \in 0..made /\ (trade[q] # None => trade[q] \in 1..made)
    BY TradesTyped DEF IndInv, TypeOK
<1>1. CASE startTrade(p)
    <2>1. Runs(p, <<Do("start", None)>>) /\ <<Do("start", None)>> \in Seq(AnyLine)
          /\ LinesOf(<<Do("start", None)>>) = {Do("start", None)} /\ Tidy(<<Do("start", None)>>)
        BY <1>1, SmallPrograms, OneLine
    <2>2. settled' = settled /\ partner' = partner
        BY <1>1 DEF startTrade
    <2>3. Quiet(p, <<Do("start", None)>>)
        BY <2>1, <2>2 DEF Quiet, Do, SettlingKind
    <2> QED BY <2>1, <2>3
<1>2. ASSUME NEW q \in Player, inviteTrade(p, q) PROVE \E new \in Seq(AnyLine) : Quiet(p, new)
    <2> DEFINE new == <<<<"offer", trade[p], q>>>>
    <2>1. Runs(p, new) /\ new \in Seq(AnyLine) /\ LinesOf(new) = {<<"offer", trade[p], q>>} /\ Tidy(new)
        BY <1>2, SmallPrograms, OneLine
    <2>2. settled' = settled /\ partner' = partner
        BY <1>2 DEF inviteTrade
    <2>3. Quiet(p, new)
        BY <2>1, <2>2 DEF Quiet, SettlingKind
    <2> QED BY <2>1, <2>3
<1>3. ASSUME NEW g \in Good, setItems(p, g) PROVE \E new \in Seq(AnyLine) : Quiet(p, new)
    <2> DEFINE new == <<<<"put", trade[p], g>>>>
    <2>1. Runs(p, new) /\ new \in Seq(AnyLine) /\ LinesOf(new) = {<<"put", trade[p], g>>} /\ Tidy(new)
        BY <1>3, SmallPrograms, OneLine
    <2>2. settled' = settled /\ partner' = partner /\ todo[p] = <<>>
        BY <1>3 DEF setItems, Idle
    <2>3. Quiet(p, new)
        BY <2>1, <2>2 DEF Quiet, SettlingKind
    <2> QED BY <2>1, <2>3
<1>4. CASE completeTrade(p)
    <2> DEFINE t == trade[p]
               call == <<<<"copy", t, partner[t]>>, <<"settle", t, partner[t]>>>>
    <2>1. Runs(p, call) /\ call \in Seq(AnyLine) /\ Tidy(call)
          /\ LinesOf(call) = {<<"copy", t, partner[t]>>, <<"settle", t, partner[t]>>}
        BY <1>4, SmallPrograms
    <2>2. settled' = settled /\ partner' = partner
        BY <1>4 DEF completeTrade
    <2>3. Quiet(p, call)
        BY <2>1, <2>2 DEF Quiet, SettlingKind
    <2> QED BY <2>1, <2>3
<1>5. CASE addItem(p) \/ Copy(p) \/ FirstToConfirm(p) \/ Give(p) \/ Empty(p) \/ Return(p) \/ Clear(p) \/ Close(p)
    <2>1. Runs(p, <<>>)
        BY <1>5, SmallPrograms
    <2>2. settled' = settled /\ partner' = partner
        BY <1>5 DEF addItem, Copy, FirstToConfirm, Give, Empty, Return, Clear, Close
    <2>3. Quiet(p, <<>>)
        BY <1>0, <2>1, <2>2 DEF Quiet
    <2> QED BY <1>0, <2>3
<1>6. ASSUME NEW o \in Player, NEW with, New(o, with)
      PROVE  \A t \in 1..made : partner'[t] = partner[t]
    BY <1>6, <1>t DEF New
<1>7. CASE Start(p)
    <2>1. Runs(p, <<>>) /\ settled' = settled
        BY <1>7, SmallPrograms DEF Start
    <2>2. \A t \in 1..made : partner'[t] = partner[t]
        BY <1>6, <1>7 DEF Start
    <2>3. Quiet(p, <<>>)
        BY <1>0, <2>1, <2>2 DEF Quiet
    <2> QED BY <1>0, <2>3
<1>8. CASE Offer(p)
    <2> DEFINE new == <<<<"answer", None, Operand(p)>>>>
    <2>1. Runs(p, new) /\ new \in Seq(AnyLine) /\ LinesOf(new) = {<<"answer", None, Operand(p)>>} /\ Tidy(new)
        BY <1>8, SmallPrograms, OneLine
    <2>2. settled' = settled /\ \A t \in 1..made : partner'[t] = partner[t]
        <3>1. Operand(p) \in Player /\ New(Operand(p), trade[p]) /\ settled' = settled
            BY <1>8, Current DEF Offer, At
        <3> QED BY <1>6, <3>1
    <2>3. Quiet(p, new)
        BY <2>1, <2>2 DEF Quiet, SettlingKind
    <2> QED BY <2>1, <2>3
<1>9. CASE Answer(p)
    <2>1. Runs(p, <<>>) /\ settled' = settled /\ Operand(p) \in Player
        BY <1>9, SmallPrograms, Current DEF Answer, At
    <2>2. CASE trade[p] = None \/ locked[trade[p]]
        <3>1. partner' = partner
            BY <1>9, <2>2 DEF Answer
        <3>2. Quiet(p, <<>>)
            BY <1>0, <2>1, <3>1 DEF Quiet
        <3> QED BY <1>0, <3>2
    <2>3. CASE ~(trade[p] = None \/ locked[trade[p]])
        <3> DEFINE u == trade[p]
                   w == trade[Operand(p)]
        <3>1. partner' = [partner EXCEPT ![u] = w] /\ partner[u] = None /\ w # None /\ partner[w] = u
            BY <1>9, <2>3 DEF Answer, Orderly, Paired, Met
        <3>2. u \in Trade /\ w \in 1..made
            BY <1>t, <2>1, <2>3, <3>1
        <3> HIDE DEF u, w
        <3>3. \A t \in Trade : partner'[t] = IF t = u THEN w ELSE partner[t]
            BY <1>t, <3>1, <3>2
        <3>4. Quiet(p, <<>>)
            BY <1>0, <1>t, <2>1, <3>1, <3>2, <3>3 DEF Quiet
        <3> QED BY <1>0, <3>4
    <2> QED BY <2>2, <2>3
<1> QED BY <1>1, <1>2, <1>3, <1>4, <1>5, <1>7, <1>8, <1>9 DEF StepOf

LEMMA QuietSettleInv ==
    ASSUME IndInv, SettleInv, NEW p \in Player, NEW new \in Seq(AnyLine), Quiet(p, new)
    PROVE  SettleInv'
<1>0. /\ Due(p)' = LinesOf(new) \cup LinesOf(Rest(p)) /\ LinesOf(Rest(p)) \subseteq Due(p)
      /\ \A q \in Player : q # p => Due(q)' = Due(q) /\ todo'[q] = todo[q]
      /\ todo[p] = <<>> => LinesOf(Rest(p)) = {}
    BY RunsLines DEF Quiet
<1>1. \A q \in Player : \A s \in Due(q)' : s[1] \in SettlingKind => s \in Due(q)
    BY <1>0 DEF Quiet
<1>2. Noted'
    BY <1>1 DEF Noted, SettleInv, Quiet
<1>t. made \in Nat /\ settled \subseteq 1..made
    BY DEF IndInv, TypeOK
<1>3. GivesBoth'
    <2> SUFFICES ASSUME NEW q \in Player, NEW s \in Due(q)', s[1] \in {"give", "empty"}
                 PROVE  partner'[s[2]] \in settled /\ partner'[partner'[s[2]]] = s[2]
        BY DEF GivesBoth, Quiet
    <2>1. s \in Due(q) /\ s[2] \in 1..made
        BY <1>1, DueTyped DEF SettlingKind
    <2>2. partner[s[2]] \in settled /\ partner[partner[s[2]]] = s[2]
        BY <2>1 DEF SettleInv, GivesBoth
    <2>3. partner'[s[2]] = partner[s[2]]
        BY <1>t, <2>1, <2>2 DEF Quiet, None
    <2>4. partner[s[2]] \in 1..made /\ partner[partner[s[2]]] # None
        <3>1. \A x \in 1..made : x # None
            BY <1>t DEF None
        <3> QED BY ONLY <1>t, <2>1, <2>2, <3>1
    <2>5. partner'[partner[s[2]]] = partner[partner[s[2]]]
        BY <2>4 DEF Quiet
    <2> QED BY <2>2, <2>3, <2>5
<1>4. OneSettler'
    BY <1>1 DEF OneSettler, SettleInv
<1>5. OneWay'
    <2> SUFFICES ASSUME NEW q \in Player, NEW r \in Player, NEW a \in Due(q)', NEW b \in Due(r)',
                        a[1] \in {"return", "clear"}, b[1] = "give", partner'[a[2]] = b[2]
                 PROVE  FALSE
        BY DEF OneWay
    <2>1. a \in Due(q) /\ b \in Due(r) /\ a[2] \in 1..made /\ b[2] \in 1..made /\ b[2] # None
        <3>1. a \in Due(q) /\ b \in Due(r)
            BY <1>1 DEF SettlingKind
        <3>2. a[2] \in 1..made
            BY <3>1, DueTyped
        <3>3. b[2] \in 1..made
            BY <3>1, DueTyped
        <3> QED BY <1>t, <3>1, <3>2, <3>3 DEF None
    <2>2. partner[a[2]] # b[2] /\ partner[partner[b[2]]] = b[2]
        BY <2>1 DEF SettleInv, OneWay, GivesBoth
    <2>3. partner[a[2]] = None
        BY <2>1, <2>2 DEF Quiet
    <2>4. partner[b[2]] = a[2]
        BY <2>1, <2>3 DEF Quiet
    <2> QED BY <2>2, <2>4
<1>6. AllTidy'
    <2> SUFFICES ASSUME NEW q \in Player PROVE Tidy(todo'[q])
        BY DEF AllTidy
    <2>1. CASE q # p
        BY <1>0, <2>1 DEF SettleInv, AllTidy
    <2>2. CASE q = p
        <3>1. todo'[p] = new \o Rest(p) /\ Rest(p) \in Seq(AnyLine) /\ todo[p] \in Seq(AnyLine)
            BY DueTyped DEF Quiet, Runs
        <3>2. Tidy(Rest(p))
            BY <3>1, TidyTail, TidyFew DEF SettleInv, AllTidy, Rest
        <3>3. \A a \in LinesOf(new), b \in LinesOf(Rest(p)) : MayPrecede(a, b)
            BY <1>0 DEF Quiet, MayPrecede, SettlingKind
        <3>4. Tidy(new \o Rest(p))
            BY <3>1, <3>2, <3>3, TidyConcat DEF Quiet
        <3> QED BY <2>2, <3>1, <3>4
    <2> QED BY <2>1, <2>2
<1> QED BY <1>2, <1>3, <1>4, <1>5, <1>6 DEF SettleInv

LEMMA LoudSettleInv ==
    ASSUME IndInv, PairInv, SettleInv, NEW p \in Player, NEW new \in Seq(AnyLine), NEW T, Settles(p, new, T)
    PROVE  SettleInv'
<1>0. /\ Due(p)' = LinesOf(new) \cup LinesOf(Rest(p)) /\ LinesOf(Rest(p)) \subseteq Due(p)
      /\ \A q \in Player : q # p => Due(q)' = Due(q) /\ todo'[q] = todo[q]
    BY RunsLines DEF Settles
<1>t. made \in Nat /\ settled \subseteq 1..made
    BY DEF IndInv, TypeOK
<1>n. /\ \A s \in LinesOf(new) : s[1] \in SettlingKind /\ s[2] \in T /\ s[2] \notin settled /\ s[2] \in 1..made
      /\ settled' = settled \cup T /\ T \cap settled = {} /\ T \subseteq 1..made
      /\ partner' = partner
    BY DEF Settles, Block, fields
<1>s. \A q \in Player : \A s \in Due(q)' : s \in Due(q) \/ (q = p /\ s \in LinesOf(new))
    BY <1>0
<1>o. \A q \in Player : \A s \in Due(q) : s[1] \in SettlingKind => s[2] \in settled
    BY DEF SettleInv, Noted
<1>g. \A s \in LinesOf(new) : s[1] \in {"give", "empty"} => partner[s[2]] \in T /\ partner[partner[s[2]]] = s[2]
    <2> SUFFICES ASSUME NEW s \in LinesOf(new), s[1] \in {"give", "empty"}
                 PROVE  partner[s[2]] \in T /\ partner[partner[s[2]]] = s[2]
        OBVIOUS
    <2>1. T = {This(p), Operand(p)} /\ partner[This(p)] = Operand(p) /\ partner[Operand(p)] = This(p)
        BY DEF Settles, Returned
    <2> QED BY <1>n, <2>1
<1>2. Noted'
    BY <1>s, <1>o, <1>n DEF Noted
<1>3. GivesBoth'
    BY <1>s, <1>n, <1>g DEF SettleInv, GivesBoth
<1>4. OneSettler'
    <2> SUFFICES ASSUME NEW q \in Player, NEW r \in Player, NEW a \in Due(q)', NEW b \in Due(r)',
                        a[1] \in SettlingKind, b[1] \in SettlingKind, a[2] = b[2]
                 PROVE  q = r
        BY DEF OneSettler
    <2>1. CASE a \in Due(q) /\ b \in Due(r)
        BY <2>1 DEF SettleInv, OneSettler
    <2>2. CASE a \in Due(q) /\ r = p /\ b \in LinesOf(new)
        BY <2>2, <1>n, <1>o
    <2>3. CASE q = p /\ a \in LinesOf(new) /\ b \in Due(r)
        BY <2>3, <1>n, <1>o
    <2> QED BY <1>s, <2>1, <2>2, <2>3
<1>5. OneWay'
    <2> SUFFICES ASSUME NEW q \in Player, NEW r \in Player, NEW a \in Due(q)', NEW b \in Due(r)',
                        a[1] \in {"return", "clear"}, b[1] = "give", partner[a[2]] = b[2]
                 PROVE  FALSE
        BY <1>n DEF OneWay
    <2>1. CASE a \in Due(q) /\ b \in Due(r)
        BY <2>1 DEF SettleInv, OneWay
    <2>2. CASE a \in LinesOf(new) /\ b \in LinesOf(new)
        BY <2>2 DEF Settles, Returned, Given
    <2>3. CASE a \in LinesOf(new) /\ b \in Due(r)
        <3>1. partner[b[2]] \in settled /\ partner[partner[b[2]]] = b[2] /\ b[2] \in 1..made
            BY <2>3, DueTyped DEF SettleInv, GivesBoth
        <3>2. a[2] \in 1..made /\ a[2] \notin settled
            BY <1>n, <2>3
        <3>3. a[2] = partner[b[2]]
            BY <1>t, <3>1, <3>2 DEF PairInv, Partners, None
        <3> QED BY <3>1, <3>2, <3>3
    <2>4. CASE a \in Due(q) /\ b \in LinesOf(new)
        <3>1. a[2] \in settled /\ a[2] \in 1..made
            BY <1>o, <1>t, <2>4 DEF SettlingKind
        <3>2. partner[b[2]] \in T /\ partner[partner[b[2]]] = b[2] /\ b[2] \in 1..made
            BY <1>g, <1>n, <2>4
        <3>3. a[2] = partner[b[2]]
            BY <1>n, <3>1, <3>2 DEF PairInv, Partners, None
        <3> QED BY <1>n, <3>1, <3>2, <3>3
    <2> QED BY <1>s, <2>1, <2>2, <2>3, <2>4
<1>6. AllTidy'
    <2> SUFFICES ASSUME NEW q \in Player PROVE Tidy(todo'[q])
        BY DEF AllTidy
    <2>1. CASE q # p
        BY <1>0, <2>1 DEF SettleInv, AllTidy
    <2>2. CASE q = p
        <3>1. todo'[p] = new \o Rest(p) /\ Rest(p) \in Seq(AnyLine) /\ todo[p] \in Seq(AnyLine)
            BY DueTyped DEF Settles, Runs
        <3>2. Tidy(Rest(p)) /\ Tidy(new)
            BY <3>1, TidyTail, TidyFew DEF SettleInv, AllTidy, Rest, Settles, Block
        <3>3. \A a \in LinesOf(new), b \in LinesOf(Rest(p)) : MayPrecede(a, b)
            <4> SUFFICES ASSUME NEW a \in LinesOf(new), NEW b \in LinesOf(Rest(p)) PROVE MayPrecede(a, b)
                OBVIOUS
            <4>1. a[1] \in SettlingKind /\ a[2] \notin settled
                BY <1>n
            <4>2. b[1] \in SettlingKind => b[2] \in settled
                BY <1>0, <1>o
            <4> QED BY <4>1, <4>2 DEF MayPrecede, SettlingKind
        <3>4. Tidy(new \o Rest(p))
            BY <3>1, <3>2, <3>3, TidyConcat
        <3> QED BY <2>2, <3>1, <3>4
    <2> QED BY <2>1, <2>2
<1> QED BY <1>2, <1>3, <1>4, <1>5, <1>6 DEF SettleInv

LEMMA NextSettles ==
    ASSUME IndInv, PairInv, SettleInv, Orderly', NEW p \in Player, StepOf(p)
    PROVE  SettleInv'
BY QuietSteps, QuietSettleInv, LoudSettleInv

-----------------------------------------------------------------------------
(* What a copied offer still stands for.                                   *)

(* While it may yet be given, what was copied to a trade is in its         *)
(* partner's list.                                                         *)
Exchanges ==
    /\ \A u \in 1..made : exchange[u] # {} => \E t \in 1..made : partner[t] = u
    /\ \A t, u \in 1..made : partner[t] = u /\ (Pending("give", u) \/ {t, u} \cap settled = {}) =>
          exchange[u] \subseteq items[t]

(* Steps that change no partner, copy nothing and clear nothing.           *)
LEMMA ExchangesKept ==
    ASSUME Exchanges,
           UNCHANGED <<made, partner>>, settled \subseteq settled',
           \A t \in 1..made : exchange'[t] \subseteq exchange[t] /\ items[t] \subseteq items'[t],
           \A u \in 1..made : Pending("give", u)' => Pending("give", u) \/ \A t \in 1..made : partner[t] = u => {t, u} \cap settled = {}
    PROVE  Exchanges'
<1>1. \A u \in 1..made : exchange'[u] # {} => \E t \in 1..made : partner[t] = u
    <2> SUFFICES ASSUME NEW u \in 1..made, exchange'[u] # {} PROVE \E t \in 1..made : partner[t] = u
        OBVIOUS
    <2>1. exchange[u] # {}
        OBVIOUS
    <2> QED BY <2>1 DEF Exchanges
<1>2. ASSUME NEW t \in 1..made, NEW u \in 1..made, partner[t] = u, Pending("give", u)' \/ {t, u} \cap settled' = {}
      PROVE  exchange'[u] \subseteq items'[t]
    <2>1. Pending("give", u) \/ {t, u} \cap settled = {}
        BY <1>2
    <2>2. exchange[u] \subseteq items[t]
        BY <1>2, <2>1 DEF Exchanges
    <2> QED BY <2>2
<1> QED BY <1>1, <1>2 DEF Exchanges

(* A line pending after a quiet step was pending before, but for the new.  *)
LEMMA PendingBefore ==
    ASSUME IndInv, NEW p \in Player, NEW new \in Seq(AnyLine), Quiet(p, new)
    PROVE  /\ \A k \in SettlingKind : \A u : Pending(k, u)' => Pending(k, u)
           /\ \A q \in Player : \A s \in Due(q)' : s \in Due(q) \/ (q = p /\ s \in LinesOf(new))
<1>1. /\ Due(p)' = LinesOf(new) \cup LinesOf(Rest(p)) /\ LinesOf(Rest(p)) \subseteq Due(p)
      /\ \A q \in Player : q # p => Due(q)' = Due(q)
    BY RunsLines DEF Quiet
<1> QED BY <1>1 DEF Quiet, Pending

LEMMA NextExchanges ==
    ASSUME IndInv, PairInv, SettleInv, Exchanges, Orderly', NEW p \in Player, StepOf(p)
    PROVE  Exchanges'
<1> USE DEF fields, history
<1>t. /\ made \in Nat /\ 1..made \subseteq Trade /\ partner \in [Trade -> 0..made] /\ settled \subseteq 1..made
      /\ items \in [Trade -> SUBSET Good] /\ exchange \in [Trade -> SUBSET Good]
      /\ \A q \in Player : trade[q] \in 0..made /\ (trade[q] # None => trade[q] \in 1..made /\ chr[trade[q]] = q)
      /\ \A x \in 1..made : x # None
    BY TradesTyped DEF IndInv, TypeOK, None
<1>1. CASE \E new \in Seq(AnyLine) : \E T : Settles(p, new, T)
    <2>1. PICK new \in Seq(AnyLine) : \E T : Settles(p, new, T)
        BY <1>1
    <2>2. PICK T : Settles(p, new, T)
        BY <2>1
    <2>3. /\ Due(p)' = LinesOf(new) \cup LinesOf(Rest(p)) /\ LinesOf(Rest(p)) \subseteq Due(p)
          /\ \A q \in Player : q # p => Due(q)' = Due(q)
        BY <2>2, RunsLines DEF Settles
    <2>4. ASSUME NEW u \in 1..made, Pending("give", u)', ~Pending("give", u), NEW t \in 1..made, partner[t] = u
          PROVE  {t, u} \cap settled = {}
        <3>1. PICK s \in LinesOf(new) : s[1] = "give" /\ s[2] = u
            BY <2>3, <2>4 DEF Pending
        <3>2. T = {This(p), Operand(p)} /\ partner[This(p)] = Operand(p) /\ partner[Operand(p)] = This(p)
              /\ T \cap settled = {} /\ T \subseteq 1..made /\ u \in T
            BY <2>2, <3>1 DEF Settles, Returned, Block
        <3>3. t \in T
            BY <1>t, <2>4, <3>2 DEF PairInv, Partners
        <3> QED BY <3>2, <3>3
    <2>5. UNCHANGED <<made, partner, items, exchange>> /\ settled \subseteq settled'
        BY <2>2 DEF Settles
    <2> QED BY ONLY Exchanges, <2>4, <2>5, ExchangesKept
<1>2. CASE ~\E new \in Seq(AnyLine) : \E T : Settles(p, new, T)
    <2>1. PICK new \in Seq(AnyLine) : Quiet(p, new)
        BY <1>2, QuietSteps
    <2>2. settled' = settled /\ \A u : Pending("give", u)' => Pending("give", u)
        BY <2>1, PendingBefore DEF Quiet, SettlingKind
    <2>3. CASE UNCHANGED <<made, partner>> /\ \A t \in 1..made : exchange'[t] \subseteq exchange[t] /\ items[t] \subseteq items'[t]
        BY ONLY Exchanges, <2>2, <2>3, ExchangesKept
    <2>4. CASE \/ startTrade(p) \/ completeTrade(p) \/ (\E q \in Player : inviteTrade(p, q)) \/ (\E g \in Good : setItems(p, g))
               \/ FirstToConfirm(p) \/ Give(p) \/ Return(p) \/ Close(p)
        <3>1. UNCHANGED <<made, partner, items, exchange>>
            BY <2>4 DEF startTrade, completeTrade, inviteTrade, setItems, FirstToConfirm, Give, Return, Close
        <3> QED BY <2>3, <3>1
    <2>5. CASE addItem(p)
        <3>1. UNCHANGED <<made, partner, exchange>> /\ \A t \in 1..made : items[t] \subseteq items'[t]
            BY <1>t, <2>5 DEF addItem
        <3> QED BY <2>3, <3>1
    <2>6. CASE Empty(p)
        <3>1. UNCHANGED <<made, partner, items>> /\ \A t \in 1..made : exchange'[t] \subseteq exchange[t]
            BY <1>t, <2>6 DEF Empty
        <3> QED BY <2>3, <3>1
    <2>7. CASE Copy(p)
        <3> DEFINE t == This(p)
                   u == Operand(p)
        <3>1. /\ t \in 1..made /\ u \in 1..made /\ Head(todo[p]) \in Due(p) /\ Head(todo[p])[1] = "copy"
              /\ UNCHANGED <<made, partner, items>> /\ exchange' = [exchange EXCEPT ![u] = items[t]]
            BY <2>7, AtLine DEF Copy, At
        <3>2. partner[t] = u
            BY <3>1 DEF PairInv, Confirming, This, Operand
        <3> HIDE DEF t, u
        <3>3. \A v \in 1..made : exchange'[v] = IF v = u THEN items[t] ELSE exchange[v]
            BY <1>t, <3>1
        <3>4. \A x \in 1..made : partner[x] = u => x = t
            BY <1>t, <3>1, <3>2 DEF PairInv, Partners
        <3>5. \A v \in 1..made : exchange'[v] # {} => \E x \in 1..made : partner[x] = v
            BY <3>1, <3>2, <3>3 DEF Exchanges
        <3>6. ASSUME NEW x \in 1..made, NEW v \in 1..made, partner[x] = v, Pending("give", v)' \/ {x, v} \cap settled' = {}
              PROVE  exchange'[v] \subseteq items[x]
            <4>1. CASE v = u
                BY <3>3, <3>4, <3>6, <4>1
            <4>2. CASE v # u
                BY <2>2, <3>3, <3>6, <4>2 DEF Exchanges
            <4> QED BY <4>1, <4>2
        <3> QED BY <3>1, <3>5, <3>6 DEF Exchanges
    <2>8. CASE Clear(p)
        <3> DEFINE t == This(p)
        <3>1. /\ t \in 1..made /\ Head(todo[p]) \in Due(p) /\ Head(todo[p])[1] = "clear"
              /\ UNCHANGED <<made, partner, exchange>> /\ items' = [items EXCEPT ![t] = {}]
            BY <2>8, AtLine DEF Clear, At
        <3>2. t \in settled
            BY <3>1 DEF SettleInv, Noted, SettlingKind, This
        <3>3. \A q \in Player : \A b \in Due(q) : b[1] = "give" => partner[t] # b[2]
            BY <3>1 DEF SettleInv, OneWay, This
        <3>4. ~Pending("give", partner[t])
            BY <3>3 DEF Pending
        <3> HIDE DEF t
        <3>5. \A x \in 1..made : items'[x] = IF x = t THEN {} ELSE items[x]
            BY <1>t, <3>1
        <3>6. ASSUME NEW x \in 1..made, NEW v \in 1..made, partner[x] = v, Pending("give", v)' \/ {x, v} \cap settled' = {}
              PROVE  exchange[v] \subseteq items'[x]
            <4>1. x # t
                BY <2>2, <3>2, <3>4, <3>6
            <4> QED BY <2>2, <3>5, <3>6, <4>1 DEF Exchanges
        <3> QED BY <3>1, <3>6 DEF Exchanges
    <2>n. ASSUME NEW o \in Player, NEW with \in 0..made, New(o, with), UNCHANGED <<items, exchange>>,
                 with # None => partner[with] = None /\ \A t \in 1..made : partner[t] # with
          PROVE  Exchanges'
        <3> DEFINE n == made + 1
        <3>1. made' = n /\ n \in Trade /\ n \notin 1..made /\ 1..n = 1..made \cup {n} /\ n \notin 0..made
            <4>1. made' = n /\ made < MaxTrades
                BY <2>n DEF New
            <4> QED BY <1>t, <4>1, TradesAssumption DEF Trade
        <3>2. partner'[n] = with /\ \A t \in 1..made : partner'[t] = partner[t]
            BY <1>t, <2>n, <3>1 DEF New
        <3>3. exchange[n] = {}
            BY <3>1 DEF PairInv, Fresh
        <3> HIDE DEF n
        <3>4. \A v \in 1..n : exchange[v] # {} => \E x \in 1..n : partner'[x] = v
            BY <3>1, <3>2, <3>3 DEF Exchanges
        <3>5. with # None => exchange[with] = {}
            BY <1>t, <2>n DEF Exchanges, None
        <3>6. ASSUME NEW x \in 1..n, NEW v \in 1..n, partner'[x] = v, Pending("give", v)' \/ {x, v} \cap settled' = {}
              PROVE  exchange[v] \subseteq items[x]
            <4>1. CASE x = n
                BY <1>t, <2>n, <3>1, <3>2, <3>5, <3>6, <4>1 DEF None
            <4>2. CASE x # n
                <5>1. x \in 1..made /\ partner[x] = v
                    BY <3>1, <3>2, <3>6, <4>2
                <5>2. v \in 1..made
                    BY <1>t, <3>1, <3>6, <5>1
                <5> QED BY <2>2, <3>6, <5>1, <5>2 DEF Exchanges
            <4> QED BY <4>1, <4>2
        <3> QED BY <2>n, <3>1, <3>4, <3>6 DEF Exchanges
    <2>9. CASE Start(p)
        <3>1. New(p, None) /\ None \in 0..made /\ UNCHANGED <<items, exchange>>
            BY <1>t, <2>9 DEF Start, None
        <3> QED BY <2>n, <3>1
    <2>10. CASE Offer(p)
        <3> DEFINE u == trade[p]
        <3>1. New(Operand(p), u) /\ u \in 0..made /\ UNCHANGED <<items, exchange>> /\ Operand(p) \in Player
              /\ ~At(p, "answer")
            BY <1>t, <2>10, Current DEF Offer, At
        <3>2. u # None => partner[u] = None /\ \A t \in 1..made : partner[t] # u
            <4> SUFFICES ASSUME u # None PROVE partner[u] = None /\ \A t \in 1..made : partner[t] # u
                OBVIOUS
            <4>1. partner[u] = None
                BY <2>10 DEF Offer, Orderly, Paired
            <4>2. u \in 1..made /\ chr[u] = p
                BY <1>t
            <4> QED BY <3>1, <4>1, <4>2 DEF PairInv, Unanswered
        <3> HIDE DEF u
        <3> QED BY <2>n, <3>1, <3>2
    <2>11. CASE Answer(p)
        <3>1. UNCHANGED <<made, items, exchange>> /\ Operand(p) \in Player
            BY <2>11, Current DEF Answer, At
        <3>2. CASE trade[p] = None \/ locked[trade[p]]
            <4>1. UNCHANGED partner
                BY <2>11, <3>2 DEF Answer
            <4> QED BY <2>3, <3>1, <4>1
        <3>3. CASE ~(trade[p] = None \/ locked[trade[p]])
            <4> DEFINE u == trade[p]
                       w == trade[Operand(p)]
            <4>1. partner' = [partner EXCEPT ![u] = w] /\ partner[u] = None /\ w # None /\ partner[w] = u
                BY <2>11, <3>3 DEF Answer, Orderly, Paired, Met
            <4>2. u \in 1..made /\ w \in 1..made
                BY <1>t, <3>1, <3>3, <4>1
            <4> HIDE DEF u, w
            <4>3. \A t \in Trade : partner'[t] = IF t = u THEN w ELSE partner[t]
                BY <1>t, <4>1, <4>2
            <4>4. \A x \in 1..made : partner[x] # w
                <5> SUFFICES ASSUME NEW x \in 1..made, partner[x] = w PROVE FALSE
                    OBVIOUS
                <5>1. partner[w] \in {None, x}
                    BY <4>2 DEF PairInv, Partners
                <5> QED BY <1>t, <4>1, <4>2, <5>1
            <4>5. exchange[w] = {}
                BY <4>2, <4>4 DEF Exchanges
            <4>6. ASSUME NEW v \in 1..made, exchange[v] # {} PROVE \E x \in 1..made : partner'[x] = v
                <5>1. PICK x \in 1..made : partner[x] = v
                    BY <4>6 DEF Exchanges
                <5>2. x # u
                    BY <1>t, <4>1, <5>1
                <5> QED BY <1>t, <4>3, <5>1, <5>2
            <4>7. ASSUME NEW x \in 1..made, NEW v \in 1..made, partner'[x] = v, Pending("give", v)' \/ {x, v} \cap settled' = {}
                  PROVE  exchange[v] \subseteq items[x]
                <5>1. CASE x = u
                    BY <1>t, <4>3, <4>5, <4>7, <5>1
                <5>2. CASE x # u
                    BY <1>t, <2>2, <4>3, <4>7, <5>2 DEF Exchanges
                <5> QED BY <5>1, <5>2
            <4> QED BY <3>1, <4>6, <4>7 DEF Exchanges
        <3> QED BY <3>2, <3>3
    <2> QED BY <1>2, <2>4, <2>5, <2>6, <2>7, <2>8, <2>9, <2>10, <2>11 DEF StepOf
<1> QED BY <1>1, <1>2

-----------------------------------------------------------------------------
(* Where a good is: in an inventory, on its way into a trade, or in a      *)
(* trade that nobody settles or whose goods are still to be handed out.    *)

InBag(p, g) == bag[p][g] > 0
InHand(p, g) == \E s \in Due(p) : s[1] = "put" /\ s[3] = g
InTrade(t, g) ==
    /\ t \in 1..made /\ g \in items[t]
    /\ t \notin settled \/ Pending("return", t) \/ Pending("give", partner[t])

OnceOf(g) ==
    /\ \A p \in Player : bag[p][g] <= 1
    /\ \A p, q \in Player : /\ InBag(p, g) /\ InBag(q, g) => p = q
                            /\ InHand(p, g) /\ InHand(q, g) => p = q
                            /\ ~(InBag(p, g) /\ InHand(q, g))
    /\ \A t, u \in 1..made : InTrade(t, g) /\ InTrade(u, g) => t = u
    /\ \A t \in 1..made : \A p \in Player : ~(InTrade(t, g) /\ (InBag(p, g) \/ InHand(p, g)))
    /\ g \in spilled => /\ \A p \in Player : ~InBag(p, g) /\ ~InHand(p, g)
                        /\ \A t \in 1..made : ~InTrade(t, g)
Once == \A g \in Good : OnceOf(g)

(* A good that turns up nowhere else is still in one place.                *)
LEMMA OnceKept ==
    ASSUME NEW g \in Good, OnceOf(g),
           \A p \in Player : bag'[p][g] = bag[p][g] /\ (InHand(p, g)' => InHand(p, g)),
           \A t \in 1..made' : InTrade(t, g)' => t \in 1..made /\ InTrade(t, g),
           g \in spilled' => g \in spilled
    PROVE  OnceOf(g)'
<1>1. \A p \in Player : InBag(p, g)' <=> InBag(p, g)
    BY DEF InBag
<1> HIDE DEF InBag, InHand, InTrade
<1> QED BY <1>1 DEF OnceOf

(* A quiet step brings nothing back into a trade.                          *)
LEMMA QuietInTrade ==
    ASSUME IndInv, SettleInv, NEW p \in Player, NEW new \in Seq(AnyLine), Quiet(p, new),
           NEW t \in 1..made, NEW g \in items[t], InTrade(t, g)'
    PROVE  InTrade(t, g)
<1>1. /\ settled' = settled
      /\ \A u : (Pending("return", u)' => Pending("return", u)) /\ (Pending("give", u)' => Pending("give", u))
    BY PendingBefore DEF Quiet, SettlingKind
<1>2. CASE t \notin settled' \/ Pending("return", t)'
    BY <1>1, <1>2 DEF InTrade
<1>3. CASE Pending("give", partner[t])'
    <2>1. Pending("give", partner'[t])
        <3>1. PICK q \in Player : \E s \in Due(q)' : s[1] = "give" /\ s[2] = partner'[t]
            BY <1>3 DEF Pending
        <3>2. PICK s \in Due(q)' : s[1] = "give" /\ s[2] = partner'[t]
            BY <3>1
        <3>3. s \in Due(q)
            BY <3>2, PendingBefore DEF Quiet, SettlingKind
        <3> QED BY <3>2, <3>3 DEF Pending
    <2>2. PICK q \in Player : \E s \in Due(q) : s[1] = "give" /\ s[2] = partner'[t]
        BY <2>1 DEF Pending
    <2>3. PICK s \in Due(q) : s[1] = "give" /\ s[2] = partner'[t]
        BY <2>2
    <2>4. s[2] \in 1..made /\ s[2] # None /\ partner[partner[s[2]]] = s[2]
        <3>1. s[2] \in 1..made
            BY <2>3, DueTyped
        <3>2. s[2] # None
            BY <3>1, TradesTyped DEF None
        <3> QED BY <2>3, <3>1, <3>2 DEF SettleInv, GivesBoth
    <2>5. partner'[t] = partner[t]
        <3>1. CASE partner[t] = None
            <4>1. partner[partner'[t]] = t
                BY <2>3, <2>4, <3>1 DEF Quiet
            <4> QED BY <2>3, <2>4, <3>1, <4>1
        <3>2. CASE partner[t] # None
            BY <3>2 DEF Quiet
        <3> QED BY <3>1, <3>2
    <2> QED BY <2>1, <2>5 DEF InTrade
<1>4. t \notin settled' \/ Pending("return", t)' \/ Pending("give", partner[t])'
    BY DEF InTrade
<1> QED BY <1>2, <1>3, <1>4

(* Nor does one that settles trades.                                       *)
LEMMA LoudInTrade ==
    ASSUME IndInv, PairInv, SettleInv, NEW p \in Player, NEW new \in Seq(AnyLine), NEW T, Settles(p, new, T),
           NEW t \in 1..made, NEW g \in items[t], InTrade(t, g)'
    PROVE  InTrade(t, g)
<1>0. /\ Due(p)' = LinesOf(new) \cup LinesOf(Rest(p)) /\ LinesOf(Rest(p)) \subseteq Due(p)
      /\ \A q \in Player : q # p => Due(q)' = Due(q)
    BY RunsLines DEF Settles
<1>1. settled' = settled \cup T /\ T \cap settled = {} /\ UNCHANGED <<made, partner, items>>
      /\ \A s \in LinesOf(new) : s[2] \in T
    BY DEF Settles, Block, fields
<1>2. CASE t \in T
    BY <1>1, <1>2 DEF InTrade
<1>3. CASE t \notin T
    <2>1. CASE t \notin settled'
        BY <1>1, <2>1 DEF InTrade
    <2>2. CASE Pending("return", t)'
        <3>1. PICK q \in Player : \E s \in Due(q)' : s[1] = "return" /\ s[2] = t
            BY <2>2 DEF Pending
        <3>2. PICK s \in Due(q)' : s[1] = "return" /\ s[2] = t
            BY <3>1
        <3>3. s \in Due(q)
            BY <1>0, <1>1, <1>3, <3>2
        <3> QED BY <3>2, <3>3 DEF InTrade, Pending
    <2>3. CASE Pending("give", partner[t])'
        <3>1. PICK q \in Player : \E s \in Due(q)' : s[1] = "give" /\ s[2] = partner[t]
            BY <1>1, <2>3 DEF Pending
        <3>2. PICK s \in Due(q)' : s[1] = "give" /\ s[2] = partner[t]
            BY <3>1
        <3>3. s \notin LinesOf(new)
            <4> SUFFICES ASSUME s \in LinesOf(new) PROVE FALSE
                OBVIOUS
            <4>1. T = {This(p), Operand(p)} /\ partner[This(p)] = Operand(p) /\ partner[Operand(p)] = This(p)
                  /\ T \subseteq 1..made /\ s[2] \in T
                BY <1>1, <3>2 DEF Settles, Returned
            <4>2. made \in Nat /\ \A x \in 1..made : x # None
                BY DEF IndInv, TypeOK, None
            <4>3. t \in T
                BY <3>2, <4>1, <4>2 DEF PairInv, Partners
            <4> QED BY <1>3, <4>3
        <3>4. s \in Due(q)
            BY <1>0, <3>2, <3>3
        <3>5. Pending("give", partner[t])
            BY <3>2, <3>4 DEF Pending
        <3> QED BY <3>5 DEF InTrade
    <2>4. t \notin settled' \/ Pending("return", t)' \/ Pending("give", partner[t])'
        BY DEF InTrade
    <2> QED BY <2>1, <2>2, <2>3, <2>4
<1> QED BY <1>2, <1>3

LEMMA QuietInHand ==
    ASSUME IndInv, NEW p \in Player, NEW new \in Seq(AnyLine), Quiet(p, new), NEW g \in Good,
           \A s \in LinesOf(new) : ~(s[1] = "put" /\ s[3] = g),
           NEW q \in Player, InHand(q, g)'
    PROVE  InHand(q, g)
<1>1. PICK s \in Due(q)' : s[1] = "put" /\ s[3] = g
    BY DEF InHand
<1>2. s \in Due(q)
    BY <1>1, PendingBefore
<1> QED BY <1>1, <1>2 DEF InHand

(* What a session returns or gives is not returned or given again.         *)
LEMMA LastOfItsKind ==
    ASSUME IndInv, SettleInv, NEW p \in Player, NEW k \in {"return", "give"}, At(p, k), Runs(p, <<>>),
           NEW u, u = This(p)
    PROVE  ~Pending(k, u)'
<1>1. /\ Head(todo[p]) \in Due(p) /\ todo[p] \in Seq(AnyLine) /\ Head(todo[p])[1] = k
      /\ LinesOf(<<>>) = {} /\ <<>> \in Seq(AnyLine)
    BY AtLine, DueTyped, LinesOfFew, EmptySeq DEF At
<1>2. Due(p)' = LinesOf(Rest(p)) /\ \A q \in Player : q # p => Due(q)' = Due(q)
    <2>1. /\ Due(p)' = LinesOf(<<>>) \cup LinesOf(Rest(p))
          /\ \A q \in Player : q # p => Due(q)' = Due(q) /\ todo'[q] = todo[q]
        BY <1>1, RunsLines
    <2> QED BY <1>1, <2>1
<1>3. \A b \in LinesOf(Rest(p)) : MayPrecede(Head(todo[p]), b)
    BY <1>1, TidyTail DEF At, Rest, SettleInv, AllTidy
<1> SUFFICES ASSUME NEW q \in Player, NEW s \in Due(q)', s[1] = k, s[2] = u PROVE FALSE
    BY DEF Pending
<1>4. CASE q = p
    BY <1>1, <1>2, <1>3, <1>4 DEF MayPrecede, This
<1>5. CASE q # p
    BY <1>1, <1>2, <1>5 DEF SettleInv, OneSettler, SettlingKind, This
<1> QED BY <1>4, <1>5

(* Statements and calls that move no goods.                                *)
LEMMA NothingMoved ==
    ASSUME IndInv, SettleInv, Once, NEW p \in Player, NEW new \in Seq(AnyLine), Quiet(p, new),
           bag' = bag, spilled' = spilled, \A s \in LinesOf(new) : s[1] # "put",
           \A t \in 1..made' : items'[t] # {} => t \in 1..made /\ items'[t] \subseteq items[t]
    PROVE  Once'
<1> SUFFICES ASSUME NEW g \in Good PROVE OnceOf(g)'
    BY DEF Once
<1>1. OnceOf(g)
    BY DEF Once
<1>2. \A q \in Player : bag'[q][g] = bag[q][g] /\ (InHand(q, g)' => InHand(q, g))
    BY QuietInHand
<1>3. ASSUME NEW t \in 1..made', InTrade(t, g)' PROVE t \in 1..made /\ InTrade(t, g)
    <2>1. g \in items'[t]
        BY <1>3 DEF InTrade
    <2>2. t \in 1..made /\ g \in items[t]
        BY <2>1
    <2> QED BY <1>3, <2>2, QuietInTrade
<1> QED BY <1>1, <1>2, <1>3, OnceKept

LEMMA SettlesOnce ==
    ASSUME IndInv, PairInv, SettleInv, Once, NEW p \in Player, NEW new \in Seq(AnyLine), NEW T, Settles(p, new, T)
    PROVE  Once'
<1> SUFFICES ASSUME NEW g \in Good PROVE OnceOf(g)'
    BY DEF Once
<1>1. OnceOf(g)
    BY DEF Once
<1>0. /\ Due(p)' = LinesOf(new) \cup LinesOf(Rest(p)) /\ LinesOf(Rest(p)) \subseteq Due(p)
      /\ \A q \in Player : q # p => Due(q)' = Due(q)
    BY RunsLines DEF Settles
<1>n. UNCHANGED <<made, bag, items, spilled>> /\ \A s \in LinesOf(new) : s[1] # "put"
    BY DEF Settles, Block, SettlingKind, fields
<1>2. \A q \in Player : bag'[q][g] = bag[q][g] /\ (InHand(q, g)' => InHand(q, g))
    BY <1>0, <1>n DEF InHand
<1>3. ASSUME NEW t \in 1..made', InTrade(t, g)' PROVE t \in 1..made /\ InTrade(t, g)
    <2>1. t \in 1..made /\ g \in items[t]
        BY <1>n, <1>3 DEF InTrade
    <2> QED BY <1>3, <2>1, LoudInTrade
<1> QED BY <1>1, <1>2, <1>3, <1>n, OnceKept

(* An item or mesos leaves the inventory and is on its way.                *)
LEMMA WithdrawnOnce ==
    ASSUME IndInv, SettleInv, Once, NEW p \in Player, NEW h \in Good, setItems(p, h)
    PROVE  Once'
<1> DEFINE new == <<<<"put", trade[p], h>>>>
<1>0. /\ new \in Seq(AnyLine) /\ LinesOf(new) = {<<"put", trade[p], h>>} /\ Runs(p, new) /\ Tidy(new)
      /\ settled' = settled /\ UNCHANGED <<made, partner, items, spilled>> /\ todo[p] = <<>>
      /\ bag' = [bag EXCEPT ![p][h] = @ - 1] /\ bag[p][h] > 0 /\ bag \in [Player -> [Good -> Nat]]
    BY SmallPrograms, OneLine DEF setItems, Idle, Withdrawn, fields, history, IndInv, TypeOK
<1> HIDE DEF new
<1>q. Quiet(p, new)
    <2>1. \A s \in LinesOf(new) : s[1] \notin SettlingKind
        BY <1>0 DEF SettlingKind
    <2>2. partner' = partner
        BY <1>0
    <2> QED BY <1>0, <2>1, <2>2 DEF Quiet
<1>t. \A g \in Good : \A t \in 1..made : InTrade(t, g)' => InTrade(t, g)
    <2> SUFFICES ASSUME NEW g \in Good, NEW t \in 1..made, InTrade(t, g)' PROVE InTrade(t, g)
        OBVIOUS
    <2>1. g \in items[t]
        BY <1>0 DEF InTrade
    <2> QED BY <1>0, <1>q, <2>1, QuietInTrade
<1> SUFFICES ASSUME NEW g \in Good PROVE OnceOf(g)'
    BY DEF Once
<1>1. OnceOf(g)
    BY DEF Once
<1>2. CASE g # h
    <2>1. \A q \in Player : bag'[q][g] = bag[q][g]
        BY <1>0, <1>2
    <2>2. \A s \in LinesOf(new) : ~(s[1] = "put" /\ s[3] = g)
        BY <1>0, <1>2
    <2>3. \A q \in Player : InHand(q, g)' => InHand(q, g)
        BY <1>0, <1>q, <2>2, QuietInHand
    <2> QED BY <1>0, <1>1, <1>t, <2>1, <2>3, OnceKept
<1>3. CASE g = h
    <2>1. InBag(p, g) /\ bag[p][g] = 1
        BY <1>0, <1>1, <1>3 DEF InBag, OnceOf
    <2>2. \A q \in Player : bag'[q][g] = 0
        <3>1. \A q \in Player : q # p => bag[q][g] = 0
            BY <1>0, <1>1, <2>1 DEF InBag, OnceOf
        <3> QED BY <1>0, <1>3, <2>1, <3>1
    <2>3. \A q \in Player : InHand(q, g)' => q = p
        <3> SUFFICES ASSUME NEW q \in Player, InHand(q, g)', q # p PROVE FALSE
            OBVIOUS
        <3>1. Due(q)' = Due(q)
            BY <1>0, RunsLines
        <3>2. InHand(q, g)
            BY <3>1 DEF InHand
        <3> QED BY <1>1, <2>1, <3>2 DEF OnceOf
    <2>4. \A t \in 1..made : ~InTrade(t, g)'
        BY <1>1, <1>t, <2>1 DEF OnceOf
    <2>5. \A q \in Player : ~InBag(q, g)'
        BY <2>2 DEF InBag
    <2>6. g \notin spilled'
        BY <1>0, <1>1, <2>1 DEF OnceOf
    <2> HIDE DEF InBag, InHand, InTrade
    <2> QED BY <1>0, <2>2, <2>3, <2>4, <2>5, <2>6 DEF OnceOf
<1> QED BY <1>2, <1>3

(* ... and is put into the trade.                                          *)
LEMMA PutOnce ==
    ASSUME IndInv, SettleInv, Once, NEW p \in Player, addItem(p)
    PROVE  Once'
<1> DEFINE u == This(p)
           h == Operand(p)
<1>0. /\ <<>> \in Seq(AnyLine) /\ LinesOf(<<>>) = {} /\ Runs(p, <<>>) /\ Tidy(<<>>)
      /\ settled' = settled /\ UNCHANGED <<made, partner, bag, spilled>> /\ todo[p] # <<>> /\ Head(todo[p])[1] = "put"
      /\ items' = [items EXCEPT ![u] = @ \cup {h}] /\ items \in [Trade -> SUBSET Good]
    BY SmallPrograms, LinesOfFew, EmptySeq, TidyFew DEF addItem, At, IndInv, TypeOK
<1>q. Quiet(p, <<>>)
    BY <1>0 DEF Quiet
<1>l. /\ u \in 1..made /\ u \in Trade /\ h \in Good /\ Head(todo[p]) \in Due(p) /\ Head(todo[p])[3] = h
      /\ 1..made \subseteq Trade /\ todo[p] \in Seq(AnyLine)
    BY <1>0, AtLine, TradesTyped, DueTyped DEF Operand
<1> HIDE DEF u, h
<1>t. \A g \in Good : \A t \in 1..made : InTrade(t, g)' /\ g \in items[t] => InTrade(t, g)
    BY <1>0, <1>q, QuietInTrade
<1> SUFFICES ASSUME NEW g \in Good PROVE OnceOf(g)'
    BY DEF Once
<1>1. OnceOf(g)
    BY DEF Once
<1>h. \A q \in Player : InHand(q, g)' => InHand(q, g)
    BY <1>0, <1>q, QuietInHand
<1>2. CASE g # h
    <2>1. \A t \in 1..made : g \in items'[t] => g \in items[t]
        BY <1>0, <1>2, <1>l
    <2>2. \A t \in 1..made' : InTrade(t, g)' => t \in 1..made /\ InTrade(t, g)
        BY <1>0, <1>t, <2>1 DEF InTrade
    <2>3. \A q \in Player : bag'[q][g] = bag[q][g]
        BY <1>0
    <2> QED BY <1>0, <1>1, <1>h, <2>2, <2>3, OnceKept
<1>3. CASE g = h
    <2>1. InHand(p, g)
        BY <1>0, <1>l, <1>3 DEF InHand
    <2>2. \A q \in Player : ~InBag(q, g)' /\ bag'[q][g] <= 1
        BY <1>0, <1>1, <2>1 DEF InBag, OnceOf
    <2>3. \A q \in Player : ~InHand(q, g)'
        <3> SUFFICES ASSUME NEW q \in Player, InHand(q, g)' PROVE FALSE
            OBVIOUS
        <3>1. q = p
            BY <1>1, <1>h, <2>1 DEF OnceOf
        <3>2. Due(p)' = LinesOf(Rest(p))
            <4>1. Due(p)' = LinesOf(<<>>) \cup LinesOf(Rest(p))
                BY ONLY IndInv, p \in Player, <1>0, RunsLines
            <4> QED BY <1>0, <4>1
        <3>3. \A b \in LinesOf(Rest(p)) : MayPrecede(Head(todo[p]), b)
            BY <1>0, <1>l, TidyTail DEF Rest, SettleInv, AllTidy
        <3>4. PICK s \in LinesOf(Rest(p)) : s[1] = "put"
            BY <3>1, <3>2 DEF InHand
        <3> QED BY <1>0, <3>3, <3>4 DEF MayPrecede
    <2>4. \A t \in 1..made : InTrade(t, g)' => t = u
        <3> SUFFICES ASSUME NEW t \in 1..made, InTrade(t, g)', t # u PROVE FALSE
            OBVIOUS
        <3>1. g \in items'[t]
            BY DEF InTrade
        <3>2. g \in items[t]
            BY <1>0, <1>l, <3>1
        <3>3. InTrade(t, g)
            BY <1>t, <3>2
        <3> QED BY <1>1, <2>1, <3>3 DEF OnceOf
    <2>5. g \notin spilled'
        BY <1>0, <1>1, <2>1 DEF OnceOf
    <2> HIDE DEF InBag, InHand, InTrade
    <2> QED BY <1>0, <2>2, <2>3, <2>4, <2>5 DEF OnceOf
<1> QED BY <1>2, <1>3

(* Goods come back to an inventory, from one's own trade or the partner's, *)
(* or are refused.                                                         *)
LEMMA ReceivedOnce ==
    ASSUME IndInv, SettleInv, Once, NEW p \in Player, NEW o \in Player, NEW G \in SUBSET Good, HandOut(o, G),
           Runs(p, <<>>), UNCHANGED <<made, settled, partner, items>>,
           NEW u \in 1..made,
           \A g \in G : InTrade(u, g) /\ ~InTrade(u, g)'
    PROVE  Once'
<1>0. /\ <<>> \in Seq(AnyLine) /\ LinesOf(<<>>) = {} /\ Tidy(<<>>)
      /\ bag \in [Player -> [Good -> Nat]]
    BY LinesOfFew, EmptySeq, TidyFew DEF IndInv, TypeOK
<1>q. Quiet(p, <<>>)
    BY <1>0 DEF Quiet
<1>r. PICK refused \in SUBSET (G \cap Item) : Received(o, G \ refused) /\ spilled' = spilled \cup refused
    BY DEF HandOut
<1>b. \A q \in Player : \A g \in Good :
          bag'[q][g] = IF q = o /\ g \in G \ refused THEN bag[q][g] + 1 ELSE bag[q][g]
    BY <1>0, <1>r DEF Received, Gained
<1>t. \A g \in Good : \A t \in 1..made' : InTrade(t, g)' => t \in 1..made /\ InTrade(t, g)
    <2> SUFFICES ASSUME NEW g \in Good, NEW t \in 1..made', InTrade(t, g)' PROVE t \in 1..made /\ InTrade(t, g)
        OBVIOUS
    <2>1. t \in 1..made /\ g \in items[t]
        BY DEF InTrade
    <2> QED BY <1>0, <1>q, <2>1, QuietInTrade
<1> SUFFICES ASSUME NEW g \in Good PROVE OnceOf(g)'
    BY DEF Once
<1>1. OnceOf(g)
    BY DEF Once
<1>h. \A q \in Player : InHand(q, g)' => InHand(q, g)
    BY <1>0, <1>q, QuietInHand
<1>2. CASE g \notin G
    <2>1. \A q \in Player : bag'[q][g] = bag[q][g]
        BY <1>b, <1>2
    <2>2. g \in spilled' => g \in spilled
        BY <1>r, <1>2
    <2> QED BY <1>1, <1>h, <1>t, <2>1, <2>2, OnceKept
<1>3. CASE g \in G
    <2>1. InTrade(u, g) /\ ~InTrade(u, g)'
        BY <1>3
    <2>2. \A q \in Player : bag[q][g] = 0
        BY <1>0, <1>1, <2>1 DEF OnceOf, InBag
    <2>3. \A q \in Player : bag'[q][g] <= 1 /\ (InBag(q, g)' => q = o)
        BY <1>b, <2>2 DEF InBag
    <2>4. \A q \in Player : ~InHand(q, g)'
        BY <1>1, <1>h, <2>1 DEF OnceOf
    <2>5. \A t \in 1..made' : ~InTrade(t, g)'
        BY <1>1, <1>t, <2>1 DEF OnceOf
    <2>6. g \in spilled' => \A q \in Player : ~InBag(q, g)'
        <3> SUFFICES ASSUME g \in spilled', NEW q \in Player PROVE bag'[q][g] = 0
            BY DEF InBag
        <3>1. g \notin spilled
            BY <1>1, <2>1 DEF OnceOf
        <3>2. g \in refused
            BY <1>r, <3>1
        <3> QED BY <1>b, <2>2, <3>2
    <2> HIDE DEF InBag, InHand, InTrade
    <2> QED BY <2>3, <2>4, <2>5, <2>6 DEF OnceOf
<1> QED BY <1>2, <1>3

LEMMA ReturnOnce ==
    ASSUME IndInv, PairInv, SettleInv, Once, NEW p \in Player, Return(p)
    PROVE  Once'
<1>0. /\ Runs(p, <<>>) /\ UNCHANGED <<made, settled, partner, items>> /\ At(p, "return")
      /\ This(p) \in 1..made /\ HandOut(chr[This(p)], items[This(p)])
      /\ Head(todo[p]) \in Due(p) /\ Head(todo[p])[1] = "return"
    BY SmallPrograms, AtLine DEF Return, At, fields, history
<1>1. PICK u \in 1..made : u = This(p)
    BY <1>0
<1>2. PICK o \in Player : o = chr[u]
    BY TradesTyped
<1>3. items[u] \in SUBSET Good
    BY TradesTyped DEF IndInv, TypeOK
<1>4. PICK G \in SUBSET Good : G = items[u]
    BY <1>3
<1>5. Pending("return", u) /\ u \in settled
    BY <1>0, <1>1 DEF Pending, This, SettleInv, Noted, SettlingKind
<1>6. ~Pending("return", u)'
    BY <1>0, <1>1, LastOfItsKind
<1>7. ~Pending("give", partner[u])'
    <2> SUFFICES ASSUME NEW q \in Player, NEW s \in Due(q)', s[1] = "give", s[2] = partner[u] PROVE FALSE
        BY <1>0 DEF Pending
    <2>1. s \in Due(q)
        <3>1. <<>> \in Seq(AnyLine) /\ LinesOf(<<>>) = {} /\ Runs(p, <<>>)
            BY <1>0, LinesOfFew, EmptySeq
        <3>2. /\ Due(p)' = LinesOf(<<>>) \cup LinesOf(Rest(p)) /\ LinesOf(Rest(p)) \subseteq Due(p)
              /\ \A x \in Player : x # p => Due(x)' = Due(x) /\ todo'[x] = todo[x]
            BY <3>1, RunsLines
        <3> QED BY <3>1, <3>2
    <2> QED BY <1>0, <1>1, <2>1 DEF SettleInv, OneWay, This
<1>8. \A g \in G : InTrade(u, g) /\ ~InTrade(u, g)'
    BY <1>0, <1>4, <1>5, <1>6, <1>7 DEF InTrade
<1>9. HandOut(o, G)
    BY <1>0, <1>1, <1>2, <1>4
<1> QED BY <1>0, <1>8, <1>9, ReceivedOnce

LEMMA GiveOnce ==
    ASSUME IndInv, PairInv, SettleInv, Exchanges, Once, NEW p \in Player, Give(p)
    PROVE  Once'
<1>0. /\ Runs(p, <<>>) /\ UNCHANGED <<made, settled, partner, items>> /\ At(p, "give")
      /\ This(p) \in 1..made /\ HandOut(chr[This(p)], exchange[This(p)])
      /\ Head(todo[p]) \in Due(p) /\ Head(todo[p])[1] = "give"
    BY SmallPrograms, AtLine DEF Give, At, fields, history
<1>1. PICK v \in 1..made : v = This(p)
    BY <1>0
<1>2. PICK o \in Player : o = chr[v]
    BY TradesTyped
<1>3. exchange[v] \in SUBSET Good
    BY TradesTyped DEF IndInv, TypeOK
<1>4. PICK G \in SUBSET Good : G = exchange[v]
    BY <1>3
<1>t. made \in Nat /\ settled \subseteq 1..made /\ \A x \in 1..made : x # None
    BY TradesTyped DEF IndInv, TypeOK, None
<1>5. Pending("give", v) /\ partner[v] \in settled /\ partner[partner[v]] = v
    BY <1>0, <1>1 DEF Pending, This, SettleInv, GivesBoth
<1>6. PICK u \in 1..made : u = partner[v]
    BY <1>5, <1>t
<1>7. exchange[v] \subseteq items[u] /\ partner[u] = v /\ u \in settled
    BY <1>5, <1>6 DEF Exchanges
<1>8. ~Pending("give", v)'
    BY <1>0, <1>1, LastOfItsKind
<1>9. ~Pending("return", u)'
    <2> SUFFICES ASSUME NEW q \in Player, NEW s \in Due(q)', s[1] = "return", s[2] = u PROVE FALSE
        BY DEF Pending
    <2>1. s \in Due(q)
        <3>1. <<>> \in Seq(AnyLine) /\ LinesOf(<<>>) = {} /\ Runs(p, <<>>)
            BY <1>0, LinesOfFew, EmptySeq
        <3>2. /\ Due(p)' = LinesOf(<<>>) \cup LinesOf(Rest(p)) /\ LinesOf(Rest(p)) \subseteq Due(p)
              /\ \A x \in Player : x # p => Due(x)' = Due(x) /\ todo'[x] = todo[x]
            BY <3>1, RunsLines
        <3> QED BY <3>1, <3>2
    <2> QED BY <1>0, <1>1, <1>7, <2>1 DEF SettleInv, OneWay, This
<1>10. ~Pending("give", partner[u])'
    BY <1>0, <1>7, <1>8 DEF Pending
<1>11. \A g \in G : InTrade(u, g) /\ ~InTrade(u, g)'
    BY <1>0, <1>4, <1>5, <1>7, <1>9, <1>10 DEF InTrade
<1>12. HandOut(o, G)
    BY <1>0, <1>1, <1>2, <1>4
<1> QED BY <1>0, <1>11, <1>12, ReceivedOnce

LEMMA NextOnce ==
    ASSUME IndInv, PairInv, SettleInv, Exchanges, Once, Orderly', NEW p \in Player, StepOf(p)
    PROVE  Once'
<1> USE DEF fields, history
<1>t. /\ made \in Nat /\ 1..made \subseteq Trade /\ items \in [Trade -> SUBSET Good]
    BY TradesTyped DEF IndInv, TypeOK
<1>1. CASE \E new \in Seq(AnyLine) : \E T : Settles(p, new, T)
    BY <1>1, SettlesOnce
<1>2. CASE \E g \in Good : setItems(p, g)
    BY <1>2, WithdrawnOnce
<1>3. CASE addItem(p)
    BY <1>3, PutOnce
<1>4. CASE Return(p)
    BY <1>4, ReturnOnce
<1>5. CASE Give(p)
    BY <1>5, GiveOnce
<1>q. ASSUME NEW new \in Seq(AnyLine), Runs(p, new), Tidy(new), settled' = settled,
             \A s \in LinesOf(new) : s[1] \in {"start", "offer", "answer", "copy", "settle"},
             \A t \in 1..made : partner'[t] = partner[t], bag' = bag, spilled' = spilled,
             \A t \in 1..made' : items'[t] # {} => t \in 1..made /\ items'[t] \subseteq items[t]
      PROVE  Once'
    <2>1. Quiet(p, new)
        BY <1>q DEF Quiet, SettlingKind
    <2> QED BY <1>q, <2>1, NothingMoved
<1>e. <<>> \in Seq(AnyLine) /\ LinesOf(<<>>) = {} /\ Tidy(<<>>)
    BY LinesOfFew, EmptySeq, TidyFew
<1>6. CASE startTrade(p)
    <2>1. Runs(p, <<Do("start", None)>>) /\ <<Do("start", None)>> \in Seq(AnyLine)
          /\ LinesOf(<<Do("start", None)>>) = {Do("start", None)} /\ Tidy(<<Do("start", None)>>)
        BY <1>6, SmallPrograms, OneLine
    <2>2. settled' = settled /\ UNCHANGED <<made, partner, bag, items, spilled>>
        BY <1>6 DEF startTrade
    <2>3. Do("start", None)[1] = "start"
        BY DEF Do
    <2> QED BY <1>q, <2>1, <2>2, <2>3
<1>7. ASSUME NEW q \in Player, inviteTrade(p, q) PROVE Once'
    <2> DEFINE new == <<<<"offer", trade[p], q>>>>
    <2>1. Runs(p, new) /\ new \in Seq(AnyLine) /\ LinesOf(new) = {<<"offer", trade[p], q>>} /\ Tidy(new)
        BY <1>7, SmallPrograms, OneLine
    <2>2. settled' = settled /\ UNCHANGED <<made, partner, bag, items, spilled>>
        BY <1>7 DEF inviteTrade
    <2> HIDE DEF new
    <2> QED BY <1>q, <2>1, <2>2
<1>8. CASE completeTrade(p)
    <2> DEFINE t == trade[p]
               call == <<<<"copy", t, partner[t]>>, <<"settle", t, partner[t]>>>>
    <2>1. Runs(p, call) /\ call \in Seq(AnyLine) /\ Tidy(call)
          /\ LinesOf(call) = {<<"copy", t, partner[t]>>, <<"settle", t, partner[t]>>}
        BY <1>8, SmallPrograms
    <2>2. settled' = settled /\ UNCHANGED <<made, partner, bag, items, spilled>>
        BY <1>8 DEF completeTrade
    <2> HIDE DEF call
    <2> QED BY <1>q, <2>1, <2>2
<1>9. CASE Copy(p) \/ FirstToConfirm(p) \/ Empty(p) \/ Close(p)
    <2>1. Runs(p, <<>>)
        BY <1>9, SmallPrograms
    <2>2. settled' = settled /\ UNCHANGED <<made, partner, bag, items, spilled>>
        BY <1>9 DEF Copy, FirstToConfirm, Empty, Close
    <2> QED BY <1>q, <1>e, <2>1, <2>2
<1>10. CASE Clear(p)
    <2>1. Runs(p, <<>>)
        BY <1>10, SmallPrograms
    <2>2. settled' = settled /\ UNCHANGED <<made, partner, bag, spilled>> /\ items' = [items EXCEPT ![This(p)] = {}]
        BY <1>10 DEF Clear
    <2>3. \A t \in 1..made : items'[t] \subseteq items[t]
        <3> DEFINE u == This(p)
        <3>1. items' = [items EXCEPT ![u] = {}]
            BY <2>2
        <3> HIDE DEF u
        <3>2. \A t \in Trade : items'[t] = IF t = u THEN {} ELSE items[t]
            BY <1>t, <3>1
        <3> QED BY <1>t, <3>2
    <2> QED BY <1>q, <1>e, <2>1, <2>2, <2>3
<1>n. ASSUME NEW o \in Player, NEW with, New(o, with), UNCHANGED items
      PROVE  /\ \A t \in 1..made : partner'[t] = partner[t]
             /\ \A t \in 1..made' : items'[t] # {} => t \in 1..made /\ items'[t] \subseteq items[t]
    <2>1. made' = made + 1 /\ made' \in Trade /\ partner \in [Trade -> 0..made] /\ 1..made' = 1..made \cup {made'}
          /\ made' \notin 1..made
        <3>1. made < MaxTrades /\ made' = made + 1
            BY <1>n DEF New
        <3>2. partner \in [Trade -> 0..made]
            BY DEF IndInv, TypeOK
        <3> QED BY <1>t, <3>1, <3>2, TradesAssumption DEF Trade
    <2>2. \A t \in 1..made : partner'[t] = partner[t]
        BY <1>n, <1>t, <2>1 DEF New
    <2>3. items[made'] = {}
        BY <2>1 DEF PairInv, Fresh
    <2> QED BY <1>n, <2>1, <2>2, <2>3
<1>11. CASE Start(p)
    <2>1. Runs(p, <<>>) /\ settled' = settled /\ UNCHANGED <<bag, spilled>>
        BY <1>11, SmallPrograms DEF Start
    <2>2. /\ \A t \in 1..made : partner'[t] = partner[t]
          /\ \A t \in 1..made' : items'[t] # {} => t \in 1..made /\ items'[t] \subseteq items[t]
        BY <1>n, <1>11 DEF Start
    <2> QED BY <1>q, <1>e, <2>1, <2>2
<1>12. CASE Offer(p)
    <2> DEFINE new == <<<<"answer", None, Operand(p)>>>>
    <2>1. Runs(p, new) /\ new \in Seq(AnyLine) /\ LinesOf(new) = {<<"answer", None, Operand(p)>>} /\ Tidy(new)
        BY <1>12, SmallPrograms, OneLine
    <2>2. settled' = settled /\ UNCHANGED <<bag, spilled>> /\ New(Operand(p), trade[p]) /\ Operand(p) \in Player /\ UNCHANGED items
        BY <1>12, Current DEF Offer, At
    <2>3. /\ \A t \in 1..made : partner'[t] = partner[t]
          /\ \A t \in 1..made' : items'[t] # {} => t \in 1..made /\ items'[t] \subseteq items[t]
        BY <1>n, <2>2
    <2> HIDE DEF new
    <2> QED BY <1>q, <2>1, <2>2, <2>3
<1>13. CASE Answer(p)
    <2>1. UNCHANGED <<made, bag, items, spilled>>
        BY <1>13 DEF Answer
    <2>2. ~\E new \in Seq(AnyLine) : \E T : Settles(p, new, T)
        BY <1>13 DEF Settles, Answer
    <2>3. Runs(p, <<>>) /\ settled' = settled
        BY <1>13, SmallPrograms DEF Answer
    <2>4. PICK new \in Seq(AnyLine) : Quiet(p, new)
        BY <2>2, QuietSteps
    <2>5. Quiet(p, <<>>)
        BY <1>e, <2>3, <2>4 DEF Quiet
    <2> QED BY <1>e, <2>1, <2>5, NothingMoved
<1> QED BY <1>1, <1>2, <1>3, <1>4, <1>5, <1>6, <1>7, <1>8, <1>9, <1>10, <1>11, <1>12, <1>13 DEF StepOf

-----------------------------------------------------------------------------
GoodsInv == PairInv /\ SettleInv /\ Exchanges /\ Once

LEMMA InitGoods == Init => GoodsInv
<1> SUFFICES ASSUME Init PROVE GoodsInv
    OBVIOUS
<1>1. /\ made = 0 /\ 1..made = {} /\ \A q \in Player : todo[q] = <<>> /\ Due(q) = {}
      /\ \A t \in Trade : items[t] = {} /\ exchange[t] = {} /\ partner[t] = None /\ locked[t] = FALSE
      /\ bag = [p \in Player |-> [g \in Good |-> IF Owner[g] = p THEN 1 ELSE 0]] /\ spilled = {}
    BY LinesOfFew DEF Init, Due
<1>2. PairInv
    BY <1>1 DEF PairInv, Fresh, Invitations, Partners, Unanswered, Confirming
<1>3. SettleInv
    BY <1>1, TidyFew DEF SettleInv, Noted, GivesBoth, OneSettler, OneWay, AllTidy
<1>4. Exchanges
    BY <1>1 DEF Exchanges
<1>5. Once
    <2> SUFFICES ASSUME NEW g \in Good PROVE OnceOf(g)
        BY DEF Once
    <2>1. \A p \in Player : bag[p][g] <= 1 /\ (InBag(p, g) => p = Owner[g]) /\ ~InHand(p, g)
        <3> TAKE p \in Player
        <3>1. bag[p][g] = IF Owner[g] = p THEN 1 ELSE 0
            BY <1>1
        <3>2. ~InHand(p, g)
            BY <1>1 DEF InHand
        <3> QED BY <3>1, <3>2 DEF InBag
    <2>2. \A t : ~InTrade(t, g)
        BY <1>1 DEF InTrade
    <2> HIDE DEF InBag, InHand, InTrade
    <2> QED BY <1>1, <2>1, <2>2 DEF OnceOf
<1> QED BY <1>2, <1>3, <1>4, <1>5 DEF GoodsInv

LEMMA OrderlyBefore == ASSUME IndInv, [Next]_vars, Orderly' PROVE Orderly
<1>1. torn \in BOOLEAN /\ crossed \in BOOLEAN
    BY DEF IndInv, TypeOK
<1>2. (torn => torn') /\ (crossed => crossed')
    <2>1. CASE UNCHANGED vars
        BY <2>1 DEF vars
    <2>2. CASE Next
        <3>1. PICK p \in Player : Call(p) \/ Statement(p)
            BY <2>2 DEF Next
        <3> USE <1>1 DEF history, Settle
        <3>2. CASE startTrade(p) \/ completeTrade(p) \/ cancelTrade(p) \/ declineTrade(p)
            BY <3>2 DEF startTrade, completeTrade, cancelTrade, declineTrade
        <3>3. CASE \E q \in Player : inviteTrade(p, q)
            BY <3>3 DEF inviteTrade
        <3>4. CASE \E g \in Good : setItems(p, g)
            BY <3>4 DEF setItems
        <3>5. CASE Start(p) \/ Offer(p) \/ TooLate(p) \/ Answer(p) \/ addItem(p) \/ Copy(p) \/ FirstToConfirm(p)
            BY <3>5 DEF Start, Offer, TooLate, Answer, addItem, Copy, FirstToConfirm
        <3>6. CASE SecondToConfirm(p) \/ Give(p) \/ Empty(p) \/ Return(p) \/ Clear(p) \/ Close(p)
            BY <3>6 DEF SecondToConfirm, Give, Empty, Return, Clear, Close
        <3> QED BY <3>1, <3>2, <3>3, <3>4, <3>5, <3>6 DEF Call, Statement
    <2> QED BY <2>1, <2>2
<1> QED BY <1>2 DEF Orderly

LEMMA NextGoods == IndInv /\ (Orderly => GoodsInv) /\ [Next]_vars => (Orderly => GoodsInv)'
<1> SUFFICES ASSUME IndInv, Orderly => GoodsInv, [Next]_vars, Orderly' PROVE GoodsInv'
    OBVIOUS
<1>1. GoodsInv
    BY OrderlyBefore
<1>2. CASE UNCHANGED vars
    <2>1. UNCHANGED <<made, trade, chr, partner, locked, items, exchange, bag, todo, settled, spilled>>
        BY <1>2 DEF vars
    <2>2. PairInv'
        BY <1>1, <2>1 DEF GoodsInv, PairInv, Fresh, Invitations, Partners, Unanswered, Confirming, Due, At
    <2>3. SettleInv'
        BY <1>1, <2>1 DEF GoodsInv, SettleInv, Noted, GivesBoth, OneSettler, OneWay, AllTidy, Due
    <2>4. Exchanges'
        BY <1>1, <2>1 DEF GoodsInv, Exchanges, Pending, Due
    <2>5. Once'
        BY <1>1, <2>1 DEF GoodsInv, Once, OnceOf, InBag, InHand, InTrade, Pending, Due
    <2> QED BY <2>2, <2>3, <2>4, <2>5 DEF GoodsInv
<1>3. CASE Next
    <2>1. PICK p \in Player : StepOf(p)
        BY <1>1, <1>3, StepCases DEF GoodsInv
    <2> QED BY <1>1, <2>1, NextPairs, NextSettles, NextExchanges, NextOnce DEF GoodsInv
<1> QED BY <1>2, <1>3

LEMMA GoodsInvHolds == Spec => [](Orderly => GoodsInv)
<1>1. Init => (Orderly => GoodsInv)
    BY InitGoods
<1> QED BY <1>1, NextGoods, IndInvHolds, PTL DEF Spec

(* Whatever calls overlap, no good is in two inventories, or twice in one, *)
(* or in one after it was refused, unless a trade was settled again or     *)
(* invitations crossed: a good leaves a trade for one inventory at most,   *)
(* and comes back into no trade.                                           *)
THEOREM GoodsAreNeverDoubled == Spec => []NothingDoubled
<1>1. ASSUME IndInv, Orderly => GoodsInv PROVE NothingDoubled
    <2> SUFFICES ASSUME Orderly, NEW g \in Good, NEW p \in Player, NEW q \in Player
                 PROVE  /\ bag[p][g] <= 1
                        /\ bag[p][g] > 0 => (bag[q][g] > 0 => p = q) /\ g \notin spilled
        BY DEF NothingDoubled
    <2> QED BY <1>1 DEF GoodsInv, Once, OnceOf, InBag
<1> QED BY <1>1, IndInvHolds, GoodsInvHolds, PTL

-----------------------------------------------------------------------------
(* Nothing is lost: which statements a session comes to, and what a step   *)
(* of a session can change.                                                *)

Opening == {"start", "put", "copy"}

NewLines(p, new) ==
    /\ Runs(p, new)
    /\ \A i \in 2..Len(new) : new[i][1] \notin Opening
    /\ \A s \in LinesOf(new) :
        /\ s[1] = "start" => startTrade(p)
        /\ s[1] = "put" => setItems(p, s[3]) /\ s[2] = trade[p]
        /\ s[1] \in {"copy", "settle"} => completeTrade(p) /\ s[2] = trade[p]
        /\ s[1] = "clear" => s[2] \notin settled
    /\ \A g \in Good : setItems(p, g) => <<"put", trade[p], g>> \in LinesOf(new)
    /\ completeTrade(p) => /\ <<"copy", trade[p], partner[trade[p]]>> \in LinesOf(new)
                           /\ <<"settle", trade[p], partner[trade[p]]>> \in LinesOf(new)
                           /\ new[1] = <<"copy", trade[p], partner[trade[p]]>>

LEMMA SomeNewLines ==
    ASSUME IndInv, NEW p \in Player, StepOf(p)
    PROVE  \E new \in Seq(AnyLine) : NewLines(p, new)
<1>e. <<>> \in Seq(AnyLine) /\ LinesOf(<<>>) = {} /\ Len(<<>>) = 0
    BY LinesOfFew, EmptySeq
<1>s. \A s : Len(<<s>>) = 1
    OBVIOUS
<1>1. CASE startTrade(p)
    <2> DEFINE new == <<Do("start", None)>>
    <2>1. Runs(p, new) /\ new \in Seq(AnyLine) /\ LinesOf(new) = {Do("start", None)}
        BY <1>1, SmallPrograms, OneLine
    <2>2. Do("start", None)[1] = "start"
        BY DEF Do
    <2>3. /\ ~completeTrade(p) /\ \A g \in Good : ~setItems(p, g)
        BY <1>1 DEF startTrade, completeTrade, setItems
    <2>4. \A i \in 2..Len(new) : new[i][1] \notin Opening
        BY <1>s
    <2> HIDE DEF new
    <2>5. NewLines(p, new)
        BY <1>1, <2>1, <2>2, <2>3, <2>4 DEF NewLines
    <2> QED BY <2>1, <2>5
<1>2. ASSUME NEW q \in Player, inviteTrade(p, q) PROVE \E new \in Seq(AnyLine) : NewLines(p, new)
    <2> DEFINE new == <<<<"offer", trade[p], q>>>>
    <2>1. Runs(p, new) /\ new \in Seq(AnyLine) /\ LinesOf(new) = {<<"offer", trade[p], q>>}
        BY <1>2, SmallPrograms, OneLine
    <2>3. /\ ~completeTrade(p) /\ \A g \in Good : ~setItems(p, g)
        <3>1. todo'[p] = new
            BY <1>2, DueTyped DEF inviteTrade, Begin
        <3>2. completeTrade(p) => todo'[p][1][1] = "copy"
            BY DueTyped DEF completeTrade, Begin
        <3>3. \A g \in Good : setItems(p, g) => todo'[p][1][1] = "put"
            BY DueTyped DEF setItems, Begin
        <3> QED BY <3>1, <3>2, <3>3
    <2>4. \A i \in 2..Len(new) : new[i][1] \notin Opening
        BY <1>s
    <2> HIDE DEF new
    <2>5. NewLines(p, new)
        BY <1>2, <2>1, <2>3, <2>4 DEF NewLines
    <2> QED BY <2>1, <2>5
<1>3. ASSUME NEW g \in Good, setItems(p, g) PROVE \E new \in Seq(AnyLine) : NewLines(p, new)
    <2> DEFINE new == <<<<"put", trade[p], g>>>>
    <2>1. Runs(p, new) /\ new \in Seq(AnyLine) /\ LinesOf(new) = {<<"put", trade[p], g>>}
        BY <1>3, SmallPrograms, OneLine
    <2>2. todo'[p] = new
        BY <1>3, DueTyped DEF setItems, Begin
    <2>3. ~completeTrade(p)
        <3>2. completeTrade(p) => todo'[p][1][1] = "copy"
            BY DueTyped DEF completeTrade, Begin
        <3> QED BY <2>2, <3>2
    <2>4. \A i \in 2..Len(new) : new[i][1] \notin Opening
        BY <1>s
    <2>5. \A h \in Good : setItems(p, h) => h = g
        <3> SUFFICES ASSUME NEW h \in Good, setItems(p, h) PROVE h = g
            OBVIOUS
        <3>1. todo'[p] = <<<<"put", trade[p], h>>>>
            BY DueTyped DEF setItems, Begin
        <3> QED BY <2>2, <3>1
    <2> HIDE DEF new
    <2>6. NewLines(p, new)
        BY <1>3, <2>1, <2>3, <2>4, <2>5 DEF NewLines
    <2> QED BY <2>1, <2>6
<1>4. CASE completeTrade(p)
    <2> DEFINE t == trade[p]
               new == <<<<"copy", t, partner[t]>>, <<"settle", t, partner[t]>>>>
    <2>1. Runs(p, new) /\ new \in Seq(AnyLine) /\ LinesOf(new) = {<<"copy", t, partner[t]>>, <<"settle", t, partner[t]>>}
        BY <1>4, SmallPrograms
    <2>2. Len(new) = 2 /\ new[1] = <<"copy", t, partner[t]>> /\ new[2][1] = "settle"
        OBVIOUS
    <2>3. \A i \in 2..Len(new) : new[i][1] \notin Opening
        BY <2>2 DEF Opening
    <2>4. \A g \in Good : ~setItems(p, g)
        <3>1. todo'[p] = new
            BY <1>4, DueTyped DEF completeTrade, Begin
        <3>2. \A g \in Good : setItems(p, g) => todo'[p][1][1] = "put"
            BY DueTyped DEF setItems, Begin
        <3> QED BY <2>2, <3>1, <3>2
    <2> HIDE DEF new
    <2>5. NewLines(p, new)
        BY <1>4, <2>1, <2>2, <2>3, <2>4 DEF NewLines
    <2> QED BY <2>1, <2>5
<1>n. todo[p] # <<>> => ~completeTrade(p) /\ \A g \in Good : ~setItems(p, g)
    BY DEF completeTrade, setItems, Idle
<1>5. CASE \/ Start(p) \/ Answer(p) \/ addItem(p) \/ Copy(p) \/ FirstToConfirm(p) \/ Give(p)
           \/ Empty(p) \/ Return(p) \/ Clear(p) \/ Close(p)
    <2>1. Runs(p, <<>>) /\ todo[p] # <<>>
        BY <1>5, SmallPrograms DEF Start, Answer, addItem, Copy, FirstToConfirm, Give, Empty, Return, Clear, Close, At
    <2>2. \A i \in 2..Len(<<>>) : <<>>[i][1] \notin Opening
        BY <1>e
    <2>3. NewLines(p, <<>>)
        BY <1>e, <1>n, <2>1, <2>2 DEF NewLines
    <2> QED BY <1>e, <2>3
<1>6. CASE Offer(p)
    <2> DEFINE new == <<<<"answer", None, Operand(p)>>>>
    <2>1. Runs(p, new) /\ new \in Seq(AnyLine) /\ LinesOf(new) = {<<"answer", None, Operand(p)>>} /\ todo[p] # <<>>
        BY <1>6, SmallPrograms, OneLine DEF Offer, At
    <2>2. \A i \in 2..Len(new) : new[i][1] \notin Opening
        BY <1>s
    <2> HIDE DEF new
    <2>3. NewLines(p, new)
        BY <1>n, <2>1, <2>2 DEF NewLines
    <2> QED BY <2>1, <2>3
<1>7. ASSUME NEW new \in Seq(AnyLine), NEW T, Settles(p, new, T) PROVE NewLines(p, new)
    <2>1. /\ Runs(p, new) /\ T \cap settled = {}
          /\ \A s \in LinesOf(new) : s[1] \in SettlingKind /\ s[2] \in T
          /\ bag' = bag /\ locked' = locked
        BY <1>7 DEF Settles, Block, fields
    <2>2. \A i \in 2..Len(new) : new[i][1] \notin Opening
        <3>1. \A i \in 2..Len(new) : new[i] \in LinesOf(new)
            BY LenProperties DEF LinesOf
        <3> QED BY <2>1, <3>1 DEF Opening, SettlingKind
    <2>3. ~completeTrade(p) /\ \A g \in Good : ~setItems(p, g)
        <3>1. completeTrade(p) => locked' # locked
            <4> SUFFICES ASSUME completeTrade(p) PROVE locked' # locked
                OBVIOUS
            <4>1. trade[p] \in 1..made /\ 1..made \subseteq Trade /\ locked \in [Trade -> BOOLEAN]
                BY TradesTyped DEF completeTrade, IndInv, TypeOK
            <4> QED BY <4>1 DEF completeTrade
        <3>2. \A g \in Good : setItems(p, g) => bag' # bag
            <4> SUFFICES ASSUME NEW g \in Good, setItems(p, g) PROVE bag' # bag
                OBVIOUS
            <4>1. bag \in [Player -> [Good -> Nat]] /\ bag' = [bag EXCEPT ![p][g] = @ - 1]
                BY DEF setItems, Withdrawn, IndInv, TypeOK
            <4>2. bag'[p][g] = bag[p][g] - 1 /\ bag[p][g] \in Nat
                BY <4>1
            <4> QED BY <4>2
        <3> QED BY <2>1, <3>1, <3>2
    <2> QED BY <2>1, <2>2, <2>3 DEF NewLines, SettlingKind
<1> QED BY <1>1, <1>2, <1>3, <1>4, <1>5, <1>6, <1>7 DEF StepOf

(* What a step can change.                                                 *)
Changes(p) ==
    /\ made' \in Nat /\ 1..made \subseteq 1..made' /\ settled \subseteq settled'
    /\ astray \subseteq astray' /\ spilled \subseteq spilled'
    /\ \A t \in 1..made :
        /\ chr'[t] = chr[t]
        /\ locked'[t] # locked[t] => completeTrade(p) /\ t = trade[p]
        /\ partner'[t] # partner[t] => partner[t] = None /\ partner'[t] # None /\ ~locked'[t]
        /\ items'[t] # items[t] => (addItem(p) \/ Clear(p)) /\ t = This(p)
        /\ exchange'[t] # exchange[t] => (Copy(p) /\ t = Operand(p)) \/ (Empty(p) /\ t = This(p))
    /\ \A t \in 1..made' : t \notin 1..made => items'[t] = {} /\ ~locked'[t]
    /\ \A q \in Player : trade'[q] # trade[q] =>
        (Start(p) /\ q = p) \/ (Offer(p) /\ q = Operand(p)) \/ (Close(p) /\ q = chr[This(p)])
    /\ bag' # bag => (\E g \in Good : setItems(p, g)) \/ Return(p) \/ Give(p)
    /\ settled' # settled => \E new \in Seq(AnyLine) : \E T : Settles(p, new, T)

LEMMA SomeChanges ==
    ASSUME IndInv, PairInv, Orderly', NEW p \in Player, StepOf(p)
    PROVE  Changes(p)
<1>t. /\ made \in Nat /\ 1..made \subseteq Trade
      /\ trade \in [Player -> 0..made] /\ chr \in [Trade -> Player] /\ partner \in [Trade -> 0..made]
      /\ locked \in [Trade -> BOOLEAN] /\ items \in [Trade -> SUBSET Good] /\ exchange \in [Trade -> SUBSET Good]
    BY TradesTyped DEF IndInv, TypeOK
<1>s. ASSUME made' = made, chr' = chr, partner' = partner, settled' = settled, astray \subseteq astray', spilled \subseteq spilled',
             \A t \in 1..made : /\ locked'[t] # locked[t] => completeTrade(p) /\ t = trade[p]
                                /\ items'[t] # items[t] => (addItem(p) \/ Clear(p)) /\ t = This(p)
                                /\ exchange'[t] # exchange[t] => (Copy(p) /\ t = Operand(p)) \/ (Empty(p) /\ t = This(p)),
             \A q \in Player : trade'[q] # trade[q] => Close(p) /\ q = chr[This(p)],
             bag' # bag => (\E g \in Good : setItems(p, g)) \/ Return(p) \/ Give(p)
      PROVE  Changes(p)
    BY <1>t, <1>s DEF Changes
<1>1. CASE startTrade(p) \/ (\E q \in Player : inviteTrade(p, q)) \/ FirstToConfirm(p)
    <2>1. UNCHANGED <<made, trade, fields, bag, history>>
        BY <1>1 DEF startTrade, inviteTrade, FirstToConfirm
    <2> QED BY <1>s, <2>1 DEF fields, history
<1>2. CASE (\E g \in Good : setItems(p, g)) \/ Return(p) \/ Give(p)
    <2>1. UNCHANGED <<made, trade, fields, settled, astray>> /\ spilled \subseteq spilled'
        BY <1>2 DEF setItems, Return, Give, HandOut, history
    <2> QED BY <1>s, <1>2, <2>1 DEF fields
<1>3. CASE completeTrade(p)
    <2> DEFINE u == trade[p]
    <2>1. UNCHANGED <<made, trade, chr, partner, items, exchange, bag, history>> /\ locked' = [locked EXCEPT ![u] = TRUE]
        BY <1>3 DEF completeTrade
    <2> HIDE DEF u
    <2>2. \A t \in 1..made : locked'[t] # locked[t] => t = u
        BY <1>t, <2>1
    <2> QED BY <1>s, <1>3, <2>1, <2>2 DEF history, u
<1>4. CASE addItem(p)
    <2> DEFINE u == This(p)
    <2>1. items' = [items EXCEPT ![u] = @ \cup {Operand(p)}]
        BY <1>4 DEF addItem
    <2> HIDE DEF u
    <2>2. \A t \in 1..made : items'[t] # items[t] => t = u
        BY <1>t, <2>1
    <2>3. UNCHANGED <<made, trade, chr, partner, locked, exchange, bag, settled, spilled>> /\ astray \subseteq astray'
        BY <1>4, <1>t DEF addItem
    <2> QED BY <1>s, <1>4, <2>2, <2>3 DEF u
<1>5. CASE Clear(p)
    <2> DEFINE u == This(p)
    <2>1. UNCHANGED <<made, trade, chr, partner, locked, exchange, bag, history>> /\ items' = [items EXCEPT ![u] = {}]
        BY <1>5 DEF Clear
    <2> HIDE DEF u
    <2>2. \A t \in 1..made : items'[t] # items[t] => t = u
        BY <1>t, <2>1
    <2> QED BY <1>s, <1>5, <2>1, <2>2 DEF u, history
<1>6. CASE Copy(p)
    <2> DEFINE u == Operand(p)
    <2>1. UNCHANGED <<made, trade, chr, partner, locked, items, bag, history>> /\ exchange' = [exchange EXCEPT ![u] = items[This(p)]]
        BY <1>6 DEF Copy
    <2> HIDE DEF u
    <2>2. \A t \in 1..made : exchange'[t] # exchange[t] => t = u
        BY <1>t, <2>1
    <2> QED BY <1>s, <1>6, <2>1, <2>2 DEF u, history
<1>7. CASE Empty(p)
    <2> DEFINE u == This(p)
    <2>1. UNCHANGED <<made, trade, chr, partner, locked, items, bag, history>> /\ exchange' = [exchange EXCEPT ![u] = {}]
        BY <1>7 DEF Empty
    <2> HIDE DEF u
    <2>2. \A t \in 1..made : exchange'[t] # exchange[t] => t = u
        BY <1>t, <2>1
    <2> QED BY <1>s, <1>7, <2>1, <2>2 DEF u, history
<1>8. CASE Close(p)
    <2> DEFINE o == chr[This(p)]
    <2>1. UNCHANGED <<made, fields, bag, settled, spilled>> /\ astray \subseteq astray' /\ trade' = [trade EXCEPT ![o] = None]
        BY <1>8, <1>t DEF Close
    <2> HIDE DEF o
    <2>2. \A q \in Player : trade'[q] # trade[q] => q = o
        BY <1>t, <2>1
    <2> QED BY <1>s, <1>8, <2>1, <2>2 DEF o, fields
<1>n. ASSUME NEW o \in Player, NEW with, New(o, with)
      PROVE  /\ made' \in Nat /\ 1..made \subseteq 1..made' /\ 1..made' = 1..made \cup {made'}
             /\ \A t \in 1..made : chr'[t] = chr[t] /\ partner'[t] = partner[t]
             /\ items[made'] = {} /\ ~locked[made']
             /\ \A q \in Player : trade'[q] # trade[q] => q = o
    <2>1. made < MaxTrades /\ made' = made + 1
        BY <1>n DEF New
    <2>2. made' \in Trade /\ made' \notin 1..made /\ 1..made' = 1..made \cup {made'}
        BY <1>t, <2>1, TradesAssumption DEF Trade
    <2>3. \A t \in 1..made : chr'[t] = chr[t] /\ partner'[t] = partner[t]
        BY <1>n, <1>t, <2>1, <2>2 DEF New
    <2>4. items[made'] = {} /\ ~locked[made']
        BY <2>2 DEF PairInv, Fresh
    <2>5. \A q \in Player : trade'[q] # trade[q] => q = o
        BY <1>n, <1>t DEF New
    <2> QED BY <1>t, <2>1, <2>2, <2>3, <2>4, <2>5
<1>9. CASE Start(p)
    <2>1. New(p, None) /\ UNCHANGED <<locked, items, exchange, bag, history>>
        BY <1>9 DEF Start
    <2> QED BY <1>n, <1>9, <2>1 DEF Changes, history
<1>10. CASE Offer(p)
    <2>1. New(Operand(p), trade[p]) /\ UNCHANGED <<locked, items, exchange, bag, settled, astray, spilled>> /\ Operand(p) \in Player
        BY <1>10, Current DEF Offer, At
    <2> QED BY <1>n, <1>10, <2>1 DEF Changes
<1>11. CASE Answer(p)
    <2>1. UNCHANGED <<made, trade, chr, locked, items, exchange, bag, settled, astray, spilled>>
        BY <1>11 DEF Answer
    <2>2. \A t \in 1..made : partner'[t] # partner[t] => partner[t] = None /\ partner'[t] # None /\ ~locked[t]
        <3>1. CASE trade[p] = None \/ locked[trade[p]]
            BY <1>11, <3>1 DEF Answer
        <3>2. CASE ~(trade[p] = None \/ locked[trade[p]])
            <4> DEFINE u == trade[p]
                       w == trade[Operand(p)]
            <4>1. partner' = [partner EXCEPT ![u] = w] /\ partner[u] = None /\ w # None /\ ~locked[u]
                BY <1>11, <3>2 DEF Answer, Orderly, Paired, Met
            <4> HIDE DEF u, w
            <4> QED BY <1>t, <4>1
        <3> QED BY <3>1, <3>2
    <2> QED BY <1>t, <2>1, <2>2 DEF Changes
<1>12. CASE \E new \in Seq(AnyLine) : \E T : Settles(p, new, T)
    <2>1. UNCHANGED <<made, trade, fields, bag, astray, spilled>> /\ settled \subseteq settled'
        BY <1>12 DEF Settles
    <2> QED BY <1>t, <1>12, <2>1 DEF Changes, fields
<1> QED BY <1>1, <1>2, <1>3, <1>4, <1>5, <1>6, <1>7, <1>8, <1>9, <1>10, <1>11, <1>12 DEF StepOf

(* A session starts, puts or copies only as the first thing it does, and   *)
(* what it copies it settles next.                                         *)
FirstOnly == \A p \in Player : \A i \in 2..Len(todo[p]) : todo[p][i][1] \notin Opening
CopyThenSettle == \A p \in Player : At(p, "copy") => <<"settle", This(p), Operand(p)>> \in Due(p)

(* It confirms its own trade, which is locked. *)
OwnConfirms == \A p \in Player : \A s \in Due(p) : s[1] \in {"copy", "settle"} => chr[s[2]] = p /\ locked[s[2]]

(* A confirmed offer is still to be copied, or lies with the partner.      *)
Confirmed ==
    \A t \in 1..made : locked[t] /\ t \notin settled =>
        \/ \E p \in Player : \E s \in Due(p) : s[1] = "copy" /\ s[2] = t
        \/ exchange[partner[t]] = items[t]

(* Goods go into trades that have a partner. *)
Unpaired ==
    \A t \in 1..made : partner[t] = None =>
        items[t] = {} /\ \A p \in Player : \A s \in Due(p) : ~(s[1] = "put" /\ s[2] = t)

ConfirmInv == FirstOnly /\ CopyThenSettle /\ OwnConfirms /\ Confirmed /\ Unpaired

LEMMA OpeningFirst ==
    ASSUME IndInv, FirstOnly, NEW p \in Player, NEW s \in Due(p), s[1] \in Opening
    PROVE  todo[p] # <<>> /\ s = Head(todo[p]) /\ s \notin LinesOf(Rest(p))
<1>1. todo[p] \in Seq(AnyLine) /\ todo[p] # <<>>
    <2>1. todo[p] \in Seq(AnyLine)
        BY DueTyped
    <2> QED BY <2>1, LinesOfFew DEF Due
<1>2. /\ Len(todo[p]) \in Nat \ {0} /\ Head(todo[p]) = todo[p][1] /\ Len(Tail(todo[p])) = Len(todo[p]) - 1
      /\ \A i \in 1..(Len(todo[p]) - 1) : Tail(todo[p])[i] = todo[p][i + 1]
    BY <1>1, HeadTailProperties, EmptySeq, LenProperties
<1>3. \A x \in LinesOf(Rest(p)) : x[1] \notin Opening
    <2> SUFFICES ASSUME NEW i \in 1..(Len(todo[p]) - 1) PROVE Tail(todo[p])[i][1] \notin Opening
        BY <1>1, <1>2 DEF Rest, LinesOf
    <2>1. i + 1 \in 2..Len(todo[p])
        BY <1>2
    <2> QED BY <1>2, <2>1 DEF FirstOnly
<1>4. Due(p) = {Head(todo[p])} \cup LinesOf(Rest(p))
    BY <1>1, AtLine
<1> QED BY <1>1, <1>3, <1>4

(* After a step of session p: its first statement is gone, others are new. *)
LEMMA AfterStep ==
    ASSUME IndInv, NEW p \in Player, NEW new \in Seq(AnyLine), NewLines(p, new)
    PROVE  /\ Due(p)' = LinesOf(new) \cup LinesOf(Rest(p))
           /\ \A q \in Player : q # p => Due(q)' = Due(q) /\ todo'[q] = todo[q]
           /\ \A q \in Player : \A s \in Due(q)' : s \in Due(q) \/ (q = p /\ s \in LinesOf(new))
           /\ \A q \in Player : \A s \in Due(q) : s \in Due(q)' \/ (q = p /\ todo[p] # <<>> /\ s = Head(todo[p]))
BY RunsLines DEF NewLines

LEMMA NextFirstOnly ==
    ASSUME IndInv, FirstOnly, NEW p \in Player, NEW new \in Seq(AnyLine), NewLines(p, new)
    PROVE  FirstOnly'
<1>1. todo' = [todo EXCEPT ![p] = new \o Rest(p)] /\ \A i \in 2..Len(new) : new[i][1] \notin Opening
    BY DEF NewLines, Runs
<1>2. todo \in [Player -> Seq(AnyLine)] /\ todo[p] \in Seq(AnyLine) /\ Rest(p) \in Seq(AnyLine)
    BY DueTyped
<1>3. /\ Len(new) \in Nat /\ Len(Rest(p)) \in Nat /\ Len(new \o Rest(p)) = Len(new) + Len(Rest(p))
      /\ \A i \in 1..(Len(new) + Len(Rest(p))) : (new \o Rest(p))[i] = IF i <= Len(new) THEN new[i] ELSE Rest(p)[i - Len(new)]
    BY <1>2, ConcatProperties, LenProperties
<1>4. \A j \in 1..Len(Rest(p)) : Rest(p)[j][1] \notin Opening
    <2>1. CASE todo[p] = <<>>
        BY <2>1, EmptySeq DEF Rest
    <2>2. CASE todo[p] # <<>>
        <3>1. /\ Len(todo[p]) \in Nat \ {0} /\ Len(Rest(p)) = Len(todo[p]) - 1
              /\ \A i \in 1..(Len(todo[p]) - 1) : Rest(p)[i] = todo[p][i + 1]
            BY <1>2, <2>2, HeadTailProperties, EmptySeq, LenProperties DEF Rest
        <3>2. \A i \in 1..(Len(todo[p]) - 1) : i + 1 \in 2..Len(todo[p])
            BY <3>1
        <3> QED BY <3>1, <3>2 DEF FirstOnly
    <2> QED BY <2>1, <2>2
<1> SUFFICES ASSUME NEW q \in Player, NEW i \in 2..Len(todo'[q]) PROVE todo'[q][i][1] \notin Opening
    BY DEF FirstOnly
<1>5. CASE q # p
    BY <1>1, <1>2, <1>5 DEF FirstOnly
<1>6. CASE q = p
    <2>1. todo'[q] = new \o Rest(p) /\ i \in 2..(Len(new) + Len(Rest(p)))
        BY <1>1, <1>2, <1>3, <1>6
    <2>2. CASE i <= Len(new)
        BY <1>1, <1>3, <2>1, <2>2
    <2>3. CASE i > Len(new)
        <3>1. i - Len(new) \in 1..Len(Rest(p)) /\ todo'[q][i] = Rest(p)[i - Len(new)]
            BY <1>3, <2>1, <2>3
        <3> QED BY <1>4, <3>1
    <2> QED BY <1>3, <2>1, <2>2, <2>3
<1> QED BY <1>5, <1>6

LEMMA NextCopyThenSettle ==
    ASSUME IndInv, FirstOnly, CopyThenSettle, NEW p \in Player, NEW new \in Seq(AnyLine), NewLines(p, new)
    PROVE  CopyThenSettle'
<1> SUFFICES ASSUME NEW q \in Player, At(q, "copy")'
             PROVE  <<"settle", This(q)', Operand(q)'>> \in Due(q)'
    BY DEF CopyThenSettle
<1>0. /\ Due(p)' = LinesOf(new) \cup LinesOf(Rest(p)) /\ LinesOf(Rest(p)) \subseteq Due(p)
      /\ \A r \in Player : r # p => Due(r)' = Due(r) /\ todo'[r] = todo[r]
    BY AfterStep, RunsLines DEF NewLines
<1>1. CASE q # p
    BY <1>0, <1>1 DEF CopyThenSettle, At, This, Operand
<1>2. CASE q = p
    <2>1. /\ todo'[p] = new \o Rest(p) /\ Rest(p) \in Seq(AnyLine) /\ todo'[p] # <<>>
          /\ Head(todo'[p])[1] = "copy"
        BY <1>2, DueTyped DEF NewLines, Runs, At
    <2>2. todo'[p] \in Seq(AnyLine)
        BY <2>1, ConcatProperties
    <2>3. Head(todo'[p]) \in Due(p)' /\ Head(todo'[p]) = todo'[p][1]
        <3>1. Head(todo'[p]) = todo'[p][1] /\ Len(todo'[p]) \in Nat /\ Len(todo'[p]) # 0
            BY <2>1, <2>2, HeadTailProperties, EmptySeq, LenProperties
        <3>2. todo'[p][1] \in LinesOf(todo'[p])
            BY <3>1 DEF LinesOf
        <3> QED BY <3>1, <3>2 DEF Due
    <2>4. Head(todo'[p]) \notin LinesOf(Rest(p))
        BY <1>0, <2>1, OpeningFirst DEF Opening
    <2>5. Head(todo'[p]) \in LinesOf(new)
        BY <1>0, <2>3, <2>4
    <2>6. completeTrade(p)
        BY <2>1, <2>5 DEF NewLines
    <2>7. Head(todo'[p]) = new[1]
        <3>1. Len(new) \in Nat /\ Len(new) # 0
            <4>1. new # <<>>
                BY <2>5, LinesOfFew
            <4> QED BY <4>1, EmptySeq, LenProperties
        <3>2. (new \o Rest(p))[1] = new[1]
            BY <2>1, <3>1, ConcatProperties, LenProperties
        <3> QED BY <2>1, <2>3, <3>2
    <2>8. new[1] = <<"copy", trade[p], partner[trade[p]]>> /\ <<"settle", trade[p], partner[trade[p]]>> \in LinesOf(new)
        BY <2>6 DEF NewLines
    <2>9. This(p)' = trade[p] /\ Operand(p)' = partner[trade[p]]
        BY <2>7, <2>8 DEF This, Operand
    <2> QED BY <1>0, <1>2, <2>8, <2>9
<1> QED BY <1>1, <1>2

LEMMA NextOwnConfirms ==
    ASSUME IndInv, OwnConfirms, NEW p \in Player, NEW new \in Seq(AnyLine), NewLines(p, new), Changes(p)
    PROVE  OwnConfirms'
<1> SUFFICES ASSUME NEW q \in Player, NEW s \in Due(q)', s[1] \in {"copy", "settle"}
             PROVE  chr'[s[2]] = q /\ locked'[s[2]]
    BY DEF OwnConfirms
<1>1. CASE s \in Due(q)
    <2>1. chr[s[2]] = q /\ locked[s[2]] /\ s[2] \in 1..made
        BY <1>1, DueTyped DEF OwnConfirms
    <2>2. locked'[s[2]]
        <3>1. CASE locked'[s[2]] = locked[s[2]]
            BY <2>1, <3>1
        <3>2. CASE locked'[s[2]] # locked[s[2]]
            BY <2>1, <3>2 DEF Changes, completeTrade
        <3> QED BY <3>1, <3>2
    <2> QED BY <2>1, <2>2 DEF Changes
<1>2. CASE q = p /\ s \in LinesOf(new)
    <2>1. completeTrade(p) /\ s[2] = trade[p]
        BY <1>2 DEF NewLines
    <2>2. trade[p] \in 1..made /\ chr[trade[p]] = p /\ 1..made \subseteq Trade /\ locked \in [Trade -> BOOLEAN]
        BY <2>1, TradesTyped DEF completeTrade, IndInv, TypeOK
    <2>3. chr' = chr /\ locked'[trade[p]]
        BY <2>1, <2>2 DEF completeTrade
    <2> QED BY <1>2, <2>1, <2>2, <2>3
<1> QED BY <1>1, <1>2, AfterStep

(* What a session at a statement does. *)
LEMMA StepAt ==
    ASSUME NEW p \in Player, todo[p] # <<>>, StepOf(p)
    PROVE  /\ Head(todo[p])[1] = "start" => Start(p)
           /\ Head(todo[p])[1] = "put" => addItem(p)
           /\ Head(todo[p])[1] = "copy" => Copy(p)
           /\ Head(todo[p])[1] = "return" => Return(p)
           /\ Head(todo[p])[1] = "give" => Give(p)
           /\ Head(todo[p])[1] = "settle" =>
                 FirstToConfirm(p) \/ \E new \in Seq(AnyLine) : \E T : Settles(p, new, T)
<1>1. ~startTrade(p) /\ ~completeTrade(p) /\ (\A q \in Player : ~inviteTrade(p, q)) /\ (\A g \in Good : ~setItems(p, g))
    BY DEF startTrade, completeTrade, inviteTrade, setItems, Idle
<1>2. /\ Start(p) => Head(todo[p])[1] = "start"
      /\ Offer(p) => Head(todo[p])[1] = "offer"
      /\ Answer(p) => Head(todo[p])[1] = "answer"
      /\ addItem(p) => Head(todo[p])[1] = "put"
      /\ Copy(p) => Head(todo[p])[1] = "copy"
      /\ FirstToConfirm(p) => Head(todo[p])[1] = "settle"
      /\ Give(p) => Head(todo[p])[1] = "give"
      /\ Empty(p) => Head(todo[p])[1] = "empty"
      /\ Return(p) => Head(todo[p])[1] = "return"
      /\ Clear(p) => Head(todo[p])[1] = "clear"
      /\ Close(p) => Head(todo[p])[1] = "close"
    BY DEF Start, Offer, Answer, addItem, Copy, FirstToConfirm, Give, Empty, Return, Clear, Close, At
<1>3. ASSUME NEW new \in Seq(AnyLine), NEW T, Settles(p, new, T) PROVE Head(todo[p])[1] \in {"offer", "settle"}
    BY <1>3 DEF Settles, AtSettling, At
<1> QED BY <1>1, <1>2, <1>3 DEF StepOf

LEMMA NextConfirmed ==
    ASSUME IndInv, PairInv, SettleInv, OwnConfirms, Confirmed, NEW p \in Player, StepOf(p),
           NEW new \in Seq(AnyLine), NewLines(p, new), Changes(p)
    PROVE  Confirmed'
<1> SUFFICES ASSUME NEW t \in 1..made', locked'[t], t \notin settled',
                    ~\E q \in Player : \E s \in Due(q)' : s[1] = "copy" /\ s[2] = t
             PROVE  exchange'[partner'[t]] = items'[t]
    BY DEF Confirmed
<1>1. t \in 1..made /\ t \notin settled
    BY DEF Changes
<1>2. locked[t]
    <2> SUFFICES ASSUME ~locked[t] PROVE FALSE
        OBVIOUS
    <2>1. completeTrade(p) /\ t = trade[p]
        BY <1>1 DEF Changes
    <2>2. <<"copy", t, partner[t]>> \in LinesOf(new)
        BY <2>1 DEF NewLines
    <2>3. <<"copy", t, partner[t]>> \in Due(p)'
        BY <2>2, AfterStep
    <2> QED BY <2>3
<1>t. /\ made \in Nat /\ 1..made \subseteq Trade /\ \A x \in 1..made : x # None
      /\ items \in [Trade -> SUBSET Good] /\ exchange \in [Trade -> SUBSET Good]
      /\ partner[t] \in 0..made
    BY <1>1, TradesTyped DEF IndInv, TypeOK, None
<1>3. partner[t] # None /\ partner'[t] = partner[t] /\ partner[t] \in 1..made
    <2>1. partner[t] # None
        BY <1>1, <1>2 DEF PairInv, Partners
    <2>2. partner'[t] = partner[t]
        BY <1>1, <2>1 DEF Changes
    <2> QED BY <1>t, <2>1, <2>2 DEF None
<1>4. items'[t] = items[t]
    <2> SUFFICES ASSUME items'[t] # items[t] PROVE FALSE
        OBVIOUS
    <2>1. t = This(p) /\ (addItem(p) \/ Clear(p))
        BY <1>1 DEF Changes
    <2> QED BY <1>1, <1>2, <2>1, Current DEF addItem, Clear, At
<1> DEFINE u == partner[t]
<1>5. ASSUME Copy(p), Operand(p) = u PROVE exchange'[u] = items[t]
    <2>1. Head(todo[p]) \in Due(p) /\ Head(todo[p])[1] = "copy" /\ This(p) \in 1..made
        BY <1>5, AtLine DEF Copy, At
    <2>2. partner[This(p)] = u
        BY <1>5, <2>1 DEF PairInv, Confirming, This, Operand
    <2>3. This(p) = t
        BY <1>1, <1>3, <2>1, <2>2 DEF PairInv, Partners
    <2>4. exchange' = [exchange EXCEPT ![u] = items[t]]
        BY <1>5, <2>3 DEF Copy
    <2> HIDE DEF u
    <2> QED BY <1>t, <1>3, <2>4 DEF u
<1>6. CASE \E q \in Player : \E s \in Due(q) : s[1] = "copy" /\ s[2] = t
    <2>1. PICK q \in Player : \E s \in Due(q) : s[1] = "copy" /\ s[2] = t
        BY <1>6
    <2>2. PICK s \in Due(q) : s[1] = "copy" /\ s[2] = t
        BY <2>1
    <2>3. q = p /\ todo[p] # <<>> /\ s = Head(todo[p])
        BY <2>2, AfterStep
    <2>4. Copy(p)
        BY <2>2, <2>3, StepAt
    <2>5. Operand(p) = u
        BY <2>2, <2>3 DEF PairInv, Confirming, Operand
    <2> QED BY <1>3, <1>4, <1>5, <2>4, <2>5
<1>7. CASE exchange[u] = items[t]
    <2>1. CASE exchange'[u] = exchange[u]
        BY <1>3, <1>4, <1>7, <2>1
    <2>2. CASE Copy(p) /\ Operand(p) = u
        BY <1>3, <1>4, <1>5, <2>2
    <2>3. CASE Empty(p) /\ This(p) = u
        <3>1. Head(todo[p]) \in Due(p) /\ Head(todo[p])[1] = "empty" /\ Head(todo[p])[2] = u
            BY <2>3, AtLine DEF Empty, At, This
        <3>2. partner[u] \in settled /\ partner[partner[u]] = u
            BY <3>1 DEF SettleInv, GivesBoth
        <3>3. settled \subseteq 1..made
            BY DEF IndInv, TypeOK
        <3>4. partner[u] = t
            BY <1>1, <1>3, <3>2, <3>3 DEF PairInv, Partners
        <3> QED BY <1>1, <3>2, <3>4
    <2> QED BY <1>3, <2>1, <2>2, <2>3 DEF Changes
<1> QED BY <1>1, <1>2, <1>6, <1>7 DEF Confirmed

LEMMA NextUnpaired ==
    ASSUME IndInv, Unpaired, NEW p \in Player, NEW new \in Seq(AnyLine), NewLines(p, new), Changes(p)
    PROVE  Unpaired'
<1> SUFFICES ASSUME NEW t \in 1..made', partner'[t] = None
             PROVE  items'[t] = {} /\ \A q \in Player : \A s \in Due(q)' : ~(s[1] = "put" /\ s[2] = t)
    BY DEF Unpaired
<1>1. \A s \in LinesOf(new) : s[1] = "put" => s[2] \in 1..made /\ partner[s[2]] # None
    <2> SUFFICES ASSUME NEW s \in LinesOf(new), s[1] = "put" PROVE s[2] \in 1..made /\ partner[s[2]] # None
        OBVIOUS
    <2>1. setItems(p, s[3]) /\ s[2] = trade[p]
        BY DEF NewLines
    <2> QED BY <2>1, TradesTyped DEF setItems, MayAdd
<1>2. CASE t \in 1..made
    <2>1. partner[t] = None
        BY <1>2 DEF Changes
    <2>2. items[t] = {} /\ \A q \in Player : \A s \in Due(q) : ~(s[1] = "put" /\ s[2] = t)
        BY <1>2, <2>1 DEF Unpaired
    <2>3. items'[t] = {}
        <3> SUFFICES ASSUME items'[t] # items[t] PROVE items'[t] = {}
            BY <2>2
        <3>1. t = This(p) /\ (addItem(p) \/ Clear(p))
            BY <1>2 DEF Changes
        <3>2. ~addItem(p)
            BY <2>2, <3>1, AtLine DEF addItem, At, This
        <3>3. items' = [items EXCEPT ![t] = {}] /\ items \in [Trade -> SUBSET Good] /\ t \in Trade
            BY <1>2, <3>1, <3>2, TradesTyped DEF Clear, IndInv, TypeOK
        <3> QED BY <3>3
    <2> QED BY <1>1, <2>1, <2>2, <2>3, AfterStep
<1>3. CASE t \notin 1..made
    <2>1. items'[t] = {}
        BY <1>3 DEF Changes
    <2>2. \A q \in Player : \A s \in Due(q) : ~(s[1] = "put" /\ s[2] = t)
        BY <1>3, DueTyped
    <2> QED BY <1>1, <1>3, <2>1, <2>2, AfterStep
<1> QED BY <1>2, <1>3

LEMMA NextConfirms ==
    ASSUME IndInv, PairInv, SettleInv, ConfirmInv, NEW p \in Player, StepOf(p),
           NEW new \in Seq(AnyLine), NewLines(p, new), Changes(p)
    PROVE  ConfirmInv'
BY NextFirstOnly, NextCopyThenSettle, NextOwnConfirms, NextConfirmed, NextUnpaired DEF ConfirmInv

-----------------------------------------------------------------------------
(* Where a good is that neither went astray nor was refused.               *)

(* A trade nobody settles is its player's current one, or what it holds    *)
(* went astray; a player about to start a trade has left no other.         *)
Left(t) == t \notin settled /\ ~(items[t] \subseteq astray)
OpenTrades == \A t \in 1..made : Left(t) => trade[chr[t]] = t
Starting ==
    \A p \in Player : \A s \in Due(p) : s[1] = "start" => \A t \in 1..made : chr[t] = p => ~Left(t)

(* A trade the partner settles while its own player's confirmation is      *)
(* under way will be settled again.                                        *)
Doomed(t) ==
    /\ t \in settled /\ ~Pending("clear", t)
    /\ \E p \in Player : \E s \in Due(p) : s[1] \in {"copy", "settle"} /\ s[2] = t /\ locked[s[3]]

Waiting(t, g) == t \in 1..made /\ g \in items[t] /\ (t \notin settled \/ Pending("return", t) \/ Doomed(t))
Coming(u, g) == u \in 1..made /\ g \in exchange[u] /\ Pending("give", u)

Somewhere(g) ==
    \/ \E p \in Player : InBag(p, g) \/ InHand(p, g)
    \/ \E t \in Trade : Waiting(t, g) \/ Coming(t, g)

KeptInv == OpenTrades /\ Starting /\ \A g \in Good \ (spilled \cup astray) : Somewhere(g)

(* Only putting a good into a trade can add to what one holds; where the   *)
(* trade is not its player's any more, the good goes astray.               *)
LEMMA LeftBefore ==
    ASSUME IndInv, NEW p \in Player, StepOf(p), Changes(p), NEW t \in 1..made', Left(t)'
    PROVE  /\ t \in 1..made /\ t \notin settled /\ chr'[t] = chr[t]
           /\ Left(t) \/ (addItem(p) /\ t = This(p) /\ chr[t] = p /\ trade[p] = t)
<1>1. t \in 1..made /\ t \notin settled /\ ~(items'[t] \subseteq astray')
    BY DEF Left, Changes
<1>t. t \in Trade /\ items \in [Trade -> SUBSET Good]
    BY <1>1, TradesTyped DEF IndInv, TypeOK
<1>2. CASE items'[t] = items[t]
    BY <1>1, <1>2 DEF Left, Changes
<1>3. CASE Clear(p) /\ t = This(p)
    <2>1. items' = [items EXCEPT ![t] = {}]
        BY <1>3 DEF Clear
    <2> QED BY <1>1, <1>t, <2>1
<1>4. CASE addItem(p) /\ t = This(p) /\ trade[p] # t
    <2>1. items' = [items EXCEPT ![t] = @ \cup {Operand(p)}] /\ astray' = astray \cup {Operand(p)}
        BY <1>4 DEF addItem
    <2>2. ~(items[t] \subseteq astray)
        BY <1>1, <1>t, <2>1
    <2> QED BY <1>1, <2>2 DEF Left, Changes
<1>5. CASE addItem(p) /\ t = This(p) /\ trade[p] = t
    <2>1. chr[t] = p
        BY <1>5, AtLine DEF addItem, At, This
    <2> QED BY <1>1, <1>5, <2>1 DEF Changes
<1> QED BY <1>1, <1>2, <1>3, <1>4, <1>5 DEF Changes

LEMMA NextOpenTrades ==
    ASSUME IndInv, PairInv, SettleInv, ConfirmInv, OpenTrades, Starting, Orderly',
           NEW p \in Player, StepOf(p), NEW new \in Seq(AnyLine), NewLines(p, new), Changes(p)
    PROVE  OpenTrades'
<1> SUFFICES ASSUME NEW t \in 1..made', Left(t)' PROVE trade'[chr'[t]] = t
    BY DEF OpenTrades
<1>t. /\ \A x \in 1..made : x # None /\ chr[x] \in Player
      /\ \A q \in Player : trade[q] # None => trade[q] \in 1..made /\ chr[trade[q]] = q
    BY TradesTyped DEF None
<1>1. /\ t \in 1..made /\ t \notin settled /\ chr'[t] = chr[t]
      /\ Left(t) \/ (addItem(p) /\ t = This(p) /\ chr[t] = p /\ trade[p] = t)
    BY LeftBefore
<1> DEFINE o == chr[t]
<1>2. trade[o] = t /\ o \in Player
    BY <1>t, <1>1 DEF OpenTrades
<1>3. CASE addItem(p)
    BY <1>1, <1>2, <1>3 DEF addItem
<1>4. CASE ~addItem(p)
    <2>0. Left(t)
        BY <1>1, <1>4
    <2>1. ASSUME Start(p), o = p PROVE FALSE
        <3>1. Head(todo[p]) \in Due(p) /\ Head(todo[p])[1] = "start"
            BY <2>1, AtLine DEF Start, At
        <3> QED BY <1>1, <2>0, <2>1, <3>1 DEF Starting
    <2>2. ASSUME Offer(p), o = Operand(p) PROVE FALSE
        <3>1. partner[t] = None
            BY <1>t, <1>1, <1>2, <2>2 DEF Offer, Orderly, Paired
        <3> QED BY <1>1, <2>0, <3>1 DEF ConfirmInv, Unpaired, Left
    <2>3. ASSUME Close(p), o = chr[This(p)] PROVE FALSE
        <3>1. CASE t = This(p)
            <4>1. Head(todo[p]) \in Due(p) /\ Head(todo[p])[1] = "close"
                BY <2>3, AtLine DEF Close, At
            <4> QED BY <1>1, <3>1, <4>1 DEF SettleInv, Noted, SettlingKind, This
        <3>2. CASE t # This(p)
            <4>1. trade[chr[This(p)]] = t /\ t \notin {This(p), None}
                BY <1>t, <1>1, <1>2, <2>3, <3>2
            <4>2. astray' = astray \cup items[t] /\ items' = items
                BY <2>3, <4>1 DEF Close, fields
            <4> QED BY <4>2 DEF Left
        <3> QED BY <3>1, <3>2
    <2>4. trade'[o] = trade[o]
        BY <1>2, <2>1, <2>2, <2>3 DEF Changes
    <2> QED BY <1>1, <1>2, <2>4
<1> QED BY <1>3, <1>4

LEMMA NextStarting ==
    ASSUME IndInv, PairInv, ConfirmInv, OpenTrades, Starting,
           NEW p \in Player, StepOf(p), NEW new \in Seq(AnyLine), NewLines(p, new), Changes(p)
    PROVE  Starting'
<1> SUFFICES ASSUME NEW q \in Player, NEW s \in Due(q)', s[1] = "start",
                    NEW t \in 1..made', chr'[t] = q, Left(t)'
             PROVE  FALSE
    BY DEF Starting
<1>1. /\ t \in 1..made /\ chr[t] = q /\ t # None
      /\ Left(t) \/ (addItem(p) /\ t = This(p) /\ chr[t] = p)
    BY LeftBefore, TradesTyped DEF None
<1>2. CASE q = p /\ s \in LinesOf(new)
    <2>1. startTrade(p)
        BY <1>2 DEF NewLines
    <2>2. trade[p] = None /\ todo[p] = <<>>
        BY <2>1 DEF startTrade, Idle
    <2>3. ~addItem(p)
        BY <2>2 DEF addItem, At
    <2> QED BY <1>1, <1>2, <2>2, <2>3 DEF OpenTrades
<1>3. CASE s \in Due(q)
    <2>1. CASE Left(t)
        BY <1>1, <1>3, <2>1 DEF Starting
    <2>2. CASE addItem(p) /\ chr[t] = p
        <3>1. Head(todo[p]) \in Due(p) /\ Head(todo[p])[1] = "put" /\ q = p
            BY <1>1, <2>2, AtLine DEF addItem, At
        <3>2. s = Head(todo[p])
            BY <1>3, <3>1, OpeningFirst DEF ConfirmInv, Opening
        <3> QED BY <3>1, <3>2
    <2> QED BY <1>1, <2>1, <2>2
<1> QED BY <1>2, <1>3, AfterStep

LEMMA NextDoomed ==
    ASSUME IndInv, ConfirmInv, NEW p \in Player, StepOf(p), NEW new \in Seq(AnyLine), NewLines(p, new), Changes(p),
           NEW t \in 1..made, Doomed(t)
    PROVE  Doomed(t)'
<1>1. t \in settled' /\ t \in settled
    BY DEF Doomed, Changes
<1>2. ~Pending("clear", t)'
    <2> SUFFICES ASSUME NEW q \in Player, NEW s \in Due(q)', s[1] = "clear", s[2] = t PROVE FALSE
        BY DEF Pending
    <2>1. s \notin LinesOf(new)
        BY <1>1 DEF NewLines
    <2>2. s \in Due(q)
        BY <2>1, AfterStep
    <2> QED BY <2>2 DEF Doomed, Pending
<1>l. ASSUME NEW x \in 1..made, locked[x] PROVE locked'[x]
    <2>1. CASE locked'[x] = locked[x]
        BY <1>l, <2>1
    <2>2. CASE locked'[x] # locked[x]
        BY <1>l, <2>2 DEF Changes, completeTrade
    <2> QED BY <2>1, <2>2
<1>k. ASSUME NEW q \in Player, NEW s \in Due(q), NEW r \in Due(q)', s[1] \in {"copy", "settle"}, s[2] = t, locked[s[3]],
             r[1] \in {"copy", "settle"}, r[2] = s[2], r[3] = s[3]
      PROVE  Doomed(t)'
    <2>1. s[3] \in 1..made
        BY <1>k, DueTyped DEF Sound
    <2>2. locked'[r[3]]
        BY <1>k, <1>l, <2>1
    <2> QED BY <1>1, <1>2, <1>k, <2>2 DEF Doomed
<1>3. PICK q \in Player : \E s \in Due(q) : s[1] \in {"copy", "settle"} /\ s[2] = t /\ locked[s[3]]
    BY DEF Doomed
<1>4. PICK s \in Due(q) : s[1] \in {"copy", "settle"} /\ s[2] = t /\ locked[s[3]]
    BY <1>3
<1>5. CASE s \in Due(q)'
    BY <1>4, <1>5, <1>k
<1>6. CASE s \notin Due(q)'
    <2>1. q = p /\ todo[p] # <<>> /\ s = Head(todo[p])
        BY <1>6, AfterStep
    <2>2. CASE s[1] = "copy"
        <3> DEFINE r == <<"settle", This(p), Operand(p)>>
        <3>1. r \in Due(p)
            BY <2>1, <2>2 DEF ConfirmInv, CopyThenSettle, At
        <3>2. r[1] = "settle" /\ r[2] = s[2] /\ r[3] = s[3]
            BY <2>1 DEF This, Operand
        <3> HIDE DEF r
        <3>3. r # Head(todo[p])
            BY <2>1, <2>2, <3>2
        <3>4. r \in Due(p)'
            BY <3>1, <3>3, AfterStep
        <3> QED BY <1>4, <1>k, <2>1, <3>2, <3>4
    <2>3. CASE s[1] = "settle"
        <3>1. ~FirstToConfirm(p)
            BY <1>4, <2>1 DEF FirstToConfirm, Operand
        <3>2. PICK more \in Seq(AnyLine) : \E T : Settles(p, more, T)
            BY <2>1, <2>3, <3>1, StepAt
        <3>3. PICK T : Settles(p, more, T)
            BY <3>2
        <3>4. This(p) \in T /\ T \cap settled = {}
            BY <2>1, <2>3, <3>3 DEF Settles, AtSettling, At
        <3> QED BY <1>1, <1>4, <2>1, <3>4 DEF This
    <2> QED BY <1>4, <2>2, <2>3
<1> QED BY <1>5, <1>6

(* A good in an inventory, or on its way into a trade. *)
LEMMA NextOutside ==
    ASSUME IndInv, NEW p \in Player, StepOf(p), NEW new \in Seq(AnyLine), NewLines(p, new), Changes(p),
           NEW g \in Good \ astray', NEW q \in Player, InBag(q, g) \/ InHand(q, g)
    PROVE  Somewhere(g)'
<1>t. /\ bag \in [Player -> [Good -> Nat]] /\ items \in [Trade -> SUBSET Good] /\ 1..made \subseteq Trade
      /\ made \in Nat
    BY TradesTyped DEF IndInv, TypeOK
<1>1. CASE InBag(q, g)
    <2>1. bag[q][g] \in Nat /\ bag[q][g] > 0
        BY <1>t, <1>1 DEF InBag
    <2>2. CASE bag' = bag
        BY <2>1, <2>2 DEF Somewhere, InBag
    <2>3. ASSUME NEW o, NEW G, Received(o, G) PROVE Somewhere(g)'
        <3>1. bag'[q][g] >= bag[q][g]
            BY <1>t, <2>3 DEF Received, Gained
        <3>2. bag'[q][g] > 0
            <4>1. bag'[q][g] = bag[q][g] \/ bag'[q][g] = bag[q][g] + 1 \/ bag'[q][g] = bag[q][g] - 0
                BY <1>t, <2>3 DEF Received, Gained
            <4> QED BY <2>1, <4>1
        <3> QED BY <3>2 DEF Somewhere, InBag
    <2>4. CASE Return(p) \/ Give(p)
        BY <2>3, <2>4 DEF Return, Give, HandOut
    <2>5. ASSUME NEW h \in Good, setItems(p, h) PROVE Somewhere(g)'
        <3>1. bag' = [bag EXCEPT ![p][h] = @ - 1]
            BY <2>5 DEF setItems, Withdrawn
        <3>2. CASE q = p /\ g = h
            <4>1. <<"put", trade[p], g>> \in Due(p)'
                <5>1. <<"put", trade[p], g>> \in LinesOf(new)
                    BY <2>5, <3>2 DEF NewLines
                <5> QED BY <5>1, AfterStep
            <4>2. InHand(p, g)'
                BY <4>1 DEF InHand
            <4> QED BY <4>2 DEF Somewhere
        <3>3. CASE ~(q = p /\ g = h)
            <4>1. bag'[q][g] = bag[q][g]
                BY <1>t, <3>1, <3>3
            <4> QED BY <2>1, <4>1 DEF Somewhere, InBag
        <3> QED BY <3>2, <3>3
    <2> QED BY <2>2, <2>4, <2>5 DEF Changes
<1>2. CASE InHand(q, g)
    <2>1. PICK s \in Due(q) : s[1] = "put" /\ s[3] = g
        BY <1>2 DEF InHand
    <2>2. CASE s \in Due(q)'
        BY <2>1, <2>2 DEF Somewhere, InHand
    <2>3. CASE s \notin Due(q)'
        <3>1. q = p /\ todo[p] # <<>> /\ s = Head(todo[p])
            BY <2>3, AfterStep
        <3>2. addItem(p) /\ Operand(p) = g
            BY <2>1, <3>1, StepAt DEF Operand
        <3>3. PICK t \in 1..made : t = This(p)
            BY <3>2, AtLine DEF addItem, At
        <3>4. t \in Trade /\ made' = made /\ settled' = settled /\ t \notin settled
              /\ items' = [items EXCEPT ![t] = @ \cup {g}]
            BY <1>t, <3>2, <3>3 DEF addItem
        <3>5. g \in items'[t] /\ t \in 1..made'
            BY <1>t, <3>3, <3>4
        <3>6. Waiting(t, g)'
            BY <3>4, <3>5 DEF Waiting
        <3> QED BY <3>4, <3>6 DEF Somewhere
    <2> QED BY <2>2, <2>3
<1> QED BY <1>1, <1>2

(* One in a trade. *)
LEMMA NextWaiting ==
    ASSUME IndInv, PairInv, SettleInv, ConfirmInv, NEW p \in Player, StepOf(p),
           NEW new \in Seq(AnyLine), NewLines(p, new), Changes(p),
           NEW g \in Good \ spilled', NEW t \in Trade, Waiting(t, g)
    PROVE  Somewhere(g)'
<1>t. /\ bag \in [Player -> [Good -> Nat]] /\ items \in [Trade -> SUBSET Good] /\ 1..made \subseteq Trade
      /\ made \in Nat /\ settled \subseteq 1..made /\ t \in 1..made /\ g \in items[t] /\ t \in 1..made'
      /\ chr \in [Trade -> Player]
    BY TradesTyped DEF IndInv, TypeOK, Waiting, Changes
<1>1. g \in items'[t]
    <2> SUFFICES ASSUME g \notin items'[t] PROVE FALSE
        OBVIOUS
    <2>1. t = This(p) /\ (addItem(p) \/ Clear(p))
        BY <1>t DEF Changes
    <2>2. ~addItem(p)
        <3> SUFFICES ASSUME addItem(p) PROVE FALSE
            OBVIOUS
        <3>1. items' = [items EXCEPT ![t] = @ \cup {Operand(p)}]
            BY <2>1 DEF addItem
        <3> QED BY <1>t, <3>1
    <2>3. /\ Head(todo[p]) \in Due(p) /\ Head(todo[p])[1] = "clear" /\ Head(todo[p])[2] = t
          /\ todo[p] # <<>> /\ Due(p) = {Head(todo[p])} \cup LinesOf(Rest(p))
        BY <2>1, <2>2, AtLine DEF Clear, At, This
    <2>4. t \in settled /\ Pending("clear", t)
        BY <2>3 DEF SettleInv, Noted, SettlingKind, Pending
    <2>5. Pending("return", t)
        BY <2>4 DEF Waiting, Doomed
    <2>6. PICK q \in Player : \E s \in Due(q) : s[1] = "return" /\ s[2] = t
        BY <2>5 DEF Pending
    <2>7. PICK s \in Due(q) : s[1] = "return" /\ s[2] = t
        BY <2>6
    <2>8. q = p
        BY <2>3, <2>7 DEF SettleInv, OneSettler, SettlingKind
    <2>9. s \in LinesOf(Rest(p))
        BY <2>3, <2>7, <2>8
    <2>10. MayPrecede(Head(todo[p]), s)
        <3>1. todo[p] \in Seq(AnyLine) /\ Tidy(todo[p])
            BY DueTyped DEF SettleInv, AllTidy
        <3> QED BY <2>3, <2>9, <3>1, TidyTail DEF Rest
    <2> QED BY <2>3, <2>7, <2>10 DEF MayPrecede
<1>2. CASE t \notin settled /\ t \notin settled'
    BY <1>t, <1>1, <1>2 DEF Somewhere, Waiting
<1>3. CASE t \notin settled /\ t \in settled'
    <2>1. PICK more \in Seq(AnyLine) : \E T : Settles(p, more, T)
        BY <1>3 DEF Changes
    <2>2. PICK T : Settles(p, more, T)
        BY <2>1
    <2>3. /\ t \in T /\ T \subseteq 1..made /\ UNCHANGED <<made, items, exchange, locked, partner>>
          /\ Due(p)' = LinesOf(more) \cup LinesOf(Rest(p)) /\ LinesOf(Rest(p)) \subseteq Due(p)
          /\ \A q \in Player : q # p => Due(q)' = Due(q)
        BY <1>3, <2>2, RunsLines DEF Settles, fields
    <2>4. CASE Returned(more, T)
        <3>1. Do("return", t) \in Due(p)'
            BY <2>3, <2>4 DEF Returned
        <3>2. Pending("return", t)'
            BY <3>1 DEF Pending, Do
        <3> QED BY <1>t, <1>1, <3>2 DEF Somewhere, Waiting
    <2>5. CASE ~Returned(more, T)
        <3>1. /\ Given(more, T) /\ At(p, "settle") /\ T = {This(p), Operand(p)}
              /\ partner[This(p)] = Operand(p) /\ partner[Operand(p)] = This(p) /\ locked[Operand(p)]
            BY <2>2, <2>5 DEF Settles
        <3>2. Head(todo[p]) \in Due(p) /\ Head(todo[p])[1] = "settle" /\ todo[p] # <<>>
            BY <3>1, AtLine DEF At
        <3>3. locked[This(p)]
            BY <3>2 DEF ConfirmInv, OwnConfirms, This
        <3>4. locked[t] /\ partner[t] \in T /\ locked[partner[t]]
            BY <2>3, <3>1, <3>3
        <3>5. CASE exchange[partner[t]] = items[t]
            <4>1. Do("give", partner[t]) \in Due(p)' /\ partner[t] \in 1..made
                BY <2>3, <3>1, <3>4 DEF Given
            <4>2. PICK u \in 1..made : u = partner[t]
                BY <4>1
            <4>3. Pending("give", u)'
                BY <4>1, <4>2 DEF Pending, Do
            <4>4. Coming(u, g)'
                BY <1>t, <2>3, <3>5, <4>2, <4>3 DEF Coming
            <4> QED BY <1>t, <4>4 DEF Somewhere
        <3>6. CASE \E q \in Player : \E s \in Due(q) : s[1] = "copy" /\ s[2] = t
            <4>1. PICK q \in Player : \E s \in Due(q) : s[1] = "copy" /\ s[2] = t
                BY <3>6
            <4>2. PICK s \in Due(q) : s[1] = "copy" /\ s[2] = t
                BY <4>1
            <4>3. s[3] = partner[t]
                BY <4>2 DEF PairInv, Confirming
            <4>4. s \in Due(q)'
                BY <3>2, <4>2, AfterStep
            <4>5. ~Pending("clear", t)'
                <5> SUFFICES ASSUME NEW r \in Player, NEW x \in Due(r)', x[1] = "clear", x[2] = t PROVE FALSE
                    BY DEF Pending
                <5>1. x \notin LinesOf(more)
                    BY <3>1 DEF Given
                <5>2. x \in Due(r)
                    BY <2>3, <5>1
                <5> QED BY <1>3, <5>2 DEF SettleInv, Noted, SettlingKind
            <4>6. Doomed(t)'
                BY <1>3, <2>3, <3>4, <4>2, <4>3, <4>4, <4>5 DEF Doomed
            <4> QED BY <1>t, <1>1, <4>6 DEF Somewhere, Waiting
        <3> QED BY <1>t, <1>3, <3>4, <3>5, <3>6 DEF ConfirmInv, Confirmed
    <2> QED BY <2>4, <2>5
<1>4. CASE Pending("return", t)
    <2>1. PICK q \in Player : \E s \in Due(q) : s[1] = "return" /\ s[2] = t
        BY <1>4 DEF Pending
    <2>2. PICK s \in Due(q) : s[1] = "return" /\ s[2] = t
        BY <2>1
    <2>3. CASE s \in Due(q)'
        <3>1. Pending("return", t)'
            BY <2>2, <2>3 DEF Pending
        <3> QED BY <1>t, <1>1, <3>1 DEF Somewhere, Waiting
    <2>4. CASE s \notin Due(q)'
        <3>1. todo[p] # <<>> /\ s = Head(todo[p])
            BY <2>4, AfterStep
        <3>2. Return(p) /\ This(p) = t
            BY <2>2, <3>1, StepAt DEF This
        <3>3. PICK refused \in SUBSET (items[t] \cap Item) :
                  Received(chr[t], items[t] \ refused) /\ spilled' = spilled \cup refused
            BY <3>2 DEF Return, HandOut
        <3>4. chr[t] \in Player /\ g \in items[t] \ refused
            BY <1>t, <3>3
        <3>5. bag'[chr[t]][g] > 0
            BY <1>t, <3>3, <3>4 DEF Received, Gained
        <3> QED BY <3>4, <3>5 DEF Somewhere, InBag
    <2> QED BY <2>3, <2>4
<1>5. CASE Doomed(t)
    <2>1. Doomed(t)'
        BY <1>t, <1>5, NextDoomed
    <2> QED BY <1>t, <1>1, <2>1 DEF Somewhere, Waiting
<1> QED BY <1>2, <1>3, <1>4, <1>5 DEF Waiting

(* One a session is about to give to its new owner. *)
LEMMA NextComing ==
    ASSUME IndInv, PairInv, SettleInv, Exchanges, NEW p \in Player, StepOf(p),
           NEW new \in Seq(AnyLine), NewLines(p, new), Changes(p),
           NEW g \in Good \ spilled', NEW u \in Trade, Coming(u, g)
    PROVE  Somewhere(g)'
<1>t. /\ bag \in [Player -> [Good -> Nat]] /\ exchange \in [Trade -> SUBSET Good] /\ 1..made \subseteq Trade
      /\ u \in 1..made /\ g \in exchange[u] /\ u \in 1..made' /\ chr \in [Trade -> Player]
    BY TradesTyped DEF IndInv, TypeOK, Coming, Changes
<1>1. PICK q \in Player : \E s \in Due(q) : s[1] = "give" /\ s[2] = u
    BY DEF Coming, Pending
<1>2. PICK s \in Due(q) : s[1] = "give" /\ s[2] = u
    BY <1>1
<1>3. CASE s \notin Due(q)'
    <2>1. todo[p] # <<>> /\ s = Head(todo[p])
        BY <1>3, AfterStep
    <2>2. Give(p) /\ This(p) = u
        BY <1>2, <2>1, StepAt DEF This
    <2>3. PICK refused \in SUBSET (exchange[u] \cap Item) :
              Received(chr[u], exchange[u] \ refused) /\ spilled' = spilled \cup refused
        BY <2>2 DEF Give, HandOut
    <2>4. chr[u] \in Player /\ g \in exchange[u] \ refused
        BY <1>t, <2>3
    <2>5. bag'[chr[u]][g] > 0
        BY <1>t, <2>3, <2>4 DEF Received, Gained
    <2> QED BY <2>4, <2>5 DEF Somewhere, InBag
<1>4. CASE s \in Due(q)'
    <2>1. g \in exchange'[u]
        <3> SUFFICES ASSUME g \notin exchange'[u] PROVE FALSE
            OBVIOUS
        <3>1. (Copy(p) /\ u = Operand(p)) \/ (Empty(p) /\ u = This(p))
            BY <1>t DEF Changes
        <3>2. CASE Copy(p) /\ u = Operand(p)
            <4>1. Head(todo[p]) \in Due(p) /\ Head(todo[p])[1] = "copy" /\ This(p) \in 1..made
                BY <3>2, AtLine DEF Copy, At
            <4>2. partner[This(p)] = u
                BY <3>2, <4>1 DEF PairInv, Confirming, This, Operand
            <4>3. exchange[u] \subseteq items[This(p)]
                BY <1>t, <4>1, <4>2 DEF Exchanges, Coming
            <4>4. exchange' = [exchange EXCEPT ![u] = items[This(p)]]
                BY <3>2 DEF Copy
            <4> QED BY <1>t, <4>3, <4>4
        <3>3. CASE Empty(p) /\ u = This(p)
            <4>1. /\ Head(todo[p]) \in Due(p) /\ Head(todo[p])[1] = "empty" /\ Head(todo[p])[2] = u
                  /\ todo[p] # <<>> /\ Due(p) = {Head(todo[p])} \cup LinesOf(Rest(p))
                BY <3>3, AtLine DEF Empty, At, This
            <4>2. q = p
                BY <1>2, <4>1 DEF SettleInv, OneSettler, SettlingKind
            <4>3. s \in LinesOf(Rest(p))
                BY <1>2, <4>1, <4>2
            <4>4. MayPrecede(Head(todo[p]), s)
                <5>1. todo[p] \in Seq(AnyLine) /\ Tidy(todo[p])
                    BY DueTyped DEF SettleInv, AllTidy
                <5> QED BY <4>1, <4>3, <5>1, TidyTail DEF Rest
            <4> QED BY <1>2, <4>1, <4>4 DEF MayPrecede
        <3> QED BY <3>1, <3>2, <3>3
    <2>2. Pending("give", u)'
        BY <1>2, <1>4 DEF Pending
    <2>3. Coming(u, g)'
        BY <1>t, <2>1, <2>2 DEF Coming
    <2> QED BY <2>3 DEF Somewhere
<1> QED BY <1>3, <1>4

LEMMA NextKept ==
    ASSUME IndInv, GoodsInv, ConfirmInv, KeptInv, Orderly',
           NEW p \in Player, StepOf(p), NEW new \in Seq(AnyLine), NewLines(p, new), Changes(p)
    PROVE  KeptInv'
<1>1. OpenTrades' /\ Starting'
    BY NextOpenTrades, NextStarting DEF GoodsInv, KeptInv
<1>2. ASSUME NEW g \in Good \ (spilled' \cup astray') PROVE Somewhere(g)'
    <2>1. Somewhere(g)
        BY DEF KeptInv, Changes
    <2>2. CASE \E q \in Player : InBag(q, g) \/ InHand(q, g)
        BY <2>2, NextOutside
    <2>3. CASE \E t \in Trade : Waiting(t, g)
        BY <2>3, NextWaiting DEF GoodsInv
    <2>4. CASE \E t \in Trade : Coming(t, g)
        BY <2>4, NextComing DEF GoodsInv
    <2> QED BY <2>1, <2>2, <2>3, <2>4 DEF Somewhere
<1> QED BY <1>1, <1>2 DEF KeptInv

LossInv == ConfirmInv /\ KeptInv

LEMMA InitLoss == Init => LossInv
<1> SUFFICES ASSUME Init PROVE LossInv
    OBVIOUS
<1>1. /\ made = 0 /\ 1..made = {} /\ \A q \in Player : todo[q] = <<>> /\ Due(q) = {} /\ Len(todo[q]) = 0 /\ ~At(q, "copy")
      /\ bag = [p \in Player |-> [g \in Good |-> IF Owner[g] = p THEN 1 ELSE 0]]
    BY LinesOfFew DEF Init, Due, At
<1>2. ConfirmInv
    BY <1>1 DEF ConfirmInv, FirstOnly, CopyThenSettle, OwnConfirms, Confirmed, Unpaired
<1>3. OpenTrades /\ Starting
    BY <1>1 DEF OpenTrades, Starting
<1>4. \A g \in Good : Somewhere(g)
    BY <1>1, OwnerAssumption DEF Somewhere, InBag
<1> QED BY <1>2, <1>3, <1>4 DEF LossInv, KeptInv

LEMMA NextLoss == IndInv /\ (Orderly => GoodsInv) /\ (Orderly => LossInv) /\ [Next]_vars => (Orderly => LossInv)'
<1> SUFFICES ASSUME IndInv, Orderly => GoodsInv, Orderly => LossInv, [Next]_vars, Orderly' PROVE LossInv'
    OBVIOUS
<1>1. GoodsInv /\ LossInv
    BY OrderlyBefore
<1>2. CASE UNCHANGED vars
    <2>1. UNCHANGED <<made, trade, chr, partner, locked, items, exchange, bag, todo, settled, astray, spilled>>
        BY <1>2 DEF vars
    <2>2. ConfirmInv'
        BY <1>1, <2>1 DEF LossInv, ConfirmInv, FirstOnly, CopyThenSettle, OwnConfirms, Confirmed, Unpaired, Due, At, This, Operand
    <2>3. KeptInv'
        <3>1. KeptInv
            BY <1>1 DEF LossInv
        <3>2. OpenTrades' /\ Starting'
            BY <2>1, <3>1 DEF KeptInv, OpenTrades, Starting, Left, Due
        <3>3. (\A g \in Good \ (spilled \cup astray) : Somewhere(g))'
            BY <2>1, <3>1 DEF KeptInv, Somewhere, InBag, InHand, Waiting, Coming, Doomed, Pending, Due
        <3> QED BY <3>2, <3>3 DEF KeptInv
    <2> QED BY <2>2, <2>3 DEF LossInv
<1>3. CASE Next
    <2>1. PICK p \in Player : StepOf(p)
        BY <1>1, <1>3, StepCases DEF GoodsInv
    <2>2. PICK new \in Seq(AnyLine) : NewLines(p, new)
        BY <2>1, SomeNewLines
    <2>3. Changes(p)
        BY <1>1, <2>1, SomeChanges DEF GoodsInv
    <2>4. ConfirmInv'
        BY <1>1, <2>1, <2>2, <2>3, NextConfirms DEF GoodsInv, LossInv
    <2>5. KeptInv'
        BY <1>1, <2>1, <2>2, <2>3, NextKept DEF LossInv
    <2> QED BY <2>4, <2>5 DEF LossInv
<1> QED BY <1>2, <1>3

LEMMA LossInvHolds == Spec => [](Orderly => LossInv)
<1>1. Init => (Orderly => LossInv)
    BY InitLoss
<1> QED BY <1>1, NextLoss, IndInvHolds, GoodsInvHolds, PTL DEF Spec

(* When all trades are closed, a good is back in an inventory, unless one  *)
(* refused it, a trade was settled again, invitations crossed, or the good *)
(* went into a trade settled or closed meanwhile or was in one that was    *)
(* closed in place of the one that was meant.                              *)
THEOREM GoodsAreNeverLost == Spec => []NothingLost
<1>1. ASSUME IndInv, Orderly => LossInv PROVE NothingLost
    <2> SUFFICES ASSUME AllClosed, Orderly, NEW g \in Good \ (spilled \cup astray)
                 PROVE  \E p \in Player : bag[p][g] > 0
        BY DEF NothingLost
    <2>1. KeptInv /\ \A q \in Player : Due(q) = {}
        BY <1>1, LinesOfFew DEF LossInv, AllClosed, Idle, Due
    <2>2. \A q \in Player : ~InHand(q, g)
        BY <2>1 DEF InHand
    <2>3. ASSUME NEW t \in Trade PROVE ~Waiting(t, g) /\ ~Coming(t, g)
        <3>1. ~Coming(t, g)
            BY <2>1 DEF Coming, Pending
        <3>2. ASSUME Waiting(t, g) PROVE FALSE
            <4>1. t \in 1..made /\ g \in items[t] /\ t \notin settled
                BY <2>1, <3>2 DEF Waiting, Pending, Doomed
            <4>2. trade[chr[t]] = t
                BY <2>1, <4>1 DEF KeptInv, OpenTrades, Left
            <4>3. t # None /\ chr[t] \in Player
                <5>1. chr \in [Trade -> Player] /\ 1..made \subseteq Trade /\ made \in Nat
                    BY <1>1, TradesTyped DEF IndInv, TypeOK
                <5> QED BY <4>1, <5>1 DEF None
            <4> QED BY <4>2, <4>3 DEF AllClosed
        <3> QED BY <3>1, <3>2
    <2> QED BY <2>1, <2>2, <2>3 DEF KeptInv, Somewhere, InBag
<1> QED BY <1>1, IndInvHolds, LossInvHolds, PTL

=============================================================================
