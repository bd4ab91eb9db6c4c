------------------------ MODULE NPCConversation_proofs ------------------------
(***************************************************************************)
(* Proofs about NPCConversation, for any table of scripts, any scripts of  *)
(* the server's own and any number of threads.                             *)
(***************************************************************************)
EXTENDS NPCConversation, TLAPS

Places == {"idle", "start", "open", "run", "answer", "reply"}
Pages(r) == DOMAIN Script(r).pages

(* While chat is set with nothing open, some thread is about to open a     *)
(* conversation, or one of the known causes left it set.                   *)
ChatAccounted ==
    chat /\ cms = None /\ window = "none" =>
        locks # {} \/ \E t \in Threads : pc[t].at = "open"

(* What dispose changes.                                                   *)
ClientOK ==
    /\ cms \in Role \cup {None}
    /\ cached \in [Role -> BOOLEAN]
    /\ chat \in BOOLEAN
    /\ cooling \in 0 .. COOL
    /\ locks \subseteq {"refused", "moved"}

(* The box on the screen is of a page that exists.                         *)
ScreenOK ==
    /\ screen \in [who : Role \cup {None}, page : Int]
    /\ window \in {"none", "shop", "storage"}
    /\ screen # NoBox =>
         /\ screen.who \in Role
         /\ screen.page = OkBox.to \/ screen.page \in Pages(screen.who)

(* A thread in a call runs somebody's script, and the answer on its way is *)
(* to a page that exists.                                                  *)
PlaceOK(t, place) ==
    /\ place \in [at : Places, who : Role \cup {None}, page : Int, flag : BOOLEAN]
    /\ place.at # "idle" => place.who \in Role
    /\ place.at \in {"answer", "reply"} => t = "session"
    /\ place.at = "answer" => place.page \in Pages(place.who)
    /\ place.at = "reply" => place.page = 0 \/ place.page \in Pages(place.who)
PcOK == pc = [t \in Threads |-> pc[t]] /\ \A t \in Threads : PlaceOK(t, pc[t])

RestOK ==
    /\ script \in [Role -> DOMAIN Scripts]
    /\ at \in [Role -> Int]
    /\ clicked \in 0 .. CLICK
    /\ last \in [asked : BOOLEAN, does : SUBSET Effects]
    /\ replaced \in BOOLEAN /\ crossed \in BOOLEAN

IndInv == ClientOK /\ ScreenOK /\ PcOK /\ RestOK /\ EnginesForgotten /\ ChatAccounted

LEMMA Typed == IndInv => TypeOK
<1> SUFFICES ASSUME IndInv PROVE TypeOK
  OBVIOUS
<1>1. pc \in [Threads -> [at : Places, who : Role \cup {None}, page : Int, flag : BOOLEAN]]
  BY DEF IndInv, PcOK, PlaceOK
<1> QED
  BY <1>1 DEF IndInv, ClientOK, ScreenOK, RestOK, TypeOK, Places

------------------------------------------------------------------------------
(* What a script of the table can come to.                                 *)
LEMMA OutcomesTyped ==
    ASSUME RestOK, NEW r \in Role
    PROVE  /\ \A o \in Script(r).start \cup Script(r).again :
                /\ o.to \in Int /\ o.does \in SUBSET Effects
                /\ o.to > 0 => o.to \in Pages(r)
           /\ \A i \in Pages(r) :
                \A o \in Script(r).pages[i].more \cup Script(r).pages[i].back :
                  /\ o.to \in Int /\ o.does \in SUBSET Effects
                  /\ o.to > 0 => o.to \in Pages(r)
<1>1. script[r] \in DOMAIN Scripts
  BY DEF RestOK
<1>2. WellFormed(Script(r))
  BY <1>1, ScriptsAssumption DEF Script
<1> DEFINE P == Script(r).pages
           S == [more : (SUBSET Outcomes(Len(P))) \ {{}}, back : SUBSET Outcomes(Len(P))]
<1>3. /\ P \in Seq(S)
      /\ Script(r).start \subseteq Outcomes(Len(P))
      /\ Script(r).again \subseteq Outcomes(Len(P))
  BY <1>2 DEF WellFormed
<1>4. Len(P) \in Nat /\ DOMAIN P = 1 .. Len(P)
  BY <1>3
<1> HIDE DEF P, S
<1>5. ASSUME NEW i \in DOMAIN P
      PROVE  P[i].more \subseteq Outcomes(Len(P)) /\ P[i].back \subseteq Outcomes(Len(P))
  <2>1. P[i] \in S
    BY <1>3, <1>4
  <2> QED
    BY <2>1 DEF S
<1>6. \A o \in Outcomes(Len(P)) : /\ o.to \in Int /\ o.does \in SUBSET Effects
                                  /\ o.to > 0 => o.to \in DOMAIN P
  BY <1>4 DEF Outcomes
<1> QED
  BY <1>3, <1>5, <1>6 DEF P, Pages

LEMMA DisposeKeeps ==
    ASSUME IndInv, dispose
    PROVE  /\ ClientOK' /\ ~chat'
           /\ \A r \in Role : cached'[r] =>
                replaced \/ (r = "server" /\ script[r] \in Misnamed)
<1>1. /\ cms' = None /\ chat' = FALSE /\ cooling' = COOL /\ locks' = {}
      /\ cached' = [r \in Role |-> cached[r] /\ ~Forgotten(r)]
  BY DEF dispose, setChat
<1>2. ClientOK'
  <2>1. cached' \in [Role -> BOOLEAN]
    <3>1. \A r \in Role : (cached[r] /\ ~Forgotten(r)) \in BOOLEAN
      OBVIOUS
    <3> QED
      BY <1>1, <3>1
  <2>2. cooling' \in 0 .. COOL
    BY <1>1 DEF COOL
  <2>3. locks' \subseteq {"refused", "moved"}
    BY <1>1
  <2> QED
    BY <1>1, <2>1, <2>2, <2>3, Zenon DEF ClientOK
<1>3. ASSUME NEW r \in Role, cached'[r]
      PROVE  replaced \/ (r = "server" /\ script[r] \in Misnamed)
  <2>1. cached[r] /\ ~Forgotten(r)
    BY <1>1, <1>3
  <2> QED
    BY <2>1 DEF IndInv, EnginesForgotten, Forgotten
<1> QED
  BY <1>1, <1>2, <1>3

LEMMA DisposeIfOpenKeeps ==
    ASSUME IndInv, disposeIfOpen
    PROVE  /\ ClientOK'
           /\ \A r \in Role : cached'[r] => 
                cms' = r \/ replaced \/ (r = "server" /\ script[r] \in Misnamed)
           /\ chat' => cms = None /\ cms' = None /\ chat /\ locks' = locks
<1>1. CASE cms = None
  BY <1>1 DEF disposeIfOpen, client, IndInv, EnginesForgotten, ClientOK
<1>2. CASE cms # None
  BY <1>2, DisposeKeeps DEF disposeIfOpen
<1> QED
  BY <1>1, <1>2

LEMMA ChangeMapKeeps ==
    ASSUME IndInv, changeMapInternal
    PROVE  /\ ClientOK' /\ ScreenOK'
           /\ \A r \in Role : cached'[r] =>
                cms' = r \/ replaced \/ (r = "server" /\ script[r] \in Misnamed)
           /\ chat' /\ cms' = None =>
                locks' # {} \/ (chat /\ cms = None /\ window = "none" /\ locks' = locks)
<1>1. ScreenOK'
  BY DEF changeMapInternal, ScreenOK, NoBox
<1>2. CASE cms = None /\ chat /\ window # "none"
  BY <1>1, <1>2 DEF changeMapInternal, IndInv, EnginesForgotten, ClientOK
<1>3. CASE ~(cms = None /\ chat /\ window # "none")
  BY <1>1, <1>3, DisposeIfOpenKeeps DEF changeMapInternal
<1> QED
  BY <1>2, <1>3

(* Whatever a script does, the client stays accounted for.                 *)
LEMMA LeavesKeeps ==
    ASSUME IndInv, NEW r \in Role, NEW o,
           o.to \in Int, o.to > 0 => o.to \in Pages(r), script' = script, Leaves(r, o)
    PROVE  /\ ClientOK' /\ ScreenOK'
           /\ \A x \in Role : cached'[x] =>
                cms' = x \/ replaced \/ (x = "server" /\ script[x] \in Misnamed)
           /\ chat' /\ cms' = None /\ window' = "none" =>
                locks' # {} \/ (chat /\ cms = None /\ window = "none" /\ locks' = locks)
<1>0. /\ ClientOK /\ ScreenOK
      /\ \A x \in Role : cached[x] =>
           cms = x \/ replaced \/ (x = "server" /\ script[x] \in Misnamed)
  BY DEF IndInv, EnginesForgotten, ClientOK, ScreenOK
<1>p. \A x : Pages(x)' = Pages(x)
  BY DEF Pages, Script
<1>1. CASE "shop" \in o.does /\ window # "none"
  <2>1. UNCHANGED <<window, screen>> /\ (UNCHANGED client \/ dispose)
    BY <1>1 DEF Leaves
  <2>2. ScreenOK'
    BY <2>1, <1>0, <1>p DEF ScreenOK
  <2>3. CASE UNCHANGED client
    BY <2>1, <2>2, <2>3, <1>0 DEF client, ClientOK
  <2>4. CASE dispose
    BY <2>1, <2>2, <2>4, DisposeKeeps
  <2> QED
    BY <2>1, <2>3, <2>4
<1>2. CASE "shop" \in o.does /\ window = "none"
  <2>1. /\ cms' = None /\ chat' \in BOOLEAN /\ locks' = {}
        /\ cached' = [x \in Role |-> cached[x] /\ ~Forgotten(x)]
        /\ cooling' = IF cms = None /\ chat' THEN cooling ELSE COOL
        /\ window' = "shop" /\ screen' = NoBox
    BY <1>2 DEF Leaves
  <2>2. ScreenOK'
    BY <2>1 DEF ScreenOK, NoBox
  <2>3. ClientOK'
    BY <2>1, <1>0 DEF ClientOK, COOL
  <2> QED
    BY <2>1, <2>2, <2>3, <1>0 DEF Forgotten
<1>3. CASE "shop" \notin o.does /\ "warp" \in o.does
  BY <1>3, ChangeMapKeeps DEF Leaves
<1>4. CASE /\ "shop" \notin o.does /\ "warp" \notin o.does
           /\ o.to \in {Bye.to, Error.to}
  <2>1. dispose /\ UNCHANGED <<window, screen>>
    BY <1>4 DEF Leaves
  <2>2. ScreenOK'
    BY <2>1, <1>0, <1>p DEF ScreenOK
  <2> QED
    BY <2>1, <2>2, DisposeKeeps
<1>5. CASE /\ "shop" \notin o.does /\ "warp" \notin o.does
           /\ o.to \notin {Bye.to, Error.to}
  <2>1. /\ UNCHANGED client
        /\ screen' = IF o.to > 0 \/ o.to = OkBox.to
                       THEN [who |-> r, page |-> o.to] ELSE screen
        /\ window' = IF o.to = Window.to THEN "storage" ELSE window
    BY <1>5 DEF Leaves
  <2>2. screen' \in [who : Role \cup {None}, page : Int]
    BY <2>1, <1>0 DEF ScreenOK
  <2>3. screen' # NoBox => /\ screen'.who \in Role
                           /\ screen'.page = OkBox.to \/ screen'.page \in Pages(screen'.who)
    BY <2>1, <1>0 DEF ScreenOK
  <2>4. window' \in {"none", "shop", "storage"}
    BY <2>1, <1>0 DEF ScreenOK
  <2>5. ScreenOK'
    BY <2>2, <2>3, <2>4, <1>p DEF ScreenOK, NoBox, OkBox
  <2>6. window' = "none" => window = "none"
    BY <2>1
  <2> QED
    BY <2>1, <2>5, <2>6, <1>0 DEF client, ClientOK
<1> QED
  BY <1>1, <1>2, <1>3, <1>4, <1>5

THEOREM InitIndInv == Init => IndInv
<1> SUFFICES ASSUME Init PROVE IndInv
  OBVIOUS
<1>1. script \in [Role -> DOMAIN Scripts]
  BY ScriptsAssumption DEF Init, Role
<1>2. "session" \in Threads
  BY ScriptsAssumption
<1>3. RestOK
  <2>1. at \in [Role -> Int] /\ clicked \in 0 .. CLICK
    BY DEF Init, Loaded, CLICK
  <2>2. last \in [asked : BOOLEAN, does : SUBSET Effects]
    BY DEF Init
  <2> QED
    BY <1>1, <2>1, <2>2, Zenon DEF Init, RestOK
<1>4. ScreenOK
  BY DEF Init, NoBox, ScreenOK
<1>5. PcOK
  BY DEF Init, Idle, Step, Place, Places, PcOK, PlaceOK
<1>6. ClientOK
  <2>1. cached \in [Role -> BOOLEAN] /\ locks \subseteq {"refused", "moved"}
    BY DEF Init
  <2>2. cooling \in 0 .. COOL
    BY DEF Init, COOL
  <2> QED
    BY <2>1, <2>2, Zenon DEF Init, ClientOK
<1>7. EnginesForgotten /\ ChatAccounted
  BY DEF Init, EnginesForgotten, ChatAccounted
<1> QED
  BY <1>3, <1>4, <1>5, <1>6, <1>7 DEF IndInv

------------------------------------------------------------------------------
(* A thread moves to a place; the others stay.                             *)
LEMMA GoesKeeps ==
    ASSUME PcOK, NEW t \in Threads, NEW place, PlaceOK(t, place), Goes(t, place), script' = script
    PROVE  PcOK' /\ \A u \in Threads : pc'[u] = IF u = t THEN place ELSE pc[u]
<1>1. \A u \in Threads : pc'[u] = IF u = t THEN place ELSE pc[u]
  BY DEF PcOK, Goes
<1>2. pc' = [u \in Threads |-> pc'[u]]
  BY DEF PcOK, Goes
<1>3. ASSUME NEW u, NEW p, PlaceOK(u, p) PROVE PlaceOK(u, p)'
  BY <1>3 DEF PlaceOK, Pages, Script
<1>4. \A u \in Threads : PlaceOK(u, pc'[u])
  BY <1>1 DEF PcOK
<1> QED
  BY <1>1, <1>2, <1>4 DEF PcOK, PlaceOK, Pages, Script

LEMMA IdleIsAPlace == \A t : PlaceOK(t, Idle)
BY DEF PlaceOK, Idle, Step, Place, Places

LEMMA StepIsAPlace ==
    ASSUME NEW t, NEW a \in {"start", "open", "run"}, NEW r \in Role, NEW b \in BOOLEAN
    PROVE  PlaceOK(t, Place(a, r, 0, b)) /\ PlaceOK(t, Step(a, r))
BY DEF PlaceOK, Place, Step, Places

(* chat stays accounted for when the thread that moves does not drop a     *)
(* conversation it was about to open.                                      *)
LEMMA AccountedKept ==
    ASSUME ChatAccounted, NEW t \in Threads,
           \A u \in Threads \ {t} : pc'[u] = pc[u],
           pc[t].at = "open" => pc'[t].at = "open",
           chat' /\ cms' = None /\ window' = "none" =>
             locks' # {} \/ (chat /\ cms = None /\ window = "none" /\ locks' = locks)
    PROVE  ChatAccounted'
<1>1. \A u \in Threads : pc[u].at = "open" => pc'[u].at = "open"
  OBVIOUS
<1> QED
  BY <1>1 DEF ChatAccounted

(* What a step that leaves the client alone keeps.                         *)
LEMMA ClientAlone ==
    ASSUME IndInv, UNCHANGED <<client, script, replaced>>
    PROVE  ClientOK' /\ EnginesForgotten'
BY DEF IndInv, ClientOK, EnginesForgotten, client

LEMMA ScreenAlone ==
    ASSUME IndInv, UNCHANGED <<screen, window, script>>
    PROVE  ScreenOK'
BY DEF IndInv, ScreenOK, Pages, Script

LEMMA RestAlone ==
    ASSUME IndInv, UNCHANGED <<script, at, history>>, clicked' \in 0 .. CLICK
    PROVE  RestOK'
BY DEF IndInv, RestOK, history

LEMMA PcAlone ==
    ASSUME IndInv, UNCHANGED <<pc, script>>
    PROVE  PcOK' /\ \A u \in Threads : pc'[u] = pc[u]
<1>1. ASSUME NEW u, NEW p, PlaceOK(u, p) PROVE PlaceOK(u, p)'
  BY <1>1 DEF PlaceOK, Pages, Script
<1> QED
  BY DEF IndInv, PcOK, PlaceOK, Pages, Script

(* Some step of a thread into a script leaves everything in order.         *)
LEMMA FinishKeeps ==
    ASSUME IndInv, NEW t \in Threads, NEW r \in Role, NEW asked \in BOOLEAN, NEW o,
           o.to \in Int, o.does \in SUBSET Effects, o.to > 0 => o.to \in Pages(r),
           pc[t].at \in {"run", "reply"}, Finish(t, r, asked, o)
    PROVE  IndInv'
<1>1. /\ Leaves(r, o) /\ Goes(t, Idle)
      /\ UNCHANGED <<script, clicked, replaced, crossed>>
      /\ at' = [at EXCEPT ![r] = o.to]
      /\ last' = [asked |-> asked, does |-> o.does]
  BY DEF Finish
<1>2. /\ ClientOK' /\ ScreenOK'
      /\ \A x \in Role : cached'[x] =>
           cms' = x \/ replaced \/ (x = "server" /\ script[x] \in Misnamed)
      /\ chat' /\ cms' = None /\ window' = "none" =>
           locks' # {} \/ (chat /\ cms = None /\ window = "none" /\ locks' = locks)
  BY <1>1, LeavesKeeps
<1>3. EnginesForgotten'
  BY <1>1, <1>2 DEF EnginesForgotten
<1>4. PcOK' /\ \A u \in Threads : pc'[u] = IF u = t THEN Idle ELSE pc[u]
  BY <1>1, GoesKeeps, IdleIsAPlace DEF IndInv
<1>5. ChatAccounted'
  BY <1>2, <1>4, AccountedKept DEF IndInv
<1>6. RestOK'
  BY <1>1 DEF IndInv, RestOK
<1> QED
  BY <1>2, <1>3, <1>4, <1>5, <1>6 DEF IndInv

LEMMA NPCTalkKeeps == IndInv /\ NPCTalk => IndInv'
<1> SUFFICES ASSUME IndInv, NPCTalk PROVE IndInv'
  OBVIOUS
<1> USE ScriptsAssumption
<1> DEFINE t == "session"  p == Step("start", "npc")
<1>1. PlaceOK(t, p) /\ "npc" \in Role
  BY StepIsAPlace DEF Role
<1>2. PcOK' /\ \A u \in Threads : pc'[u] = IF u = t THEN p ELSE pc[u]
  BY <1>1, GoesKeeps DEF NPCTalk, IndInv
<1>3. ClientOK' /\ EnginesForgotten' /\ ScreenOK' /\ RestOK'
  BY ClientAlone, ScreenAlone, RestAlone DEF NPCTalk, IndInv, RestOK, history
<1>4. pc[t].at # "open"
  BY DEF NPCTalk
<1>5. ChatAccounted'
  BY <1>2, <1>4, AccountedKept DEF NPCTalk, IndInv, client
<1> QED
  BY <1>2, <1>3, <1>5 DEF IndInv
LEMMA EndTalkKeeps == IndInv /\ EndTalk => IndInv'
<1> SUFFICES ASSUME IndInv, EndTalk PROVE IndInv'
  OBVIOUS
<1>1. /\ screen' = NoBox /\ disposeIfOpen
      /\ UNCHANGED <<script, at, clicked, window, pc, history>>
  BY DEF EndTalk
<1>2. /\ ClientOK'
      /\ \A r \in Role : cached'[r] =>
           cms' = r \/ replaced \/ (r = "server" /\ script[r] \in Misnamed)
      /\ chat' => cms = None /\ cms' = None /\ chat /\ locks' = locks
  BY <1>1, DisposeIfOpenKeeps
<1>3. ScreenOK'
  BY <1>1 DEF IndInv, ScreenOK, NoBox
<1>4. PcOK' /\ \A u \in Threads : pc'[u] = pc[u]
  BY <1>1, PcAlone
<1>5. RestOK'
  BY <1>1, RestAlone DEF IndInv, RestOK
<1>6. EnginesForgotten'
  BY <1>1, <1>2 DEF EnginesForgotten, history
<1>7. ChatAccounted'
  BY <1>1, <1>2, <1>4 DEF ChatAccounted, IndInv
<1> QED
  BY <1>2, <1>3, <1>4, <1>5, <1>6, <1>7 DEF IndInv

LEMMA sendShopKeeps == IndInv /\ sendShop => IndInv'
<1> SUFFICES ASSUME IndInv, sendShop PROVE IndInv'
  OBVIOUS
<1>1. /\ window' = "shop" /\ chat' = TRUE
      /\ UNCHANGED <<script, cms, cached, cooling, locks, at, clicked, screen, pc, history>>
  BY DEF sendShop, setChat
<1>2. PcOK'
  BY <1>1, PcAlone
<1>3. ScreenOK'
  BY <1>1 DEF IndInv, ScreenOK, Pages, Script
<1>4. ClientOK'
  BY <1>1, Zenon DEF IndInv, ClientOK
<1>5. RestOK'
  BY <1>1, RestAlone DEF IndInv, RestOK
<1>6. EnginesForgotten' /\ ChatAccounted'
  BY <1>1 DEF EnginesForgotten, ChatAccounted, IndInv, history
<1> QED
  BY <1>2, <1>3, <1>4, <1>5, <1>6 DEF IndInv

LEMMA StartServerKeeps ==
    ASSUME IndInv, NEW t \in Threads, StartServer(t)
    PROVE  IndInv'
<1> DEFINE p == Step("start", "server")
<1>1. /\ pc[t].at = "idle" /\ Goes(t, p)
      /\ UNCHANGED <<script, at, screen, window, history>>
      /\ UNCHANGED <<client, clicked>> \/ (dispose /\ clicked' \in {0, clicked})
  BY DEF StartServer
<1>2. PlaceOK(t, p)
  BY StepIsAPlace DEF Role
<1>3. PcOK' /\ \A u \in Threads : pc'[u] = IF u = t THEN p ELSE pc[u]
  BY <1>1, <1>2, GoesKeeps DEF IndInv
<1>4. clicked' \in 0 .. CLICK
  BY <1>1 DEF IndInv, RestOK, CLICK
<1>5. ScreenOK' /\ RestOK'
  BY <1>1, <1>4, ScreenAlone, RestAlone
<1>6. CASE UNCHANGED client
  <2>1. ClientOK' /\ EnginesForgotten'
    BY <1>1, <1>6, ClientAlone DEF history
  <2>2. ChatAccounted'
    BY <1>1, <1>3, <1>6, AccountedKept DEF IndInv, client
  <2> QED
    BY <1>3, <1>5, <2>1, <2>2 DEF IndInv
<1>7. CASE dispose
  <2>1. ClientOK' /\ EnginesForgotten' /\ ChatAccounted'
    BY <1>1, <1>7, DisposeKeeps DEF EnginesForgotten, ChatAccounted, history
  <2> QED
    BY <1>3, <1>5, <2>1 DEF IndInv
<1> QED
  BY <1>1, <1>6, <1>7

LEMMA startNPCKeeps ==
    ASSUME IndInv, NEW t \in Threads, startNPC(t)
    PROVE  IndInv'
<1> DEFINE p == Step("start", "server")
<1>1. /\ pc[t].at = "idle" /\ Goes(t, p)
      /\ UNCHANGED <<script, client, at, clicked, screen, window, history>>
  BY DEF startNPC
<1>2. PlaceOK(t, p)
  BY StepIsAPlace DEF Role
<1>3. PcOK' /\ \A u \in Threads : pc'[u] = IF u = t THEN p ELSE pc[u]
  BY <1>1, <1>2, GoesKeeps DEF IndInv
<1>4. ClientOK' /\ EnginesForgotten' /\ ScreenOK' /\ RestOK'
  BY <1>1, ClientAlone, ScreenAlone, RestAlone DEF IndInv, RestOK, history
<1>5. ChatAccounted'
  BY <1>1, <1>3, AccountedKept DEF IndInv, client
<1> QED
  BY <1>3, <1>4, <1>5 DEF IndInv

LEMMA startKeeps ==
    ASSUME IndInv, NEW t \in Threads, start(t)
    PROVE  IndInv'
<1>1. /\ pc[t].at = "start" /\ chat' = TRUE
      /\ UNCHANGED <<script, cms, cached, cooling, at, clicked, screen, window, history>>
      /\ \/ Goes(t, Idle) /\ locks' = locks \cup {"refused"}
         \/ Goes(t, Step("open", pc[t].who)) /\ locks' = locks
  BY DEF start, setChat
<1>2. PlaceOK(t, Step("open", pc[t].who)) /\ Step("open", pc[t].who).at = "open"
  <2>1. pc[t].who \in Role
    BY <1>1 DEF IndInv, PcOK, PlaceOK
  <2> QED
    BY <2>1, StepIsAPlace DEF Step, Place
<1>3. ScreenOK' /\ RestOK'
  BY <1>1, ScreenAlone, RestAlone DEF IndInv, RestOK
<1>4. ClientOK'
  <2>1. locks' \subseteq {"refused", "moved"}
    BY <1>1 DEF IndInv, ClientOK
  <2> QED
    BY <1>1, <2>1, Zenon DEF IndInv, ClientOK
<1>5. EnginesForgotten'
  BY <1>1 DEF IndInv, EnginesForgotten, history
<1>6. CASE Goes(t, Idle) /\ locks' = locks \cup {"refused"}
  <2>1. PcOK'
    BY <1>1, <1>6, GoesKeeps, IdleIsAPlace DEF IndInv
  <2>2. ChatAccounted'
    BY <1>6 DEF ChatAccounted
  <2> QED
    BY <1>3, <1>4, <1>5, <2>1, <2>2 DEF IndInv
<1>7. CASE Goes(t, Step("open", pc[t].who)) /\ locks' = locks
  <2>1. PcOK' /\ pc'[t] = Step("open", pc[t].who)
    BY <1>1, <1>2, <1>7, GoesKeeps DEF IndInv
  <2>2. ChatAccounted'
    BY <1>2, <2>1 DEF ChatAccounted
  <2> QED
    BY <1>3, <1>4, <1>5, <2>1, <2>2 DEF IndInv
<1> QED
  BY <1>1, <1>6, <1>7

LEMMA setCMSKeeps ==
    ASSUME IndInv, NEW t \in Threads, setCMS(t)
    PROVE  IndInv'
<1> DEFINE r == pc[t].who
           new == ~cached[r] \/ at[r] = Loaded
<1>1. /\ Goes(t, Place("run", r, 0, new)) /\ cms' = r
      /\ cached' = [cached EXCEPT ![r] = TRUE]
      /\ at' = [at EXCEPT ![r] = IF new THEN Loaded ELSE @]
      /\ clicked' = CLICK
      /\ replaced' = (replaced \/ cms # None)
      /\ crossed' = (crossed \/ screen # NoBox \/ Busy(t))
      /\ UNCHANGED <<script, chat, cooling, locks, screen, window, last>>
  BY DEF setCMS
<1>2. r \in Role /\ cms' # None
  BY <1>1, ScriptsAssumption DEF setCMS, IndInv, PcOK, PlaceOK, Role
<1>3. new \in BOOLEAN
  OBVIOUS
<1> HIDE DEF r, new
<1>4. PcOK'
  BY <1>1, <1>2, <1>3, GoesKeeps, StepIsAPlace DEF IndInv
<1>5. ScreenOK'
  BY <1>1, ScreenAlone
<1>6. ClientOK'
  BY <1>1, <1>2, Zenon DEF IndInv, ClientOK
<1>7. RestOK'
  <2>1. at' \in [Role -> Int] /\ clicked' \in 0 .. CLICK
    BY <1>1, <1>2 DEF IndInv, RestOK, Loaded, CLICK
  <2> QED
    BY <1>1, <2>1, Zenon DEF IndInv, RestOK
<1>8. EnginesForgotten'
  <2> SUFFICES ASSUME NEW x \in Role, cached'[x], cms' # x
               PROVE  replaced' \/ (x = "server" /\ script[x] \in Misnamed)
    BY <1>1 DEF EnginesForgotten
  <2>1. cached[x]
    BY <1>1 DEF IndInv, ClientOK
  <2>2. x # None
    BY ScriptsAssumption DEF Role
  <2> QED
    BY <1>1, <2>1, <2>2 DEF IndInv, EnginesForgotten
<1>9. ChatAccounted'
  BY <1>2 DEF ChatAccounted
<1> QED
  BY <1>4, <1>5, <1>6, <1>7, <1>8, <1>9 DEF IndInv

LEMMA RunStartKeeps ==
    ASSUME IndInv, NEW t \in Threads, RunStart(t)
    PROVE  IndInv'
<1> DEFINE r == pc[t].who
<1>1. pc[t].at = "run" /\ r \in Role /\ pc[t].flag \in BOOLEAN
  BY DEF RunStart, IndInv, PcOK, PlaceOK
<1>2. PICK o \in Script(r).start \cup Script(r).again : Finish(t, r, pc[t].flag, o)
  BY DEF RunStart
<1>3. /\ o.to \in Int /\ o.does \in SUBSET Effects
      /\ o.to > 0 => o.to \in Pages(r)
  BY <1>1, <1>2, OutcomesTyped DEF IndInv
<1> HIDE DEF r
<1> QED
  BY <1>1, <1>2, <1>3, FinishKeeps

LEMMA NPCMoreTalkKeeps ==
    ASSUME IndInv, NEW more \in BOOLEAN, NPCMoreTalk(more)
    PROVE  IndInv'
<1> USE ScriptsAssumption
<1> DEFINE t == "session"  p == Place("answer", screen.who, screen.page, more)
<1>1. /\ pc[t].at = "idle" /\ Goes(t, p) /\ screen' = NoBox
      /\ screen # NoBox /\ screen.page # OkBox.to
      /\ UNCHANGED <<script, client, at, clicked, window, history>>
  BY DEF NPCMoreTalk
<1>2. PlaceOK(t, p)
  BY <1>1 DEF IndInv, ScreenOK, PlaceOK, Place, Places
<1>3. PcOK' /\ \A u \in Threads : pc'[u] = IF u = t THEN p ELSE pc[u]
  BY <1>1, <1>2, GoesKeeps DEF IndInv
<1>4. ClientOK' /\ EnginesForgotten' /\ RestOK'
  BY <1>1, ClientAlone, RestAlone DEF IndInv, RestOK, history
<1>5. ScreenOK'
  BY <1>1 DEF IndInv, ScreenOK, NoBox
<1>6. ChatAccounted'
  BY <1>1, <1>3, AccountedKept DEF IndInv, client
<1> QED
  BY <1>3, <1>4, <1>5, <1>6 DEF IndInv

LEMMA actionKeeps == IndInv /\ action => IndInv'
<1> SUFFICES ASSUME IndInv, action PROVE IndInv'
  OBVIOUS
<1> USE ScriptsAssumption
<1> DEFINE t == "session"  p == pc[t]
           asked == p.who = cms /\ p.page = at[cms]
           q == Place("reply", cms, IF asked THEN p.page ELSE 0, p.flag)
<1>1. /\ p.at = "answer"
      /\ \/ Goes(t, Idle) /\ clicked' = clicked
         \/ Goes(t, q) /\ clicked' = CLICK /\ cms # None
      /\ UNCHANGED <<script, client, at, screen, window, history>>
  BY DEF action
<1>2. PlaceOK(t, p)
  BY DEF IndInv, PcOK
<1>3. cms # None => PlaceOK(t, q)
  <2> SUFFICES ASSUME cms \in Role PROVE PlaceOK(t, q)
    BY DEF IndInv, ClientOK
  <2>1. p.page \in Int /\ p.flag \in BOOLEAN /\ p.page \in Pages(p.who)
    BY <1>1, <1>2 DEF PlaceOK
  <2> QED
    BY <2>1 DEF PlaceOK, Place, Places
<1>4. clicked' \in 0 .. CLICK
  BY <1>1 DEF IndInv, RestOK, CLICK
<1>5. ClientOK' /\ EnginesForgotten' /\ ScreenOK' /\ RestOK'
  BY <1>1, <1>4, ClientAlone, ScreenAlone, RestAlone DEF history
<1> HIDE DEF q
<1>6. PcOK' /\ \A u \in Threads \ {t} : pc'[u] = pc[u]
  <2>1. CASE Goes(t, Idle)
    BY <1>1, <2>1, GoesKeeps, IdleIsAPlace DEF IndInv
  <2>2. CASE Goes(t, q) /\ cms # None
    BY <1>1, <1>3, <2>2, GoesKeeps DEF IndInv
  <2> QED
    BY <1>1, <2>1, <2>2
<1>7. ChatAccounted'
  BY <1>1, <1>6, AccountedKept DEF IndInv, client
<1> QED
  BY <1>5, <1>6, <1>7 DEF IndInv

LEMMA RunActionKeeps == IndInv /\ RunAction => IndInv'
<1> SUFFICES ASSUME IndInv, RunAction PROVE IndInv'
  OBVIOUS
<1> USE ScriptsAssumption
<1> DEFINE t == "session"  p == pc[t]  r == p.who  s == Script(r)
<1>1. p.at = "reply" /\ r \in Role
  BY DEF RunAction, IndInv, PcOK, PlaceOK
<1>2. p.page = 0 \/ p.page \in Pages(r)
  BY <1>1 DEF IndInv, PcOK, PlaceOK
<1>3. PICK o \in IF p.page = 0 THEN Stray(s)
                 ELSE IF p.flag THEN s.pages[p.page].more ELSE s.pages[p.page].back :
        Finish(t, r, p.page # 0, o)
  BY DEF RunAction
<1>4. o \in s.again \/ \E i \in Pages(r) : o \in s.pages[i].more \cup s.pages[i].back
  BY <1>2, <1>3 DEF Stray, Pages
<1>5. /\ o.to \in Int /\ o.does \in SUBSET Effects
      /\ o.to > 0 => o.to \in Pages(r)
  BY <1>1, <1>4, OutcomesTyped DEF IndInv
<1>6. (p.page # 0) \in BOOLEAN
  OBVIOUS
<1> QED
  BY <1>1, <1>3, <1>5, <1>6, FinishKeeps

LEMMA ThrowsKeeps ==
    ASSUME IndInv, NEW t \in Threads, Throws(t)
    PROVE  IndInv'
<1>1. /\ pc[t].at \in {"run", "reply"} /\ Goes(t, Idle)
      /\ \/ dispose /\ at' = at
         \/ UNCHANGED client /\ at' = [at EXCEPT ![pc[t].who] = Mute.to]
      /\ UNCHANGED <<script, clicked, screen, window, history>>
  BY DEF Throws
<1>2. PcOK' /\ \A u \in Threads \ {t} : pc'[u] = pc[u]
  BY <1>1, GoesKeeps, IdleIsAPlace DEF IndInv
<1>3. RestOK'
  BY <1>1 DEF IndInv, RestOK, history, Mute
<1>4. ScreenOK'
  BY <1>1, ScreenAlone
<1>5. CASE dispose
  <2>1. ClientOK' /\ EnginesForgotten' /\ ChatAccounted'
    BY <1>1, <1>5, DisposeKeeps DEF EnginesForgotten, ChatAccounted, history
  <2> QED
    BY <1>2, <1>3, <1>4, <2>1 DEF IndInv
<1>6. CASE UNCHANGED client
  <2>1. ClientOK' /\ EnginesForgotten'
    BY <1>1, <1>6, ClientAlone DEF history
  <2>2. ChatAccounted'
    BY <1>1, <1>2, <1>6, AccountedKept DEF IndInv, client
  <2> QED
    BY <1>2, <1>3, <1>4, <2>1, <2>2 DEF IndInv
<1> QED
  BY <1>1, <1>5, <1>6

LEMMA delayNPCKeeps ==
    ASSUME IndInv, NEW r \in Role, delayNPC(r)
    PROVE  IndInv'
<1>1. /\ at' = [at EXCEPT ![r] = OkBox.to]
      /\ screen' = [who |-> r, page |-> OkBox.to]
      /\ UNCHANGED <<script, client, clicked, window, pc, history>>
  BY DEF delayNPC
<1>2. ClientOK' /\ EnginesForgotten' /\ PcOK'
  BY <1>1, ClientAlone, PcAlone DEF history
<1>3. RestOK'
  BY <1>1 DEF IndInv, RestOK, history, OkBox
<1>4. ScreenOK'
  BY <1>1 DEF IndInv, ScreenOK, OkBox
<1>5. ChatAccounted'
  BY <1>1 DEF IndInv, ChatAccounted, client
<1> QED
  BY <1>2, <1>3, <1>4, <1>5 DEF IndInv

LEMMA CloseWindowKeeps == IndInv /\ CloseWindow => IndInv'
<1> SUFFICES ASSUME IndInv, CloseWindow PROVE IndInv'
  OBVIOUS
<1>1. /\ window' = "none" /\ UNCHANGED <<script, at, clicked, screen, pc, history>>
      /\ \/ /\ chat' = FALSE /\ locks' = {} /\ UNCHANGED <<cms, cached, cooling>>
         \/ dispose
  BY DEF CloseWindow, setChat
<1>2. PcOK' /\ RestOK'
  BY <1>1, PcAlone, RestAlone DEF IndInv, RestOK
<1>3. ScreenOK'
  BY <1>1 DEF IndInv, ScreenOK, Pages, Script
<1>4. CASE chat' = FALSE /\ locks' = {} /\ UNCHANGED <<cms, cached, cooling>>
  <2>0. locks' \subseteq {"refused", "moved"}
    BY <1>4
  <2>1. ClientOK'
    BY <1>4, <2>0, Zenon DEF IndInv, ClientOK
  <2>2. EnginesForgotten' /\ ChatAccounted'
    BY <1>1, <1>4 DEF IndInv, EnginesForgotten, ChatAccounted, history
  <2> QED
    BY <1>2, <1>3, <2>1, <2>2 DEF IndInv
<1>5. CASE dispose
  <2>1. ClientOK' /\ EnginesForgotten' /\ ChatAccounted'
    BY <1>1, <1>5, DisposeKeeps DEF EnginesForgotten, ChatAccounted, history
  <2> QED
    BY <1>2, <1>3, <2>1 DEF IndInv
<1> QED
  BY <1>1, <1>4, <1>5

LEMMA changeMapKeeps ==
    ASSUME IndInv, NEW t \in Threads, changeMap(t)
    PROVE  IndInv'
<1>1. changeMapInternal /\ UNCHANGED <<script, at, clicked, pc, history>>
  BY DEF changeMap
<1>2. PcOK' /\ RestOK' /\ \A u \in Threads : pc'[u] = pc[u]
  BY <1>1, PcAlone, RestAlone DEF IndInv, RestOK
<1>3. /\ ClientOK' /\ ScreenOK'
      /\ \A r \in Role : cached'[r] =>
           cms' = r \/ replaced \/ (r = "server" /\ script[r] \in Misnamed)
      /\ chat' /\ cms' = None =>
           locks' # {} \/ (chat /\ cms = None /\ window = "none" /\ locks' = locks)
  BY <1>1, ChangeMapKeeps
<1>4. EnginesForgotten'
  BY <1>1, <1>3 DEF EnginesForgotten, history
<1>5. ChatAccounted'
  BY <1>2, <1>3, AccountedKept DEF IndInv, ChatAccounted
<1> QED
  BY <1>2, <1>3, <1>4, <1>5 DEF IndInv

LEMMA fixKeeps == IndInv /\ fix => IndInv'
<1> SUFFICES ASSUME IndInv, fix PROVE IndInv'
  OBVIOUS
<1>1. /\ dispose /\ clicked' = 0
      /\ window' = IF window = "storage" THEN "none" ELSE window
      /\ UNCHANGED <<script, at, screen, pc, history>>
  BY DEF fix
<1>2. PcOK' /\ RestOK'
  BY <1>1, PcAlone, RestAlone DEF CLICK
<1>3. ScreenOK'
  BY <1>1 DEF IndInv, ScreenOK, Pages, Script
<1>4. ClientOK' /\ EnginesForgotten' /\ ChatAccounted'
  BY <1>1, DisposeKeeps DEF EnginesForgotten, ChatAccounted, history
<1> QED
  BY <1>2, <1>3, <1>4 DEF IndInv

LEMMA ElapseKeeps == IndInv /\ Elapse => IndInv'
<1> SUFFICES ASSUME IndInv, Elapse PROVE IndInv'
  OBVIOUS
<1>1. /\ clicked' = Shorter(clicked) /\ cooling' = Shorter(cooling)
      /\ UNCHANGED <<script, cms, cached, chat, locks, at, screen, window, pc, history>>
  BY DEF Elapse
<1>2. clicked' \in 0 .. CLICK /\ cooling' \in 0 .. COOL
  BY <1>1 DEF IndInv, ClientOK, RestOK, Shorter, CLICK, COOL
<1>3. PcOK' /\ RestOK' /\ ScreenOK'
  BY <1>1, <1>2, PcAlone, RestAlone, ScreenAlone
<1>4. ClientOK'
  BY <1>1, <1>2, Zenon DEF IndInv, ClientOK
<1>5. EnginesForgotten' /\ ChatAccounted'
  BY <1>1 DEF IndInv, EnginesForgotten, ChatAccounted, history
<1> QED
  BY <1>3, <1>4, <1>5 DEF IndInv

THEOREM NextIndInv == IndInv /\ [Next]_vars => IndInv'
<1> SUFFICES ASSUME IndInv, [Next]_vars PROVE IndInv'
  OBVIOUS
<1>1. CASE UNCHANGED vars
  <2>1. /\ UNCHANGED <<client, script, replaced>> /\ UNCHANGED <<screen, window, script>>
        /\ UNCHANGED <<script, at, history>> /\ UNCHANGED <<pc, script>> /\ clicked' = clicked
    BY <1>1 DEF vars, history
  <2>2. ClientOK' /\ EnginesForgotten' /\ ScreenOK' /\ PcOK' /\ RestOK'
    BY <2>1, ClientAlone, ScreenAlone, PcAlone, RestAlone DEF IndInv, RestOK
  <2>3. ChatAccounted'
    BY <2>1 DEF IndInv, ChatAccounted, client
  <2> QED
    BY <2>2, <2>3 DEF IndInv
<1>2. CASE NPCTalk \/ sendShop \/ EndTalk \/ action \/ RunAction \/ CloseWindow \/ fix \/ Elapse
  BY <1>2, NPCTalkKeeps, sendShopKeeps, EndTalkKeeps, actionKeeps, RunActionKeeps,
     CloseWindowKeeps, fixKeeps, ElapseKeeps
<1>3. ASSUME NEW more \in BOOLEAN, NPCMoreTalk(more) PROVE IndInv'
  BY <1>3, NPCMoreTalkKeeps
<1>4. ASSUME NEW r \in Role, delayNPC(r) PROVE IndInv'
  BY <1>4, delayNPCKeeps
<1>5. ASSUME NEW t \in Threads,
             \/ StartServer(t) \/ startNPC(t) \/ start(t) \/ setCMS(t)
             \/ RunStart(t) \/ Throws(t) \/ changeMap(t)
      PROVE  IndInv'
  BY <1>5, StartServerKeeps, startNPCKeeps, startKeeps, setCMSKeeps, RunStartKeeps,
     ThrowsKeeps, changeMapKeeps
<1> QED
  BY <1>1, <1>2, <1>3, <1>4, <1>5 DEF Next

(* For any scripts and any number of threads, all of it always holds.      *)
THEOREM IndInvHolds == Spec => []IndInv
BY InitIndInv, NextIndInv, PTL DEF Spec

(* The variables keep their types: no table of scripts leads a             *)
(* conversation to a page that does not exist.                             *)
THEOREM TypeCorrect == Spec => []TypeOK
BY IndInvHolds, Typed, PTL

(* NPCScriptManager.dispose forgets every engine but those of a            *)
(* conversation another one was put over, and of misnamed scripts.         *)
THEOREM OnlyOldEnginesStay == Spec => []EnginesForgotten
<1>1. IndInv => EnginesForgotten
  BY DEF IndInv
<1> QED
  BY <1>1, IndInvHolds, PTL

(* A player is refused by every NPC with nothing open only after start()   *)
(* refused him in his first 100 ms or he was moved out of a shop.          *)
THEOREM LockedOutCauses == Spec => []LockedOutOnlyByKnownCauses
<1>1. IndInv => LockedOutOnlyByKnownCauses
  BY DEF IndInv, ChatAccounted, LockedOutOnlyByKnownCauses, LockedOut
<1> QED
  BY <1>1, IndInvHolds, PTL

------------------------------------------------------------------------------
(* What keeps an answer with the script that asked.  While no two          *)
(* conversations were mixed up, one thread at a time is in a call or on    *)
(* its way with an answer, with no question on the screen; a question, or  *)
(* its answer, is of the current manager at the page where that one waits. *)
Calling == {"run", "answer", "reply"}
Asks == screen # NoBox /\ screen.page # OkBox.to
Uncrossed ==
    /\ \A t \in Threads : pc[t].at \in Calling =>
         /\ ~Asks
         /\ \A u \in Threads \ {t} : pc[u].at \notin Calling
         /\ pc[t].at # "answer" => cms \in {pc[t].who, None}
    /\ Asks /\ cms # None => screen.who = cms /\ screen.page = at[cms]
    /\ pc["session"].at = "answer" /\ cms # None =>
         pc["session"].who = cms /\ pc["session"].page = at[cms]
    /\ pc["session"].at = "reply" => pc["session"].page # 0
AskInv == crossed \/ Uncrossed

(* A call that resumes an old engine: its conversation was put under       *)
(* another one, or its script was asked for under another name.            *)
Resumed ==
    \A t \in Threads : pc[t].at = "run" /\ ~pc[t].flag =>
        replaced \/ script["server"] \in Misnamed

TalkInv == AskInv /\ Resumed /\ GiftsOnlyWhenAsked

LEMMA GoesTo ==
    ASSUME PcOK, NEW t \in Threads, NEW place, Goes(t, place)
    PROVE  \A u \in Threads : pc'[u] = IF u = t THEN place ELSE pc[u]
BY DEF PcOK, Goes

(* No dispose and no script puts another manager in the current one's      *)
(* place: only setCMS does.                                                *)
LEMMA DisposeEnds ==
    /\ dispose => cms' = None
    /\ disposeIfOpen => cms' \in {cms, None}
    /\ changeMapInternal => cms' \in {cms, None} /\ screen' = NoBox
BY DEF dispose, disposeIfOpen, changeMapInternal, client

LEMMA LeavesShows ==
    ASSUME NEW r, NEW o, Leaves(r, o)
    PROVE  /\ cms' \in {cms, None}
           /\ \/ screen' \in {screen, NoBox}
              \/ screen' = [who |-> r, page |-> o.to]
<1>1. CASE "shop" \in o.does
  BY <1>1, DisposeEnds DEF Leaves, client
<1>2. CASE "shop" \notin o.does /\ "warp" \in o.does
  BY <1>2, DisposeEnds DEF Leaves
<1>3. CASE "shop" \notin o.does /\ "warp" \notin o.does
  <2>1. CASE o.to \in {Bye.to, Error.to}
    BY <1>3, <2>1, DisposeEnds DEF Leaves
  <2>2. CASE o.to \notin {Bye.to, Error.to}
    BY <1>3, <2>2 DEF Leaves, client
  <2> QED
    BY <2>1, <2>2
<1> QED
  BY <1>1, <1>2, <1>3

(* A step in which nobody begins a call or an answer.                      *)
LEMMA QuietKeeps ==
    ASSUME TalkInv, \A u \in Threads : pc'[u].at \in Calling => pc'[u] = pc[u],
           cms' \in {cms, None}, screen' \in {screen, NoBox}, UNCHANGED <<script, at, history>>
    PROVE  TalkInv'
<1> USE ScriptsAssumption
<1>1. AskInv'
  <2> SUFFICES ASSUME ~crossed PROVE Uncrossed'
    BY DEF AskInv, history
  <2>1. Uncrossed
    BY DEF TalkInv, AskInv
  <2>2. Asks' => Asks /\ screen' = screen
    BY DEF Asks
  <2>3. ASSUME NEW t \in Threads, pc'[t].at \in Calling
        PROVE  /\ ~Asks'
               /\ \A u \in Threads \ {t} : pc'[u].at \notin Calling
               /\ pc'[t].at # "answer" => cms' \in {pc'[t].who, None}
    BY <2>1, <2>2, <2>3 DEF Uncrossed
  <2>4. Asks' /\ cms' # None => screen'.who = cms' /\ screen'.page = at'[cms']
    BY <2>1, <2>2 DEF Uncrossed
  <2>5. /\ pc'["session"].at = "answer" /\ cms' # None =>
             pc'["session"].who = cms' /\ pc'["session"].page = at'[cms']
        /\ pc'["session"].at = "reply" => pc'["session"].page # 0
    BY <2>1 DEF Uncrossed, Calling
  <2> QED
    BY <2>3, <2>4, <2>5 DEF Uncrossed
<1>2. Resumed' /\ GiftsOnlyWhenAsked'
  BY DEF TalkInv, Resumed, GiftsOnlyWhenAsked, Calling, history
<1> QED
  BY <1>1, <1>2 DEF TalkInv

(* A call to a script of r ends: what the script shows is its own box at   *)
(* the page where it now waits.                                            *)
LEMMA FinishTells ==
    ASSUME IndInv, TalkInv, NEW t \in Threads, NEW asked, NEW o, o.to \in Int,
           pc[t].at \in {"run", "reply"}, Finish(t, pc[t].who, asked, o),
           asked \/ replaced \/ crossed \/ script["server"] \in Misnamed
    PROVE  TalkInv'
<1> USE ScriptsAssumption
<1> DEFINE r == pc[t].who
<1>1. /\ Leaves(r, o) /\ Goes(t, Idle)
      /\ UNCHANGED <<script, clicked, replaced, crossed>>
      /\ at' = [at EXCEPT ![r] = o.to]
      /\ last' = [asked |-> asked, does |-> o.does]
  BY DEF Finish
<1>2. \A u \in Threads : pc'[u] = IF u = t THEN Idle ELSE pc[u]
  BY <1>1, GoesTo DEF IndInv
<1>3. /\ cms' \in {cms, None}
      /\ \/ screen' \in {screen, NoBox}
         \/ screen' = [who |-> r, page |-> o.to]
  BY <1>1, LeavesShows
<1>4. r \in Role /\ at \in [Role -> Int]
  BY DEF IndInv, PcOK, PlaceOK, RestOK
<1>5. AskInv'
  <2> SUFFICES ASSUME ~crossed PROVE Uncrossed'
    BY <1>1 DEF AskInv
  <2>1. Uncrossed
    BY DEF TalkInv, AskInv
  <2>2. ~Asks /\ cms \in {r, None} /\ \A u \in Threads \ {t} : pc[u].at \notin Calling
    BY <2>1 DEF Uncrossed, Calling
  <2>3. \A u \in Threads : pc'[u].at \notin Calling
    BY <1>2, <2>2 DEF Calling, Idle, Step, Place
  <2>4. Asks' /\ cms' # None => screen'.who = cms' /\ screen'.page = at'[cms']
    <3> SUFFICES ASSUME Asks', cms' # None PROVE screen'.who = cms' /\ screen'.page = at'[cms']
      OBVIOUS
    <3>1. screen' = [who |-> r, page |-> o.to]
      BY <1>3, <2>2 DEF Asks
    <3>2. cms' = r /\ at'[r] = o.to
      BY <1>1, <1>3, <1>4, <2>2
    <3> QED
      BY <3>1, <3>2
  <2> QED
    BY <2>3, <2>4 DEF Uncrossed, Calling
<1>6. Resumed'
  BY <1>1, <1>2 DEF TalkInv, Resumed, Idle, Step, Place
<1>7. GiftsOnlyWhenAsked'
  BY <1>1 DEF GiftsOnlyWhenAsked
<1> QED
  BY <1>5, <1>6, <1>7 DEF TalkInv

LEMMA RunStartTells ==
    ASSUME IndInv, TalkInv, NEW t \in Threads, RunStart(t) PROVE TalkInv'
<1>1. pc[t].at = "run" /\ pc[t].who \in Role
  BY DEF RunStart, IndInv, PcOK, PlaceOK
<1>2. PICK o \in Script(pc[t].who).start \cup Script(pc[t].who).again :
        Finish(t, pc[t].who, pc[t].flag, o)
  BY DEF RunStart
<1>3. o.to \in Int
  BY <1>1, <1>2, OutcomesTyped DEF IndInv
<1>4. pc[t].flag \/ replaced \/ script["server"] \in Misnamed
  BY <1>1 DEF TalkInv, Resumed
<1> QED
  BY <1>1, <1>2, <1>3, <1>4, FinishTells

LEMMA RunActionTells == ASSUME IndInv, TalkInv, RunAction PROVE TalkInv'
<1> USE ScriptsAssumption
<1> DEFINE t == "session"  r == pc[t].who  s == Script(r)
<1>1. pc[t].at = "reply" /\ r \in Role /\ (pc[t].page = 0 \/ pc[t].page \in Pages(r))
  BY DEF RunAction, IndInv, PcOK, PlaceOK
<1>2. PICK o \in IF pc[t].page = 0 THEN Stray(s)
                 ELSE IF pc[t].flag THEN s.pages[pc[t].page].more ELSE s.pages[pc[t].page].back :
        Finish(t, r, pc[t].page # 0, o)
  BY DEF RunAction
<1>3. o \in s.again \/ \E i \in Pages(r) : o \in s.pages[i].more \cup s.pages[i].back
  BY <1>1, <1>2 DEF Stray, Pages
<1>4. o.to \in Int
  BY <1>1, <1>3, OutcomesTyped DEF IndInv
<1>5. pc[t].page # 0 \/ crossed
  BY <1>1 DEF TalkInv, AskInv, Uncrossed
<1> QED
  BY <1>1, <1>2, <1>4, <1>5, FinishTells

(* setCMS, when nothing is crossed, begins the only call there is.         *)
LEMMA setCMSTells ==
    ASSUME IndInv, TalkInv, NEW t \in Threads, setCMS(t) PROVE TalkInv'
<1> USE ScriptsAssumption
<1> DEFINE r == pc[t].who
           new == ~cached[r] \/ at[r] = Loaded
<1>1. /\ Goes(t, Place("run", r, 0, new)) /\ cms' = r /\ pc[t].at = "open"
      /\ replaced' = (replaced \/ cms # None)
      /\ crossed' = (crossed \/ screen # NoBox \/ Busy(t))
      /\ UNCHANGED <<script, screen, last>>
  BY DEF setCMS
<1>2. r \in Role /\ None \notin Role
  BY <1>1 DEF IndInv, PcOK, PlaceOK, Role
<1>3. \A u \in Threads : pc'[u] = IF u = t THEN Place("run", r, 0, new) ELSE pc[u]
  BY <1>1, GoesTo DEF IndInv
<1>4. AskInv'
  <2> SUFFICES ASSUME ~crossed' PROVE Uncrossed'
    BY DEF AskInv
  <2>1. ~crossed /\ screen' = NoBox /\ \A u \in Threads \ {t} : pc[u].at = "idle"
    BY <1>1 DEF Busy
  <2>2. /\ pc'[t].at = "run" /\ pc'[t].who = cms'
        /\ \A u \in Threads \ {t} : pc'[u].at = "idle"
    BY <1>1, <1>3, <2>1 DEF Place
  <2>3. ~Asks'
    BY <2>1 DEF Asks
  <2>4. pc'["session"].at \notin {"answer", "reply"}
    BY <2>2
  <2> QED
    BY <2>2, <2>3, <2>4 DEF Uncrossed, Calling
<1>5. Resumed'
  <2> SUFFICES ASSUME NEW u \in Threads, pc'[u].at = "run", ~pc'[u].flag
               PROVE  replaced' \/ script["server"] \in Misnamed
    BY <1>1 DEF Resumed
  <2>1. CASE u # t
    BY <1>1, <1>3, <2>1 DEF TalkInv, Resumed
  <2>2. CASE u = t
    <3>1. ~new
      <4>1. new \in BOOLEAN
        OBVIOUS
      <4> HIDE DEF new
      <4>2. pc'[t].flag = new
        BY <1>3 DEF Place
      <4> QED
        BY <2>2, <4>1, <4>2, Zenon
    <3>2. cached[r]
      BY <3>1
    <3>3. cms = r \/ replaced \/ script["server"] \in Misnamed
      BY <1>2, <3>2 DEF IndInv, EnginesForgotten
    <3> QED
      BY <1>1, <1>2, <3>3
  <2> QED
    BY <2>1, <2>2
<1>6. GiftsOnlyWhenAsked'
  BY <1>1 DEF TalkInv, GiftsOnlyWhenAsked
<1> QED
  BY <1>4, <1>5, <1>6 DEF TalkInv

(* The player answers a question: with one on the screen, nobody calls.    *)
LEMMA NPCMoreTalkTells ==
    ASSUME IndInv, TalkInv, NEW more \in BOOLEAN, NPCMoreTalk(more) PROVE TalkInv'
<1> USE ScriptsAssumption
<1> DEFINE t == "session"  p == Place("answer", screen.who, screen.page, more)
<1>1. /\ pc[t].at = "idle" /\ Goes(t, p) /\ screen' = NoBox /\ Asks /\ cms # None
      /\ UNCHANGED <<script, client, at, clicked, window, history>>
  BY DEF NPCMoreTalk, Asks
<1>2. \A u \in Threads : pc'[u] = IF u = t THEN p ELSE pc[u]
  BY <1>1, GoesTo DEF IndInv
<1>3. p.at = "answer" /\ p.who = screen.who /\ p.page = screen.page
  BY DEF Place
<1>4. AskInv'
  <2> SUFFICES ASSUME ~crossed PROVE Uncrossed'
    BY <1>1 DEF AskInv, history
  <2>1. Uncrossed
    BY DEF TalkInv, AskInv
  <2>2. ~Asks' /\ cms' = cms
    BY <1>1 DEF Asks, client
  <2>3. \A u \in Threads : pc[u].at \notin Calling
    BY <1>1, <2>1 DEF Uncrossed
  <2>4. /\ pc'[t].at = "answer" /\ pc'[t].who = screen.who /\ pc'[t].page = screen.page
        /\ \A u \in Threads \ {t} : pc'[u].at \notin Calling
    BY <1>2, <1>3, <2>3
  <2>5. screen.who = cms /\ screen.page = at[cms]
    BY <1>1, <2>1 DEF Uncrossed
  <2> QED
    BY <1>1, <2>2, <2>4, <2>5 DEF Uncrossed, Calling
<1>5. Resumed'
  BY <1>1, <1>2, <1>3 DEF TalkInv, Resumed, history
<1>6. GiftsOnlyWhenAsked'
  BY <1>1 DEF TalkInv, GiftsOnlyWhenAsked, history
<1> QED
  BY <1>4, <1>5, <1>6 DEF TalkInv

(* action() reads the manager again, and finds the one that asked.         *)
LEMMA actionTells == ASSUME IndInv, TalkInv, action PROVE TalkInv'
<1> USE ScriptsAssumption
<1> DEFINE t == "session"  p == pc[t]
           asked == p.who = cms /\ p.page = at[cms]
           q == Place("reply", cms, IF asked THEN p.page ELSE 0, p.flag)
<1>1. /\ p.at = "answer" /\ UNCHANGED <<script, client, at, screen, window, history>>
      /\ Goes(t, Idle) \/ (cms # None /\ Goes(t, q))
  BY DEF action
<1>2. p.page # 0
  <2>1. p.page \in Pages(p.who) /\ p.who \in Role
    BY <1>1 DEF IndInv, PcOK, PlaceOK
  <2>2. Pages(p.who) \subseteq Nat \ {0}
    <3>1. script[p.who] \in DOMAIN Scripts
      BY <2>1 DEF IndInv, RestOK
    <3>2. WellFormed(Script(p.who))
      BY <3>1 DEF Script
    <3> QED
      BY <3>2 DEF WellFormed, Pages
  <2> QED
    BY <2>1, <2>2
<1>3. CASE Goes(t, Idle)
  <2>1. \A u \in Threads : pc'[u] = IF u = t THEN Idle ELSE pc[u]
    BY <1>3, GoesTo DEF IndInv
  <2>2. \A u \in Threads : pc'[u].at \in Calling => pc'[u] = pc[u]
    BY <2>1 DEF Idle, Step, Place, Calling
  <2> QED
    BY <1>1, <2>2, QuietKeeps DEF client
<1>4. CASE cms # None /\ Goes(t, q)
  <2>1. \A u \in Threads : pc'[u] = IF u = t THEN q ELSE pc[u]
    BY <1>4, GoesTo DEF IndInv
  <2>2. q.at = "reply" /\ q.who = cms /\ q.page = IF asked THEN p.page ELSE 0
    BY DEF Place
  <2> HIDE DEF q
  <2>3. AskInv'
    <3> SUFFICES ASSUME ~crossed PROVE Uncrossed'
      BY <1>1 DEF AskInv, history
    <3>1. Uncrossed
      BY DEF TalkInv, AskInv
    <3>2. ~Asks' /\ cms' = cms /\ \A u \in Threads \ {t} : pc[u].at \notin Calling
      BY <1>1, <3>1 DEF Uncrossed, Asks, Calling, client
    <3>3. asked
      BY <1>1, <1>4, <3>1 DEF Uncrossed
    <3>4. /\ pc'[t].at = "reply" /\ pc'[t].who = cms /\ pc'[t].page # 0
          /\ \A u \in Threads \ {t} : pc'[u].at \notin Calling
      BY <1>2, <2>1, <2>2, <3>2, <3>3
    <3> QED
      BY <3>2, <3>4 DEF Uncrossed
  <2>4. Resumed'
    BY <1>1, <2>1, <2>2 DEF TalkInv, Resumed, history
  <2>5. GiftsOnlyWhenAsked'
    BY <1>1 DEF TalkInv, GiftsOnlyWhenAsked, history
  <2> QED
    BY <2>3, <2>4, <2>5 DEF TalkInv
<1> QED
  BY <1>1, <1>3, <1>4

(* An exception ends the only call there is, with no question to answer.   *)
LEMMA ThrowsTells ==
    ASSUME IndInv, TalkInv, NEW t \in Threads, Throws(t) PROVE TalkInv'
<1> USE ScriptsAssumption
<1>1. /\ pc[t].at \in {"run", "reply"} /\ Goes(t, Idle) /\ UNCHANGED <<script, screen, history>>
  BY DEF Throws
<1>2. \A u \in Threads : pc'[u] = IF u = t THEN Idle ELSE pc[u]
  BY <1>1, GoesTo DEF IndInv
<1>3. AskInv'
  <2> SUFFICES ASSUME ~crossed PROVE Uncrossed'
    BY <1>1 DEF AskInv, history
  <2>1. Uncrossed
    BY DEF TalkInv, AskInv
  <2>2. ~Asks' /\ \A u \in Threads \ {t} : pc[u].at \notin Calling
    BY <1>1, <2>1 DEF Uncrossed, Asks, Calling
  <2>3. \A u \in Threads : pc'[u].at \notin Calling
    BY <1>2, <2>2 DEF Calling, Idle, Step, Place
  <2> QED
    BY <2>2, <2>3 DEF Uncrossed, Calling
<1>4. Resumed'
  BY <1>1, <1>2 DEF TalkInv, Resumed, history, Idle, Step, Place
<1>5. GiftsOnlyWhenAsked'
  BY <1>1 DEF TalkInv, GiftsOnlyWhenAsked, history
<1> QED
  BY <1>3, <1>4, <1>5 DEF TalkInv

(* The box a timer shows is no question, and the script it is of was not   *)
(* waiting for an answer.                                                  *)
LEMMA delayNPCTells ==
    ASSUME IndInv, TalkInv, NEW r \in Role, delayNPC(r) PROVE TalkInv'
<1> USE ScriptsAssumption
<1>1. /\ at[r] = Later.to /\ at' = [at EXCEPT ![r] = OkBox.to]
      /\ screen' = [who |-> r, page |-> OkBox.to]
      /\ UNCHANGED <<script, client, pc, history>>
  BY DEF delayNPC, NoBoxOf
<1>2. AskInv'
  <2> SUFFICES ASSUME ~crossed PROVE Uncrossed'
    BY <1>1 DEF AskInv, history
  <2>1. Uncrossed
    BY DEF TalkInv, AskInv
  <2>2. ~Asks' /\ cms' = cms
    BY <1>1 DEF Asks, client
  <2>3. ASSUME pc["session"].at = "answer", cms # None
        PROVE  pc["session"].who = cms /\ pc["session"].page = at'[cms]
    <3>1. pc["session"].who = cms /\ pc["session"].page = at[cms]
      BY <2>1, <2>3 DEF Uncrossed
    <3>2. pc["session"].page \in Pages(cms) /\ cms \in Role
      BY <2>3, <3>1 DEF IndInv, PcOK, PlaceOK
    <3>3. Pages(cms) \subseteq Nat
      <4>1. script[cms] \in DOMAIN Scripts
        BY <3>2 DEF IndInv, RestOK
      <4>2. WellFormed(Script(cms))
        BY <4>1 DEF Script
      <4> QED
        BY <4>2 DEF WellFormed, Pages
    <3>4. cms # r
      BY <1>1, <3>1, <3>2, <3>3 DEF Later
    <3> QED
      BY <1>1, <3>1, <3>2, <3>4 DEF IndInv, RestOK
  <2> QED
    BY <1>1, <2>1, <2>2, <2>3 DEF Uncrossed
<1>3. Resumed' /\ GiftsOnlyWhenAsked'
  BY <1>1 DEF TalkInv, Resumed, GiftsOnlyWhenAsked, history
<1> QED
  BY <1>2, <1>3 DEF TalkInv

(* The steps of a thread that opens a conversation, and of one in none.    *)
LEMMA ThreadTells ==
    ASSUME IndInv, TalkInv, NEW t \in Threads,
           StartServer(t) \/ startNPC(t) \/ start(t) \/ changeMap(t)
    PROVE  TalkInv'
<1>1. /\ UNCHANGED <<script, at, history>>
      /\ cms' \in {cms, None} /\ screen' \in {screen, NoBox}
  BY DisposeEnds DEF StartServer, startNPC, start, changeMap, client
<1>2. \A u \in Threads : pc'[u].at \in Calling => pc'[u] = pc[u]
  <2>1. \/ pc' = pc
        \/ \E place : Goes(t, place) /\ place.at \notin Calling
    <3>1. /\ Step("start", "server").at \notin Calling
          /\ Step("open", pc[t].who).at \notin Calling
          /\ Idle.at \notin Calling
      BY DEF Step, Place, Idle, Calling
    <3> QED
      BY <3>1 DEF StartServer, startNPC, start, changeMap
  <2> QED
    BY <2>1, GoesTo DEF IndInv
<1> QED
  BY <1>1, <1>2, QuietKeeps

LEMMA SessionTells ==
    ASSUME IndInv, TalkInv, NPCTalk \/ sendShop \/ EndTalk \/ CloseWindow \/ fix \/ Elapse
    PROVE  TalkInv'
<1> USE ScriptsAssumption
<1>1. /\ UNCHANGED <<script, at, history>>
      /\ cms' \in {cms, None} /\ screen' \in {screen, NoBox}
  BY DisposeEnds DEF NPCTalk, sendShop, EndTalk, CloseWindow, fix, Elapse, client
<1>2. \A u \in Threads : pc'[u].at \in Calling => pc'[u] = pc[u]
  <2>1. \/ pc' = pc
        \/ Goes("session", Step("start", "npc"))
    BY DEF NPCTalk, sendShop, EndTalk, CloseWindow, fix, Elapse
  <2>2. Step("start", "npc").at \notin Calling
    BY DEF Step, Place, Calling
  <2> QED
    BY <2>1, <2>2, GoesTo DEF IndInv
<1> QED
  BY <1>1, <1>2, QuietKeeps

LEMMA NextTalkInv == ASSUME IndInv, TalkInv, [Next]_vars PROVE TalkInv'
<1>1. CASE UNCHANGED vars
  <2>1. /\ UNCHANGED <<script, at, history>> /\ cms' = cms /\ screen' = screen /\ pc' = pc
    BY <1>1 DEF vars, client
  <2> QED
    BY <2>1, QuietKeeps
<1>2. CASE NPCTalk \/ sendShop \/ EndTalk \/ CloseWindow \/ fix \/ Elapse
  BY <1>2, SessionTells
<1>3. CASE action \/ RunAction
  BY <1>3, actionTells, RunActionTells
<1>4. ASSUME NEW more \in BOOLEAN, NPCMoreTalk(more) PROVE TalkInv'
  BY <1>4, NPCMoreTalkTells
<1>5. ASSUME NEW r \in Role, delayNPC(r) PROVE TalkInv'
  BY <1>5, delayNPCTells
<1>6. ASSUME NEW t \in Threads, StartServer(t) \/ startNPC(t) \/ start(t) \/ changeMap(t)
      PROVE  TalkInv'
  BY <1>6, ThreadTells
<1>7. ASSUME NEW t \in Threads, setCMS(t) \/ RunStart(t) \/ Throws(t)
      PROVE  TalkInv'
  BY <1>7, setCMSTells, RunStartTells, ThrowsTells
<1> QED
  BY <1>1, <1>2, <1>3, <1>4, <1>5, <1>6, <1>7 DEF Next

LEMMA InitTalkInv == Init => TalkInv
<1> SUFFICES ASSUME Init PROVE TalkInv
  OBVIOUS
<1>1. /\ \A t \in Threads : pc[t].at = "idle"
      /\ screen = NoBox /\ last.does = {}
  BY DEF Init, Idle, Step, Place
<1> QED
  BY <1>1, ScriptsAssumption
  DEF TalkInv, AskInv, Uncrossed, Asks, Calling, Resumed, GiftsOnlyWhenAsked

LEMMA TalkInvHolds == Spec => []TalkInv
<1>1. IndInv /\ TalkInv /\ [Next]_vars => TalkInv'
  BY NextTalkInv
<1> QED
  BY <1>1, InitTalkInv, IndInvHolds, PTL DEF Spec

(* Whatever the scripts, the tasks of the server and the moves by others:  *)
(* an answer reaches the page it answers, unless a conversation was opened *)
(* under a box or beside another thread's call.                            *)
THEOREM AnswersReachTheAsker == Spec => []AnswerReachesAsker
<1>1. TalkInv => AnswerReachesAsker
  BY DEF TalkInv, AskInv, Uncrossed, AnswerReachesAsker
<1> QED
  BY <1>1, TalkInvHolds, PTL

(* No script gives or takes anything in a call that resumes what an        *)
(* earlier conversation left, or that answers another question.            *)
THEOREM GiftsAreAskedFor == Spec => []GiftsOnlyWhenAsked
<1>1. TalkInv => GiftsOnlyWhenAsked
  BY DEF TalkInv
<1> QED
  BY <1>1, TalkInvHolds, PTL

------------------------------------------------------------------------------
(* On the player's session alone chat is set before the manager is.        *)
Heard == OpenMeansHeard /\ \A t \in Threads : pc[t].at = "open" => chat

(* Whoever leaves the client's state leaves it closed or as audible.       *)
LEMMA DisposeHeard ==
    ASSUME IndInv
    PROVE  /\ dispose => cms' = None
           /\ disposeIfOpen => cms' = None \/ (cms' = cms /\ chat' = chat)
           /\ changeMapInternal => cms' = None \/ (cms' = cms /\ chat' = chat)
           /\ \A r, o : Leaves(r, o) => cms' = None \/ (cms' = cms /\ chat' = chat)
BY DEF dispose, disposeIfOpen, changeMapInternal, Leaves, client

LEMMA NextHeard ==
    ASSUME Threads = {"session"}, IndInv, Heard, [Next]_vars PROVE Heard'
<1> DEFINE S == "session"
<1>0. OpenMeansHeard /\ (pc[S].at = "open" => chat)
  BY DEF Heard
<1> SUFFICES (cms' # None => chat') /\ (pc'[S].at = "open" => chat')
  BY DEF Heard, OpenMeansHeard
<1>1. CASE UNCHANGED vars
  BY <1>0, <1>1 DEF vars, client, OpenMeansHeard
<1>2. ASSUME NEW t \in Threads, start(t) PROVE (cms' # None => chat') /\ (pc'[S].at = "open" => chat')
  BY <1>2 DEF start, setChat
<1>3. ASSUME NEW t \in Threads, setCMS(t) PROVE (cms' # None => chat') /\ (pc'[S].at = "open" => chat')
  BY <1>0, <1>3 DEF setCMS
<1>4. ASSUME (cms' = None \/ (cms' = cms /\ chat' = chat)), pc'[S].at # "open" \/ (pc' = pc /\ chat' = chat)
      PROVE  (cms' # None => chat') /\ (pc'[S].at = "open" => chat')
  BY <1>0, <1>4 DEF OpenMeansHeard
<1>5. ASSUME NEW place, Goes(S, place), place.at # "open" PROVE pc'[S].at # "open"
  BY <1>5, GoesTo DEF IndInv
<1>6. /\ Idle.at # "open"
      /\ \A r : Step("start", r).at # "open"
      /\ \A r, n, f : Place("answer", r, n, f).at # "open" /\ Place("reply", r, n, f).at # "open"
  BY DEF Idle, Step, Place
<1>7. CASE NPCTalk \/ sendShop
  BY <1>5, <1>6, <1>7, <1>0 DEF NPCTalk, sendShop, MayTalk, client, setChat
<1>8. CASE EndTalk \/ CloseWindow \/ fix
  BY <1>4, <1>8, DisposeHeard DEF EndTalk, CloseWindow, fix
<1>9. CASE Elapse
  BY <1>4, <1>9 DEF Elapse
<1>10. CASE action
  BY <1>4, <1>5, <1>6, <1>10 DEF action, client
<1>11. ASSUME NEW t \in Threads, NEW r, NEW asked, NEW o, Finish(t, r, asked, o)
       PROVE  (cms' # None => chat') /\ (pc'[S].at = "open" => chat')
  BY <1>4, <1>5, <1>6, <1>11, DisposeHeard DEF Finish
<1>12. CASE RunAction
  BY <1>11, <1>12 DEF RunAction
<1>13. ASSUME NEW t \in Threads, RunStart(t) PROVE (cms' # None => chat') /\ (pc'[S].at = "open" => chat')
  BY <1>11, <1>13 DEF RunStart
<1>14. ASSUME NEW more \in BOOLEAN, NPCMoreTalk(more)
       PROVE  (cms' # None => chat') /\ (pc'[S].at = "open" => chat')
  BY <1>4, <1>5, <1>6, <1>14 DEF NPCMoreTalk, client
<1>15. ASSUME NEW r \in Role, delayNPC(r) PROVE (cms' # None => chat') /\ (pc'[S].at = "open" => chat')
  BY <1>4, <1>15 DEF delayNPC, client
<1>16. ASSUME NEW t \in Threads, StartServer(t) \/ startNPC(t)
       PROVE  (cms' # None => chat') /\ (pc'[S].at = "open" => chat')
  BY <1>4, <1>5, <1>6, <1>16, DisposeHeard DEF StartServer, startNPC, client
<1>17. ASSUME NEW t \in Threads, changeMap(t)
       PROVE  (cms' # None => chat') /\ (pc'[S].at = "open" => chat')
  BY <1>4, <1>17, DisposeHeard DEF changeMap
<1>18. ASSUME NEW t \in Threads, Throws(t)
       PROVE  (cms' # None => chat') /\ (pc'[S].at = "open" => chat')
  BY <1>4, <1>5, <1>6, <1>18, DisposeHeard DEF Throws, client
<1> QED
  BY <1>1, <1>2, <1>3, <1>7, <1>8, <1>9, <1>10, <1>12, <1>13, <1>14, <1>15, <1>16, <1>17, <1>18
  DEF Next

(* With no task of the server's talking to the player, action() hears      *)
(* every answer to an open conversation: start() sets chat before the      *)
(* manager is registered and only dispose unsets it.                       *)
THEOREM AloneEveryoneIsHeard ==
    ASSUME Threads = {"session"} PROVE Spec => []OpenMeansHeard
<1>1. Init => Heard
  BY DEF Init, Heard, OpenMeansHeard, Idle, Step, Place
<1>2. IndInv /\ Heard /\ [Next]_vars => Heard'
  BY NextHeard
<1>3. Heard => OpenMeansHeard
  BY DEF Heard
<1> QED
  BY <1>1, <1>2, <1>3, IndInvHolds, PTL DEF Spec
===============================================================================
