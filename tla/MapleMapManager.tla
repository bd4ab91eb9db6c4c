--------------------------- MODULE MapleMapManager ---------------------------
(***************************************************************************)
(* server/maps/MapleMapManager.java: the maps of a channel, or of an event *)
(* instance, loaded on demand.  getMap looks under the read lock and, on a *)
(* miss, enters the monitor of loadMapFromWz, looks again, builds the map  *)
(* (seconds of XML parsing) and publishes it under the write lock.         *)
(*                                                                         *)
(* forceDispose walks over the maps with the write lock held and takes the *)
(* object lock of each (MapleMap.forceDispose).  Every other section under *)
(* the write lock acquires nothing and is one step; so is what MapleMap    *)
(* does under its object lock, except that its holder may be preempted.    *)
(* The maps are a ConcurrentHashMap, and dispose clears it with no lock.   *)
(* MapleMap.dispose takes effect five seconds later, unless the map has    *)
(* players then; here a map told so counts as disposed.                    *)
(***************************************************************************)
EXTENDS Naturals

CONSTANTS
    Thread,
    MapId,
    Map,        \* MapleMap objects; bound on how many are ever built
    None        \* no map, no thread, no id

ASSUME NoneAssumption == None \notin Map /\ None \notin Thread /\ None \notin MapId

VARIABLES
    maps,       \* the field of the same name
    monitor,    \* the thread inside loadMapFromWz
    readers, writer,        \* who holds mapsRLock, mapsWLock
    holder,     \* per map: who holds its object lock
    pc, want, cache, carry, \* per thread: its place in a call, and what it holds
    left,       \* forceDispose: maps its iterator has not reached
    mapId,      \* MapleMap.getId of the objects built
    disposed,   \* maps that were force-disposed or told to dispose
    published   \* history: the objects that were ever put

locks == <<monitor, readers, writer, holder>>
objects == <<mapId, disposed, published>>
vars == <<maps, monitor, readers, writer, holder, pc, want, cache, carry, left,
          mapId, disposed, published>>

Looking == {"reading", "rereading"}
InLoad == {"inside", "rereading", "loading", "putting"}
AboutId == {"resetting", "looking", "reading", "missed"} \cup InLoad
AboutMap == {"putting", "removing", "using"}

(* The types, and that a lock is held by whom its place in a call says. *)
TypeOK ==
    /\ maps \in [MapId -> Map \cup {None}]
    /\ pc \in [Thread -> {"idle", "closing", "disposing"} \cup AboutId \cup AboutMap]
    /\ want \in [Thread -> MapId \cup {None}]
    /\ \A t \in Thread : pc[t] \in AboutId => want[t] \in MapId
    /\ cache \in [Thread -> BOOLEAN]
    /\ carry \in [Thread -> Map \cup {None}]
    /\ \A t \in Thread : pc[t] \in AboutMap => carry[t] \in Map
    /\ left \subseteq Map
    /\ mapId \in [Map -> MapId \cup {None}]
    /\ disposed \subseteq Map /\ published \subseteq Map
    /\ monitor \in Thread \cup {None}
    /\ writer \in Thread \cup {None}
    /\ holder \in [Map -> Thread \cup {None}]
    /\ readers = {t \in Thread : pc[t] \in Looking}
    /\ \A t \in Thread : monitor = t <=> pc[t] \in InLoad
    /\ \A t \in Thread : writer = t <=> pc[t] = "disposing"
    /\ \A t \in Thread, m \in Map : holder[m] = t <=> pc[t] = "using" /\ carry[t] = m

Init ==
    /\ maps = [id \in MapId |-> None]
    /\ monitor = None /\ readers = {} /\ writer = None
    /\ holder = [m \in Map |-> None]
    /\ pc = [t \in Thread |-> "idle"]
    /\ want = [t \in Thread |-> None]
    /\ cache = [t \in Thread |-> FALSE]
    /\ carry = [t \in Thread |-> None]
    /\ left = {} /\ disposed = {} /\ published = {}
    /\ mapId = [m \in Map |-> None]

made == {m \in Map : mapId[m] # None}

(* The objects some caller may hold: not those still to be put. *)
Handed == made \ {carry[t] : t \in {u \in Thread : pc[u] = "putting"}}

CanWrite == writer = None /\ readers = {}
LeaveRead_BehindReturn(t) ==
    readers' = IF maps[want[t]] # None THEN readers ELSE readers \ {t}
LeaveRead(t) == readers' = readers \ {t}

Goto(t, place) == pc' = [pc EXCEPT ![t] = place] /\ UNCHANGED <<want, cache, carry>>

(* The call returns to its caller. *)
Return(t) ==
    /\ pc' = [pc EXCEPT ![t] = "idle"]
    /\ want' = [want EXCEPT ![t] = None]
    /\ cache' = [cache EXCEPT ![t] = FALSE]
    /\ carry' = [carry EXCEPT ![t] = None]

-----------------------------------------------------------------------------
(* The calls. *)

Call(t, id, place, caching) ==
    /\ pc[t] = "idle"
    /\ pc' = [pc EXCEPT ![t] = place]
    /\ want' = [want EXCEPT ![t] = id]
    /\ cache' = [cache EXCEPT ![t] = caching]
    /\ UNCHANGED <<carry, maps, locks, left, objects>>

getMap(t, id) == Call(t, id, "looking", TRUE)

getDisposableMap(t, id) == Call(t, id, "missed", FALSE)

(* containsKey is asked without a lock. *)
resetMap(t, id) == Call(t, id, IF maps[id] # None THEN "resetting" ELSE "looking", TRUE)

(* removeMap takes any map a caller holds, also one that was replaced. *)
removeMap(t, m) ==
    /\ pc[t] = "idle"
    /\ m \in Handed
    /\ maps[mapId[m]] # None
    /\ pc' = [pc EXCEPT ![t] = "removing"]
    /\ carry' = [carry EXCEPT ![t] = m]
    /\ UNCHANGED <<want, cache, maps, locks, left, objects>>

Emptied_KeepsEntries == UNCHANGED maps
Emptied == maps' = [id \in MapId |-> None]

dispose ==
    /\ Emptied
    /\ UNCHANGED <<pc, want, cache, carry, locks, left, objects>>

forceDispose(t) ==
    /\ pc[t] = "idle"
    /\ Goto(t, "closing")
    /\ UNCHANGED <<maps, locks, left, objects>>

(* MapleMap.addMapObject, removeMapObject, getAllObjects and the like. *)
UseMap(t, m) ==
    /\ pc[t] = "idle"
    /\ m \in Handed
    /\ holder[m] = None
    /\ holder' = [holder EXCEPT ![m] = t]
    /\ pc' = [pc EXCEPT ![t] = "using"]
    /\ carry' = [carry EXCEPT ![t] = m]
    /\ UNCHANGED <<want, cache, maps, monitor, readers, writer, left, objects>>

-----------------------------------------------------------------------------
(* Their steps. *)

ResetRemoves(t) ==
    /\ pc[t] = "resetting"
    /\ CanWrite
    /\ maps' = [maps EXCEPT ![want[t]] = None]
    /\ Goto(t, "looking")
    /\ UNCHANGED <<locks, left, objects>>

LockRead(t) ==
    /\ pc[t] \in {"looking", "inside"}
    /\ writer = None
    /\ readers' = readers \cup {t}
    /\ Goto(t, IF pc[t] = "looking" THEN "reading" ELSE "rereading")
    /\ UNCHANGED <<maps, monitor, writer, holder, left, objects>>

(* getMap's own look. *)
Look(t) ==
    /\ pc[t] = "reading"
    /\ LeaveRead(t)
    /\ IF maps[want[t]] # None THEN Return(t) ELSE Goto(t, "missed")
    /\ UNCHANGED <<maps, monitor, writer, holder, left, objects>>

EnterLoad(t) ==
    /\ pc[t] = "missed"
    /\ monitor = None
    /\ monitor' = t
    /\ Goto(t, IF cache[t] THEN "inside" ELSE "loading")
    /\ UNCHANGED <<maps, readers, writer, holder, left, objects>>

(* The second look, inside the monitor. *)
AlreadyLoaded_NotAsked(t) == FALSE
AlreadyLoaded(t) == maps[want[t]] # None

LookAgain(t) ==
    /\ pc[t] = "rereading"
    /\ LeaveRead(t)
    /\ IF AlreadyLoaded(t)
       THEN Return(t) /\ monitor' = None
       ELSE Goto(t, "loading") /\ UNCHANGED monitor
    /\ UNCHANGED <<maps, writer, holder, left, objects>>

(* MapleMapFactory.getMap builds a new object. *)
loadMapFromWz(t, m) ==
    /\ pc[t] = "loading"
    /\ m \notin made
    /\ mapId' = [mapId EXCEPT ![m] = want[t]]
    /\ IF cache[t]
       THEN /\ pc' = [pc EXCEPT ![t] = "putting"]
            /\ carry' = [carry EXCEPT ![t] = m]
            /\ UNCHANGED <<want, cache, monitor>>
       ELSE Return(t) /\ monitor' = None
    /\ UNCHANGED <<maps, readers, writer, holder, left, disposed, published>>

(* There is no such map, or the loader throws. *)
FailLoad(t) ==
    /\ pc[t] = "loading"
    /\ Return(t)
    /\ monitor' = None
    /\ UNCHANGED <<maps, readers, writer, holder, left, objects>>

Put(t) ==
    /\ pc[t] = "putting"
    /\ CanWrite
    /\ maps' = [maps EXCEPT ![want[t]] = carry[t]]
    /\ published' = published \cup {carry[t]}
    /\ Return(t)
    /\ monitor' = None
    /\ UNCHANGED <<readers, writer, holder, left, mapId, disposed>>

RemoveLocked(t) ==
    /\ pc[t] = "removing"
    /\ CanWrite
    /\ disposed' = disposed \cup {carry[t]}
    /\ maps' = [maps EXCEPT ![mapId[carry[t]]] = None]
    /\ Return(t)
    /\ UNCHANGED <<locks, left, mapId, published>>

LockWrite(t) ==
    /\ pc[t] = "closing"
    /\ CanWrite
    /\ writer' = t
    /\ left' = {m \in Map : \E id \in MapId : maps[id] = m}
    /\ Goto(t, "disposing")
    /\ UNCHANGED <<maps, monitor, readers, holder, objects>>

(* MapleMap.forceDispose waits for the map's object lock. *)
DisposeMap(t, m) ==
    /\ pc[t] = "disposing"
    /\ m \in left
    /\ holder[m] = None
    /\ disposed' = disposed \cup {m}
    /\ left' = left \ {m}
    /\ UNCHANGED <<maps, locks, pc, want, cache, carry, mapId, published>>

(* What dispose has cleared meanwhile the iterator may not reach. *)
FinishDispose(t) ==
    /\ pc[t] = "disposing"
    /\ \A id \in MapId : maps[id] \notin left
    /\ Emptied
    /\ left' = {}
    /\ writer' = None
    /\ Return(t)
    /\ UNCHANGED <<monitor, readers, holder, objects>>

LeaveMap_AfterGetMap(t) ==
    /\ pc[t] = "using"
    /\ writer = None
    /\ holder' = [holder EXCEPT ![carry[t]] = None]
    /\ Return(t)
    /\ UNCHANGED <<maps, monitor, readers, writer, left, objects>>
LeaveMap(t) ==
    /\ pc[t] = "using"
    /\ holder' = [holder EXCEPT ![carry[t]] = None]
    /\ Return(t)
    /\ UNCHANGED <<maps, monitor, readers, writer, left, objects>>

-----------------------------------------------------------------------------
GoesOn(t) ==
    \/ ResetRemoves(t) \/ LockRead(t) \/ Look(t)
    \/ EnterLoad(t) \/ LookAgain(t) \/ FailLoad(t) \/ Put(t)
    \/ RemoveLocked(t) \/ LockWrite(t) \/ FinishDispose(t) \/ LeaveMap(t)
    \/ \E m \in Map : loadMapFromWz(t, m) \/ DisposeMap(t, m)

Next ==
    \/ \E t \in Thread, id \in MapId : getMap(t, id) \/ getDisposableMap(t, id) \/ resetMap(t, id)
    \/ \E t \in Thread, m \in Map : removeMap(t, m) \/ UseMap(t, m)
    \/ dispose
    \/ \E t \in Thread : forceDispose(t) \/ GoesOn(t)

Spec == Init /\ [][Next]_vars

(* Callers run; the loader ends; the JVM starves no waiter of a lock.  At  *)
(* its place a thread has one way on, apart from what the loader returns.  *)
Fairness == \A t \in Thread : SF_vars(GoesOn(t))

FairSpec == Spec /\ Fairness

-----------------------------------------------------------------------------
(* The manager implements the registry: however many threads miss the same *)
(* id at once, whatever is removed or reset while they load, no map is     *)
(* built over a registered one and none that was removed comes back.       *)
Registry == INSTANCE MapRegistry WITH current <- maps, issued <- published, NoMap <- None

ImplementsRegistry == Registry!Spec

(* getMap hands out no map that was disposed: while forceDispose takes the *)
(* maps apart nobody can look, and afterwards none of them is registered,  *)
(* nor the one a removeMap of an outdated map left behind.                 *)
RegisteredAlive == writer = None => \A id \in MapId : maps[id] \notin disposed

(* Every call returns: monitor, read and write lock and the object locks   *)
(* of the maps, which forceDispose takes with the write lock held, are     *)
(* never waited for in a circle, and no failing load keeps one.            *)
EveryCallReturns == \A t \in Thread : pc[t] # "idle" ~> pc[t] = "idle"

-----------------------------------------------------------------------------
(* The strengthening that makes these inductive. *)

(* Nobody reads while forceDispose writes, and what the owner of the       *)
(* monitor found missing stays missing until it puts it.                   *)
LoaderOwnsMonitor ==
    /\ writer # None => readers = {}
    /\ \A t \in Thread : pc[t] \in {"loading", "putting"} /\ cache[t] => maps[want[t]] = None
    /\ \A t \in Thread : pc[t] = "putting" => cache[t]

(* A registered map was built for the id it is registered under. *)
KnowsItsId ==
    /\ published \subseteq made
    /\ \A id \in MapId : maps[id] # None => maps[id] \in published /\ mapId[maps[id]] = id
    /\ left \subseteq published

(* Nobody but its builder has a map that is still to be put. *)
NewlyBuilt ==
    /\ \A t \in Thread : pc[t] = "putting" =>
          /\ carry[t] \in made \ (published \cup disposed)
          /\ mapId[carry[t]] = want[t]
          /\ \A u \in Thread : pc[u] = "removing" => carry[u] # carry[t]
    /\ \A t \in Thread : pc[t] = "removing" => carry[t] \in made
    /\ disposed \subseteq made

IndInv == TypeOK /\ LoaderOwnsMonitor /\ KnowsItsId /\ NewlyBuilt /\ RegisteredAlive
=============================================================================
