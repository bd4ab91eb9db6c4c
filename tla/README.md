# Verification of the Lithium game server

TLA+ models of the concurrent core of the server in `src/src` (Java) and of the
NPC and event scripts it runs (`src/scripts`, JavaScript), the TLC runs that check
them and the TLAPS proofs of their central properties. Every definition is
translated from the source; `PROJECT.json` maps each one to its lines. Java paths
below are relative to `src/src`, scripts to `src/scripts`.

## The system

A MapleStory server: one process with a login server, a cash-shop server and
several channels. Apache MINA runs the handlers of one client session in order
and those of different sessions concurrently. Beside them run the
`ThreadManager` pool, the four threads of `TimerManager` and the timers of
`server/Timer.java`. Most state is shared between sessions; some of it is
guarded by monitors or read-write locks, much of it by nothing.

| Component | State | Operations | Interacts with | Modelled |
|---|---|---|---|---|
| Event script scheduler (`scripting/EventScriptScheduler`) | `registeredEntries`, `schedulerTask`, `idleProcs`, `disposed` | register, cancel, dispose, the monitor's pass | pool (jobs), `TimerManager` (future), event instance (owner) | `EventScriptScheduler`, `OneShotTimer` |
| Event instances (`scripting/EventInstanceManager`, `EventManager`) | `chars`, `disposed`, the event timer's field and poll, delayed jobs; each character's `eventInstance` | start, registerPlayer, unregisterPlayer, exitPlayer, exitParty, startEventTimer, createEventTimer, stopEventTimer, victory, dispose | scripts, sessions, timers, sweepers, map manager, scheduler | `EventInstanceManager` |
| Map manager (`server/maps/MapleMapManager`) | `maps` by id, the loading monitor, the read-write lock, the maps' object locks | getMap, getDisposableMap, resetMap, removeMap, dispose, forceDispose | map factory, channels, event instances | `MapleMapManager`, `MapRegistry` |
| Item market (`server/MTSStorage`, `MTSCart`, `handling/cashshop/handler/MTSOperation`) | `buyNow`, carts (`notYetSold`, `transfer`, `owedNX`), `packageId` | list, buy, cancel, transfer, payment, expiry | inventories, database | `MTSStorage` |
| Player trades (`server/MapleTrade`) | two `MapleTrade`s joined by `partner`; `items`, `exchangeItems`, mesos, `locked` | start, invite, add, confirm, cancel, decline | inventories, `PlayerInteractionHandler` | `MapleTrade` |
| NPC conversations (`scripting/NPCScriptManager`, `npc/*.js`) | per client: `cms`, `chat`, cool down, cached engines; a script's own page variable | click, answer, close, shop, storage, dispose, map change, scripts the server starts | session, timers, event managers | `NPCConversation` and its tables |
| Event scripts (`event/*.js`) | properties and values of the instance; its maps' mobs, scheduled functions, timers | `setup`, `monsterKilled`, scheduled functions, `scheduledTimeout`, exits | event instance, scheduler, maps | `EventBattle` and its tables |
| Parties, expeditions, raids (`handling/world/World`, `MapleParty`) | members, leader, each character's `party` | create, join, leave, expel, change leader, disband | sessions, logout, event instances | planned |
| Player storage, channel change | `idToChar`, `PendingCharacter`, `World.Find` | register, hand over, deregister | login, logout | planned |
| Player shops, hired merchants | items, visitors, `available` | buy, close, visit | inventories, database | planned |
| Maps, monsters, drops | map objects, the monitor task | addPlayer, removePlayer, clean | map manager | monitor task planned |
| Shutdown | `mode` | two phases | every server | planned |
| All others | see `PROJECT.json`, components | | | no, with the reason there |

What is hard in this code, and what the properties are for (`PROJECT.json`,
hazards, gives each with its line):

* *Look, then act, without a lock.* An instance is seen empty and disposed
  later; a listing is found and taken later; `INVITE_TRADE` looks twice.
* *Jobs in any order.* Registrations, cancellations and disposals of a
  scheduler are pool jobs; a cancelled future may still be in a pass.
* *Two owners of one object.* Both partners of a trade settle both halves of
  it; sellers and buyers write the same cart.
* *Half-done operations.* A script's `setup` throws, a save fails, an action
  throws in the middle of a pass.
* *Scripts that keep their own state.* A conversation is a page number in an
  engine that a map change, a timer's script or an error may leave behind; an event
  script is a property that loops, deaths and time-outs read and write without a
  lock.
* *What must happen eventually.* An event ends although nobody leaves, an
  action is served although the monitor idles out, a map load returns, a
  conversation and a battle come to an end.

## Modules

`X.tla` is the model, `X_proofs.tla` its theorems, `MCX.tla` with
`X_<run>.cfg` its instances for TLC. An operator named `Y_Variant` is a
plausible bug in `Y`: substituting it for `Y` must break the property
`PROJECT.json` pairs it with.

**EventScriptScheduler.** One action per critical section of `schedulerLock`,
since no other lock is taken inside. `registerEntry`, `cancelEntry`, `dispose`
and `forceDispose` only queue a job; `RegisterJob`, `CancelJob`, `DisposeJob`
are the jobs. A pass (`runBaseSchedule`) is `Fire` (the future starts),
`IdlePass` or `CopyEntries` (first critical section), `RunEntry` or
`AbortPass` per overdue action, and `RemoveRun` (second section). An action in
`MayThrow` may end in an unchecked exception, which the lambda of
`EventInstanceManager.schedule` does not catch, as often as it runs: the pass ends, and what
it ran stays registered. A deadline is reduced to whether it has passed (`Ripen`). `OneShotTimer` is the abstract
specification: accepted at most once, fired at most once or dropped.

**EventInstanceManager.** `registerPlayer` holds the monitor while
`playerEntry` runs, so it is two actions, `registerPlayer` and `PlayerEntry`;
`dispose` needs the monitor. `unregisterPlayer` is two steps (the seat, then
the character's field). Whoever sees an instance empty is counted in
`closing` and disposes later. `exitPlayer` works on a reading of the field
made earlier (`ReadEventInstance`). `KickJob` and `UnloadJob` are the jobs
dispose schedules after five and ten seconds.
The field of the event timer holds a `startEventTimer`, a clock of
`createEventTimer` or nothing (`eventTimer`); `Ring` begins the run of either, which
`cancel(false)` no longer stops, and the clock's run then dismisses whatever the field
holds. `setup` starts the timer, or leaves it to the scheduled `start` (`RunStart`), most often
behind a clock of the same length, or does neither; a script method may stop the timer.
`limitless` notes an instance without a time limit. Script functions are external:
`playerExit` calls `exitPlayer` and `scheduledTimeout` calls `exitParty`, as
the repository's scripts do; the test of `disposed` and the guarded call of a
script function are one step; the event timer, set to minutes, runs out after
the start has returned. The registration a GM's warp makes, `playerDisconnected`
(no caller) and `disposeIfPlayerBelow` are not modelled.

**MapleMapManager.** A call is `getMap`, `getDisposableMap` or `resetMap`, then
the look under the read lock, the monitor, the second look, `loadMapFromWz` or its
failure, and the publication under the write lock. `forceDispose` holds the write lock while
it takes the object lock of one map after the other; a thread that uses a map
may be preempted while it holds that lock. The other sections under the write lock acquire
nothing and are one step each; `dispose` clears the concurrent map without a lock.
`MapRegistry` is the abstract specification. The map's own delayed disposal counts
as done when it is asked for.

**MTSStorage.** Every handler of the market is a sequence of steps, a step
being a critical section of `mutex` or `cart_mutex`, a call on a cart's list, or
one access to the unguarded `owedNX`. `saveBuyNow` may fail half-way
(`FailSave`): a statement that throws skips the removal of the expired listings
(`MTSStorage.java:188-190`), and those already collected are refunded to their carts all the
same, so that they are in a cart and for sale. `NothingDoubled` is therefore about
histories without a failed save, `NothingLost` about all. `Places` says where an item is, an item a handler is moving
counted once. Prices, views, search and the wish list are left out.

**MapleTrade.** No lock at all: a session is the sequence `todo` of statements
its call still executes, and each statement is a step: reading both locks,
copying an offer, giving, emptying, returning, clearing, closing. An item and
an amount of mesos are both a *good*; only an `Item` needs room. A trade refers to its partner
and its player, so a session that settles the other half really acts on whatever trade
that player has by then. `addFromDrop` may refuse an item (no room by then, or the player has
left), and a buff whose time is running is skipped: the code ignores both and empties the
list, so the item is gone (`HandOut`, history `spilled`; the comment at `MapleTrade.java:331`
says so). `settled`, `torn`, `crossed` and `astray` are history: which
trades somebody began to settle, and the overlaps the code does not survive (see below). A
partner without a client (317-319) is left out: only clones have none, and they do not trade.

**NPCConversation.** One client and the scripts of its conversations. `start`
is three steps (`start`: the flag and the cool down; `setCMS`; `RunStart`: the
script), since another thread may run between them; `action` two. An engine
lives in `cached` until `dispose` forgets it *under the name that was asked for*.
A script is a table (`ScriptPages`): what its first call does, what it does
when started over an engine that was left behind, and for each page what an answer
or a refusal leads to. The tables of `npc/*.js` are in
`NPCScripts1` to `3` (scripts of 44 lines and more) and `NPCTalks1` to `3` (the short
ones), by number, 1142 scripts. Their rows abstract the script:
a condition on items, quests, levels or chance may go either way; a menu has the
choices the script compares with and one other; a loop runs any number of times;
text is left out. An outcome names the next page and whether the script
gave, took, warped, opened a window or disposed. `sendSimple` without an entry is shown
as a `sendNext`, and a text with entries as a menu, as `NPCConversationManager` does. A
box sent and disposed in the same call is left out; every box can be closed.

**EventBattle.** One instance from `setup` to `dispose`. Functions of the script are
called by the sessions (exits), by the thread that tells a death
after the mob's last animation, by the scheduler and by the timers; `Invoke`
lets a call read what the script remembers and act at once, or be preempted
(`Resume`, one call at a time): before it acts, or past one of the looks the code acts on
without a lock. Those are victory's and defeat's look at `ending` (`Ending`: two ends may both
find it unset) and `unregisterPlayer`'s at who is left (`Looking`). Players have names:
taking out one who is out already removes nobody, but looks again. `MapleMonster.kill`
tests `deadProcessed` without a lock, so a mob may be killed twice and its death told
twice. A script is again a table (`EventTable`;
`EventScriptsA`, `EventScriptsN`, 236 scripts of `event/`): for
each function, and each state the script's stored values can be told apart in, the
outcomes. An outcome names what is remembered afterwards, the mobs spawned, the
functions scheduled, and which of the instance's operations were called (`wipe`
killAllMonsters, `prize` an item or achievement, `win` and `lose` victory and defeat,
`timer` startEventTimer, `clock` createEventTimer, `leave` and `out` one player or all
of them). Mobs are merged into kinds when no function distinguishes them, states
likewise. The instance's maps are one field; whether a mob was the last of its map is
left open; counts go up to `Several`; effects on a disposed instance are none;
experience is no prize; functions the server never calls (`finish`, `clear`) are not
in the tables.

`EventBattle` composes an event instance with its script, its scheduled functions
and its timers, seen from the script; `EventInstanceManager` has the seats and the
disposal in detail. The other components meet in the code (an event instance owns a scheduler and a map
manager) through `dispose` and `forceDispose` only, so each is checked against
every order of those calls rather than composed with its owner.

## Runs

Deadlock is checked in the runs of the scheduler, the map manager and the
conversations and off in the others: once every instance was forgotten, all ids used
or all trades made, nothing need happen. Symmetry is used in safety runs only.

| Run | Instance | Distinct states | Shows |
|---|---|---|---|
| `scheduler_three` | 3 actions, all of which may throw, 2 futures, `Life` 2 | 239 312 | `NoOverlappingPasses`, `WorkHasDriver`, `RunsOnceUnlessCut`, `GoneStaysGone`, `DisposeIsFinal`; liveness `RegisteredIsServed`, `IdleMonitorStops` |
| `scheduler_refines_timer` | 3 actions, 2 futures, none throws | 13 432 | `ImplementsOneShotTimer` |
| `event_members` | 2 players, 1 instance, 2 closers | 542 187 | `PointerHasSeat`, `DisposedWithPlayersOnlyByRace`, `ForgottenForGood` |
| `event_liveness` | 2 players, 1 instance, 1 closer | 571 157 | `EveryEventEnds` |
| `event_script_comment` | 2 players, 1 instance | violation | a comment the code contradicts |
| `maps_two` | 2 threads, 2 ids, 3 maps | 518 782 | `RegisteredAlive`, `ImplementsRegistry`; liveness `EveryCallReturns` |
| `mts_three` | 3 players, 2 items, 2 listings, 1 failed save | 4 661 182 | `NothingDoubled`, `NothingLost`, `SellersAreLoaded`, `OwnListingsShown`, `SellersPaidUnlessTorn` |
| `trade_goods` | 2 players, an item and mesos, 5 trades, orderly histories | 5 121 098 | `NothingDoubled`, `NothingLost` |
| `trade_offers` | 2 players, an item, 4 trades, all histories | 1 581 050 | `OffersStayAsConfirmed` |
| `npc_scripts` | 1142 scripts, the player's session | 96 725 | `GiftsOnlyWhenAsked`, `OpenMeansHeard`; liveness `EveryConversationEnds` |
| `npc_threads` | 3 scripts, 2 of them started by a timer's thread | 2 450 474 | `EnginesForgotten`, `AnswerReachesAsker`, `LockedOutOnlyByKnownCauses` |
| `event_scripts` | 236 scripts, 1 or 2 players, 1 kind of mobs dying at a time | 270 598 | `NeverStranded`, `PaidOnce`, `LoopsStop`; liveness `EveryBattleEnds` |

Why the bounds suffice. *Scheduler:* two futures are the fewest that let an old
pass meet a new monitor, the third action lets one be run, one registered and
one cancelled at once; `Life` 2 distinguishes the last idle round from an
earlier one. Exceptions are not bounded. *Events:* one player leaves while the other
arrives; two closers show the second disposal. A third player or a second instance multiplies
the states beyond reach; the theorems cover any number.
*Maps:* two threads that miss, a map per thread and one for a reset; one holds the write lock
while the other holds a map. *Market:*
a seller and two rival buyers; two listings so that one seller is credited
twice; no interaction needs a second failure. *Trades:* five trades let a pair
trade again, twice, while the session of the first trade is still closing, and two players who
invite each other cross. `trade_goods` cuts off what follows a trade settled twice or crossed
invitations (`CONSTRAINT Orderly`), of which its two properties say nothing; `trade_offers`, whose
property is about those histories too, follows them with one good and a trade less. *Conversations:* scripts
share nothing but the client, so all of them run one after another on one client, and three that
between them open a shop, pay and run under a name that does not exist meet a second thread.
*Battles:* two deaths of one kind, a preempted call and a second copy of everything
that is counted are what two threads can distinguish; the second player shows that
one who leaves does not end it. `MaxDying` 1 keeps two *kinds* from dying at once, and
`AllTwice = FALSE` lets only mobs that decide the battle be killed twice: a boss of a chain
killed twice doubles every mob that follows, and the states with them. The theorems have neither bound.

What the conditional properties mean. Several properties excuse a case by name. The code breaks
them there; each says that it breaks *nowhere else*, and does not make the excused case
correct.

* `RegisteredIsServed` excuses an execution in which exceptions cut off passes forever: an action that
  always throws stays registered, throws again every 200 ms, and those behind it in the
  map are never run.
* `DisposedWithPlayersOnlyByRace`: the window between seeing an instance empty and disposing it is the
  only way a player gets stranded.
* `EveryEventEnds` excuses players who stay in an instance that is `limitless`: its script never set a
  time limit or stopped it, or a late clock dismissed it.
* `NeverStranded` and `EveryBattleEnds` excuse a timer that was *cut* in the same way: in
  fifteen scripts `setup` shows a clock of five seconds and schedules `start` after five
  seconds; the clock's job, which `cancel(false)` does not stop once it
  runs, then dismisses the event timer that `start` has just armed.
* `SellersPaidUnlessTorn`: the unguarded read-modify-write of `owedNX` is the only way money is lost.
* `MapleTrade`: `NothingDoubled` and `NothingLost` excuse a trade that is settled a second time (`torn`)
  and invitations that crossed, so that one of them met or left a trade which has
  another partner (`crossed`); `NothingLost` in addition a good put into a settled trade or
  a newer trade closed in place of the settled one (`astray`) and an item an inventory refused
  (`spilled`). What they show of a refused item is that it does not turn up a second time. An
  earlier form of `crossed` was weaker; the attempt to prove `NothingDoubled` failed on three
  players, of whom one is invited by the second while inviting the third, and the two-player run
  cannot meet that.
* `LockedOutOnlyByKnownCauses`: a start refused within 100 ms of the last call, and a
  move out of an open shop, leave the client's `chat` flag set, and every NPC refuses
  the player until the command `@fix`; nothing else does.
* `EnginesForgotten` excuses
  scripts asked for under a name without a file: the portals of Monster Park ask for
  `MP0` to `MP3`, whose files are missing, so that `9071000.js` runs and its engine stays
  cached when `npc/MP0.js` is forgotten.
* `PaidOnce` excuses deaths that overlap another, or that are told twice (`overlap`): both may pay. It is
  about the scripts that pay only where they declare the victory; the endless modes, which pay for
  each mob, are told from them by the table.
* `LoopsStop` is about the scripts whose victory and defeat both leave a
  state their loops look at, and about runs of a loop that are not preempted;
  `boss_lotus_art.js` (its defeat does not set `finished`), `Comm_will.js` and `lucid_boss.js` are
  not among them, and go on spawning during the last 45 seconds.

Disagreement found:

* `event_script_comment`: `EventInstanceManager.java:806` says of `dispose`
  "should not trigger any event script method after disposed"; `exitPlayer`
  (line 1206) invokes `playerExit` without testing `disposed`, and a session may
  hold a reading of its instance from before the disposal.

## Fairness

*Scheduler* (`FairSpec`): pool jobs run, deadlines pass, a live future fires
again and a pass goes on: the pool never refuses a job (a rejected one gets its
own thread) and `TimerManager` repeats its tasks. Callers need not call anything.
No fairness keeps an action from throwing.
*Events:* a call under way returns, the scheduled `start`, the timers and the delayed jobs run
when due. Nothing a player does is fair, no script method need stop a timer, and no sweeper is
relied on. *Maps:* a thread in a call goes on when it can; what waits for a lock is strongly fair,
since others may take it again and again and the JVM does not starve a waiting thread forever.
*Market* and *trades* have safety properties only. *Conversations:*
the threads go on, and a player who is shown boxes again and again closes one
again and again (strong fairness of `EndTalk`; a box may be replaced meanwhile); answers
are not fair. *Battles:* the timers fire and a preempted call goes on; no player need do
anything.

## Theorems

Proved with TLAPS for every value of the constants, from the assumptions the
modules name (constants of the right type, markers outside the sets they mark,
bounds natural). In each module `IndInv` is the inductive invariant; the proof
has one step per action.

* **EventScriptScheduler** (`IndInvHolds`, `TypeCorrect`, `PassesDoNotOverlap`,
  `WorkAlwaysDriven`, `RunsBounded`, `GoneIsFinal`, `DisposalIsFinal`, `RefinesOneShotTimer`).
  `WorkHasDriver` is not inductive: besides, only the current future is alive
  (`OneFuture`), a copy belongs to a running pass (`PassOwner`), an entry not
  yet submitted is nowhere (`FreshEntries`), and an entry that has run is either
  gone, or in a pass's `toRemove`, or noted as run by a pass that an exception cut off
  before it removed anything (`RunsCounted`). Any set of actions may throw, any number of times.
* **EventInstanceManager** (`IndInvHolds`, `TypeCorrect`, `PointersHaveSeats`,
  `EntriesAreLive`, `OnlyRaceStrands`, `UnloadsOnce`, `ForgottenIsFinal`). Added:
  nothing refers to an unborn instance, the order of the clean-up jobs, and that
  a thread about to dispose saw the instance empty but for late arrivals.
* **MapleMapManager** (`IndInvHolds`, `TypeCorrect`, `RegisteredMapsAlive`,
  `RefinesRegistry`). Added: what the thread that loads found missing
  stays missing until it publishes, and nobody reads beside a writer (`LoaderOwnsMonitor`); a registered
  map is registered under the id it was built for (`KnowsItsId`); a map just built is its builder's
  alone, and neither published nor disposed (`NewlyBuilt`). `RefinesRegistry` proves the refinement:
  initial states map to initial states, each step to a step or a stutter.
* **MTSStorage** (`IndInvHolds`, `TypeCorrect`, `SellersHaveCarts`,
  `ItemsAreNeverLost`, `ItemsAreNeverDoubled`, `OwnListingsAreShown`, `SellersArePaid`).
  Added: everybody who ever listed has a cart, and a session works on a listing that
  was given out. An item is in some place (`Somewhere`) and, without a failed save, in
  one only (`Once`), where an item in a session's hands is counted in one place of
  its own; for this a listing being refunded or delivered must be off the market (`Hands`).
  A listing is in its seller's list or just being added (`Shows`). The money is
  counted: what a seller is owed and was paid falls short of his sales by the prices
  of the buyers who are about to credit him, of whom none is himself (`PayersInv`).
* **MapleTrade** (`IndInvHolds`, `TypeCorrect`, `ConfirmedOffersStay`). The
  invariant is about the statements still to be executed: a trade whose goods
  are cleared was noted as being settled, and a good on its way goes to an open
  trade of the session's own player. It is carried through sequences by
  two lemmas, one for replacing a program and one for continuing it.
* **MapleTradeGoods** (`GoodsAreNeverDoubled`, `GoodsAreNeverLost`), the largest of the
  proofs. Its invariant has layers: a trade's partner is another player's and
  is nobody else's partner (`PairInv`); the goods of a trade are given or returned by one
  session once, before the list is emptied (`SettleInv`, `Tidy`); an offer that
  was copied is part of the list of the trade it came from, until either half is settled
  and while it is still to be handed over (`Exchanges`); so a
  good is in one inventory, or in one trade, or in one offer not yet handed over
  (`Once`), and one that `addFromDrop` refused or the skip of running buffs dropped
  (`spilled`) is in none of them again. That none of the others is lost needs, besides, what a
  confirmation under way will still do (`ConfirmInv`: a session confirms its own locked
  trade and copies before it settles, and a confirmed offer is still to be copied or lies
  with the partner), that a trade holding goods and not
  settled is the current one of its player (`OpenTrades`, `Starting`), and a name for
  a trade whose partner has settled it while its own confirmation is still to settle it
  again (`Doomed`): its goods are nowhere else until then, and the history is `torn`
  after that.
* **NPCConversation** (`IndInvHolds`, `TypeCorrect`, `OnlyOldEnginesStay`,
  `LockedOutCauses`, `AnswersReachTheAsker`, `GiftsAreAskedFor`, `AloneEveryoneIsHeard`).
  For any well-formed tables and any threads. Added: a thread in
  a call runs a script of some role, the box on the screen is of a page that
  exists, and `chat` set with nothing open means a thread about to open. An answer
  reaches the asker because, until conversations cross, a thread in a call excludes
  any box and any other such thread (`Uncrossed`). A gift from a script not asked for
  needs an old engine, and a call that resumes one has a cause that is named:
  a manager put over another, or a script under another's name (`Resumed`). `AloneEveryoneIsHeard` is for one thread,
  the session's, as in the run; with a second one it is false.
* **EventBattle** (`IndInvHolds`, `TypeCorrect`, `EndedIsNeverStranded`,
  `BossesPayOnce`, `CalmScriptsStop`). For
  any tables that keep to `WellFormed`, which TLC evaluates on all 236: only `setup` shows
  a clock, and a time-out empties the instance. `TypeCorrect` says, besides types, that a player's exit
  disposes no instance another is in, also when the same player is taken out twice, and that an instance
  without players is disposed or about to be looked at. Added: a preempted call is an outcome of the
  table or the rest of one, an instance is *stuck* (ended, not disposed, no timer) only
  with a cut timer or with a thread about to empty it, and *empty* (nobody left, not disposed) only
  with a thread that has still to look. `PaidOnce` and `LoopsStop` are
  true of single tables; the theorems name what makes them true. `PaysForBosses`:
  only the death of a boss pays, and the bosses are there from the beginning, or all
  come with the one run of `start` and nothing but their deaths ends the battle. Then
  one prize is due at most (`Fair`): of the mob that is dying, or of the call still to take
  effect, and none once one was paid. It holds of 35 of the 44 different tables `PaidOnce`
  is about; the other nine bring their boss by the death of another mob, and stay with TLC.
  `KeepsCalm`: some of the script's states are such that no loop spawns in them, nothing leads
  out and whatever ends the battle leads in; it holds of 36 of the 38 tables with a
  spawning loop that `LoopsStop` is about, and there the property does not even need deaths
  not to overlap.

`EntryIntoLiveInstance` and `UnloadedOnce` of the event instances are proved
(`EntriesAreLive`, `UnloadsOnce`) and no longer model-checked.

`RefinesOneShotTimer` (scheduler) proves the refinement: every action of the scheduler is
a step of `OneShotTimer` or none, if no action throws (`MayThrow = {}`; one that
throws leaves what its pass ran in the map, to run again). Besides `IndInv` it needs that a
pass removes what it has run (`RemovesWhatRan`).

Every safety property of the runs is thus stated by a theorem. Model-checked only: the liveness
properties `RegisteredIsServed`, `IdleMonitorStops`, `EveryEventEnds`, `EveryCallReturns`,
`EveryConversationEnds` and `EveryBattleEnds` (the prover has no ENABLED); `PaidOnce`
and `LoopsStop` of the tables that are not of the form above; and `NoScriptAfterDispose`, which is expected
to be violated.

## Not modelled

`PROJECT.json` lists each component that has no module, with its reason. In
the modelled ones: a call on an unsynchronized `ArrayList` or `HashMap` counts as one
step, so the structures' own races are outside; whether an inventory has room is a choice each time the code asks or adds, not counted;
the equality of two pieces of equipment that `Item.equals` confuses;
`LockCollector`, whose worker nobody starts; a restart, of which the market keeps nothing.

Scripts without a table: of `npc/`, the files that fail when loaded (25 call
`importPackage` or `importClass` at top level) or whose pages are too many to
enumerate, some forty in all, and the copies (`_old`, `Copy`) no name leads to; of
`event/`, `AreaBoss.js`, `MD_drakeroom.js`, `ZakumPQ.js` (make no instance),
`DojoUnlimited.js`, `battle_tara.js`, `chowBoss.js` (errors at top level) and
`GoldenPig.js` (no setup). `quest/`, `npc_v4/`, `oldevents/` and `autoevent/` are
loaded by nothing in `src`. Portal and reactor scripts are one call each.

## Plan

Written, in this order: the scheduler, because every event instance depends on it;
event instances, the largest piece of shared state; the map manager; the market;
trades; the conversations and the event scripts, most of the repository's own
lines and the callers of nearly everything else. Next:

1. `WorldParty`: `World.Party.updateParty` statement by statement, with
   `PartyHandler` and the logout. Abstract specification: a partial function
   from players to parties with one leader each, the pointer of each
   character being its value when no update is under way. Properties: a member's
   pointer and the member list agree unless two updates overlapped; a disbanded
   party is not joined again; the comments `World.java:354` ("pass on lead") and
   `:366` ("no members left, plz disband"). Beside it `ShutdownServer`: the second
   phase is reachable whatever callers overlap. 3 players, 2 parties.
2. `PlayerShop`: a sale against the closing of the shop; the conservation of
   goods as in `MapleTrade`.
3. `PlayerRegistry`: `PlayerStorage` and `World.Find` with a change of channel
   and a logout; a character is found where it is, or nowhere.
4. `MapMonitor`: when `MapleMap`'s monitor task is registered and stopped against
   players who enter during `clean`.
5. Composition of `EventInstanceManager` with `EventScriptScheduler`: no script method
   runs once the +5s job has closed the instance.

Proofs to come: `PaidOnce` for the scripts whose boss comes with another mob's death
(invariant: one mob of the chain is alive, dying or on its way), and the type and
membership invariants of `WorldParty`.
