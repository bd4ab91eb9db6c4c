---------------------------- MODULE EventScriptsN ----------------------------
(*****************************************************************************)
(* The scripts of scripts/event from N on, one definition for each file: what *)
(* setup() does, what a death of each kind of mob makes monsterKilled() do,  *)
(* what the functions the script schedules do, and where the other functions *)
(* the server calls do something else than usual.                            *)
(*****************************************************************************)
EXTENDS EventTable

E_Necro_Damien == Battle({Later({"start"})},
    <<Only(Does({"win"}))>>,
    [start |-> Only(Acts({"timer"}, <<1>>, {}))])
E_Necro_Lotus == Battle({Later({"start"})},
    <<Only(Does({"win"}))>>,
    [start |-> Only(Acts({"timer"}, <<1>>, {}))])
E_Pal == [Battle({Nothing}, <<>>, <<>>)
  EXCEPT !.disbandParty = Only(Nothing), !.leftParty = Only(Nothing)]
E_Pal_Dark_Dungeon_300 == [Battle({Does({"timer"})}, <<>>, <<>>)
  EXCEPT !.disbandParty = Only(Nothing), !.leftParty = Only(Nothing)]
E_Pal_Dungeon_200 == [Battle({Does({"timer"})}, <<>>, <<>>)
  EXCEPT !.disbandParty = Only(Nothing), !.leftParty = Only(Nothing)]
E_Pal_Dungeon_201 == [Battle({Does({"timer"})}, <<>>, <<>>)
  EXCEPT !.disbandParty = Only(Nothing), !.leftParty = Only(Nothing)]
E_Pal_Park_100 == [Battle({Acts({"wipe"}, <<>>, {"start"})},
    <<>>,
    [balls |-> <<{Later({"balls"})}, {Nothing}>>,
     start |-> Only(Acts({"timer"}, <<>>, {"balls"}))])
  EXCEPT !.disbandParty = Only(Nothing),
         !.leftParty = Only(Nothing),
         !.scheduledTimeout = Only(To(2, Does({"out"})))]
E_Pal_Park_101 == [Battle({Acts({"wipe"}, <<>>, {"start"})},
    <<>>,
    [balls |-> <<{Later({"balls"})}, {Nothing}>>,
     start |-> Only(Acts({"timer"}, <<>>, {"balls"}))])
  EXCEPT !.disbandParty = Only(Nothing),
         !.leftParty = Only(Nothing),
         !.scheduledTimeout = Only(To(2, Does({"out"})))]
E_Pal_Park_102 == [Battle({Acts({"wipe"}, <<>>, {"start"})},
    <<>>,
    [balls |-> <<{Later({"balls"})}, {Nothing}>>,
     start |-> Only(Acts({"timer"}, <<>>, {"balls"}))])
  EXCEPT !.disbandParty = Only(Nothing),
         !.leftParty = Only(Nothing),
         !.scheduledTimeout = Only(To(2, Does({"out"})))]
E_Pal_Park_103 == [Battle({Acts({"wipe"}, <<>>, {"start"})},
    <<>>,
    [balls |-> <<{Later({"balls"})}, {Nothing}>>,
     start |-> Only(Acts({"timer"}, <<>>, {"balls"}))])
  EXCEPT !.disbandParty = Only(Nothing),
         !.leftParty = Only(Nothing),
         !.scheduledTimeout = Only(To(2, Does({"out"})))]
E_Pal_Park_104 == [Battle({Acts({"wipe"}, <<>>, {"start"})},
    <<>>,
    [balls |-> <<{Later({"balls"})}, {Nothing}>>,
     start |-> Only(Acts({"timer"}, <<>>, {"balls"}))])
  EXCEPT !.disbandParty = Only(Nothing),
         !.leftParty = Only(Nothing),
         !.scheduledTimeout = Only(To(2, Does({"out"})))]
E_Pal_Park_105 == [Battle({Acts({"wipe"}, <<>>, {"start"})},
    <<>>,
    [balls |-> <<{Later({"balls"})}, {Nothing}>>,
     start |-> Only(Acts({"timer"}, <<>>, {"balls"}))])
  EXCEPT !.disbandParty = Only(Nothing),
         !.leftParty = Only(Nothing),
         !.scheduledTimeout = Only(To(2, Does({"out"})))]
E_Pal_Park_106 == [Battle({Acts({"wipe"}, <<>>, {"start"})},
    <<>>,
    [balls |-> <<{Later({"balls"})}, {Nothing}>>,
     start |-> Only(Acts({"timer"}, <<>>, {"balls"}))])
  EXCEPT !.disbandParty = Only(Nothing),
         !.leftParty = Only(Nothing),
         !.scheduledTimeout = Only(To(2, Does({"out"})))]
E_Pal_Raid == [Battle({Nothing}, <<Only(Does({"win"}))>>, <<>>)
  EXCEPT !.disbandParty = Only(Nothing), !.leftParty = Only(Nothing), !.wild = {1}]
E_PapulatusBattle == Battle({Later({"start"})},
    <<Only(Spawns(<<2>>)), Only(Spawns(<<3>>)), Only(Does({"win"}))>>,
    [start |-> Only(Acts({"timer"}, <<1>>, {}))])
E_Pianus_Battle == [Battle({Acts({"timer"}, <<1>>, {})}, <<Any({Nothing, Does({"win"})})>>, <<>>)
  EXCEPT !.allMonstersDead = Only(Does({"win"}))]
E_PinkBean == Battle({Later({"start"})},
    <<Only(Does({"prize", "win"}))>>,
    [start |-> Only(Acts({"timer"}, <<0, 0, 1>>, {}))])
E_PinkBeanHard == [Battle({Later({"start"})},
    <<<<{Spawns(<<1>>)}, {Nothing}>>, Only(To(2, Does({"prize", "win"})))>>,
    [bean |-> <<{Later({"bean"}), Acts({}, <<0, 0>>, {"bean"})}, {Nothing}>>,
     start |-> Only(Acts({"timer"}, <<0, 1, 1>>, {"bean"}))])
  EXCEPT !.wild = {2}]
E_Ramu == Battle({Later({"start"})},
    <<Only(To(2, Does({"prize", "win"})))>>,
    [bombs |-> <<{Acts({}, <<0, 0>>, {"bombs"})}, {Nothing}>>,
     randomboss |-> <<{Later({"randomboss"}), Acts({}, <<0>>, {"randomboss"})}, {Nothing}>>,
     start |-> Only(Acts({"timer"}, <<1>>, {"bombs", "randomboss"}))])
E_Ramu_trials == Battle({Later({"start"})},
    <<Only(To(2, Does({"prize", "win"}))), <<{Spawns(<<1>>), Spawns(<<2>>)}, {Nothing}>>>>,
    [bombs |-> <<{Acts({}, <<0, 0>>, {"bombs"})}, {Nothing}>>,
     start |-> Any({Acts({"timer"}, <<1>>, {"bombs"}), Acts({"timer"}, <<2>>, {"bombs"})})])
E_Shadow == [Battle({Acts({"clock"}, <<>>, {"start"})},
    <<Only(Spawns(<<1>>))>>,
    [bombs |-> Any({Later({"bombs"}), Acts({}, <<0, 0>>, {"bombs"})}),
     start |-> Only(Acts({"timer"}, <<1>>, {"bombs"}))])
  EXCEPT !.disbandParty = Only(Nothing), !.leftParty = Only(Nothing)]
E_ShowaBattle == Battle({Acts({"timer"}, <<0>>, {})}, <<>>, <<>>)
E_TD_Battle1 == [Battle({Does({"timer"})}, <<Only(Does({"win"}))>>, <<>>)
  EXCEPT !.wild = {1}]
E_TD_Battle2 == [Battle({Does({"timer"})}, <<Only(Does({"win"}))>>, <<>>)
  EXCEPT !.wild = {1}]
E_TD_Battle3 == [Battle({Does({"timer"})}, <<Only(Does({"win"}))>>, <<>>)
  EXCEPT !.wild = {1}]
E_TD_Battle4 == [Battle({Does({"timer"})}, <<Only(Does({"win"}))>>, <<>>)
  EXCEPT !.wild = {1}]
E_TD_Battle5 == [Battle({Does({"timer"})}, <<Only(Does({"win"}))>>, <<>>)
  EXCEPT !.wild = {1}]
E_TPQ == [Battle({Acts({"timer"}, <<0, 0, 1>>, {})},
    <<Only(Moves(<<3, 4, 3, 4>>, Does({"prize", "win"})))>>,
    [bombs |-> <<{Acts({}, <<0>>, {"bombs"})}, {Acts({}, <<0>>, {"bombs"})}, {Nothing},
         {Nothing}>>])
  EXCEPT !.afterChangedMap = <<{Nothing, Moves(<<2, 2, 4, 4>>, Later({"bombs"}))}, {Nothing},
             {Nothing, Moves(<<2, 2, 4, 4>>, Later({"bombs"}))}, {Nothing}>>,
         !.changedMap = Any({Nothing, Does({"out"})}),
         !.leftParty = Only(Does({"out"})),
         !.playerExit = Only(Does({"out"})),
         !.playerRevive = Only(Does({"out"}))]
E_TimeBattle == Battle({Acts({"clock"}, <<>>, {"start"})},
    <<>>,
    [start |-> Only(Acts({"timer"}, <<0, 0>>, {"waves"})),
     waves |-> Any({Nothing, Later({"waves"}), Acts({}, <<0, 0>>, {"waves"})})])
E_TimeClock == Battle({Later({"start"})},
    <<Only(To(2, Does({"win"})))>>,
    [bean |-> <<{Later({"bean"}), Acts({}, <<0, 0>>, {"bean"})}, {Nothing}>>,
     start |-> Only(Acts({"timer"}, <<1>>, {"bean"}))])
E_TimeClown == [Battle({Later({"start"})}, <<>>, [start |-> Only(Acts({"timer"}, <<0, 0>>, {}))])
  EXCEPT !.allMonstersDead = Only(Does({"win"}))]
E_TimeDam == Battle({Later({"start"})},
    <<Only(Spawns(<<2>>)), Only(To(2, Does({"prize", "win"})))>>,
    [bean |-> <<{Later({"bean"}), Acts({}, <<0, 0>>, {"bean"})}, {Nothing}>>,
     start |-> Only(Acts({"timer"}, <<0, 0, 1>>, {"bean"}))])
E_TimeQueen == [Battle({Later({"start"})},
    <<Only(Does({"win"}))>>,
    [start |-> Only(Acts({"timer"}, <<0>>, {}))])
  EXCEPT !.wild = {1}]
E_TimeVellum == Battle({Later({"start"})},
    <<Only(To(2, Does({"prize", "win"})))>>,
    [bean |-> <<{Later({"bean"}), Acts({}, <<0>>, {"bean"})}, {Nothing}>>,
     start |-> Only(Acts({"timer"}, <<1>>, {"bean"}))])
E_TimeVellumKaotic == Battle({Later({"start"})},
    <<Only(To(2, Does({"win"})))>>,
    [bean |-> <<{Later({"bean"}), Acts({}, <<0>>, {"bean"})}, {Nothing}>>,
     start |-> Only(Acts({"timer"}, <<1>>, {"bean"}))])
E_Vonleon == Battle({Later({"start"})},
    <<Only(To(2, Does({"prize", "win"})))>>,
    [anni |-> <<{Acts({}, <<0>>, {"anni"})}, {Nothing}>>,
     bomb |-> <<{Nothing, Acts({}, <<0>>, {"bomb"})}, {Nothing}>>,
     start |-> Only(Acts({"timer"}, <<1>>, {"anni", "bomb"}))])
E_Will_Farm == Battle({Later({"start"})},
    <<>>,
    [start |-> Only(Acts({"timer"}, <<0, 0>>, {"waves"})),
     waves |-> Any({Nothing, Later({"waves"}), Acts({}, <<0, 0>>, {"waves"})})])
E_ZakumBattle == Battle({Acts({"timer"}, <<0, 0, 1>>, {})},
    <<Only(Spawns(<<2>>)), Only(Spawns(<<3>>)), Only(Does({"prize", "win"}))>>,
    <<>>)
E_player_bot == [Battle({Later({"start"})}, <<>>, [start |-> Only(Does({"timer"}))])
  EXCEPT !.disbandParty = Only(Nothing), !.playerRevive = Only(Does({"out"}))]
E_player_instance == [Battle({Does({"timer"})}, <<>>, <<>>)
  EXCEPT !.disbandParty = Only(Nothing)]
E_reward == Battle({Acts({"timer"}, <<1>>, {})},
    <<Only(Does({"prize", "win"}))>>,
    <<>>)
E_reward2 == Battle({Acts({"timer"}, <<1>>, {})},
    <<Only(Does({"prize", "win"}))>>,
    <<>>)
E_reward3 == Battle({Acts({"timer"}, <<1>>, {})},
    <<Only(Does({"prize", "win"}))>>,
    <<>>)
E_reward_dp == Battle({Spawns(<<1>>)}, <<Only(Does({"prize"}))>>, <<>>)
E_reward_start == Battle({Acts({"timer"}, <<1>>, {})}, <<Only(Does({"win"}))>>, <<>>)
E_rose == Battle({Acts({"timer"}, <<1>>, {})},
    <<Only(Does({"prize", "win"}))>>,
    <<>>)
E_scar == [Battle({Acts({"timer"}, <<0>>, {}), Acts({"timer"}, <<3>>, {})},
    <<Only(Acts({"win"}, <<0>>, {})),
      Only(Spawns(<<1>>)),
      Only(Spawns(<<4>>)),
      Only(Spawns(<<5>>)),
      Only(Does({"win"}))>>,
    <<>>)
  EXCEPT !.wild = {2}]
E_sing_battle == [Battle({Does({"timer"})}, <<Only(Does({"prize", "win"}))>>, <<>>)
  EXCEPT !.wild = {1}]
E_slurpy_battle == [Battle({Does({"timer"})}, <<Only(Does({"prize", "win"}))>>, <<>>)
  EXCEPT !.wild = {1}]
E_spirit_battle == [Battle({Does({"timer"})}, <<Only(Does({"prize", "win"}))>>, <<>>)
  EXCEPT !.wild = {1}]
E_star_dung == [Battle({Does({"timer"})}, <<>>, [bomb |-> <<{Later({"bomb"})}, {Nothing}>>])
  EXCEPT !.disbandParty = Only(Nothing),
         !.leftParty = Only(Nothing),
         !.playerEntry = Only(Later({"bomb"})),
         !.scheduledTimeout = Only(To(2, Does({"out"})))]
E_test == [Battle({Spawns(<<0>>)}, <<>>, <<>>)
  EXCEPT !.disbandParty = Only(Nothing), !.leftParty = Only(Nothing)]
E_treDoor == [Battle({Acts({"timer"}, <<0>>, {})}, <<>>, <<>>)
  EXCEPT !.allMonstersDead = Only(Does({"win"}))]
E_treeboss == [Battle({Does({"timer"})}, <<Only(Does({"win"}))>>, <<>>)
  EXCEPT !.wild = {1}]
E_tuto == Battle({Acts({"timer"}, <<1>>, {})},
    <<Only(Does({"prize", "win"}))>>,
    <<>>)
E_victorDoor == [Battle({Acts({"timer"}, <<0>>, {})}, <<>>, <<>>)
  EXCEPT !.allMonstersDead = Only(Does({"win"}))]
E_will_boss == Battle({Later({"start"})},
    <<Only(Spawns(<<2>>)),
      Only(Spawns(<<3>>)),
      Only(To(2, Does({"win"}))),
      <<{Moves(<<1, 2, 3, 3, 1>>, Later({"boss1"}))}, {Nothing}, {Moves(<<1, 2, 3, 3, 1>>,
        Later({"boss1"}))}, {Moves(<<1, 2, 3, 3, 1>>, Later({"boss1"}))},
        {Moves(<<1, 2, 3, 3, 1>>, Later({"boss1"}))}>>>>,
    [boss |-> <<{Nothing}, {Nothing}, {Later({"boss"}), Acts({}, <<0>>, {"boss"})},
         {Later({"boss"}), Acts({}, <<0>>, {"boss"})}, {Nothing}>>,
     boss1 |-> <<{Nothing}, {Nothing}, {Moves(<<5, 2, 4, 4, 5>>, Spawns(<<4>>))}, {Nothing},
         {Nothing}>>,
     start |-> Only(Moves(<<3, 2, 3, 4, 4>>, Acts({"timer"}, <<0, 0, 1>>, {"boss", "boss1"})))])

EventScriptsN == {
    E_Necro_Damien, E_Necro_Lotus, E_Pal, E_Pal_Dark_Dungeon_300, E_Pal_Dungeon_200,
    E_Pal_Dungeon_201, E_Pal_Park_100, E_Pal_Park_101, E_Pal_Park_102, E_Pal_Park_103,
    E_Pal_Park_104, E_Pal_Park_105, E_Pal_Park_106, E_Pal_Raid, E_PapulatusBattle,
    E_Pianus_Battle, E_PinkBean, E_PinkBeanHard, E_Ramu, E_Ramu_trials, E_Shadow,
    E_ShowaBattle, E_TD_Battle1, E_TD_Battle2, E_TD_Battle3, E_TD_Battle4, E_TD_Battle5,
    E_TPQ, E_TimeBattle, E_TimeClock, E_TimeClown, E_TimeDam, E_TimeQueen, E_TimeVellum,
    E_TimeVellumKaotic, E_Vonleon, E_Will_Farm, E_ZakumBattle, E_player_bot,
    E_player_instance, E_reward, E_reward2, E_reward3, E_reward_dp, E_reward_start, E_rose,
    E_scar, E_sing_battle, E_slurpy_battle, E_spirit_battle, E_star_dung, E_test, E_treDoor,
    E_treeboss, E_tuto, E_victorDoor, E_will_boss}
==============================================================================
