---------------------------- MODULE EventScriptsA ----------------------------
(*****************************************************************************)
(* The scripts of scripts/event up to M, one definition for each file: what  *)
(* setup() does, what a death of each kind of mob makes monsterKilled() do,  *)
(* what the functions the script schedules do, and where the other functions *)
(* the server calls do something else than usual.                            *)
(*****************************************************************************)
EXTENDS EventTable

E_APQ == Battle({Acts({"timer"}, <<0>>, {}), Acts({"timer"}, <<0, 1>>, {})},
    <<Only(Does({"prize", "win"}))>>,
    <<>>)
E_Ark_Battle == Battle({Later({"start"})},
    <<Only(To(2, Does({"prize", "win"})))>>,
    [start |-> Only(Acts({"timer"}, <<0, 0, 1>>, {"waves"})),
     waves |-> <<{Later({"waves"}), Acts({}, <<0, 0>>, {"waves"})}, {Nothing}>>])
E_BGC_Aragami == Battle({Later({"start"})},
    <<Only(To(2, Does({"prize", "win"})))>>,
    [bombs |-> <<{Acts({}, <<0, 0>>, {"bombs"})}, {Nothing}>>,
     start |-> Only(Acts({"timer"}, <<1>>, {"bombs"}))])
E_BGC_Asura == Battle({Later({"start"})},
    <<Only(To(2, Does({"prize", "win"})))>>,
    [bombs |-> <<{Acts({}, <<0, 0>>, {"bombs"})}, {Nothing}>>,
     start |-> Only(Acts({"timer"}, <<1>>, {"bombs"}))])
E_BGC_Atilla == Battle({Later({"start"})},
    <<Only(To(2, Does({"prize", "win"})))>>,
    [bombs |-> <<{Acts({}, <<0, 0>>, {"bombs"})}, {Nothing}>>,
     start |-> Only(Acts({"timer"}, <<1>>, {"bombs"}))])
E_BGC_Butcher == Battle({Later({"start"})},
    <<Only(To(2, Does({"prize", "win"})))>>,
    [bombs |-> <<{Acts({}, <<0, 0>>, {"bombs"})}, {Nothing}>>,
     start |-> Only(Acts({"timer"}, <<1>>, {"bombs"}))])
E_BGC_Khan == Battle({Later({"start"})},
    <<Only(To(2, Does({"prize", "win"})))>>,
    [bombs |-> <<{Acts({}, <<0, 0>>, {"bombs"})}, {Nothing}>>,
     randomboss |-> <<{Later({"randomboss"}), Acts({}, <<0>>, {"randomboss"})}, {Nothing}>>,
     start |-> Only(Acts({"timer"}, <<1>>, {"bombs", "randomboss"}))])
E_BMPQ == [Battle({Does({"timer"})}, <<Only(Does({"prize", "win"}))>>, <<>>)
  EXCEPT !.wild = {1}]
E_BMT_Aragami == Battle({Later({"start"})},
    <<Only(Does({"prize", "win"}))>>,
    [start |-> Only(Acts({"timer"}, <<1>>, {}))])
E_BMT_Ark == Battle({Later({"start"})},
    <<Only(Does({"prize", "win"}))>>,
    [start |-> Only(Acts({"timer"}, <<0, 0, 1>>, {}))])
E_BMT_Asura == Battle({Later({"start"})},
    <<Only(Does({"prize", "win"}))>>,
    [start |-> Only(Acts({"timer"}, <<1>>, {}))])
E_BMT_Atilla == Battle({Later({"start"})},
    <<Only(Does({"prize", "win"}))>>,
    [start |-> Only(Acts({"timer"}, <<1>>, {}))])
E_BMT_Black_Bean == Battle({Later({"start"})},
    <<Only(Does({"prize", "win"}))>>,
    [start |-> Only(Acts({"timer"}, <<0, 0, 1>>, {}))])
E_BMT_Butcher == Battle({Later({"start"})},
    <<Only(Does({"prize", "win"}))>>,
    [start |-> Only(Acts({"timer"}, <<1>>, {}))])
E_BMT_Capo == Battle({Later({"start"})},
    <<Only(Does({"prize", "win"}))>>,
    [start |-> Only(Acts({"timer"}, <<1>>, {}))])
E_BMT_CommanderWill == [Battle({Later({"start"})},
    <<Only(To(2, Does({"prize", "win"}))),
      <<{Spawns(<<0>>)}, {Nothing}>>,
      <<{Spawns(<<3>>)}, {Nothing}>>>>,
    [bomb |-> <<{Later({"bomb"}), Acts({}, <<0>>, {"bomb"})}, {Nothing}>>,
     start |-> Only(Acts({"timer"}, <<0, 0, 1, 3, 3>>, {"bomb"}))])
  EXCEPT !.wild = {2}]
E_BMT_Damien == Battle({Later({"start"})},
    <<Only(To(2, Does({"prize", "win"})))>>,
    [demon |-> <<{Later({"demon"}), Acts({}, <<0, 0>>, {"demon"})}, {Nothing}>>,
     start |-> Only(Acts({"timer"}, <<1>>, {"demon"}))])
E_BMT_Darknell == Battle({Later({"start"})},
    <<<<{Spawns(<<1>>)}, {Nothing}>>, Only(To(2, Does({"prize", "win"})))>>,
    [start |-> Only(Acts({"timer"}, <<1, 1, 2>>, {}))])
E_BMT_Empress == Battle({Later({"start"})},
    <<<<{Spawns(<<1>>)}, {Nothing}>>, Only(To(2, Does({"prize", "win"})))>>,
    [start |-> Only(Acts({"timer"}, <<0, 0, 1, 1, 2>>, {}))])
E_BMT_Grand_Ape == Battle({Later({"start"})},
    <<Only(Does({"prize", "win"}))>>,
    [start |-> Only(Acts({"timer"}, <<1>>, {}))])
E_BMT_Hilla == Battle({Later({"start"})},
    <<Only(Does({"prize", "win"}))>>,
    [start |-> Only(Acts({"timer"}, <<0, 0, 1>>, {}))])
E_BMT_Horseman == Battle({Later({"start"})},
    <<Only(Does({"prize", "win"}))>>,
    [start |-> Only(Acts({"timer"}, <<1>>, {}))])
E_BMT_Kaling == Battle({Later({"start"})},
    <<Only(Does({"prize", "win"}))>>,
    [start |-> Only(Acts({"timer"}, <<1>>, {}))])
E_BMT_Kalos == Battle({Later({"start"})},
    <<Only(Does({"prize", "win"}))>>,
    [start |-> Only(Acts({"timer"}, <<1>>, {}))])
E_BMT_Khan == Battle({Later({"start"})},
    <<Only(Does({"prize", "win"}))>>,
    [start |-> Only(Acts({"timer"}, <<1>>, {}))])
E_BMT_Kobold == Battle({Later({"start"})},
    <<Only(Does({"prize", "win"}))>>,
    [start |-> Only(Acts({"timer"}, <<1>>, {}))])
E_BMT_Limbo_Hard == Battle({Later({"start"})},
    <<Only(Does({"prize", "win"}))>>,
    [start |-> Only(Acts({"timer"}, <<1>>, {}))])
E_BMT_Limbo == Battle({Later({"start"})},
    <<Only(Does({"prize", "win"}))>>,
    [start |-> Only(Acts({"timer"}, <<1>>, {}))])
E_BMT_Lotus_Hard == Battle({Later({"start"})},
    <<Only(To(2, Does({"prize", "win"})))>>,
    [bombs |-> <<{Acts({}, <<0>>, {"bombs"})}, {Nothing}>>,
     start |-> Only(Acts({"timer"}, <<1>>, {"bombs"}))])
E_BMT_Lotus == Battle({Later({"start"})},
    <<Only(To(2, Does({"prize", "win"})))>>,
    [bombs |-> <<{Acts({}, <<0>>, {"bombs"})}, {Nothing}>>,
     start |-> Only(Acts({"timer"}, <<1>>, {"bombs"}))])
E_BMT_Lucid == Battle({Later({"start"})},
    <<Only(Does({"prize", "win"}))>>,
    [start |-> Only(Acts({"timer"}, <<1>>, {}))])
E_BMT_Magnus == Battle({Later({"start"})},
    <<Only(To(2, Does({"prize", "win"})))>>,
    [demon |-> <<{Later({"demon"}), Acts({}, <<0, 0>>, {"demon"})}, {Nothing}>>,
     start |-> Only(Acts({"timer"}, <<1>>, {"demon"}))])
E_BMT_Ramuramu == Battle({Later({"start"})},
    <<Only(Does({"prize", "win"}))>>,
    [start |-> Only(Acts({"timer"}, <<1>>, {}))])
E_BMT_Riverson == Battle({Later({"start"})},
    <<Only(Does({"prize", "win"}))>>,
    [start |-> Only(Acts({"timer"}, <<1>>, {}))])
E_BMT_Seren == Battle({Later({"start"})},
    <<Only(Does({"prize", "win"}))>>,
    [start |-> Any({Does({"timer"}), Acts({"timer"}, <<1>>, {})})])
E_BMT_Slime == Battle({Later({"start"})},
    <<Only(Does({"prize", "win"}))>>,
    [start |-> Only(Acts({"timer"}, <<1>>, {}))])
E_BMT_Tree == Battle({Later({"start"})},
    <<Only(Does({"prize", "win"}))>>,
    [start |-> Only(Acts({"timer"}, <<1>>, {}))])
E_BMT_Vellum == Battle({Later({"start"})},
    <<Only(Does({"prize", "win"}))>>,
    [start |-> Only(Acts({"timer"}, <<0, 0, 1>>, {}))])
E_BMT_Von_Leon == Battle({Later({"start"})},
    <<<<{Later({"anni"})}, {Nothing}>>, Only(To(2, Does({"prize", "win"})))>>,
    [anni |-> <<{Spawns(<<1>>)}, {Nothing}>>, start |-> Only(Acts({"timer"}, <<2>>, {"anni"}))])
E_BMT_Will == Battle({Later({"start"})},
    <<Only(To(2, Does({"prize", "win"})))>>,
    [bomb |-> <<{Later({"bomb"}), Acts({}, <<0>>, {"bomb"})}, {Nothing}>>,
     start |-> Only(Acts({"timer"}, <<0, 1>>, {"bomb"}))])
E_BlackBean == Battle({Later({"start"})},
    <<<<{Spawns(<<1>>)}, {Nothing}>>, Only(To(2, Does({"win"})))>>,
    [bean |-> <<{Later({"bean"}), Acts({}, <<0, 0>>, {"bean"})}, {Nothing}>>,
     start |-> Only(Acts({"timer"}, <<1, 1, 2>>, {"bean"}))])
E_BlackBeanKaotic == Battle({Later({"start"})},
    <<<<{Spawns(<<1>>)}, {Nothing}>>, Only(To(2, Does({"prize", "win"})))>>,
    [bean |-> <<{Later({"bean"}), Acts({}, <<0, 0>>, {"bean"})}, {Nothing}>>,
     start |-> Only(Acts({"timer"}, <<1, 1, 2>>, {"bean"}))])
E_Blake == [Battle({Acts({"clock"}, <<>>, {"start"})},
    <<<<{Acts({"prize"}, <<4>>, {})}, {Nothing}>>,
      <<{Acts({"prize"}, <<7>>, {})}, {Nothing}>>,
      <<{Acts({"prize"}, <<8>>, {})}, {Nothing}>>,
      <<{Acts({"prize"}, <<2>>, {})}, {Nothing}>>,
      <<{Acts({"prize"}, <<3>>, {})}, {Nothing}>>,
      Only(To(2, Does({"prize", "win"}))),
      <<{Acts({"prize"}, <<5>>, {})}, {Nothing}>>,
      <<{Acts({"prize"}, <<6>>, {})}, {Nothing}>>>>,
    [start |-> Only(Acts({"timer"}, <<1>>, {}))])
  EXCEPT !.disbandParty = Only(Nothing), !.leftParty = Only(Nothing)]
E_Blake_JR == [Battle({Acts({"clock"}, <<>>, {"start"})},
    <<<<{Acts({"prize"}, <<4>>, {})}, {Nothing}>>,
      <<{Acts({"prize"}, <<7>>, {})}, {Nothing}>>,
      <<{Acts({"prize"}, <<8>>, {})}, {Nothing}>>,
      <<{Acts({"prize"}, <<2>>, {})}, {Nothing}>>,
      <<{Acts({"prize"}, <<3>>, {})}, {Nothing}>>,
      Only(To(2, Does({"prize", "win"}))),
      <<{Acts({"prize"}, <<5>>, {})}, {Nothing}>>,
      <<{Acts({"prize"}, <<6>>, {})}, {Nothing}>>>>,
    [start |-> Only(Acts({"timer"}, <<1>>, {}))])
  EXCEPT !.disbandParty = Only(Nothing), !.leftParty = Only(Nothing)]
E_BossPQ == [Battle({Acts({"clock"}, <<>>, {"start"})},
    <<Any({Spawns(<<1>>), Spawns(<<2>>)}), Only(Does({"prize", "win"}))>>,
    [start |-> Only(Acts({"timer"}, <<1>>, {}))])
  EXCEPT !.disbandParty = Only(Nothing), !.leftParty = Only(Nothing)]
E_BossPQ_Kaotic == [Battle({Acts({"clock"}, <<>>, {"start"})},
    <<<<{Nothing, To(2, Does({"prize", "win"}))}, {Nothing}>>>>,
    [bombs |-> <<{Acts({}, <<0, 0>>, {"bombs"}), Acts({}, <<0, 0, 1, 1>>, {"bombs"})},
         {Nothing}>>,
     start |-> Only(Acts({"timer"}, <<0>>, {"bombs"}))])
  EXCEPT !.disbandParty = Only(Nothing),
         !.leftParty = Only(Nothing),
         !.other = <<{Nothing, Spawns(<<0>>), To(2, Does({"prize", "win"}))}, {Nothing,
             Spawns(<<0>>)}>>]
E_Boss_Gollux == [Battle({Acts({"timer"}, <<0, 0, 1>>, {})},
    <<Only(Spawns(<<2>>)), Only(Spawns(<<3>>)), Only(Does({"prize", "win"}))>>,
    <<>>)
  EXCEPT !.disbandParty = Only(Nothing),
         !.leftParty = Only(Nothing),
         !.playerRevive = Any({Nothing, Does({"leave"})})]
E_Boss_Grove == [Battle({Acts({"clock"}, <<>>, {"start"})},
    <<Only(Does({"prize", "win"}))>>,
    [start |-> Only(Acts({"timer"}, <<1>>, {}))])
  EXCEPT !.disbandParty = Only(Nothing), !.leftParty = Only(Nothing)]
E_Comm_will == [Battle({Later({"start"})},
    <<Only(To(1, Does({"win"}))), <<{Nothing}, {Later({"boss1", "will"})}>>>>,
    [bombs |-> <<{Nothing}, {Acts({}, <<0, 0>>, {"bombs"})}>>,
     boss |-> <<{Nothing}, {Later({"boss"}), Acts({}, <<0>>, {"boss"})}>>,
     boss1 |-> <<{Nothing}, {Spawns(<<2>>)}>>,
     start |-> Only(To(2, Acts({"timer"}, <<0, 0, 1>>, {"bombs", "boss", "boss1"}))),
     will |-> <<{Nothing}, {Spawns(<<0>>)}>>])
  EXCEPT !.allMonstersDead = Only(Does({"win"}))]
E_DPBattle == Battle({Later({"start"})},
    <<Only(Does({"win"}))>>,
    [start |-> Only(Acts({"timer"}, <<1>>, {}))])
E_DP_Endless == [Battle({Does({"timer"})}, <<>>, <<>>)
  EXCEPT !.afterChangedMap = <<{Nothing, To(2, Acts({"wipe"}, <<0, 0>>, {}))}, {Nothing}>>]
E_DP_Endless_Boss == [Battle({Does({"timer"})}, <<Only(Does({"prize"}))>>, <<>>)
  EXCEPT !.afterChangedMap = <<{Nothing, To(2, Acts({"wipe"}, <<0, 0>>, {}))}, {Nothing}>>,
         !.wild = {1}]
E_DP_Endless_Elite == [Battle({Does({"timer"})}, <<>>, <<>>)
  EXCEPT !.afterChangedMap = <<{Nothing, To(2, Acts({"wipe"}, <<0, 0>>, {}))}, {Nothing}>>]
E_DP_Endless_Super == [Battle({Does({"timer"})}, <<>>, <<>>)
  EXCEPT !.afterChangedMap = <<{Nothing, To(2, Acts({"wipe"}, <<0, 0>>, {}))}, {Nothing}>>]
E_DP_Event == Battle({Later({"start"})},
    <<>>,
    [start |-> Only(Acts({"timer"}, <<>>, {"waves"})),
     waves |-> Any({Nothing, Later({"waves"}), Acts({}, <<0, 0>>, {"waves"})})])
E_DP_Event_Kaotic == Battle({Later({"start"})},
    <<>>,
    [start |-> Only(Acts({"timer"}, <<>>, {"waves"})),
     waves |-> Any({Nothing, Later({"waves"}), Acts({}, <<0, 0>>, {"waves"})})])
E_DP_Event_Super == Battle({Later({"start"})},
    <<>>,
    [start |-> Only(Acts({"timer"}, <<>>, {"waves"})),
     waves |-> Any({Nothing, Later({"waves"}), Acts({}, <<0, 0>>, {"waves"})})])
E_Darknell == Battle({Later({"start"})},
    <<<<{Nothing}, {Spawns(<<1>>)}>>, Only(To(1, Does({"win"})))>>,
    [bombs |-> <<{Nothing}, {Acts({}, <<0, 0>>, {"bombs"})}>>,
     start |-> Only(To(2, Acts({"timer"}, <<1, 1, 2>>, {"bombs"})))])
E_Dojo == [Battle({Acts({"timer"}, <<1, 1, 2>>, {})},
    <<<<{Nothing, To(2, Spawns(<<0, 0>>))}, {Nothing}>>, Only(Does({"prize", "win"}))>>,
    <<>>)
  EXCEPT !.disbandParty = Only(Nothing), !.leftParty = Only(Nothing)]
E_EP_Endless == [Battle({Does({"timer"})}, <<Only(Does({"prize"}))>>, <<>>)
  EXCEPT !.afterChangedMap = <<{Nothing, To(2, Nothing), To(2, Acts({"wipe"}, <<0, 0>>, {}))},
             {Nothing}>>,
         !.wild = {1}]
E_EP_Endless_Boss == [Battle({Does({"timer"})}, <<>>, <<>>)
  EXCEPT !.afterChangedMap = <<{Nothing, To(2, Nothing), To(2, Acts({"wipe"}, <<0, 0>>, {}))},
             {Nothing}>>]
E_EP_Endless_Elite == [Battle({Does({"timer"})}, <<Only(Does({"prize"}))>>, <<>>)
  EXCEPT !.afterChangedMap = <<{Nothing, To(2, Nothing), To(2, Acts({"wipe"}, <<0, 0>>, {}))},
             {Nothing}>>,
         !.wild = {1}]
E_EP_Endless_Super == [Battle({Does({"timer"})}, <<Only(Does({"prize"}))>>, <<>>)
  EXCEPT !.afterChangedMap = <<{Nothing, To(2, Nothing), To(2, Acts({"wipe"}, <<0, 0>>, {}))},
             {Nothing}>>,
         !.wild = {1}]
E_Elite == [Battle({Acts({"clock"}, <<>>, {"start"})},
    <<>>,
    [start |-> Only(Acts({"timer"}, <<0>>, {}))])
  EXCEPT !.disbandParty = Only(Nothing),
         !.leftParty = Only(Nothing),
         !.other = Any({Does({"win"}), Does({"prize", "win"})})]
E_Elite2 == [Battle({Acts({"clock"}, <<>>, {"start"})},
    <<>>,
    [start |-> Only(Acts({"timer"}, <<0>>, {}))])
  EXCEPT !.disbandParty = Only(Nothing),
         !.leftParty = Only(Nothing),
         !.other = Any({Does({"win"}), Does({"prize", "win"})})]
E_EliteKaotic == [Battle({Acts({"clock"}, <<>>, {"start"})},
    <<>>,
    [start |-> Only(Acts({"timer"}, <<0>>, {}))])
  EXCEPT !.disbandParty = Only(Nothing),
         !.leftParty = Only(Nothing),
         !.other = Only(Does({"win"}))]
E_Empress == [Battle({Later({"start"})},
    <<Only(To(2, Does({"prize", "win"})))>>,
    [boss |-> <<{Later({"boss"}), Acts({}, <<0, 0>>, {"boss"})}, {Nothing}>>,
     mob |-> <<{Later({"mob"}), Acts({}, <<0, 0>>, {"mob"})}, {Nothing}>>,
     start |-> Only(Acts({"timer"}, <<0, 0, 1>>, {"boss", "mob"}))])
  EXCEPT !.disbandParty = Only(Nothing), !.leftParty = Only(Nothing)]
E_End_Farm == Battle({Later({"start"})},
    <<>>,
    [start |-> Only(Acts({"timer"}, <<0, 0>>, {"waves"})),
     waves |-> Any({Nothing, Later({"waves"}), Acts({}, <<0, 0>>, {"waves"})})])
E_EventBattle == Battle({Acts({"clock"}, <<>>, {"start"})},
    <<>>,
    [start |-> Only(Acts({"timer"}, <<>>, {"waves"})),
     waves |-> Any({Nothing, Later({"waves"}), Acts({}, <<0, 0>>, {"waves"})})])
E_EventBattleFree == Battle({Acts({"clock"}, <<>>, {"start"})},
    <<>>,
    [start |-> Only(Acts({"timer"}, <<>>, {"waves"})),
     waves |-> Any({Nothing, Later({"waves"}), Acts({}, <<0, 0>>, {"waves"})})])
E_Event_Kaotic == Battle({Later({"start"})},
    <<>>,
    [start |-> Only(Acts({"timer"}, <<>>, {"waves"})),
     waves |-> Any({Nothing, Later({"waves"}), Acts({}, <<0, 0>>, {"waves"})})])
E_Evil_Hilla == Battle({Later({"start"})},
    <<<<{Later({"necro_dem"})}, {Nothing}>>,
      <<{Later({"necro_lotus"})}, {Nothing}>>,
      Only(To(2, Does({"win"})))>>,
    [bombs |-> <<{Acts({}, <<0, 0>>, {"bombs"})}, {Nothing}>>,
     necro_dem |-> <<{Spawns(<<1>>)}, {Nothing}>>,
     necro_lotus |-> <<{Spawns(<<2>>)}, {Nothing}>>,
     start |-> Only(Acts({"timer"}, <<1, 2, 3>>, {"bombs"}))])
E_HPQ == Battle({Acts({"timer"}, <<1, 2>>, {})},
    <<Only(To(2, Does({"prize", "win"}))),
      Only(Acts({}, <<3>>, {"bomb"})),
      Only(Spawns(<<4>>)),
      Only(Spawns(<<5>>)),
      Only(Spawns(<<6>>)),
      Only(Spawns(<<7>>)),
      Only(Spawns(<<0>>))>>,
    [bomb |-> <<{Later({"bomb"}), Acts({}, <<0, 0>>, {"bomb"})}, {Nothing}>>])
E_Hazard == [Battle({Acts({"clock"}, <<>>, {"start"})},
    <<Only(To(2, Does({"prize", "win"}))), <<{Spawns(<<2>>)}, {Nothing}>>>>,
    [start |-> Only(Acts({"timer"}, <<1, 2, 2>>, {}))])
  EXCEPT !.disbandParty = Only(Nothing), !.leftParty = Only(Nothing)]
E_HorntailBoss == [Battle({Acts({"timer"}, <<>>, {"left", "right"})},
    <<Only(Moves(<<1, 2, 3, 1, 3>>, Nothing)),
      Only(Moves(<<1, 2, 1, 4, 4>>, Nothing)),
      Only(To(2, Does({"prize", "win"})))>>,
    [left |-> <<{Moves(<<3, 2, 3, 5, 5>>, Acts({}, <<0>>, {"left"}))}, {Nothing},
         {Later({"left"})}, {Moves(<<3, 2, 3, 5, 5>>, Acts({}, <<0>>, {"left"}))},
         {Later({"left"})}>>,
     right |-> <<{Moves(<<4, 2, 5, 4, 5>>, Acts({}, <<0>>, {"right"}))}, {Nothing},
         {Moves(<<4, 2, 5, 4, 5>>, Acts({}, <<0>>, {"right"}))}, {Later({"right"})},
         {Later({"right"})}>>])
  EXCEPT !.wild = {1, 2, 3}]
E_Kaotic_Castle == [Battle({Later({"begin"})}, <<>>, [begin |-> Only(Does({"timer"}))])
  EXCEPT !.disbandParty = Only(Nothing),
         !.leftParty = Only(Nothing),
         !.playerRevive = Only(Nothing),
         !.other = Only(Does({"prize", "win"}))]
E_Kaotic_Castle_Switch == [Battle({Acts({"wipe"}, <<>>, {"begin"})},
    <<>>,
    [begin |-> Only(Does({"timer"}))])
  EXCEPT !.disbandParty = Only(Nothing),
         !.leftParty = Only(Nothing),
         !.playerRevive = Only(Nothing)]
E_Kaotic_Caves == [Battle({Later({"begin"})}, <<>>, [begin |-> Only(Does({"timer"}))])
  EXCEPT !.disbandParty = Only(Nothing),
         !.leftParty = Only(Nothing),
         !.playerRevive = Only(Nothing),
         !.other = Only(Does({"prize", "win"}))]
E_Kaotic_Dojo == [Battle({Acts({"clock"}, <<>>, {"start"}), To(2, Acts({"clock"}, <<>>,
          {"start"}))},
    <<<<{Acts({"prize"}, <<1>>, {}), Acts({"prize"}, <<2>>, {})}, {Spawns(<<1>>),
        Spawns(<<2>>)}>>,
      Only(Does({"prize", "win"}))>>,
    [start |-> Only(Acts({"timer"}, <<1>>, {}))])
  EXCEPT !.disbandParty = Only(Nothing), !.leftParty = Only(Nothing)]
E_Kobold == Battle({Later({"start"})},
    <<<<{Spawns(<<1>>)}, {Nothing}>>, Only(To(2, Does({"win"})))>>,
    [bombs |-> <<{Acts({}, <<0, 0>>, {"bombs"})}, {Nothing}>>,
     randomboss |-> <<{Later({"randomboss"}), Acts({}, <<1, 1>>, {"randomboss"})}, {Nothing}>>,
     start |-> Only(Acts({"timer"}, <<2>>, {"bombs", "randomboss"}))])
E_LMPQ == [Battle({Does({"timer"})}, <<Only(Does({"win"}))>>, <<>>)
  EXCEPT !.disbandParty = Only(Nothing), !.leftParty = Only(Nothing), !.wild = {1}]
E_LMPQ_Solo == [Battle({Does({"timer"})}, <<Only(Does({"win"}))>>, <<>>)
  EXCEPT !.allMonstersKilled = <<{To(2, Spawns(<<0>>))}, {Nothing}>>,
         !.disbandParty = Only(Nothing),
         !.leftParty = Only(Nothing),
         !.wild = {1}]
E_LMPQ_Solo_Hard == [Battle({Does({"timer"})}, <<Only(Does({"win"}))>>, <<>>)
  EXCEPT !.allMonstersKilled = <<{To(2, Spawns(<<0>>))}, {Nothing}>>,
         !.disbandParty = Only(Nothing),
         !.leftParty = Only(Nothing),
         !.wild = {1}]
E_LucidPQ == [Battle({Does({"timer"}), Acts({"timer"}, <<1>>, {})},
    <<Only(To(3, Does({"prize", "win"})))>>,
    [bomb |-> <<{Nothing}, {Later({"bomb"}), Acts({}, <<0, 0>>, {"bomb"})}, {Nothing},
         {Nothing}>>])
  EXCEPT !.afterChangedMap = <<{Nothing, Moves(<<2, 2, 4, 4>>, Later({"bomb"}))}, {Nothing},
             {Nothing, Moves(<<2, 2, 4, 4>>, Later({"bomb"}))}, {Nothing}>>]
E_Lucid_Farm == Battle({Later({"start"})},
    <<>>,
    [start |-> Only(Acts({"timer"}, <<0, 0>>, {"waves"})),
     waves |-> Any({Nothing, Later({"waves"}), Acts({}, <<0, 0>>, {"waves"})})])
E_MD_event_cake == [Battle({Does({"timer"})}, <<>>, <<>>)
  EXCEPT !.disbandParty = Only(Nothing), !.leftParty = Only(Does({"out"}))]
E_MD_event_drakeroom == [Battle({Does({"timer"})}, <<>>, <<>>)
  EXCEPT !.disbandParty = Only(Nothing)]
E_MD_event_error == [Battle({Does({"timer"})}, <<>>, <<>>)
  EXCEPT !.disbandParty = Only(Nothing)]
E_MD_event_golem == [Battle({Does({"timer"})}, <<>>, <<>>)
  EXCEPT !.disbandParty = Only(Nothing)]
E_MD_event_high == [Battle({Does({"timer"})}, <<>>, <<>>)
  EXCEPT !.disbandParty = Only(Nothing)]
E_MD_event_mushroom == [Battle({Does({"timer"})}, <<>>, <<>>)
  EXCEPT !.disbandParty = Only(Nothing)]
E_MD_event_pig == [Battle({Does({"timer"})}, <<>>, <<>>)
  EXCEPT !.disbandParty = Only(Nothing)]
E_MD_event_protect == [Battle({Does({"timer"})}, <<>>, <<>>)
  EXCEPT !.disbandParty = Only(Nothing)]
E_MD_event_rabbit == [Battle({Does({"timer"})}, <<>>, <<>>)
  EXCEPT !.disbandParty = Only(Nothing)]
E_MD_event_remember == [Battle({Does({"timer"})}, <<>>, <<>>)
  EXCEPT !.disbandParty = Only(Nothing)]
E_MD_event_roundTable == [Battle({Does({"timer"})}, <<>>, <<>>)
  EXCEPT !.disbandParty = Only(Nothing)]
E_MD_event_sand == [Battle({Does({"timer"})}, <<>>, <<>>)
  EXCEPT !.disbandParty = Only(Nothing)]
E_MD_event_treasure == [Battle({Does({"timer"})}, <<>>, <<>>)
  EXCEPT !.disbandParty = Only(Nothing)]
E_MP_Daily == [Battle({Acts({"wipe", "timer"}, <<0, 0>>, {})},
    <<Only(Does({"prize", "win"}))>>,
    <<>>)
  EXCEPT !.wild = {1}]
E_MP_Easy == Battle({Acts({"timer"}, <<0, 0>>, {})}, <<>>, <<>>)
E_MP_Endless == [Battle({Acts({"wipe", "timer"}, <<0, 0>>, {})},
    <<<<{To(2, Does({"prize", "win"}))}, {Nothing}>>, Only(Spawns(<<1>>))>>,
    <<>>)
  EXCEPT !.changedMap = Only(Nothing), !.wild = {2}]
E_MP_Endless_End == [Battle({Acts({"wipe", "timer"}, <<0, 0>>, {})},
    <<<<{Nothing, To(2, Does({"prize", "win"}))}, {Nothing}>>>>,
    <<>>)
  EXCEPT !.wild = {1}]
E_MP_Endless_Farm == [Battle({Acts({"wipe", "timer"}, <<0, 0>>, {})},
    <<<<{To(2, Does({"prize", "win"}))}, {Nothing}>>>>,
    <<>>)
  EXCEPT !.changedMap = Only(Nothing), !.wild = {1}]
E_MP_Endless_Job == [Battle({Acts({"wipe", "timer"}, <<0, 0>>, {})},
    <<Only(Does({"prize"}))>>,
    <<>>)
  EXCEPT !.wild = {1}]
E_MP_Endless_Job2 == [Battle({Acts({"wipe", "timer"}, <<0, 0>>, {})},
    <<Only(Does({"prize", "win"}))>>,
    <<>>)
  EXCEPT !.wild = {1}]
E_MP_Endless_Mission == [Battle({Acts({"wipe", "timer"}, <<0, 0>>, {})},
    <<<<{Does({"prize"}), To(2, Does({"prize", "win"}))}, {Nothing}>>>>,
    <<>>)
  EXCEPT !.wild = {1}]
E_MP_Endless_Reward == [Battle({Acts({"wipe", "timer"}, <<0, 0>>, {})},
    <<Only(Does({"prize"}))>>,
    <<>>)
  EXCEPT !.wild = {1}]
E_MP_Hard == Battle({Acts({"timer"}, <<0, 0>>, {})}, <<>>, <<>>)
E_MP_Hell == Battle({Acts({"timer"}, <<0, 0>>, {})}, <<>>, <<>>)
E_MP_Kaotic_Easy == Battle({Acts({"timer"}, <<0, 0>>, {})}, <<>>, <<>>)
E_MP_Kaotic_Giga == Battle({Acts({"timer"}, <<0, 0>>, {})}, <<>>, <<>>)
E_MP_Kaotic_Hard == Battle({Acts({"timer"}, <<0, 0>>, {})}, <<>>, <<>>)
E_MP_Kaotic_Hell == Battle({Acts({"timer"}, <<0, 0>>, {})}, <<>>, <<>>)
E_MP_Kaotic_Kaotic == Battle({Acts({"timer"}, <<0, 0>>, {})}, <<>>, <<>>)
E_MP_Kaotic_Normal == Battle({Acts({"timer"}, <<0, 0>>, {})}, <<>>, <<>>)
E_MP_Kaotic_Super == Battle({Acts({"timer"}, <<0, 0>>, {})}, <<>>, <<>>)
E_MP_Master == Battle({Acts({"timer"}, <<1>>, {})},
    <<Only(Does({"prize", "win"}))>>,
    <<>>)
E_MP_Mega_Easy == Battle({Acts({"timer"}, <<0, 0>>, {})}, <<>>, <<>>)
E_MP_Mega_Hard == Battle({Acts({"timer"}, <<0, 0>>, {})}, <<>>, <<>>)
E_MP_Mega_Kaotic == Battle({Acts({"timer"}, <<0, 0>>, {})}, <<>>, <<>>)
E_MP_Mega_Normal == Battle({Acts({"timer"}, <<0, 0>>, {})}, <<>>, <<>>)
E_MP_Mega_Super == Battle({Acts({"timer"}, <<0, 0>>, {})}, <<>>, <<>>)
E_MP_Normal == Battle({Acts({"timer"}, <<0, 0>>, {})}, <<>>, <<>>)
E_MP_Soul_Easy == Battle({Acts({"timer"}, <<0, 0>>, {})}, <<>>, <<>>)
E_MP_Soul_Hard == Battle({Acts({"timer"}, <<0, 0>>, {})}, <<>>, <<>>)
E_MP_Soul_Normal == Battle({Acts({"timer"}, <<0, 0>>, {})}, <<>>, <<>>)
E_Master_Dojo == [Battle({Acts({"timer"}, <<0, 0, 1>>, {})},
    <<Only(Does({"prize", "win"}))>>,
    <<>>)
  EXCEPT !.disbandParty = Only(Nothing), !.leftParty = Only(Nothing)]
E_Moonbridge == Battle({Later({"start"})},
    <<Only(Spawns(<<2>>)),
      Only(Spawns(<<3>>)),
      Only(Spawns(<<4>>)),
      Only(Spawns(<<5>>)),
      Only(To(2, Does({"win"})))>>,
    [bean |-> <<{Later({"bean"}), Acts({}, <<0, 0>>, {"bean"})}, {Nothing}>>,
     bean2 |-> <<{Later({"bean2"}), Acts({}, <<0, 0>>, {"bean2"})}, {Nothing}>>,
     bomb |-> <<{Later({"bomb"}), Acts({}, <<0, 0>>, {"bomb"})}, {Nothing}>>,
     start |-> Only(Acts({"timer"}, <<1>>, {"bean", "bean2", "bomb"}))])
E_adv_dung == [Battle({Does({"timer"})}, <<>>, [bomb |-> <<{Later({"bomb"})}, {Nothing}>>])
  EXCEPT !.disbandParty = Only(Nothing),
         !.leftParty = Only(Nothing),
         !.playerEntry = Only(Later({"bomb"})),
         !.scheduledTimeout = Only(To(2, Does({"out"})))]
E_ark2_battle == Battle({Acts({"timer"}, <<1>>, {"waves"})},
    <<Only(To(2, Does({"win"})))>>,
    [waves |-> <<{Later({"waves"}), Acts({}, <<0, 0>>, {"waves"})}, {Nothing}>>])
E_ark2_battle_kaotic == Battle({Acts({"timer"}, <<1>>, {"waves"})},
    <<Only(To(2, Does({"prize", "win"})))>>,
    [waves |-> <<{Later({"waves"}), Acts({}, <<0, 0>>, {"waves"})}, {Nothing}>>])
E_arma_battle == [Battle({Does({"timer"})}, <<Only(Does({"win"}))>>, <<>>)
  EXCEPT !.wild = {1}]
E_battle_capt == Battle({Acts({"timer"}, <<1>>, {})}, <<Only(Does({"win"}))>>, <<>>)
E_bellDoor == [Battle({Acts({"timer"}, <<0>>, {})}, <<>>, <<>>)
  EXCEPT !.allMonstersDead = Only(Does({"win"}))]
E_blackHeaven_boss == Battle({Acts({"timer"}, <<>>, {"bombs", "start"})},
    <<Only(Later({"boss1"})), Only(To(2, Does({"prize", "win"})))>>,
    [bombs |-> <<{Acts({}, <<0, 0>>, {"bombs"})}, {Nothing}>>,
     boss |-> <<{Nothing, Acts({}, <<0, 0>>, {"boss"})}, {Nothing}>>,
     boss1 |-> <<{Nothing, Acts({}, <<0>>, {"boss1"})}, {Nothing}>>,
     start |-> Only(Acts({}, <<0, 1, 2>>, {"boss"}))])
E_boss_Hundun == [Battle({Acts({"timer"}, <<1>>, {})}, <<Only(Does({"win"}))>>, <<>>)
  EXCEPT !.allMonstersDead = Only(Does({"win"}))]
E_boss_Hundun_Dark == [Battle({Acts({"timer"}, <<1>>, {})}, <<Only(Does({"win"}))>>, <<>>)
  EXCEPT !.allMonstersDead = Only(Does({"win"}))]
E_boss_Qiongqi == [Battle({Acts({"timer"}, <<1>>, {})}, <<Only(Does({"win"}))>>, <<>>)
  EXCEPT !.allMonstersDead = Only(Does({"win"}))]
E_boss_Qiongqi_Dark == [Battle({Acts({"timer"}, <<1>>, {})}, <<Only(Does({"win"}))>>, <<>>)
  EXCEPT !.allMonstersDead = Only(Does({"win"}))]
E_boss_Taowu == [Battle({Acts({"timer"}, <<1>>, {})}, <<Only(Does({"win"}))>>, <<>>)
  EXCEPT !.allMonstersDead = Only(Does({"win"}))]
E_boss_Taowu_Dark == [Battle({Acts({"timer"}, <<1>>, {})}, <<Only(Does({"win"}))>>, <<>>)
  EXCEPT !.allMonstersDead = Only(Does({"win"}))]
E_boss_abyss == Battle({Acts({"timer"}, <<1>>, {})},
    <<Only(Does({"prize", "win"}))>>,
    <<>>)
E_boss_angel == [Battle({Acts({"timer"}, <<1>>, {})}, <<Only(Does({"prize", "win"}))>>, <<>>)
  EXCEPT !.allMonstersDead = Only(Does({"win"}))]
E_boss_ape == Battle({Acts({"timer"}, <<1>>, {})}, <<Only(Does({"win"}))>>, <<>>)
E_boss_arcs_mini == [Battle({Acts({"timer"}, <<1>>, {})}, <<Only(Does({"win"}))>>, <<>>)
  EXCEPT !.allMonstersDead = Only(Does({"win"}))]
E_boss_bus == [Battle({Acts({"timer"}, <<1>>, {})}, <<Only(Does({"win"}))>>, <<>>)
  EXCEPT !.allMonstersDead = Only(Does({"win"}))]
E_boss_capo == [Battle({Does({"timer"})}, <<Only(Does({"win"}))>>, <<>>)
  EXCEPT !.allMonstersDead = Only(Does({"win"})), !.wild = {1}]
E_boss_chief == Battle({Acts({"timer"}, <<1>>, {})},
    <<Only(Does({"prize", "win"}))>>,
    <<>>)
E_boss_fatal == [Battle({Acts({"timer"}, <<1>>, {})}, <<Only(Does({"win"}))>>, <<>>)
  EXCEPT !.allMonstersDead = Only(Does({"win"}))]
E_boss_fire == [Battle({Acts({"timer"}, <<1>>, {})}, <<Only(Does({"win"}))>>, <<>>)
  EXCEPT !.allMonstersDead = Only(Does({"win"}))]
E_boss_flora_leader == [Battle({Acts({"timer"}, <<1>>, {})}, <<Only(Does({"win"}))>>, <<>>)
  EXCEPT !.allMonstersDead = Only(Does({"win"}))]
E_boss_gleam == [Battle({Acts({"timer"}, <<1>>, {})}, <<Only(Does({"win"}))>>, <<>>)
  EXCEPT !.allMonstersDead = Only(Does({"win"}))]
E_boss_guard_o == [Battle({Acts({"timer"}, <<1>>, {})}, <<Only(Does({"win"}))>>, <<>>)
  EXCEPT !.allMonstersDead = Only(Does({"win"}))]
E_boss_guard_s == [Battle({Acts({"timer"}, <<1>>, {})}, <<Only(Does({"win"}))>>, <<>>)
  EXCEPT !.allMonstersDead = Only(Does({"win"}))]
E_boss_guide == Battle({Acts({"timer"}, <<1>>, {})}, <<Only(Does({"win"}))>>, <<>>)
E_boss_ice == [Battle({Acts({"timer"}, <<1>>, {})}, <<Only(Does({"win"}))>>, <<>>)
  EXCEPT !.allMonstersDead = Only(Does({"win"}))]
E_boss_kaling == Battle({Acts({"timer"}, <<1>>, {"start"})},
    <<Only(Spawns(<<2>>)), Only(To(2, Does({"prize", "win"})))>>,
    [bombs |-> <<{Acts({}, <<0>>, {"bombs"}), Does({"lose"})}, {Nothing}>>,
     start |-> Only(Later({"bombs"}))])
E_boss_kalos == Battle({Acts({"timer"}, <<1>>, {"bombs"})},
    <<Only(Spawns(<<2>>)), Only(To(2, Does({"prize", "win"})))>>,
    [bombs |-> <<{Nothing, Acts({}, <<0>>, {"bombs"})}, {Nothing}>>])
E_boss_limbo == Battle({Acts({"timer"}, <<1>>, {})}, <<Only(Does({"win"}))>>, <<>>)
E_boss_limbo_solo == Battle({Acts({"timer"}, <<1>>, {})}, <<Only(Does({"win"}))>>, <<>>)
E_boss_lost == [Battle({Acts({"timer"}, <<1>>, {})}, <<Only(Does({"win"}))>>, <<>>)
  EXCEPT !.allMonstersDead = Only(Does({"win"}))]
E_boss_lotus_art == Battle({Acts({"timer"}, <<1>>, {})},
    <<Only(Acts({}, <<2>>, {"bombs"})),
      Only(Acts({}, <<3>>, {"bombss", "bombsss"})),
      Only(To(2, Does({"prize", "win"})))>>,
    [bombs |-> <<{Acts({}, <<0>>, {"bombs"}), Does({"lose"})}, {Nothing}>>,
     bombss |-> <<{Acts({}, <<0, 0>>, {"bombss"})}, {Nothing}>>,
     bombsss |-> <<{Acts({}, <<0, 0>>, {"bombsss"})}, {Nothing}>>])
E_boss_nerota == [Battle({Acts({"timer"}, <<1>>, {})}, <<Only(Does({"win"}))>>, <<>>)
  EXCEPT !.allMonstersDead = Only(Does({"win"}))]
E_boss_reaper == [Battle({Acts({"timer"}, <<1>>, {})}, <<Only(Does({"win"}))>>, <<>>)
  EXCEPT !.allMonstersDead = Only(Does({"win"}))]
E_boss_reina == [Battle({Acts({"timer"}, <<1>>, {})}, <<Only(Does({"win"}))>>, <<>>)
  EXCEPT !.allMonstersDead = Only(Does({"win"}))]
E_boss_riverson == [Battle({Does({"timer"})}, <<Only(Does({"win"}))>>, <<>>)
  EXCEPT !.allMonstersDead = Only(Does({"win"})), !.wild = {1}]
E_boss_scarecrow == [Battle({Acts({"timer"}, <<1>>, {})}, <<Only(Does({"win"}))>>, <<>>)
  EXCEPT !.allMonstersDead = Only(Does({"win"}))]
E_boss_sellas_mega == [Battle({Acts({"timer"}, <<1>>, {})}, <<Only(Does({"win"}))>>, <<>>)
  EXCEPT !.allMonstersDead = Only(Does({"win"}))]
E_boss_seren_bright == [Battle({Acts({"timer"}, <<1>>, {})}, <<Only(Does({"win"}))>>, <<>>)
  EXCEPT !.allMonstersDead = Only(Does({"win"}))]
E_boss_seren_dark == [Battle({Acts({"timer"}, <<1>>, {})}, <<Only(Does({"win"}))>>, <<>>)
  EXCEPT !.allMonstersDead = Only(Does({"win"}))]
E_boss_seren_holy == [Battle({Acts({"timer"}, <<1>>, {})}, <<Only(Does({"win"}))>>, <<>>)
  EXCEPT !.allMonstersDead = Only(Does({"win"}))]
E_boss_sheriff == [Battle({Acts({"timer"}, <<1>>, {})}, <<Only(Does({"win"}))>>, <<>>)
  EXCEPT !.allMonstersDead = Only(Does({"win"}))]
E_boss_spire == [Battle({Acts({"timer"}, <<1>>, {})}, <<Only(Does({"win"}))>>, <<>>)
  EXCEPT !.allMonstersDead = Only(Does({"win"}))]
E_boss_zoolen_final == [Battle({Acts({"timer"}, <<1>>, {})}, <<Only(Does({"win"}))>>, <<>>)
  EXCEPT !.allMonstersDead = Only(Does({"win"}))]
E_boss_zoolen_mini == [Battle({Acts({"timer"}, <<1>>, {})}, <<Only(Does({"win"}))>>, <<>>)
  EXCEPT !.allMonstersDead = Only(Does({"win"}))]
E_fairyBoss == Battle({Does({"timer"})}, <<>>, <<>>)
E_kaotic_instance == [Battle({Does({"timer"})}, <<>>, <<>>)
  EXCEPT !.disbandParty = Only(Nothing)]
E_lucid_boss == Battle({Later({"start"})},
    <<Only(Moves(<<2, 2, 3, 3>>, Nothing)),
      Only(Moves(<<1, 1, 4, 4>>, Does({"win"}))),
      Only(Moves(<<1, 2, 2, 1>>, Later({"boss"})))>>,
    [boss |-> <<{Nothing}, {Moves(<<4, 3, 3, 4>>, Spawns(<<3>>))}, {Nothing}, {Nothing}>>,
     boss1 |-> <<{Nothing}, {Later({"boss1"}), Acts({}, <<0>>, {"boss1"})}, {Later({"boss1"}),
         Acts({}, <<0>>, {"boss1"})}, {Nothing}>>,
     start |-> Only(Moves(<<2, 2, 3, 3>>, Acts({"timer"}, <<0, 1, 2>>, {"boss", "boss1"})))])
E_magnusDoor == Battle({Later({"start"})},
    <<Only(Does({"prize", "win"}))>>,
    [start |-> Only(Acts({"timer"}, <<1>>, {}))])

EventScriptsA == {
    E_APQ, E_Ark_Battle, E_BGC_Aragami, E_BGC_Asura, E_BGC_Atilla, E_BGC_Butcher,
    E_BGC_Khan, E_BMPQ, E_BMT_Aragami, E_BMT_Ark, E_BMT_Asura, E_BMT_Atilla,
    E_BMT_Black_Bean, E_BMT_Butcher, E_BMT_Capo, E_BMT_CommanderWill, E_BMT_Damien,
    E_BMT_Darknell, E_BMT_Empress, E_BMT_Grand_Ape, E_BMT_Hilla, E_BMT_Horseman,
    E_BMT_Kaling, E_BMT_Kalos, E_BMT_Khan, E_BMT_Kobold, E_BMT_Limbo_Hard, E_BMT_Limbo,
    E_BMT_Lotus_Hard, E_BMT_Lotus, E_BMT_Lucid, E_BMT_Magnus, E_BMT_Ramuramu,
    E_BMT_Riverson, E_BMT_Seren, E_BMT_Slime, E_BMT_Tree, E_BMT_Vellum, E_BMT_Von_Leon,
    E_BMT_Will, E_BlackBean, E_BlackBeanKaotic, E_Blake, E_Blake_JR, E_BossPQ,
    E_BossPQ_Kaotic, E_Boss_Gollux, E_Boss_Grove, E_Comm_will, E_DPBattle, E_DP_Endless,
    E_DP_Endless_Boss, E_DP_Endless_Elite, E_DP_Endless_Super, E_DP_Event,
    E_DP_Event_Kaotic, E_DP_Event_Super, E_Darknell, E_Dojo, E_EP_Endless,
    E_EP_Endless_Boss, E_EP_Endless_Elite, E_EP_Endless_Super, E_Elite, E_Elite2,
    E_EliteKaotic, E_Empress, E_End_Farm, E_EventBattle, E_EventBattleFree, E_Event_Kaotic,
    E_Evil_Hilla, E_HPQ, E_Hazard, E_HorntailBoss, E_Kaotic_Castle, E_Kaotic_Castle_Switch,
    E_Kaotic_Caves, E_Kaotic_Dojo, E_Kobold, E_LMPQ, E_LMPQ_Solo, E_LMPQ_Solo_Hard,
    E_LucidPQ, E_Lucid_Farm, E_MD_event_cake, E_MD_event_drakeroom, E_MD_event_error,
    E_MD_event_golem, E_MD_event_high, E_MD_event_mushroom, E_MD_event_pig,
    E_MD_event_protect, E_MD_event_rabbit, E_MD_event_remember, E_MD_event_roundTable,
    E_MD_event_sand, E_MD_event_treasure, E_MP_Daily, E_MP_Easy, E_MP_Endless,
    E_MP_Endless_End, E_MP_Endless_Farm, E_MP_Endless_Job, E_MP_Endless_Job2,
    E_MP_Endless_Mission, E_MP_Endless_Reward, E_MP_Hard, E_MP_Hell, E_MP_Kaotic_Easy,
    E_MP_Kaotic_Giga, E_MP_Kaotic_Hard, E_MP_Kaotic_Hell, E_MP_Kaotic_Kaotic,
    E_MP_Kaotic_Normal, E_MP_Kaotic_Super, E_MP_Master, E_MP_Mega_Easy, E_MP_Mega_Hard,
    E_MP_Mega_Kaotic, E_MP_Mega_Normal, E_MP_Mega_Super, E_MP_Normal, E_MP_Soul_Easy,
    E_MP_Soul_Hard, E_MP_Soul_Normal, E_Master_Dojo, E_Moonbridge, E_adv_dung,
    E_ark2_battle, E_ark2_battle_kaotic, E_arma_battle, E_battle_capt, E_bellDoor,
    E_blackHeaven_boss, E_boss_Hundun, E_boss_Hundun_Dark, E_boss_Qiongqi,
    E_boss_Qiongqi_Dark, E_boss_Taowu, E_boss_Taowu_Dark, E_boss_abyss, E_boss_angel,
    E_boss_ape, E_boss_arcs_mini, E_boss_bus, E_boss_capo, E_boss_chief, E_boss_fatal,
    E_boss_fire, E_boss_flora_leader, E_boss_gleam, E_boss_guard_o, E_boss_guard_s,
    E_boss_guide, E_boss_ice, E_boss_kaling, E_boss_kalos, E_boss_limbo, E_boss_limbo_solo,
    E_boss_lost, E_boss_lotus_art, E_boss_nerota, E_boss_reaper, E_boss_reina,
    E_boss_riverson, E_boss_scarecrow, E_boss_sellas_mega, E_boss_seren_bright,
    E_boss_seren_dark, E_boss_seren_holy, E_boss_sheriff, E_boss_spire, E_boss_zoolen_final,
    E_boss_zoolen_mini, E_fairyBoss, E_kaotic_instance, E_lucid_boss, E_magnusDoor}
==============================================================================
