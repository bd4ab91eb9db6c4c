------------------------------ MODULE NPCTalks1 ------------------------------
(*****************************************************************************)
(* The short scripts 2007.js to 2012028.js of scripts/npc,                   *)
(* one definition for each file: what start() does, what it does in an       *)
(* engine an earlier conversation left (Resume), and the pages.              *)
(*****************************************************************************)
EXTENDS ScriptPages

N2007 == Talk({Ask(1), Mute}, <<Menu({Mute, Warp(Mute)})>>)
N2101 == Talk({Ask(1)}, <<YesNo({Ask(2)}), Says({Warp(Mute)})>>)
N10200 == Resume({Ask(1)}, {Ask(2), Mute, Warp(Mute)}, <<Says({Ask(2)}), YesNo({Warp(Mute)})>>)
N10201 == Resume({Ask(1)}, {Ask(2), Mute, Warp(Mute)}, <<Says({Ask(2)}), YesNo({Warp(Mute)})>>)
N10202 == Resume({Ask(1)}, {Ask(2), Mute, Warp(Mute)}, <<Says({Ask(2)}), YesNo({Warp(Mute)})>>)
N10203 == Resume({Ask(1)}, {Ask(2), Mute, Warp(Mute)}, <<Says({Ask(2)}), YesNo({Warp(Mute)})>>)
N10204 == Resume({Ask(1)}, {Ask(2), Mute, Warp(Mute)}, <<Says({Ask(2)}), YesNo({Warp(Mute)})>>)
N12101 == Talk({Ask(1)}, <<Says({Ask(2)}), Turns({Ask(3)}, {Ask(1)}), Turns({Mute}, {Ask(2)})>>)
N1002001 == Resume({Ask(1)}, {Ask(1), Ask(3), Ask(4), Ask(5)},
    <<YesNo({Ask(2)}), Text({Ask(3), OkBox}), YesNo({OkBox}), YesNo({Ask(3), OkBox}),
      YesNo({Mute})>>)
N1002003 == Resume({Ask(1)}, {Ask(2), Ask(3), Pay(OkBox), Mute},
    <<YesNo({Ask(2)}), YesNo({Ask(3), Pay(OkBox)}), Says({Mute})>>)
N1002004 == Talk({Ask(1)}, <<Says({Ask(2)}), YesNo({Ask(3), Pay(Warp(Mute))}), Says({Mute})>>)
N1002005 == Talk({Window}, <<>>)
N1002101 == Resume({Ask(1)}, {Mute, Warp(Mute)}, <<YesNo({Warp(Mute)})>>)
N1012005 == Talk({Ask(1)}, <<YesNo({Bye})>>)
N1012006 == Talk({Ask(1)},
    <<Menu({Ask(2), Ask(3), OkBox}), Says({Gain(Ask(4))}), YesNo({Gain(Ask(4))}), Says({Mute})>>)
N1012007 == Talk({Ask(1), OkBox}, <<Says({Ask(2), Pay(Ask(2))}), Turns({Mute}, {Mute})>>)
N1012009 == Talk({Window}, <<>>)
N1012102 == Talk({Ask(1)}, <<YesNo({Bye})>>)
N1012105 == Talk({Ask(1)}, <<Says({Ask(2)}), Style({OkBox})>>)
N1012109 == Talk({Ask(1), OkBox}, <<YesNo({Warp(Mute)})>>)
N1012113 == Talk({Warp(Mute)}, <<>>)
N1012114 == Resume({Ask(1)}, {Ask(2), Mute, Pay(Warp(Mute))},
    <<Menu({Ask(2), Pay(Warp(Mute))}), Says({Mute})>>)
N1012115 == Talk({Ask(1), Mute}, <<Says({Mute})>>)
N1012116 == Talk({Ask(1)}, <<Says({Ask(1)})>>)
N1012118 == Resume({Ask(1), Ask(2)}, {Ask(1), Ask(2), Ask(3), Mute, Warp(Mute)},
    <<Menu({Ask(3), Warp(Mute)}), YesNo({Warp(Mute)}), Says({Ask(1), Ask(2)})>>)
N1012119 == Resume({Ask(1), Ask(2)}, {Ask(1), Ask(2), Ask(3), Mute, Warp(Mute)},
    <<Menu({Ask(3), Warp(Mute)}), YesNo({Warp(Mute)}), Says({Ask(1), Ask(2)})>>)
N1012121 == Talk({OkBox}, <<>>)
N1013001 == Talk({Ask(1)}, <<Says({Ask(2)}), Turns({Warp(Mute)}, {Ask(1)})>>)
N1013002 == Talk({Warp(Mute)}, <<>>)
N1013104 == Talk({Gain(Ask(1)), OkBox}, <<Says({Mute})>>)
N1013207 == Resume({Ask(1)}, {Mute, Warp(Mute)}, <<YesNo({Warp(Mute)})>>)
N1022002 == Resume({Ask(1), OkBox}, {OkBox, Mute, Warp(Mute)}, <<YesNo({OkBox, Warp(Mute)})>>)
N1022005 == Talk({Window}, <<>>)
N1022103 == Resume({Ask(1)}, {Mute, Warp(Mute)}, <<YesNo({Warp(Mute)})>>)
N1022105 == Resume({Ask(1)}, {Ask(1), Ask(2), Mute, Warp(Mute)},
    <<Menu({Ask(2), Warp(Mute)}), Says({Ask(1)})>>)
N1022106 == Resume({Ask(1)}, {Ask(1), Ask(2), Mute, Warp(Mute)},
    <<Menu({Ask(2), Warp(Mute)}), Says({Ask(1)})>>)
N1022107 == Talk({OkBox, Gain(OkBox)}, <<>>)
N1032003 == Resume({Ask(1)}, {Mute}, <<Menu({Warp(Mute)})>>)
N1032004 == Talk({Ask(1)}, <<YesNo({Warp(Mute)})>>)
N1032005 == Resume({Ask(1)}, {Ask(2), Ask(3), Mute, Pay(Warp(Mute))},
    <<Says({Ask(2)}), YesNo({Ask(3), Pay(Warp(Mute))}), Says({Mute})>>)
N1032006 == Talk({Window}, <<>>)
N1032007 == Talk({OkBox}, <<>>)
N1032008 == Talk({Ask(1), Ask(2)}, <<Says({Warp(Mute)}), YesNo({Warp(Mute)})>>)
N1032009 == Talk({Ask(1)}, <<YesNo({Warp(Mute)})>>)
N1032102 == Talk({Ask(1)}, <<YesNo({OkBox, Pay(Warp(Mute))})>>)
N1032111 == Talk({OkBox}, <<>>)
N1032113 == Resume({Ask(1)}, {Ask(1), Ask(2), Mute, Warp(Mute)},
    <<Menu({Ask(2), Warp(Mute)}), Says({Ask(1)})>>)
N1032114 == Resume({Ask(1)}, {Ask(1), Ask(2), Mute, Warp(Mute)},
    <<Menu({Ask(2), Warp(Mute)}), Says({Ask(1)})>>)
N1033000 == Talk({Window}, <<>>)
N1033002 == Talk({Shop(Bye)}, <<>>)
N1033103 == Talk({Mute}, <<>>)
N1033104 == Talk({Mute}, <<>>)
N1033105 == Talk({Mute}, <<>>)
N1033106 == Talk({Mute}, <<>>)
N1033110 == Talk({Mute}, <<>>)
N1033112 == Talk({Mute}, <<>>)
N1033200 == Talk({Mute}, <<>>)
N1033201 == Resume({Ask(1)}, {Ask(2), Ask(3), Ask(4), Ask(5), Ask(6), Ask(7), Ask(8), Ask(9),
        Ask(10), Mute, Warp(Mute)},
    <<Says({Ask(2)}), Says({Ask(3)}), Says({Ask(4)}), Says({Ask(5)}), Says({Ask(6)}),
      Says({Ask(7)}), Says({Ask(8)}), Says({Ask(9)}), Says({Ask(10)}), Says({Warp(Mute)})>>)
N1033205 == Talk({Ask(1), Mute}, <<Says({Mute})>>)
N1033206 == Talk({Mute}, <<>>)
N1040000 == Talk({OkBox, Gain(OkBox)}, <<>>)
N1040001 == Talk({OkBox, Gain(OkBox)}, <<>>)
N1043001 == Talk({Warp(Mute), Gain(Warp(Mute))}, <<>>)
N1043002 == Talk({Mute}, <<>>)
N1043003 == Talk({Mute}, <<>>)
N1052004 == Resume({Ask(1)}, {Ask(2), OkBox, Mute}, <<Says({Ask(2)}), Style({OkBox})>>)
N1052005 == Talk({Ask(1)}, <<Says({Ask(2)}), YesNo({OkBox})>>)
N1052006 == Talk({OkBox}, <<>>)
N1052010 == Talk({Warp(Mute), Gain(Warp(Mute))}, <<>>)
N1052011 == Talk({Ask(1)}, <<YesNo({Warp(Mute)})>>)
N1052012 == Talk({Ask(1), Ask(2)}, <<Says({Warp(Mute)}), Menu({Warp(Mute)})>>)
N1052013 == Talk({OkBox}, <<>>)
N1052017 == Talk({Window}, <<>>)
N1052104 == Talk({Ask(1), Mute}, <<Says({Ask(1), Mute})>>)
N1052107 == Talk({Mute}, <<>>)
N1052113 == Resume({Ask(1)}, {Ask(1), Ask(2), Mute, Warp(Mute)},
    <<Menu({Ask(2), Warp(Mute)}), Says({Ask(1)})>>)
N1052114 == Resume({Ask(1)}, {Ask(1), Ask(2), Mute, Warp(Mute)},
    <<Menu({Ask(2), Warp(Mute)}), Says({Ask(1)})>>)
N1052116 == Talk({Shop(Bye)}, <<>>)
N1057001 == Talk({OkBox}, <<>>)
N1061006 == Resume({Ask(1)}, {Mute}, <<Menu({Warp(Mute)})>>)
N1061007 == Talk({Ask(1)}, <<Says({Ask(2)}), YesNo({Warp(Mute)})>>)
N1061008 == Talk({Window}, <<>>)
N1061009 == Talk({OkBox, Mute, Warp(Mute)}, <<>>)
N1061010 == Talk({Ask(1)}, <<YesNo({Warp(Mute)})>>)
N1061016 == Resume({Ask(1)}, {Ask(2), Ask(3), OkBox, Pay(Gain(OkBox)), Mute},
    <<Menu({Ask(2), Ask(3)}), Says({OkBox, Pay(Gain(OkBox))}), Menu({OkBox, Pay(Gain(OkBox))})>>)
N1061017 == Talk({Ask(1)}, <<YesNo({Bye, Warp(Bye)})>>)
N1061018 == Talk({Ask(1)}, <<YesNo({Warp(Mute)})>>)
N1063000 == Talk({Gain(Warp(Mute))}, <<>>)
N1063001 == Talk({Gain(Warp(Mute))}, <<>>)
N1063002 == Talk({Gain(Warp(Mute))}, <<>>)
N1063012 == Talk({OkBox, Mute}, <<>>)
N1063013 == Talk({OkBox, Mute}, <<>>)
N1063016 == Talk({Warp(Mute)}, <<>>)
N1063017 == Talk({Warp(Mute)}, <<>>)
N1072000 == Resume({Ask(1), OkBox, Mute}, {Ask(2), Ask(3), OkBox, Warp(Mute)},
    <<Says({Ask(2)}), Turns({Ask(3)}, {Ask(1), OkBox, Mute}), Accept({OkBox}, {Ask(2)})>>)
N1072001 == Resume({Ask(1), OkBox, Mute}, {Ask(2), Ask(3), OkBox, Warp(Mute)},
    <<Says({Ask(2)}), Turns({Ask(3)}, {Ask(1), OkBox, Mute}), Accept({OkBox}, {Ask(2)})>>)
N1072002 == Talk({Ask(1), OkBox, Mute},
    <<Says({Ask(2)}), Turns({Ask(3)}, {Ask(1), OkBox, Mute}), Accept({OkBox}, {Ask(2)})>>)
N1072004 == Talk({OkBox}, <<>>)
N1072005 == Talk({OkBox}, <<>>)
N1072006 == Talk({OkBox}, <<>>)
N1072007 == Resume({OkBox}, {Gain(Warp(Mute))}, <<>>)
N1072008 == Talk({Ask(1), Ask(2)}, <<Says({Ask(1), Ask(2)}), Says({Warp(Mute)})>>)
N1081001 == Resume({Ask(1)}, {Ask(2), Mute, Warp(Mute)}, <<Says({Ask(2)}), YesNo({Warp(Mute)})>>)
N1091002 == Talk({Shop(Bye)}, <<>>)
N1091004 == Talk({Window}, <<>>)
N1092000 == Talk({OkBox, Warp(Mute)}, <<>>)
N1092016 == Talk({OkBox, Mute}, <<>>)
N1092018 == Resume({Ask(1)}, {OkBox, Gain(OkBox)}, <<Says({OkBox, Gain(OkBox)})>>)
N1092019 == Talk({OkBox}, <<>>)
N1092090 == Talk({Gain(Warp(Mute))}, <<>>)
N1092091 == Talk({Gain(Warp(Mute))}, <<>>)
N1092092 == Talk({Gain(Warp(Mute))}, <<>>)
N1092093 == Talk({Gain(Warp(Mute))}, <<>>)
N1092094 == Talk({Gain(Warp(Mute))}, <<>>)
N1092095 == Talk({Gain(Warp(Mute))}, <<>>)
N1094000 == Talk({OkBox}, <<>>)
N1094002 == Talk({Gain(Ask(1)), Gain(OkBox), Mute}, <<Says({Mute})>>)
N1094003 == Talk({Gain(Ask(1)), Gain(OkBox), Mute}, <<Says({Gain(Ask(1)), Gain(OkBox), Mute})>>)
N1094004 == Talk({Gain(Ask(1)), Gain(OkBox), Mute}, <<Says({Mute})>>)
N1094005 == Talk({Gain(Ask(1)), Gain(OkBox), Mute}, <<Says({Mute})>>)
N1094006 == Talk({Gain(Ask(1)), Gain(OkBox), Mute}, <<Says({Mute})>>)
N1095000 == Resume({Ask(1)}, {Mute, Warp(Mute)}, <<YesNo({Warp(Mute)})>>)
N1095001 == Resume({Ask(1)}, {Ask(1), Ask(2), Mute, Warp(Mute)},
    <<Menu({Ask(2), Warp(Mute)}), Says({Ask(1)})>>)
N1095002 == Resume({Ask(1)}, {Ask(1), Ask(2), Mute, Warp(Mute)},
    <<Menu({Ask(2), Warp(Mute)}), Says({Ask(1)})>>)
N1095003 == Talk({OkBox}, <<>>)
N1096001 == Talk({Ask(1)}, <<Says({Ask(1)})>>)
N1096003 == Resume({Ask(1)}, {Mute}, <<Says({Mute})>>)
N1096005 == Resume({Ask(1)}, {Mute, Warp(Mute)}, <<Says({Warp(Mute)})>>)
N1096010 == Talk({Gain(Ask(1)), Mute}, <<Says({Gain(Ask(1)), Mute})>>)
N1100000 == Talk({Window}, <<>>)
N1100003 == Talk({Warp(Mute)}, <<>>)
N1100007 == Talk({Warp(Mute)}, <<>>)
N1101001 == Talk({OkBox}, <<>>)
N1101008 == Resume({Ask(1)}, {Ask(1), Ask(4), Ask(5)},
    <<Menu({Ask(2), OkBox}), Says({Ask(3)}), Says({Mute}), Menu({Ask(3)}), Menu({Mute})>>)
N1102001 == Talk({Ask(1)}, <<Accept({Warp(Mute)}, {Ask(2)}), Says({Warp(Mute)})>>)
N1102003 == Talk({OkBox}, <<>>)
N1103000 == Talk({Ask(1)}, <<Says({Ask(1)})>>)
N1103002 == Talk({OkBox}, <<>>)
N1103005 == Talk({Warp(Mute)}, <<>>)
N1104002 == Talk({Ask(1)}, <<Says({Mute})>>)
N1104100 == Talk({Ask(1)}, <<Says({Mute})>>)
N1104101 == Talk({Ask(1)}, <<Says({Mute})>>)
N1104102 == Talk({Ask(1)}, <<Says({Mute})>>)
N1104103 == Talk({Ask(1)}, <<Says({Mute})>>)
N1104104 == Talk({Ask(1)}, <<Says({Mute})>>)
N1104200 == Talk({Mute, Warp(Mute)}, <<>>)
N1200000 == Talk({Window}, <<>>)
N1200001 == Talk({Shop(Bye)}, <<>>)
N1200002 == Talk({Shop(Bye)}, <<>>)
N1200003 == Talk({Ask(1)}, <<YesNo({Warp(Mute)})>>)
N1200004 == Talk({Ask(1)}, <<YesNo({Warp(Mute)})>>)
N1204001 == Resume({Ask(1)}, {Ask(2), Mute, Warp(Mute)},
    <<Says({Ask(2)}), Turns({Warp(Mute)}, {Ask(1)})>>)
N1209001 == Talk({OkBox}, <<>>)
N1209002 == Talk({OkBox}, <<>>)
N1209003 == Talk({OkBox}, <<>>)
N1209004 == Talk({OkBox}, <<>>)
N1209005 == Talk({OkBox}, <<>>)
N1300010 == Talk({Ask(1)}, <<YesNo({Ask(2)}), Turns({Mute}, {Ask(1)})>>)
N1300014 == Talk({Ask(1)}, <<Turns({Mute}, {Mute})>>)
N1301000 == Talk({Shop(Bye)}, <<>>)
N2001000 == Resume({Ask(1)}, {Ask(2), Ask(3), Ask(4), Mute},
    <<Says({Ask(2)}), Turns({Ask(3)}, {Ask(1)}), Turns({Ask(4)}, {Ask(2)}),
      Turns({Mute}, {Ask(3)})>>)
N2001001 == Talk({Ask(1)}, <<Menu({Warp(Mute)})>>)
N2001002 == Talk({Ask(1)}, <<Menu({Warp(Mute)})>>)
N2001003 == Talk({Ask(1)}, <<Menu({Warp(Mute)})>>)
N2001004 == Talk({Ask(1)}, <<YesNo({Warp(Mute)})>>)
N2002000 == Resume({Ask(1)}, {Mute, Warp(Mute)}, <<YesNo({Warp(Mute)})>>)
N2010002 == Resume({Ask(1)}, {Ask(2), OkBox, Mute}, <<Says({Ask(2)}), Style({OkBox})>>)
N2010006 == Talk({Window}, <<>>)
N2010011 == Resume({Ask(1)}, {Mute, Warp(Mute)}, <<YesNo({Warp(Mute)})>>)
N2012000 == Talk({OkBox}, <<>>)
N2012001 == Talk({Ask(1), Ask(2)}, <<Says({Warp(Mute)}), YesNo({Warp(Mute)})>>)
N2012002 == Talk({Ask(1)}, <<YesNo({Warp(Mute)})>>)
N2012006 == Talk({Ask(1), Ask(2)}, <<Says({Ask(3)}), Menu({Ask(3)}), YesNo({Warp(Mute)})>>)
N2012008 == Resume({Ask(1)}, {Ask(2), OkBox, Mute}, <<Says({Ask(2)}), Style({OkBox})>>)
N2012009 == Resume({Ask(1)}, {Ask(2), OkBox, Mute}, <<Says({Ask(2)}), YesNo({OkBox})>>)
N2012013 == Talk({Ask(1), Ask(2)}, <<Says({Warp(Mute)}), YesNo({Warp(Mute)})>>)
N2012014 == Talk({Ask(1), OkBox}, <<YesNo({Pay(Warp(Mute))})>>)
N2012015 == Resume({Ask(1), OkBox}, {Mute, Pay(Warp(Mute))}, <<YesNo({Pay(Warp(Mute))})>>)
N2012018 == Resume({Ask(1)}, {OkBox, Mute, Warp(Mute)}, <<YesNo({OkBox, Warp(Mute)})>>)
N2012021 == Talk({Ask(1), Ask(2)}, <<Says({Warp(Mute)}), YesNo({Warp(Mute)})>>)
N2012022 == Resume({Ask(1)}, {Mute, Warp(Mute)}, <<YesNo({Warp(Mute)})>>)
N2012023 == Talk({OkBox, Pay(Gain(OkBox)), Mute}, <<>>)
N2012024 == Resume({Ask(1)}, {Mute, Warp(Mute)}, <<YesNo({Warp(Mute)})>>)
N2012025 == Talk({Ask(1), Ask(2)}, <<Says({Warp(Mute)}), YesNo({Warp(Mute)})>>)
N2012027 == Talk({Mute, Error}, <<>>)
N2012028 == Talk({Mute, Error}, <<>>)

Talks1 == <<
    N2007, N2101, N10200, N10201, N10202, N10203, N10204, N12101, N1002001, N1002003,
    N1002004, N1002005, N1002101, N1012005, N1012006, N1012007, N1012009, N1012102,
    N1012105, N1012109, N1012113, N1012114, N1012115, N1012116, N1012118, N1012119,
    N1012121, N1013001, N1013002, N1013104, N1013207, N1022002, N1022005, N1022103,
    N1022105, N1022106, N1022107, N1032003, N1032004, N1032005, N1032006, N1032007,
    N1032008, N1032009, N1032102, N1032111, N1032113, N1032114, N1033000, N1033002,
    N1033103, N1033104, N1033105, N1033106, N1033110, N1033112, N1033200, N1033201,
    N1033205, N1033206, N1040000, N1040001, N1043001, N1043002, N1043003, N1052004,
    N1052005, N1052006, N1052010, N1052011, N1052012, N1052013, N1052017, N1052104,
    N1052107, N1052113, N1052114, N1052116, N1057001, N1061006, N1061007, N1061008,
    N1061009, N1061010, N1061016, N1061017, N1061018, N1063000, N1063001, N1063002,
    N1063012, N1063013, N1063016, N1063017, N1072000, N1072001, N1072002, N1072004,
    N1072005, N1072006, N1072007, N1072008, N1081001, N1091002, N1091004, N1092000,
    N1092016, N1092018, N1092019, N1092090, N1092091, N1092092, N1092093, N1092094,
    N1092095, N1094000, N1094002, N1094003, N1094004, N1094005, N1094006, N1095000,
    N1095001, N1095002, N1095003, N1096001, N1096003, N1096005, N1096010, N1100000,
    N1100003, N1100007, N1101001, N1101008, N1102001, N1102003, N1103000, N1103002,
    N1103005, N1104002, N1104100, N1104101, N1104102, N1104103, N1104104, N1104200,
    N1200000, N1200001, N1200002, N1200003, N1200004, N1204001, N1209001, N1209002,
    N1209003, N1209004, N1209005, N1300010, N1300014, N1301000, N2001000, N2001001,
    N2001002, N2001003, N2001004, N2002000, N2010002, N2010006, N2010011, N2012000,
    N2012001, N2012002, N2012006, N2012008, N2012009, N2012013, N2012014, N2012015,
    N2012018, N2012021, N2012022, N2012023, N2012024, N2012025, N2012027, N2012028>>
==============================================================================
