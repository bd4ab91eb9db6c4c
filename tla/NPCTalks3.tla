------------------------------ MODULE NPCTalks3 ------------------------------
(*****************************************************************************)
(* The short scripts 2159309.js to link.js of scripts/npc,                   *)
(* one definition for each file: what start() does, what it does in an       *)
(* engine an earlier conversation left (Resume), and the pages.              *)
(*****************************************************************************)
EXTENDS ScriptPages

N2159309 == Resume({Ask(1), Mute}, {Ask(1), Ask(2), Ask(3), Ask(4), Mute},
    <<Says({Ask(2), Mute}), Says({Ask(3), Mute}), Says({Ask(4), Mute}), Says({Mute})>>)
N2159311 == Resume({Ask(1)}, {Ask(2), Ask(3), Ask(4), Ask(5), Mute, Warp(Mute)},
    <<Says({Ask(2)}), Says({Ask(3)}), Says({Ask(4)}), Says({Ask(5)}), Says({Warp(Mute)})>>)
N2159328 == Talk({Ask(1)}, <<Says({Ask(1)})>>)
N2159329 == Talk({Ask(1)}, <<Says({Ask(1)})>>)
N2159330 == Resume({Ask(1)}, {Ask(2), Mute, Warp(Mute)}, <<Says({Ask(2)}), Says({Warp(Mute)})>>)
N2161000 == Talk({Ask(1)}, <<Accept({Mute}, {Mute})>>)
N2161006 == Resume({Ask(1)}, {Mute, Warp(Mute)}, <<YesNo({Warp(Mute)})>>)
N2161007 == Talk({Warp(Mute)}, <<>>)
N2161008 == Talk({Warp(Mute)}, <<>>)
N2161009 == Resume({Ask(1)}, {Shop(Bye), Mute}, <<Menu({Shop(Bye), Warp(Mute)})>>)
N2170004 == Resume({Ask(1)}, {Mute, Warp(Mute)}, <<YesNo({Warp(Mute)})>>)
N2170006 == Talk({Mute, Warp(Mute)}, <<>>)
N2210000 == Talk({Ask(1), OkBox}, <<YesNo({Warp(Mute)})>>)
N2210003 == Talk({Ask(1)}, <<YesNo({Warp(Mute)})>>)
N2210004 == Talk({Ask(1), OkBox}, <<YesNo({Warp(Mute)})>>)
N2210005 == Talk({Ask(1)}, <<YesNo({Warp(Mute)})>>)
N2491000 == Talk({OkBox}, <<>>)
N3000001 == Talk({OkBox}, <<>>)
N3001552 == Talk({OkBox}, <<>>)
N3002020 == Resume({Ask(1)}, {Ask(1), Ask(2)}, <<YesNo({Warp(Mute)}), YesNo({Mute})>>)
N3002023 == Resume({Ask(1)}, {Ask(1), Ask(2)}, <<YesNo({Warp(Mute)}), YesNo({Mute})>>)
N3003110 == Talk({Ask(1), OkBox}, <<YesNo({Warp(Mute)})>>)
N3003123 == Talk({Ask(1)}, <<YesNo({Warp(Mute)})>>)
N3003270 == Resume({Ask(1)}, {Ask(1), Ask(2)}, <<YesNo({Mute, Warp(Mute)}), YesNo({Mute})>>)
N3003314 == Talk({Ask(1), OkBox}, <<YesNo({Warp(Mute)})>>)
N3003533 == Talk({Ask(1), OkBox}, <<YesNo({Warp(Mute)})>>)
N3003609 == Talk({Ask(1)}, <<YesNo({Warp(Mute)})>>)
N3003611 == Talk({Ask(1)}, <<YesNo({Warp(Mute)})>>)
N3003620 == Resume({Ask(1), OkBox}, {Ask(1), Ask(2), OkBox},
    <<YesNo({OkBox, Warp(OkBox), Mute, Warp(Mute)}), YesNo({Mute})>>)
N3003639 == Talk({OkBox}, <<>>)
N3003651 == Talk({Ask(1)}, <<YesNo({Warp(Mute)})>>)
N3003656 == Resume({Ask(1), OkBox}, {Ask(1), Ask(2), OkBox},
    <<YesNo({OkBox, Warp(OkBox), Mute, Warp(Mute)}), YesNo({Mute})>>)
N3003726 == Resume({Ask(1), OkBox}, {Ask(1), Ask(2), OkBox},
    <<YesNo({Warp(Mute)}), YesNo({Mute})>>)
N3003787 == Talk({Ask(1)}, <<YesNo({Warp(Mute)})>>)
N3003952 == Resume({Ask(1), OkBox}, {Ask(1), Ask(2), OkBox},
    <<YesNo({Warp(Mute)}), YesNo({Mute})>>)
N3003960 == Talk({Ask(1)}, <<YesNo({Warp(Mute)})>>)
N3003965 == Talk({Ask(1), OkBox}, <<Menu({Warp(Mute)})>>)
N3003975 == Talk({Ask(1)}, <<YesNo({Warp(Mute)})>>)
N3004990 == Talk({Ask(1)}, <<YesNo({Warp(Bye)})>>)
N9000002 == Talk({Warp(Mute)}, <<>>)
N9000006 == Talk({OkBox}, <<>>)
N9000009 == Talk({OkBox}, <<>>)
N9000010 == Talk({Warp(Mute)}, <<>>)
N9000012 == Talk({Ask(1)}, <<Menu({Ask(2), OkBox, Pay(Gain(Mute))}), YesNo({Warp(Mute)})>>)
N9000021 == Talk({Ask(1)},
    <<Says({Ask(2)}), Says({Ask(3)}), Says({Ask(4)}), YesNo({Warp(Mute)})>>)
N9000059 == Talk({Ask(1)}, <<Menu({Warp(Mute)})>>)
N9000060 == Talk({Ask(1)}, <<Menu({Warp(Mute)})>>)
N9000075 == Talk({Ask(1)}, <<Menu({OkBox, Warp(Mute), Pay(Warp(Mute))})>>)
N9000078 == Talk({Ask(1)}, <<Menu({OkBox, Pay(Gain(OkBox))})>>)
N9000080 == Talk({Ask(1)}, <<Menu({OkBox, Warp(Mute), Pay(Warp(Mute))})>>)
N9000081 == Talk({Shop(Bye)}, <<>>)
N9000082 == Talk({Ask(1), Warp(Mute)}, <<YesNo({Warp(Mute)})>>)
N9001001 == Talk({Ask(1)}, <<Menu({Warp(Mute)})>>)
N9001003 == Talk({Shop(Bye)}, <<>>)
N9001004 == Talk({Ask(1)}, <<Menu({Ask(2), OkBox, Pay(Gain(Mute))}), YesNo({Warp(Mute)})>>)
N9001221 == Talk({Ask(1)}, <<Text({Pay(OkBox), Mute})>>)
N9010001 == Resume({Ask(1)}, {Ask(1), Ask(2)}, <<YesNo({Warp(Mute)}), YesNo({Mute})>>)
N9020002 == Talk({Ask(1), Warp(Mute)}, <<YesNo({Warp(Mute)})>>)
N9020004 == Talk({OkBox, Mute, Warp(Mute), Gain(Warp(Mute))}, <<>>)
N9020006 == Talk({OkBox, Mute, Gain(Warp(Mute))}, <<>>)
N9020008 == Talk({OkBox}, <<>>)
N9030100 == Talk({Window}, <<>>)
N9031000 == Resume({OkBox}, {Mute}, <<>>)
N9031003 == Resume({Ask(1)}, {Ask(2), OkBox, Mute}, <<Menu({Ask(2), OkBox}), YesNo({OkBox})>>)
N9031004 == Resume({Ask(1)}, {Ask(2), OkBox, Mute}, <<Menu({Ask(2), OkBox}), YesNo({OkBox})>>)
N9031005 == Resume({Ask(1)}, {Ask(2), OkBox, Mute}, <<Menu({Ask(2), OkBox}), YesNo({OkBox})>>)
N9031016 == Talk({Window}, <<>>)
N9040001 == Talk({OkBox, Warp(Mute)}, <<>>)
N9040003 == Resume({Ask(1), OkBox}, {Mute}, <<Says({Mute})>>)
N9040005 == Resume({Ask(1), OkBox}, {Ask(2), Mute}, <<Menu({Ask(2)}), YesNo({Mute})>>)
N9040007 == Talk({OkBox}, <<>>)
N9040008 == Talk({Mute}, <<>>)
N9040011 == Talk({OkBox}, <<>>)
N9040012 == Talk({OkBox}, <<>>)
N9050008 == Resume({Ask(1)}, {Mute, Warp(Mute)}, <<YesNo({Warp(Mute)})>>)
N9070000 == Talk({Ask(1)}, <<Says({Ask(1)})>>)
N9070002 == Resume({Ask(1)}, {Mute}, <<Menu({OkBox, Gain(Mute)})>>)
N9070003 == Resume({Ask(1), Ask(2), Ask(3), Bye}, {OkBox, Mute, Warp(Mute)},
    <<Says({OkBox}), Menu({OkBox}), YesNo({Warp(Mute)})>>)
N9070004 == Resume({Ask(1)}, {Mute, Warp(Mute)}, <<Menu({Warp(Mute)})>>)
N9070005 == Talk({Ask(1)}, <<Says({Ask(1)})>>)
N9070007 == Talk({Ask(1)}, <<YesNo({Error})>>)
N9071001 == Talk({Shop(Bye)}, <<>>)
N9071002 == Talk({OkBox}, <<>>)
N9071004 == Talk({Ask(1), Ask(2)}, <<Says({Mute}), Menu({OkBox, Mute, Warp(Mute)})>>)
N9071005 == Talk({Ask(1)}, <<YesNo({Bye, Warp(Bye)})>>)
N9101001 == Resume({Ask(1)}, {Ask(2), Mute, Warp(Mute)},
    <<Says({Ask(2)}), Turns({Warp(Mute)}, {Ask(1)})>>)
N9102100 == Talk({Ask(1), Ask(2), OkBox},
    <<Says({Gain(Ask(3))}), YesNo({Gain(Ask(3))}), Says({Mute})>>)
N9102101 == Talk({Ask(1)}, <<YesNo({Gain(Ask(2))}), Says({Mute})>>)
N9103000 == Resume({Ask(1)}, {Ask(2), OkBox, Mute, Warp(Mute)},
    <<Says({Ask(2), OkBox}), Turns({Warp(Mute)}, {Mute})>>)
N9103003 == Talk({Ask(1)}, <<Says({Warp(Mute)})>>)
N9105005 == Talk({Ask(1)}, <<YesNo({Warp(Mute)})>>)
N9110100 == Talk({Shop(Bye)}, <<>>)
N9110102 == Talk({Shop(Bye)}, <<>>)
N9110105 == Resume({Ask(1)}, {Ask(1), Ask(3), Ask(4), Ask(5)},
    <<Says({Ask(2)}), YesNo({Ask(3)}), Says({Warp(Mute)}), Says({Ask(3)}), Says({Mute})>>)
N9110107 == Resume({Ask(1)}, {Ask(2), Ask(3), Mute, Warp(Mute)},
    <<Says({Ask(2)}), YesNo({Ask(3)}), Says({Warp(Mute)})>>)
N9120003 == Resume({Ask(1)}, {OkBox, Mute, Pay(Warp(Mute))}, <<YesNo({OkBox, Pay(Warp(Mute))})>>)
N9120009 == Talk({Window}, <<>>)
N9120015 == Talk({Ask(1)}, <<Menu({Ask(2), OkBox}), Says({Warp(Mute)})>>)
N9120020 == Resume({Ask(1)}, {Mute, Warp(Mute)}, <<YesNo({Warp(Mute)})>>)
N9120030 == Talk({Ask(1), Mute}, <<Menu({OkBox, Warp(Mute), Pay(Warp(Mute))})>>)
N9120200 == Talk({Ask(1)}, <<YesNo({Warp(Mute)})>>)
N9120202 == Talk({Ask(1)}, <<Says({Warp(Mute)})>>)
N9120203 == Resume({Ask(1), Ask(2)}, {Ask(3), Mute, Warp(Mute), Pay(Gain(Warp(Mute)))},
    <<Says({Ask(3)}), YesNo({Warp(Mute)}), Says({Pay(Gain(Warp(Mute)))})>>)
N9120217 == Talk({Warp(Mute)}, <<>>)
N9120218 == Talk({Warp(Mute)}, <<>>)
N9120228 == Talk({OkBox, Mute, Warp(Mute)}, <<>>)
N9200001 == Talk({Ask(1)}, <<Says({Error})>>)
N9201005 == Resume({Ask(1)}, {Mute, Warp(Mute)}, <<YesNo({Warp(Mute)})>>)
N9201007 == Talk({Mute}, <<>>)
N9201008 == Resume({Ask(1)}, {Mute, Warp(Mute)}, <<YesNo({Warp(Mute)})>>)
N9201009 == Talk({Mute}, <<>>)
N9201021 == Resume({Ask(1)}, {Mute, Warp(Mute)}, <<YesNo({Warp(Mute)})>>)
N9201022 == Resume({Ask(1), Warp(Mute)}, {Mute, Warp(Mute)}, <<YesNo({Warp(Mute)})>>)
N9201047 == Talk({OkBox, Mute, Pay(Mute), Gain(Warp(Mute))}, <<>>)
N9201062 == Resume({Ask(1)}, {Ask(2), OkBox, Mute}, <<Says({Ask(2)}), Style({OkBox})>>)
N9201065 == Resume({Ask(1)}, {Ask(2), OkBox, Mute}, <<Says({Ask(2)}), Style({OkBox})>>)
N9201068 == Talk({Ask(1), Ask(2), Mute},
    <<Says({Ask(3), Pay(Warp(Mute))}), YesNo({Ask(3), Pay(Warp(Mute))}), Says({Mute})>>)
N9201069 == Resume({Ask(1)}, {Ask(2), OkBox, Mute}, <<Says({Ask(2)}), Style({OkBox})>>)
N9201070 == Resume({Ask(1)}, {Ask(2), OkBox, Mute}, <<Says({Ask(2)}), YesNo({OkBox})>>)
N9201079 == Talk({Warp(Mute)}, <<>>)
N9201081 == Talk({Window}, <<>>)
N9201107 == Talk({OkBox, Mute, Warp(Mute), Gain(Warp(Mute))}, <<>>)
N9201108 == Talk({OkBox, Mute, Warp(Mute), Gain(Warp(Mute))}, <<>>)
N9201109 == Talk({OkBox, Mute, Warp(Mute), Gain(Warp(Mute))}, <<>>)
N9201110 == Talk({OkBox, Gain(OkBox), Mute}, <<>>)
N9201111 == Talk({OkBox, Mute}, <<>>)
N9201114 == Talk({Warp(Mute)}, <<>>)
N9201128 == Resume({Ask(1), OkBox}, {Warp(Mute)}, <<YesNo({Warp(Mute)})>>)
N9201129 == Resume({Ask(1), OkBox}, {Warp(Mute)}, <<YesNo({Warp(Mute)})>>)
N9201130 == Resume({Ask(1), OkBox}, {Warp(Mute)}, <<YesNo({Warp(Mute)})>>)
N9201131 == Resume({Ask(1), OkBox}, {Warp(Mute)}, <<YesNo({Warp(Mute)})>>)
N9201132 == Resume({Ask(1), OkBox}, {Warp(Mute)}, <<YesNo({Warp(Mute)})>>)
N9201134 == Resume({Ask(1)}, {Ask(1), Ask(2)}, <<YesNo({Warp(Mute)}), YesNo({Mute})>>)
N9201139 == Talk({Mute}, <<>>)
N9201140 == Talk({Mute}, <<>>)
N9201141 == Talk({Mute}, <<>>)
N9201151 == Talk({OkBox}, <<>>)
N9209000 == Resume({Ask(1)}, {Ask(1), Ask(2)}, <<YesNo({OkBox}), YesNo({Mute})>>)
N9209005 == Resume({Ask(1)}, {Ask(3), Pay(Gain(Ask(3))), OkBox, Mute, Warp(Mute)},
    <<Menu({Ask(2), Warp(Mute)}), YesNo({Ask(3), Pay(Gain(Ask(3))), OkBox}), Says({Mute})>>)
N9209100 == Talk({OkBox}, <<>>)
N9220000 == Talk({Ask(1)}, <<YesNo({Warp(Mute)})>>)
N9220005 == Talk({Ask(1)}, <<YesNo({Warp(Mute)})>>)
N9220018 == Talk({OkBox, Mute, Warp(Mute)}, <<>>)
N9220019 == Talk({Ask(1)}, <<YesNo({Warp(Mute)})>>)
N9220020 == Talk({Ask(1), OkBox, Pay(Warp(Mute))}, <<Says({Ask(1), OkBox, Pay(Warp(Mute))})>>)
N9250007 == Talk({Shop(Bye)}, <<>>)
N9250008 == Talk({Shop(Bye)}, <<>>)
N9250009 == Talk({Shop(Bye)}, <<>>)
N9250022 == Talk({OkBox}, <<>>)
N9250031 == Talk({Window}, <<>>)
N9250137 == Talk({Ask(1)}, <<YesNo({Warp(Mute)})>>)
N9250139 == Talk({Mute}, <<>>)
N9250155 == Talk({Ask(1)}, <<YesNo({Warp(Mute)})>>)
N9250156 == Resume({Ask(1)}, {Mute, Warp(Mute)}, <<YesNo({Warp(Mute)})>>)
N9270017 == Talk({Ask(1), Mute}, <<YesNo({Warp(Mute)})>>)
N9270018 == Resume({Ask(1), Mute}, {Warp(Mute)}, <<YesNo({Warp(Mute)})>>)
N9270019 == Talk({Shop(Bye)}, <<>>)
N9270020 == Talk({Shop(Bye)}, <<>>)
N9270022 == Talk({Shop(Bye)}, <<>>)
N9270024 == Resume({Ask(1)}, {OkBox, Mute},
    <<Menu({Ask(2)}), Style({Ask(3), OkBox}), Style({Ask(3), Mute})>>)
N9270025 == Resume({Ask(1)}, {OkBox, Mute}, <<Says({OkBox})>>)
N9270029 == Talk({OkBox}, <<>>)
N9270030 == Talk({OkBox}, <<>>)
N9270033 == Resume({Ask(1)}, {Mute, Warp(Mute)}, <<YesNo({Warp(Mute)})>>)
N9270034 == Talk({OkBox}, <<>>)
N9270038 == Resume({Ask(1)}, {Ask(1), Ask(2)}, <<YesNo({Warp(Mute)}), YesNo({Mute})>>)
N9270041 == Resume({Ask(1)}, {Ask(1), Ask(2)}, <<YesNo({Warp(Mute)}), YesNo({Mute})>>)
N9270042 == Talk({Window}, <<>>)
N9270043 == Resume({Ask(1), OkBox}, {Gain(OkBox), Pay(Gain(OkBox)), Mute},
    <<YesNo({Gain(OkBox), Pay(Gain(OkBox))})>>)
N9270045 == Talk({Ask(1)}, <<YesNo({Warp(Mute)})>>)
N9270054 == Talk({Window}, <<>>)
N9270055 == Talk({Shop(Bye)}, <<>>)
N9270056 == Talk({Shop(Bye)}, <<>>)
N9270075 == Resume({Ask(1)}, {Mute, Warp(Mute)}, <<YesNo({Warp(Mute)})>>)
N9300011 == Resume({Ask(1)}, {Ask(2), Mute}, <<Says({Ask(2)}), Turns({Mute}, {Ask(1)})>>)
N9310001 == Talk({Shop(Bye)}, <<>>)
N9310002 == Talk({Shop(Bye)}, <<>>)
N9310003 == Talk({Shop(Bye)}, <<>>)
N9310013 == Talk({OkBox}, <<>>)
N9330108 == Resume({Ask(1)}, {Ask(2), Mute, Warp(Mute)},
    <<Menu({Ask(2), Mute, Warp(Mute)}), Menu({Mute, Warp(Mute)})>>)
N9330110 == Resume({Ask(1)}, {Mute}, <<Menu({OkBox, Pay(Gain(OkBox))})>>)
N9400987 == Talk({Ask(1)}, <<YesNo({OkBox, Pay(OkBox)})>>)
N9901502 == Talk({OkBox, Gain(Mute)}, <<>>)
Nbot == Talk({Ask(1)}, <<Menu({Gain(OkBox), Mute})>>)
Nlink == Resume({OkBox}, {Mute}, <<>>)

Talks3 == <<
    N2159309, N2159311, N2159328, N2159329, N2159330, N2161000, N2161006, N2161007,
    N2161008, N2161009, N2170004, N2170006, N2210000, N2210003, N2210004, N2210005,
    N2491000, N3000001, N3001552, N3002020, N3002023, N3003110, N3003123, N3003270,
    N3003314, N3003533, N3003609, N3003611, N3003620, N3003639, N3003651, N3003656,
    N3003726, N3003787, N3003952, N3003960, N3003965, N3003975, N3004990, N9000002,
    N9000006, N9000009, N9000010, N9000012, N9000021, N9000059, N9000060, N9000075,
    N9000078, N9000080, N9000081, N9000082, N9001001, N9001003, N9001004, N9001221,
    N9010001, N9020002, N9020004, N9020006, N9020008, N9030100, N9031000, N9031003,
    N9031004, N9031005, N9031016, N9040001, N9040003, N9040005, N9040007, N9040008,
    N9040011, N9040012, N9050008, N9070000, N9070002, N9070003, N9070004, N9070005,
    N9070007, N9071001, N9071002, N9071004, N9071005, N9101001, N9102100, N9102101,
    N9103000, N9103003, N9105005, N9110100, N9110102, N9110105, N9110107, N9120003,
    N9120009, N9120015, N9120020, N9120030, N9120200, N9120202, N9120203, N9120217,
    N9120218, N9120228, N9200001, N9201005, N9201007, N9201008, N9201009, N9201021,
    N9201022, N9201047, N9201062, N9201065, N9201068, N9201069, N9201070, N9201079,
    N9201081, N9201107, N9201108, N9201109, N9201110, N9201111, N9201114, N9201128,
    N9201129, N9201130, N9201131, N9201132, N9201134, N9201139, N9201140, N9201141,
    N9201151, N9209000, N9209005, N9209100, N9220000, N9220005, N9220018, N9220019,
    N9220020, N9250007, N9250008, N9250009, N9250022, N9250031, N9250137, N9250139,
    N9250155, N9250156, N9270017, N9270018, N9270019, N9270020, N9270022, N9270024,
    N9270025, N9270029, N9270030, N9270033, N9270034, N9270038, N9270041, N9270042,
    N9270043, N9270045, N9270054, N9270055, N9270056, N9270075, N9300011, N9310001,
    N9310002, N9310003, N9310013, N9330108, N9330110, N9400987, N9901502, Nbot, Nlink>>
==============================================================================
