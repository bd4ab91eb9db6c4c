------------------------------ MODULE NPCTalks2 ------------------------------
(*****************************************************************************)
(* The short scripts 2012029.js to 2159100.js of scripts/npc,                *)
(* one definition for each file: what start() does, what it does in an       *)
(* engine an earlier conversation left (Resume), and the pages.              *)
(*****************************************************************************)
EXTENDS ScriptPages

N2012029 == Talk({Mute, Error}, <<>>)
N2012030 == Talk({Mute, Error}, <<>>)
N2012031 == Talk({Mute, Error}, <<>>)
N2012032 == Talk({Mute, Error}, <<>>)
N2012033 == Talk({Mute, Error}, <<>>)
N2013002 == Talk({OkBox, Mute, Warp(Mute), Gain(Warp(Mute))}, <<>>)
N2020001 == Talk({Shop(Bye)}, <<>>)
N2020004 == Talk({Window}, <<>>)
N2022004 == Resume({OkBox, Warp(Mute)}, {OkBox, Warp(Mute), Gain(Warp(Mute))}, <<>>)
N2022005 == Resume({Ask(1)}, {OkBox, Mute, Gain(Mute)}, <<Menu({OkBox, Gain(Mute), Warp(Mute)})>>)
N2022006 == Talk({Ask(1)}, <<Says({Ask(1)})>>)
N2022007 == Talk({Ask(1), Pay(Gain(Mute))}, <<Says({Ask(1), Pay(Gain(Mute))})>>)
N2022008 == Talk({Ask(1)}, <<Says({Ask(1)})>>)
N2022009 == Talk({Ask(1)}, <<Says({Ask(1)})>>)
N2030000 == Talk({Ask(1), Warp(Mute)},
    <<Says({Ask(2), Ask(3)}), Turns({Mute, Warp(Mute)}, {Ask(1), Ask(4)}),
      YesNo({Mute, Warp(Mute)}), Says({Mute, Warp(Mute)})>>)
N2030006 == Talk({Ask(1), OkBox},
    <<Says({Ask(2)}), Turns({OkBox, Pay(Gain(OkBox))}, {Ask(1), OkBox})>>)
N2030008 == Talk({OkBox}, <<>>)
N2030010 == Talk({Ask(1)}, <<YesNo({Warp(Mute)})>>)
N2030011 == Talk({Ask(1)}, <<Says({Warp(Mute)})>>)
N2030014 == Resume({Ask(1)}, {Mute, Warp(Mute)}, <<YesNo({Warp(Mute)})>>)
N2032003 == Talk({Ask(1)},
    <<Says({Ask(2)}), Turns({Ask(3), Gain(Warp(Mute))}, {Ask(1)}), Says({Mute})>>)
N2040000 == Talk({OkBox}, <<>>)
N2040003 == Talk({OkBox}, <<>>)
N2040019 == Resume({Ask(1)}, {Ask(2), OkBox, Mute}, <<Says({Ask(2)}), YesNo({OkBox})>>)
N2040024 == Talk({Ask(1), OkBox}, <<YesNo({Pay(Warp(Mute))})>>)
N2040025 == Talk({Ask(1), OkBox}, <<Menu({Ask(2)}), YesNo({Pay(Warp(Mute))})>>)
N2040026 == Talk({Ask(1), OkBox}, <<Menu({Ask(2)}), YesNo({Pay(Warp(Mute))})>>)
N2040027 == Talk({Ask(1), OkBox}, <<YesNo({Pay(Warp(Mute))})>>)
N2040032 == Talk({Ask(1)}, <<YesNo({Ask(2), Gain(OkBox)}), Says({Mute})>>)
N2040033 == Talk({Ask(1), OkBox}, <<Says({Ask(2), Pay(Ask(2))}), Turns({Mute}, {Mute})>>)
N2040035 == Talk({Gain(Warp(Mute))}, <<>>)
N2040038 == Talk({Ask(1), OkBox}, <<Says({Ask(1), OkBox})>>)
N2040039 == Talk({Ask(1), OkBox}, <<Says({Ask(1), OkBox})>>)
N2040040 == Talk({Ask(1), OkBox}, <<Says({Ask(1), OkBox})>>)
N2040041 == Talk({Ask(1)}, <<Says({Mute})>>)
N2040045 == Talk({Ask(1)}, <<Says({Mute})>>)
N2040046 == Talk({Ask(1)}, <<YesNo({Ask(2)}), YesNo({Ask(3), Pay(OkBox)}), Says({Mute})>>)
N2040047 == Talk({Ask(1), Warp(Mute)}, <<YesNo({Warp(Mute)})>>)
N2040052 == Resume({Ask(1)}, {Ask(1), Mute}, <<Turns({Mute}, {Ask(2), OkBox}), Says({Ask(1)})>>)
N2041000 == Talk({Ask(1), Ask(2)}, <<Says({Warp(Mute)}), YesNo({Warp(Mute)})>>)
N2041001 == Talk({Ask(1)}, <<YesNo({Warp(Mute)})>>)
N2041003 == Talk({Shop(Bye)}, <<>>)
N2041004 == Resume({Ask(1), OkBox}, {Mute, Pay(Warp(Mute))}, <<Says({Pay(Warp(Mute))})>>)
N2041008 == Talk({Window}, <<>>)
N2041010 == Resume({Ask(1)}, {Ask(2), OkBox, Mute}, <<Says({Ask(2)}), Style({OkBox})>>)
N2041013 == Resume({Ask(1)}, {Ask(2), OkBox, Mute}, <<Says({Ask(2)}), Style({OkBox})>>)
N2041025 == Resume({Ask(1)}, {Mute, Warp(Mute)}, <<YesNo({Warp(Mute)})>>)
N2042003 == Talk({Warp(Mute)}, <<>>)
N2042004 == Talk({Warp(Mute)}, <<>>)
N2042008 == Talk({Warp(Mute)}, <<>>)
N2042009 == Talk({Warp(Mute)}, <<>>)
N2043000 == Resume({Ask(1)}, {Ask(2), Mute, Warp(Mute)},
    <<Says({Ask(2)}), Turns({Warp(Mute)}, {Ask(1)})>>)
N2050004 == Talk({Window}, <<>>)
N2050014 == Talk({Mute}, <<>>)
N2050015 == Talk({Mute}, <<>>)
N2050016 == Talk({Mute}, <<>>)
N2050017 == Talk({Mute}, <<>>)
N2050018 == Talk({Mute}, <<>>)
N2050019 == Talk({Mute}, <<>>)
N2060005 == Talk({Mute}, <<>>)
N2060008 == Talk({Window}, <<>>)
N2060010 == Talk({Warp(Mute)}, <<>>)
N2060100 == Talk({OkBox, Pay(Warp(Mute))}, <<>>)
N2070000 == Talk({Window}, <<>>)
N2070002 == Talk({Shop(Bye)}, <<>>)
N2070003 == Talk({Shop(Bye)}, <<>>)
N2071012 == Resume({Ask(1)}, {Mute, Warp(Mute)}, <<YesNo({Warp(Mute)})>>)
N2080001 == Talk({Shop(Bye)}, <<>>)
N2080002 == Talk({Shop(Bye)}, <<>>)
N2080004 == Talk({Shop(Bye)}, <<>>)
N2080005 == Talk({Window}, <<>>)
N2081005 == Resume({Ask(1)}, {Mute, Warp(Mute)}, <<Says({Warp(Mute)})>>)
N2081006 == Resume({Ask(1), OkBox}, {Pay(OkBox), Mute}, <<YesNo({Pay(OkBox)})>>)
N2081008 == Resume({Ask(1), OkBox}, {Ask(1), Ask(2), OkBox},
    <<YesNo({Pay(Gain(OkBox))}), YesNo({Mute})>>)
N2081009 == Resume({OkBox, Mute}, {Warp(Mute)}, <<>>)
N2081013 == Resume({Ask(1), OkBox}, {Pay(Gain(OkBox)), Mute}, <<YesNo({Pay(Gain(OkBox))})>>)
N2082000 == Talk({OkBox}, <<>>)
N2082001 == Talk({Ask(1), Ask(2)}, <<Says({Warp(Mute)}), YesNo({Warp(Mute)})>>)
N2082002 == Talk({Ask(1)}, <<YesNo({Warp(Mute)})>>)
N2082003 == Talk({Ask(1)}, <<Menu({Warp(Mute)})>>)
N2083000 == Talk({OkBox}, <<>>)
N2083001 == Talk({OkBox}, <<>>)
N2083002 == Resume({Ask(1)}, {Mute, Warp(Mute)}, <<YesNo({Warp(Mute)})>>)
N2083006 == Talk({Ask(1)}, <<Menu({OkBox, Warp(Mute)})>>)
N2084001 == Talk({Ask(1)}, <<Says({Mute})>>)
N2090000 == Talk({Window}, <<>>)
N2090001 == Talk({Shop(Bye)}, <<>>)
N2090002 == Talk({Shop(Bye)}, <<>>)
N2090003 == Talk({Shop(Bye)}, <<>>)
N2090102 == Resume({Ask(1)}, {Ask(2), OkBox, Mute}, <<Says({Ask(2)}), Style({OkBox})>>)
N2091006 == Resume({Ask(1)}, {Ask(3), Ask(4), Mute, Warp(Mute)},
    <<Menu({Ask(2), Ask(3)}), Says({Ask(4)}), YesNo({Warp(Mute)}), Turns({Mute}, {Ask(5)}),
      Says({Mute})>>)
N2092001 == Resume({Ask(1)}, {Mute, Warp(Mute)}, <<YesNo({Warp(Mute)})>>)
N2093000 == Talk({Shop(Bye)}, <<>>)
N2093001 == Talk({Shop(Bye)}, <<>>)
N2093002 == Talk({Shop(Bye)}, <<>>)
N2093003 == Talk({Window}, <<>>)
N2093004 == Resume({Ask(1)}, {OkBox, Mute, Pay(Warp(Mute))}, <<YesNo({OkBox, Pay(Warp(Mute))})>>)
N2094000 == Talk({OkBox, Mute, Warp(Mute)}, <<>>)
N2095000 == Talk({Ask(1)}, <<Says({Ask(1)})>>)
N2096000 == Talk({Mute}, <<>>)
N2100000 == Talk({Window}, <<>>)
N2100002 == Talk({Shop(Bye)}, <<>>)
N2100003 == Talk({Shop(Bye)}, <<>>)
N2100007 == Talk({Ask(1)}, <<Says({Ask(2)}), Style({Ask(3), Pay(OkBox)}), Says({Mute})>>)
N2101000 == Talk({OkBox}, <<>>)
N2101001 == Talk({OkBox}, <<>>)
N2101002 == Talk({OkBox}, <<>>)
N2101003 == Talk({Ask(1)}, <<Says({Bye})>>)
N2101004 == Talk({OkBox}, <<>>)
N2101005 == Talk({OkBox}, <<>>)
N2101006 == Talk({Mute}, <<>>)
N2101007 == Talk({OkBox}, <<>>)
N2101008 == Talk({OkBox}, <<>>)
N2101009 == Talk({OkBox}, <<>>)
N2101011 == Talk({Ask(1)}, <<Says({Bye})>>)
N2101013 == Talk({Ask(1)},
    <<Accept({Ask(2)}, {Ask(3)}), Accept({Ask(4)}, {Ask(1)}), Says({Ask(2)}),
      Says({Ask(5), Pay(Warp(Mute))}), Turns({Mute}, {Ask(4)})>>)
N2102000 == Talk({Ask(1), Ask(2)}, <<Says({Warp(Mute)}), YesNo({Warp(Mute)})>>)
N2102001 == Talk({Ask(1)}, <<YesNo({Warp(Mute)})>>)
N2102002 == Talk({OkBox}, <<>>)
N2103000 == Talk({Mute}, <<>>)
N2103001 == Talk({Ask(1), Mute}, <<Says({Ask(1), Mute})>>)
N2103002 == Talk({Ask(1), Mute}, <<Says({Ask(1), Mute})>>)
N2103009 == Talk({Mute}, <<>>)
N2103010 == Talk({Mute}, <<>>)
N2103011 == Talk({Mute}, <<>>)
N2103012 == Talk({Mute}, <<>>)
N2110000 == Talk({Window}, <<>>)
N2110001 == Talk({Shop(Bye)}, <<>>)
N2110005 == Resume({Ask(1), OkBox}, {Ask(2), Mute, Warp(Mute)},
    <<Menu({Ask(2)}), YesNo({Warp(Mute)})>>)
N2111000 == Talk({Ask(1)}, <<Says({Mute})>>)
N2111001 == Talk({OkBox}, <<>>)
N2111003 == Talk({Ask(1), OkBox}, <<Says({Error})>>)
N2111006 == Talk({Mute}, <<>>)
N2111024 == Talk({Warp(Mute)}, <<>>)
N2111025 == Talk({Mute}, <<>>)
N2111026 == Talk({Mute}, <<>>)
N2112000 == Talk({OkBox}, <<>>)
N2112001 == Talk({Warp(Mute)}, <<>>)
N2112007 == Talk({OkBox, Mute, Gain(Mute)}, <<>>)
N2112008 == Talk({OkBox, Gain(Warp(Mute))}, <<>>)
N2112009 == Talk({OkBox, Gain(Warp(Mute))}, <<>>)
N2112010 == Talk({OkBox}, <<>>)
N2112011 == Talk({Warp(Mute)}, <<>>)
N2112013 == Talk({OkBox, Mute, Gain(Mute)}, <<>>)
N2112018 == Talk({OkBox, Warp(Mute), Gain(Warp(Mute))}, <<>>)
N2130000 == Talk({Shop(Bye)}, <<>>)
N2131000 == Talk({OkBox}, <<>>)
N2131001 == Resume({Ask(1)}, {Ask(2), Ask(3), Mute},
    <<Menu({Ask(2), Ask(3)}), Says({Mute}), Number({OkBox, Pay(Gain(OkBox)), Mute})>>)
N2131002 == Talk({OkBox}, <<>>)
N2131003 == Resume({Ask(1)}, {Ask(2), Ask(3), Mute},
    <<Menu({Ask(2), Ask(3)}), Says({Mute}), Number({OkBox, Pay(Gain(OkBox)), Mute})>>)
N2131005 == Resume({Ask(1)}, {Ask(2), Ask(3), Mute},
    <<Menu({Ask(2), Ask(3)}), Says({Mute}), Number({OkBox, Pay(Gain(OkBox)), Mute})>>)
N2131006 == Resume({Ask(1)}, {Ask(2), Ask(3), Mute},
    <<Menu({Ask(2), Ask(3)}), Says({Mute}), Number({OkBox, Pay(Gain(OkBox)), Mute})>>)
N2131007 == Resume({Ask(1)}, {Ask(2), Ask(3), Mute},
    <<Menu({Ask(2), Ask(3)}), Says({Mute}), Number({OkBox, Pay(Gain(OkBox)), Mute})>>)
N2132000 == Talk({OkBox}, <<>>)
N2132001 == Talk({Ask(1)}, <<Says({Ask(1)})>>)
N2132002 == Talk({Ask(1)}, <<Says({Ask(1)})>>)
N2132003 == Talk({Ask(1)}, <<Says({Ask(1)})>>)
N2133002 == Resume({Ask(1)}, {Mute, Warp(Mute)}, <<YesNo({Warp(Mute)})>>)
N2133004 == Talk({Ask(1), Mute, Warp(Mute)}, <<Says({Ask(1), Mute, Warp(Mute)})>>)
N2141000 == Talk({Ask(1)}, <<Accept({Mute}, {Mute})>>)
N2141002 == Talk({Ask(1)}, <<YesNo({Mute, Warp(Mute)})>>)
N2142000 == Talk({Shop(Bye)}, <<>>)
N2150000 == Talk({Window}, <<>>)
N2150002 == Talk({Shop(Bye)}, <<>>)
N2150008 == Talk({Ask(1), OkBox}, <<Menu({Warp(Mute)})>>)
N2150009 == Talk({Ask(1)}, <<Menu({Warp(Mute)})>>)
N2150010 == Talk({Ask(1)}, <<Menu({Warp(Mute)})>>)
N2153002 == Talk({Ask(1), OkBox}, <<YesNo({Warp(Mute)})>>)
N2159000 == Resume({Ask(1)}, {Ask(2), Mute}, <<Says({Ask(2)}), Says({Mute})>>)
N2159001 == Resume({Ask(1)}, {Ask(2), Ask(3), Ask(4), Ask(5), Ask(6), Ask(7), Ask(8), Ask(9),
        Ask(10), Mute, Warp(Mute)},
    <<Says({Ask(2)}), Turns({Ask(3)}, {Ask(1)}), Turns({Ask(4)}, {Ask(2)}),
      Turns({Ask(5)}, {Ask(3)}), Turns({Ask(6)}, {Ask(4)}), Turns({Ask(7)}, {Ask(5)}),
      Turns({Ask(8)}, {Ask(6)}), Turns({Ask(9)}, {Ask(7)}), Turns({Ask(10)}, {Ask(8)}),
      Turns({Warp(Mute)}, {Ask(9)})>>)
N2159002 == Resume({Ask(1)}, {Ask(2), Mute}, <<Says({Ask(2)}), Says({Mute})>>)
N2159003 == Resume({Ask(1)}, {Ask(1), Mute}, <<Says({Ask(1), Mute})>>)
N2159004 == Resume({Ask(1)}, {Ask(1), Mute}, <<Says({Ask(1), Mute})>>)
N2159005 == Resume({Ask(1)}, {Mute}, <<Says({Mute})>>)
N2159007 == Resume({Ask(1), OkBox, Mute}, {Ask(2), Ask(3), OkBox, Mute, Warp(Mute)},
    <<Says({Ask(2), OkBox, Mute}), Turns({Ask(3), OkBox, Mute}, {Ask(1), OkBox, Mute}),
      Turns({OkBox, Mute, Warp(Mute)}, {Ask(2), OkBox, Mute})>>)
N2159008 == Resume({Ask(1)}, {Ask(2), Ask(3), Ask(4), Ask(5), Ask(6), Ask(7), Ask(8), Ask(9),
        Mute, Warp(Mute)},
    <<Says({Ask(2)}), Turns({Ask(3)}, {Ask(1)}), Turns({Ask(4)}, {Ask(2)}),
      Turns({Ask(5)}, {Ask(3)}), Turns({Ask(6)}, {Ask(4)}), Turns({Ask(7)}, {Ask(5)}),
      Turns({Ask(8)}, {Ask(6)}), Turns({Ask(9)}, {Ask(7)}), Turns({Warp(Mute)}, {Ask(8)})>>)
N2159010 == Resume({Ask(1)}, {Ask(2), Ask(3), Ask(4), Ask(5), Ask(6), Ask(7), Ask(8), Ask(9),
        Mute, Gain(Warp(Mute))},
    <<Says({Ask(2)}), Turns({Ask(3)}, {Ask(1)}), Turns({Ask(4)}, {Ask(2)}),
      Turns({Ask(5)}, {Ask(3)}), Turns({Ask(6)}, {Ask(4)}), Turns({Ask(7)}, {Ask(5)}),
      Turns({Ask(8)}, {Ask(6)}), Turns({Ask(9)}, {Ask(7)}),
      Turns({Gain(Warp(Mute))}, {Ask(8)})>>)
N2159011 == Resume({Ask(1)}, {Mute, Warp(Mute)}, <<Says({Warp(Mute)})>>)
N2159012 == Resume({Ask(1)}, {Ask(2), Ask(3), Ask(4), Ask(5), Ask(6), Ask(7), Ask(8), Ask(9), Mute},
    <<Says({Ask(2)}), Turns({Ask(3)}, {Ask(1)}), Turns({Ask(4)}, {Ask(2)}),
      Turns({Ask(5)}, {Ask(3)}), Turns({Ask(6)}, {Ask(4)}), Turns({Ask(7)}, {Ask(5)}),
      Turns({Ask(8)}, {Ask(6)}), Turns({Ask(9)}, {Ask(7)}), Turns({Mute}, {Ask(8)})>>)
N2159013 == Resume({Ask(1)}, {Mute}, <<Says({Mute})>>)
N2159015 == Resume({Ask(1)}, {Ask(1), Mute}, <<Says({Ask(1), Mute})>>)
N2159016 == Resume({Ask(1)}, {Ask(1), Mute}, <<Says({Ask(1), Mute})>>)
N2159017 == Talk({Ask(1), Warp(Mute)}, <<Says({Ask(1), Warp(Mute)})>>)
N2159019 == Talk({Ask(1)}, <<Says({Ask(1)})>>)
N2159020 == Talk({Ask(1)}, <<Says({Ask(1)})>>)
N2159100 == Talk({Ask(1)}, <<Says({Mute})>>)

Talks2 == <<
    N2012029, N2012030, N2012031, N2012032, N2012033, N2013002, N2020001, N2020004,
    N2022004, N2022005, N2022006, N2022007, N2022008, N2022009, N2030000, N2030006,
    N2030008, N2030010, N2030011, N2030014, N2032003, N2040000, N2040003, N2040019,
    N2040024, N2040025, N2040026, N2040027, N2040032, N2040033, N2040035, N2040038,
    N2040039, N2040040, N2040041, N2040045, N2040046, N2040047, N2040052, N2041000,
    N2041001, N2041003, N2041004, N2041008, N2041010, N2041013, N2041025, N2042003,
    N2042004, N2042008, N2042009, N2043000, N2050004, N2050014, N2050015, N2050016,
    N2050017, N2050018, N2050019, N2060005, N2060008, N2060010, N2060100, N2070000,
    N2070002, N2070003, N2071012, N2080001, N2080002, N2080004, N2080005, N2081005,
    N2081006, N2081008, N2081009, N2081013, N2082000, N2082001, N2082002, N2082003,
    N2083000, N2083001, N2083002, N2083006, N2084001, N2090000, N2090001, N2090002,
    N2090003, N2090102, N2091006, N2092001, N2093000, N2093001, N2093002, N2093003,
    N2093004, N2094000, N2095000, N2096000, N2100000, N2100002, N2100003, N2100007,
    N2101000, N2101001, N2101002, N2101003, N2101004, N2101005, N2101006, N2101007,
    N2101008, N2101009, N2101011, N2101013, N2102000, N2102001, N2102002, N2103000,
    N2103001, N2103002, N2103009, N2103010, N2103011, N2103012, N2110000, N2110001,
    N2110005, N2111000, N2111001, N2111003, N2111006, N2111024, N2111025, N2111026,
    N2112000, N2112001, N2112007, N2112008, N2112009, N2112010, N2112011, N2112013,
    N2112018, N2130000, N2131000, N2131001, N2131002, N2131003, N2131005, N2131006,
    N2131007, N2132000, N2132001, N2132002, N2132003, N2133002, N2133004, N2141000,
    N2141002, N2142000, N2150000, N2150002, N2150008, N2150009, N2150010, N2153002,
    N2159000, N2159001, N2159002, N2159003, N2159004, N2159005, N2159007, N2159008,
    N2159010, N2159011, N2159012, N2159013, N2159015, N2159016, N2159017, N2159019,
    N2159020, N2159100>>
==============================================================================
