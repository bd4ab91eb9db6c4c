----------------------------- MODULE NPCScripts1 -----------------------------
(*****************************************************************************)
(* The scripts 1000.js to 2184000.js of scripts/npc,                         *)
(* one definition for each file: what start() does, what it does in an       *)
(* engine an earlier conversation left (Resume), and the pages.              *)
(*****************************************************************************)
EXTENDS ScriptPages

N1000 == Talk({Ask(1), OkBox},
    <<Menu({Ask(2), OkBox}), Menu({Ask(3)}), Text({Ask(4), OkBox}), YesNo({OkBox, Later})>>)
N1002 == Talk({Ask(1), OkBox},
    <<Menu({Ask(2), OkBox}), Menu({Ask(3)}), Text({Ask(4), OkBox}), YesNo({OkBox, Later})>>)
N1003 == Talk({Ask(1), OkBox},
    <<Menu({Ask(2), OkBox}), Menu({Ask(3)}), Text({Ask(4), OkBox}), YesNo({OkBox, Later})>>)
N1004 == Talk({Ask(1), OkBox},
    <<Menu({Ask(2), OkBox}), Menu({Ask(3)}), Text({Ask(4), OkBox}), YesNo({OkBox, Later})>>)
N1005 == Talk({Ask(1), OkBox},
    <<Menu({Ask(2), OkBox}), Menu({Ask(3)}), Text({Ask(4), OkBox}), YesNo({OkBox, Later})>>)
N1006 == Talk({Ask(1), OkBox},
    <<Menu({Ask(2), OkBox}), Menu({Ask(3)}), Text({Ask(4), OkBox}), YesNo({OkBox, Later})>>)
N1007 == Talk({Ask(1), OkBox},
    <<Menu({Ask(2), OkBox}), Menu({Ask(3)}), Text({Ask(4), OkBox}), YesNo({OkBox, Later})>>)
N1501 == Talk({Ask(1)},
    <<Menu({Ask(2), OkBox, Mute}), YesNo({Ask(3), Ask(4), OkBox}), Says({Mute}),
      Menu({OkBox, Mute, Pay(Warp(Mute))})>>)
N1502 == Talk({Ask(1), OkBox}, <<YesNo({OkBox, Warp(Mute), Error})>>)
N1503 == Talk({Ask(1), OkBox}, <<YesNo({OkBox, Warp(Mute), Error})>>)
N1504 == Talk({Ask(1), OkBox}, <<YesNo({OkBox, Warp(Mute), Error})>>)
N1505 == Talk({Ask(1), OkBox}, <<YesNo({OkBox, Warp(Mute), Error})>>)
N1506 == Talk({Ask(1), OkBox}, <<YesNo({OkBox, Pay(Warp(Mute))})>>)
N1507 == Talk({Ask(1), OkBox}, <<YesNo({Bye, Pay(Bye)})>>)
N1508 == Talk({Ask(1), OkBox}, <<YesNo({Bye, Pay(Bye)})>>)
N1509 == Talk({Ask(1), OkBox}, <<YesNo({Bye, Pay(Bye)})>>)
N1510 == Talk({Ask(1), OkBox}, <<YesNo({Bye, Pay(Bye)})>>)
N1511 == Talk({Ask(1), OkBox}, <<YesNo({Bye, Pay(Bye)})>>)
N1512 == Talk({Ask(1)},
    <<Menu({Ask(2), Ask(3), Bye, OkBox}), Says({Ask(4), Ask(5), OkBox}),
      Menu({Ask(4), Ask(5), OkBox}), Says({Ask(6), OkBox}), Menu({Ask(6), OkBox}),
      YesNo({OkBox, Pay(OkBox)})>>)
N2000 == Talk({Ask(1), Ask(2), OkBox},
    <<Menu({Ask(3)}), YesNo({Gain(Warp(Mute))}), YesNo({Gain(OkBox)})>>)
N2001 == Talk({Ask(1), OkBox}, <<YesNo({OkBox, Pay(Gain(OkBox)), Mute, Warp(Mute)})>>)
N2002 == Talk({Ask(1), OkBox},
    <<Menu({Ask(2), OkBox, Gain(OkBox)}), YesNo({Warp(Mute), Pay(Warp(Mute))})>>)
N2003 == Talk({Ask(1), Ask(2), OkBox}, <<YesNo({OkBox, Pay(Gain(OkBox))}), YesNo({OkBox})>>)
N2004 == Talk({Ask(1), OkBox}, <<YesNo({OkBox, Pay(Gain(OkBox)), Mute})>>)
N12000 == Resume({Ask(1)}, {Ask(1), Ask(3), Ask(4)},
    <<Text({Gain(Ask(2))}), YesNo({OkBox, Pay(Warp(Mute))}), Text({OkBox, Pay(Warp(Mute))}),
      Text({Mute})>>)
N20000 == Resume({Ask(1)}, {Ask(1), Ask(3), Ask(4), Ask(5)},
    <<YesNo({Ask(2)}), Text({Ask(3), OkBox}), YesNo({OkBox, Gain(OkBox)}),
      YesNo({Ask(3), OkBox}), YesNo({Mute})>>)
N22000 == Talk({Ask(1), OkBox}, <<YesNo({OkBox, Gain(OkBox), Gain(Warp(OkBox))})>>)
N1002000 == Talk({Ask(1)},
    <<Says({Ask(2)}), Menu({Ask(3), Ask(4), Ask(5), Mute}), Says({Ask(6)}),
      Menu({Ask(7), Ask(8)}), Menu({Ask(6)}), YesNo({Ask(9), Pay(Warp(Mute))}), Says({Ask(10)}),
      Says({Ask(11)}), Says({Mute}), Turns({Ask(12)}, {Ask(7)}), Turns({Ask(13)}, {Ask(8)}),
      Turns({Mute}, {Ask(10)}), Turns({Ask(14)}, {Ask(11)}), Turns({Mute}, {Ask(13)})>>)
N1002002 == Resume({Ask(1)}, {Ask(2), Ask(3), Ask(5), Ask(6), Ask(7), Mute, Warp(Mute),
        Pay(Warp(Mute))},
    <<Menu({Ask(2), Ask(3), Ask(4)}), Says({Ask(5)}), YesNo({Ask(6), Pay(Warp(Mute))}),
      YesNo({Ask(7), Warp(Mute)}), Turns({Mute}, {Ask(2)}), Says({Ask(7), Warp(Mute)}),
      Says({Ask(2)})>>)
N1002007 == Resume({Ask(1), Ask(2), Ask(3)}, {Ask(1), Ask(2), Ask(3), Ask(4), Ask(6), Mute,
        Pay(Warp(Mute))},
    <<Says({Ask(4), Pay(Warp(Mute))}), Turns({Ask(4), Pay(Warp(Mute))}, {Ask(5)}),
      Menu({Ask(4), Pay(Warp(Mute))}), YesNo({Ask(6), Pay(Warp(Mute))}),
      Says({Ask(1), Ask(2), Ask(3)}), Says({Mute})>>)
N1002100 == Talk({Ask(1), OkBox},
    <<Says({Ask(2), Ask(3)}), Says({Ask(4)}), Menu({Ask(4)}), Number({Ask(5)}),
      YesNo({Ask(6), Gain(Ask(6))}), Says({Mute})>>)
N1010100 == Talk({Ask(1)}, <<YesNo({Bye, Pay(Gain(Bye))})>>)
N1012000 == Talk({Ask(1)},
    <<Says({Ask(2), Ask(3)}), Says({Ask(4)}), Menu({Ask(4)}), YesNo({Ask(5), Pay(Warp(Mute))}),
      Says({Mute})>>)
N1012002 == Talk({Mute}, <<>>)
N1012003 == Talk({Ask(1)}, <<YesNo({Bye, Pay(Gain(Bye))})>>)
N1012100 == Talk({Ask(1), OkBox}, <<YesNo({Bye, Pay(Gain(Bye))})>>)
N1012103 == Resume({Ask(1)}, {Ask(2), OkBox, Mute}, <<Menu({Ask(2)}), Style({OkBox})>>)
N1012104 == Resume({Ask(1)}, {Ask(2), OkBox, Mute}, <<Menu({Ask(2)}), YesNo({OkBox})>>)
N1012106 == Talk({Ask(1)}, <<YesNo({Bye, Pay(Gain(Bye))})>>)
N1012108 == Talk({Ask(1)}, <<YesNo({Bye, Pay(Gain(Bye))})>>)
N1012111 == Talk({Ask(1)}, <<YesNo({Bye, Pay(Gain(Bye))})>>)
N1012112 == Resume({Ask(1), Ask(2), Mute, Warp(Mute)}, {OkBox, Warp(Mute), Pay(Gain(Mute))},
    <<Menu({OkBox, Warp(Mute), Pay(Gain(Mute))}), YesNo({OkBox, Warp(Mute), Pay(Gain(Mute))})>>)
N1013305 == Resume({Ask(1)}, {OkBox, Mute},
    <<Menu({Ask(2), Ask(3), OkBox, Mute}), Says({OkBox}), Menu({OkBox})>>)
N1020000 == Talk({Ask(1)}, <<YesNo({Bye, Pay(Gain(Bye))})>>)
N1022000 == Talk({Ask(1), OkBox}, <<YesNo({Bye, Pay(Gain(Bye))})>>)
N1022001 == Talk({Ask(1)},
    <<Says({Ask(2), Ask(3)}), Says({Ask(4)}), Menu({Ask(4)}), YesNo({Ask(5), Pay(Warp(Mute))}),
      Says({Mute})>>)
N1022003 == Resume({Ask(1), Ask(2)}, {Ask(3), Ask(4), Ask(5), Ask(6), OkBox, Gain(OkBox), Mute},
    <<Says({Mute}), Menu({Ask(3), Ask(4)}), Says({Ask(5)}), Menu({Ask(5)}), Number({Ask(6)}),
      YesNo({OkBox, Gain(OkBox)})>>)
N1022007 == Talk({Ask(1)}, <<YesNo({Bye, Pay(Gain(Bye))})>>)
N1022101 == Talk({Ask(1), OkBox}, <<YesNo({Bye, Gain(Bye), Warp(Bye)})>>)
N1023000 == Talk({Ask(1)},
    <<Says({Ask(2), Ask(3)}), Says({Ask(4)}), Menu({Ask(4)}), YesNo({Ask(5), Pay(Warp(Mute))}),
      Says({Mute})>>)
N1032000 == Talk({Ask(1)},
    <<Says({Ask(2), Ask(3)}), Says({Ask(4)}), Menu({Ask(4)}), YesNo({Ask(5), Pay(Warp(Mute))}),
      Says({Mute})>>)
N1032001 == Talk({Ask(1), OkBox}, <<YesNo({Bye, Pay(Gain(Bye))})>>)
N1032002 == Talk({Mute}, <<>>)
N1032100 == Talk({Ask(1), OkBox},
    <<Says({Ask(2)}), Menu({Ask(3)}), YesNo({Ask(4), Pay(Gain(Ask(4)))}), Says({Mute})>>)
N1032101 == Talk({Ask(1)}, <<YesNo({Bye, Pay(Gain(Bye))})>>)
N1032104 == Talk({Ask(1)}, <<YesNo({Bye, Pay(Gain(Bye))})>>)
N1032106 == Talk({Ask(1)}, <<YesNo({Bye, Pay(Gain(Bye))})>>)
N1033202 == Resume({Ask(1)}, {Ask(2), Ask(3), Ask(4), Ask(5), Ask(6), Ask(7), Ask(8), Ask(9),
        Ask(10), Ask(11), Ask(12), Ask(13), Ask(14), Ask(15), Ask(16), Ask(17), Ask(18), Ask(19),
        Mute},
    <<Says({Ask(2)}), Says({Ask(3)}), Says({Ask(4)}), Says({Ask(5)}), Says({Ask(6)}),
      Says({Ask(7)}), Says({Ask(8)}), Says({Ask(9)}), Says({Ask(10)}), Says({Ask(11)}),
      Says({Ask(12)}), Says({Ask(13)}), Says({Ask(14)}), Says({Ask(15)}), Says({Ask(16)}),
      Says({Ask(17)}), Says({Ask(18)}), Says({Ask(19)}), Says({Ask(19), Mute})>>)
N1043000 == Talk({Warp(Mute), Gain(Warp(Mute))}, <<>>)
N1052000 == Talk({Ask(1)}, <<YesNo({Bye, Pay(Gain(Bye))})>>)
N1052001 == Talk({Ask(1), OkBox}, <<YesNo({Bye, Pay(Gain(Bye))})>>)
N1052002 == Resume({Ask(1)}, {Ask(1), Ask(3), Ask(4), Ask(5)},
    <<YesNo({Ask(2)}), Text({Ask(3), OkBox}), YesNo({OkBox, Gain(OkBox)}),
      YesNo({Ask(3), OkBox}), YesNo({Mute})>>)
N1052003 == Talk({Mute}, <<>>)
N1052007 == Talk({Ask(1)},
    <<Menu({Ask(2), Ask(3), Mute, Warp(Mute), Pay(Warp(Mute))}), Says({Pay(Warp(Mute))}),
      YesNo({Pay(Warp(Mute))})>>)
N1052008 == Talk({Warp(Mute), Gain(Warp(Mute))}, <<>>)
N1052009 == Talk({Warp(Mute), Gain(Warp(Mute))}, <<>>)
N1052014 == Resume({Ask(1)}, {Ask(1), Ask(3), Ask(4)},
    <<Menu({Ask(2), OkBox, Mute, Pay(Gain(Mute))}), Number({OkBox, Mute, Gain(Mute)}),
      Menu({Mute}), Menu({OkBox, Mute, Pay(Gain(Mute))})>>)
N1052015 == Talk({Error}, <<>>)
N1052016 == Talk({Ask(1)},
    <<Says({Ask(2), Ask(3)}), Says({Ask(4)}), Menu({Ask(4)}), YesNo({Ask(5), Pay(Warp(Mute))}),
      Says({Mute})>>)
N1052100 == Resume({Ask(1)}, {Ask(2), OkBox, Mute}, <<Menu({Ask(2)}), Style({OkBox})>>)
N1052101 == Resume({Ask(1)}, {Ask(2), OkBox, Mute}, <<Menu({Ask(2)}), YesNo({OkBox})>>)
N1052102 == Talk({Ask(1)}, <<YesNo({Bye, Pay(Gain(Bye))})>>)
N1052103 == Talk({Ask(1)}, <<YesNo({Bye, Pay(Gain(Bye))})>>)
N1052106 == Talk({Ask(1)}, <<YesNo({Bye, Pay(Gain(Bye))})>>)
N1061000 == Talk({Ask(1)},
    <<Menu({Ask(2)}), Text({Ask(3), OkBox}), YesNo({OkBox, Pay(Gain(OkBox))})>>)
N1061005 == Talk({Ask(1)}, <<YesNo({Bye, Pay(Gain(Bye))})>>)
N1061011 == Talk({Ask(1)}, <<YesNo({Bye, Pay(Gain(Bye))})>>)
N1061012 == Talk({OkBox, Mute, Warp(Mute)}, <<>>)
N1061014 == Resume({Ask(1), Ask(2)}, {Ask(3), Ask(4), Ask(5), Ask(6), Ask(7), Ask(8), Ask(9),
        Ask(10), Ask(11), Ask(13), Ask(14), OkBox, Mute, Warp(Mute)},
    <<Says({Ask(3), Ask(4), Ask(5), Ask(6), Ask(7), Ask(8), OkBox}),
      Says({Ask(4), Ask(5), Ask(7), Ask(8), Ask(9), Ask(10), OkBox}),
      Turns({Ask(3), Ask(4), Ask(5), Ask(6), Ask(7), Ask(8), OkBox}, {Ask(3), Ask(4), Ask(5),
        Ask(6), Ask(7), Ask(8), OkBox}),
      Menu({Ask(11), Ask(12), OkBox, Mute, Warp(Mute)}), Menu({Ask(13), OkBox}),
      YesNo({Ask(14), OkBox}), YesNo({OkBox, Warp(Mute)}), YesNo({OkBox, Mute}),
      Turns({Ask(4), Ask(5), Ask(7), Ask(8), Ask(9), Ask(10), OkBox}, {Ask(4), Ask(5), Ask(7),
        Ask(8), Ask(9), Ask(10), OkBox}),
      YesNo({OkBox}), Says({Mute}), Menu({Mute}), Says({OkBox}), Says({Ask(14), OkBox})>>)
N1061019 == Talk({Ask(1)}, <<YesNo({Bye, Pay(Gain(Bye))})>>)
N1061100 == Talk({Ask(1)},
    <<Says({Ask(2)}), Menu({Ask(3)}), YesNo({Ask(4), Pay(Warp(Mute))}), Says({Mute})>>)
N1063014 == Talk({Ask(1)}, <<YesNo({Bye, Pay(Gain(Bye))})>>)
N1064002 == Resume({Ask(1), Ask(2), OkBox}, {Ask(1), Ask(2), Ask(3), Ask(4), OkBox},
    <<Says({OkBox, Pay(Warp(Mute))}), Menu({OkBox, Pay(Warp(Mute))}), Says({Mute}),
      Menu({Mute})>>)
N1064004 == Resume({Ask(1)}, {Ask(1), Ask(3), Ask(4), Ask(5)},
    <<YesNo({Ask(2)}), Text({Ask(3), OkBox}), YesNo({OkBox, Gain(OkBox)}),
      YesNo({Ask(3), OkBox}), YesNo({Mute})>>)
N1072003 == Resume({Ask(1), OkBox, Mute, Warp(Mute)}, {Ask(2), Ask(3), OkBox, Warp(Mute)},
    <<Says({Ask(2)}), Turns({Ask(3)}, {Ask(1), OkBox, Mute, Warp(Mute)}),
      Accept({OkBox}, {Ask(2)})>>)
N1090000 == Talk({Ask(1), OkBox}, <<YesNo({Bye, Pay(Gain(Bye))})>>)
N1092014 == Talk({Ask(1)},
    <<Says({Ask(2), Ask(3)}), Says({Ask(4)}), Menu({Ask(4)}), YesNo({Ask(5), Pay(Warp(Mute))}),
      Says({Mute})>>)
N1096000 == Resume({Ask(1)}, {Ask(2), Ask(3), Ask(4), Ask(5), Ask(6), Mute, Warp(Mute)},
    <<Says({Ask(2)}), Says({Ask(3)}), Says({Ask(4)}), Says({Ask(5)}), Says({Ask(6)}),
      Says({Warp(Mute)})>>)
N1103003 == Talk({Ask(1)}, <<YesNo({Bye, Pay(Gain(Bye))})>>)
N1202000 == Resume({Ask(1), Ask(2)}, {Ask(3), Ask(4), Ask(5), Ask(6), Ask(7), Ask(8), Mute,
        Warp(Mute)},
    <<Says({Ask(3), Mute}), Menu({Ask(3), Mute}), Turns({Ask(4), Mute}, {Ask(1), Ask(2)}),
      Turns({Ask(5), Mute}, {Ask(3), Mute}), Turns({Ask(6), Mute}, {Ask(4), Mute}),
      Turns({Ask(7), Mute}, {Ask(5), Mute}), Turns({Ask(8), Mute}, {Ask(6), Mute}),
      Turns({Mute, Warp(Mute)}, {Ask(7), Mute})>>)
N1209000 == Resume({Ask(1), Ask(2)}, {Ask(3), Ask(4), OkBox, Mute},
    <<Says({Ask(3), Mute}), Menu({Ask(3), OkBox}), Turns({Ask(4), Mute}, {Ask(1), Ask(2)}),
      Turns({Mute}, {Ask(3), Mute})>>)
N1300013 == Talk({Ask(1)}, <<Menu({OkBox, Warp(Mute)})>>)
N1402401 == Resume({Ask(1), OkBox}, {Ask(1), Ask(2), OkBox},
    <<Menu({OkBox, Warp(Mute)}), Menu({Mute})>>)
N1530621 == Talk({Ask(1)}, <<YesNo({Ask(2)}), Text({Ask(3), OkBox}), YesNo({Bye, Gain(Bye)})>>)
N1540496 == Resume({Ask(1)}, {Ask(1), Ask(3), Ask(4)},
    <<Text({Ask(2), OkBox}), Menu({OkBox, Pay(Warp(Mute))}), Text({OkBox, Pay(Warp(Mute))}),
      Text({Mute})>>)
N1540660 == Talk({Ask(1)}, <<YesNo({Ask(2)}), Text({Ask(3), OkBox}), YesNo({Bye, Gain(Bye)})>>)
N1540809 == Talk({Ask(1)}, <<Menu({Ask(2), Ask(3), OkBox}), YesNo({Warp(Bye)}), YesNo({Bye})>>)
N2010000 == Talk({Ask(1)},
    <<Says({Ask(2)}), YesNo({Ask(3), Ask(4)}), Says({Ask(5)}), Menu({Ask(5)}),
      YesNo({Ask(6), OkBox, Pay(Gain(OkBox))}), Says({Mute})>>)
N2010001 == Resume({Ask(1)}, {OkBox, Mute}, <<Style({OkBox})>>)
N2010003 == Talk({Mute}, <<>>)
N2010005 == Resume({Ask(1)}, {Ask(2), Ask(3), Ask(5), OkBox, Warp(OkBox), Mute, Warp(Mute),
        Pay(Warp(Mute))},
    <<Menu({Ask(2), Ask(3), Ask(4)}), Says({Ask(5)}),
      YesNo({OkBox, Warp(OkBox), Pay(Warp(Mute))}), YesNo({OkBox, Warp(OkBox), Warp(Mute)}),
      Turns({Mute}, {OkBox})>>)
N2010007 == Resume({Ask(1), OkBox}, {Ask(2), Bye, OkBox, Mute},
    <<Menu({Ask(2), OkBox}), YesNo({Bye, Mute})>>)
N2010008 == Talk({Ask(1), OkBox}, <<Menu({Ask(2), OkBox}), YesNo({Bye, OkBox})>>)
N2010009 == Talk({Ask(1), OkBox},
    <<Menu({Ask(2), Ask(3), OkBox}), YesNo({Ask(4)}), YesNo({OkBox}), Text({Ask(5)}),
      YesNo({Ask(6), OkBox}), Says({Ask(4)})>>)
N2012007 == Resume({Ask(1)}, {Ask(2), OkBox, Mute}, <<Menu({Ask(2)}), YesNo({OkBox})>>)
N2012012 == Talk({Ask(1)}, <<YesNo({Bye, Pay(Gain(Bye))})>>)
N2012019 == Talk({Ask(1)}, <<YesNo({Bye, Pay(Gain(Bye))})>>)
N2012020 == Talk({Ask(1)}, <<YesNo({Bye, Pay(Gain(Bye))})>>)
N2013001 == Talk({Ask(1), OkBox, Mute, Gain(Mute), Warp(Mute)},
    <<Says({Ask(1), OkBox, Mute, Gain(Mute), Warp(Mute)})>>)
N2020000 == Talk({Mute}, <<>>)
N2020002 == Talk({Mute}, <<>>)
N2020005 == Resume({Ask(1), Ask(2), OkBox}, {Ask(3), OkBox, Pay(Gain(OkBox)), Mute},
    <<Says({Ask(3)}), Menu({Ask(3)}), Number({Ask(4), OkBox}), YesNo({Pay(Gain(OkBox))})>>)
N2020008 == Talk({Ask(1), OkBox, Mute, Warp(Mute)}, <<Says({OkBox, Gain(OkBox), Mute})>>)
N2020009 == Resume({Ask(1), OkBox}, {OkBox, Mute}, <<Says({OkBox, Mute})>>)
N2020010 == Talk({Ask(1), OkBox}, <<Says({OkBox, Mute})>>)
N2020011 == Resume({Ask(1), OkBox}, {OkBox, Mute}, <<Says({OkBox, Mute})>>)
N2020013 == Talk({Ask(1), OkBox}, <<Says({OkBox, Mute})>>)
N2022003 == Resume({Ask(1)}, {Mute}, <<Menu({OkBox, Mute, Warp(Mute), Pay(Gain(Mute))})>>)
N2023000 == Resume({Ask(1)}, {Ask(2), OkBox, Mute, Pay(Warp(Mute))},
    <<Says({Ask(2)}), YesNo({OkBox, Pay(Warp(Mute))})>>)
N2030013 == Resume({Ask(1), OkBox}, {Ask(1), Ask(2), OkBox},
    <<YesNo({OkBox, Mute, Warp(Mute)}), YesNo({Mute})>>)
N2032001 == Talk({Mute}, <<>>)
N2032002 == Resume({Ask(1)}, {Ask(2), Mute, Pay(Mute), Warp(Mute), Pay(Warp(Mute))},
    <<Menu({Ask(2), Ask(3), Ask(4), Ask(5)}), Says({Mute}), Says({Pay(Mute), Pay(Warp(Mute))}),
      YesNo({Pay(Mute), Pay(Warp(Mute))}), YesNo({Mute, Warp(Mute)})>>)
N2040002 == Resume({Ask(1), Ask(2), OkBox}, {Ask(1), Ask(2), Ask(16), Ask(17), OkBox},
    <<Says({Ask(3), OkBox}), YesNo({Ask(3), OkBox}), Says({Ask(4), Ask(5), Ask(6), OkBox}),
      Says({Ask(7), OkBox}), YesNo({Ask(8), OkBox}), YesNo({Ask(7), OkBox}),
      Says({Ask(9), Ask(10), OkBox}), Says({Ask(11), Ask(12), OkBox}),
      Says({Ask(13), Ask(14), OkBox, Mute, Warp(Mute)}),
      Turns({Ask(13), Ask(14), OkBox, Mute, Warp(Mute)}, {Ask(7), OkBox}),
      Says({Ask(13), Ask(15), OkBox}), Turns({Ask(13), Ask(15), OkBox}, {Ask(8), OkBox}),
      Says({Ask(13), OkBox, Mute}), Turns({Ask(13), OkBox, Mute}, {Ask(9), Ask(10), OkBox}),
      Turns({Ask(13), OkBox, Mute}, {Ask(11), Ask(12), OkBox}), Says({Ask(18), OkBox}),
      YesNo({Ask(18), OkBox}), Says({Ask(5), Ask(19), OkBox}), Says({Ask(8), OkBox})>>)
N2040016 == Resume({Ask(1), Ask(2)}, {Ask(3), Ask(4), OkBox, Gain(OkBox), Mute},
    <<Says({Ask(3)}), Menu({Ask(3)}), Number({Ask(4)}), YesNo({OkBox, Gain(OkBox)})>>)
N2040020 == Resume({Ask(1), Ask(2)}, {Ask(3), Ask(5), Error},
    <<Says({Mute}), Menu({Ask(3), Ask(4)}), Says({Ask(5)}), Menu({Ask(5)}), YesNo({Error})>>)
N2040021 == Resume({Ask(1), Ask(2)}, {Ask(4), Ask(7), Ask(8), OkBox, Pay(OkBox), Pay(Gain(OkBox)),
        Mute},
    <<Says({Ask(3)}), Menu({Ask(3), Ask(4), Ask(5), Ask(6)}), Menu({Ask(7)}), Says({Ask(7)}),
      Says({Ask(8)}), Menu({Ask(8)}), YesNo({OkBox, Pay(Gain(OkBox))}),
      YesNo({OkBox, Pay(OkBox), Pay(Gain(OkBox))})>>)
N2040022 == Talk({Mute}, <<>>)
N2040028 == Resume({Ask(1), Ask(2), Ask(3)}, {Ask(1), Ask(2), Ask(3), Ask(7), Ask(8), Ask(9)},
    <<Says({Warp(Mute)}), Says({Pay(Gain(Ask(4))), Pay(Gain(Ask(5)))}), Menu({Ask(6)}),
      Says({Mute}), Turns({Mute}, {Ask(4)}), YesNo({Mute}), Says({Ask(4), Ask(5)}),
      Menu({Pay(Gain(Ask(4))), Pay(Gain(Ask(5)))}), Menu({Ask(4), Ask(5)})>>)
N2040030 == Talk({Ask(1)},
    <<Menu({Ask(2)}), Says({Ask(3)}), Turns({Ask(4)}, {Mute}), Turns({Ask(5)}, {Mute}),
      Turns({Ask(6)}, {Mute}), Turns({Ask(7)}, {Mute}), Turns({Ask(8)}, {Mute}),
      Turns({Ask(9)}, {Mute}), Turns({Ask(10)}, {Mute}), Turns({Mute}, {Mute})>>)
N2040034 == Talk({OkBox, Mute, Warp(Mute)}, <<>>)
N2040036 == Talk({Ask(1), OkBox}, <<Says({Ask(1), OkBox})>>)
N2040037 == Talk({Ask(1), OkBox}, <<Says({Ask(1), OkBox})>>)
N2040042 == Talk({Ask(1), OkBox}, <<Says({Ask(1), OkBox})>>)
N2040043 == Talk({Ask(1), Mute}, <<Says({Ask(1), Mute})>>)
N2040044 == Talk({Ask(1), Ask(2)},
    <<Says({Ask(1), Ask(2)}), Says({Mute, Pay(Mute), Pay(Warp(Mute))})>>)
N2040048 == Talk({Ask(1)},
    <<Menu({Ask(2), Ask(3), Ask(4)}), Says({Ask(5)}), YesNo({Ask(6), Pay(Warp(Mute))}),
      YesNo({Ask(7), Warp(Mute)}), Turns({Mute}, {Ask(2)}), Says({Ask(7), Warp(Mute)}),
      Says({Ask(2)})>>)
N2040050 == Resume({Ask(1)}, {Ask(2), Ask(3), Ask(4), Pay(Gain(OkBox)), Mute},
    <<Menu({Ask(2), Ask(3)}), Says({Mute}), Menu({Ask(4), Mute}),
      YesNo({Ask(2), Pay(Gain(OkBox))})>>)
N2041007 == Resume({Ask(1)}, {Ask(2), OkBox, Mute}, <<Menu({Ask(2)}), Style({OkBox})>>)
N2041009 == Resume({Ask(1)}, {Ask(2), OkBox, Mute}, <<Menu({Ask(2)}), YesNo({OkBox})>>)
N2041017 == Talk({Ask(1)},
    <<Menu({Ask(2), Ask(3), OkBox}), YesNo({OkBox, Pay(OkBox), Mute}),
      YesNo({Pay(OkBox), Mute})>>)
N2041023 == Talk({OkBox, Mute, Warp(Mute)}, <<>>)
N2042000 == Resume({Ask(1), OkBox}, {Warp(Bye), OkBox, Mute}, <<Menu({Warp(Bye), OkBox})>>)
N2042001 == Resume({Ask(1), OkBox}, {Warp(Bye), OkBox, Mute}, <<Menu({Warp(Bye), OkBox})>>)
N2042002 == Resume({Ask(1), OkBox}, {Pay(Warp(Bye)), OkBox, Mute},
    <<YesNo({Pay(Warp(Bye)), OkBox})>>)
N2042006 == Talk({Ask(1), OkBox}, <<YesNo({Warp(Bye), OkBox, Mute})>>)
N2042007 == Resume({Ask(1)}, {Ask(1), Ask(3), Ask(4)},
    <<Text({Ask(2), OkBox}), Menu({Pay(Warp(Bye)), OkBox}), Text({OkBox}),
      Text({Pay(Warp(Bye)), OkBox})>>)
N2060009 == Talk({Ask(1), Ask(2)},
    <<Menu({Pay(Warp(OkBox)), Pay(Warp(Mute))}),
      Menu({Warp(OkBox), Pay(Warp(OkBox)), Pay(Warp(Mute))})>>)
N2060103 == Talk({OkBox}, <<>>)
N2079000 == Resume({Ask(1)}, {Ask(1), Ask(3), Ask(4)},
    <<Menu({Ask(2), OkBox}), YesNo({OkBox, Pay(Warp(Mute))}), Menu({OkBox, Pay(Warp(Mute))}),
      Menu({Mute})>>)
N2081000 == Talk({OkBox}, <<>>)
N2081010 == Resume({Ask(1), Warp(Mute)}, {Ask(2), OkBox, Gain(OkBox), Mute},
    <<Says({Ask(2)}), Menu({OkBox, Gain(OkBox), Warp(Mute)})>>)
N2081100 == Resume({Ask(1), Ask(2), OkBox}, {Ask(3), Pay(Ask(3)), Pay(Gain(Ask(3))), Ask(4),
        OkBox, Mute},
    <<Says({Ask(3), Pay(Ask(3)), Pay(Gain(Ask(3))), OkBox}),
      Menu({Ask(3), Pay(Ask(3)), Pay(Gain(Ask(3))), OkBox}), Says({Ask(4)}),
      Turns({Mute}, {Ask(3), Pay(Ask(3)), Pay(Gain(Ask(3))), OkBox})>>)
N2081200 == Resume({Ask(1), OkBox}, {Ask(2), Ask(3), Ask(4), Ask(5), OkBox, Mute},
    <<Menu({Ask(2), OkBox}), Says({Ask(3), Ask(4)}), Says({Ask(5)}),
      Turns({Ask(5)}, {Ask(2), OkBox}), Turns({Mute}, {Ask(3), Ask(4)})>>)
N2081300 == Resume({Ask(1), OkBox}, {Ask(2), Ask(3), Ask(4), Ask(5), OkBox, Mute},
    <<Menu({Ask(2), OkBox}), Says({Ask(3), Ask(4)}), Says({Ask(5)}),
      Turns({Ask(5)}, {Ask(2), OkBox}), Turns({Mute}, {Ask(3), Ask(4)})>>)
N2081400 == Resume({Ask(1), Ask(2), OkBox}, {Ask(3), Pay(Ask(3)), Ask(4), OkBox, Mute},
    <<Says({Ask(3), Pay(Ask(3)), OkBox, Mute}), Menu({Ask(3), Pay(Ask(3)), OkBox}),
      Says({Ask(4)}), Turns({Mute}, {Ask(3), Pay(Ask(3)), OkBox, Mute})>>)
N2081500 == Resume({Ask(1), Ask(2), OkBox}, {Ask(3), Pay(Ask(3)), Ask(4), Ask(5), OkBox, Mute},
    <<Says({Ask(3), Pay(Ask(3)), OkBox, Mute}), Menu({Ask(3), Pay(Ask(3)), OkBox}),
      Says({Ask(4)}), Says({Ask(5)}), Turns({Mute}, {Ask(4)})>>)
N2083004 == Talk({Ask(1), Ask(2), Ask(3), Ask(4), Ask(5), OkBox},
    <<Menu({Ask(6), Ask(7), OkBox, Mute, Warp(Mute)}), Menu({Ask(8), OkBox}), YesNo({OkBox}),
      YesNo({OkBox, Warp(Mute)}), YesNo({OkBox, Mute}), Says({Mute}), Menu({Mute}),
      Says({OkBox})>>)
N2084000 == Resume({Ask(1), Mute}, {Ask(1), Ask(2), Ask(3), Ask(5), Mute},
    <<Says({Ask(2)}), Says({Ask(3)}), Says({Ask(4)}), Menu({OkBox, Pay(Gain(Mute))}),
      Says({Mute})>>)
N2090005 == Talk({Ask(1), Ask(2), Ask(3)},
    <<Says({Ask(4), Pay(Mute), Pay(Warp(Mute))}), Menu({Ask(4), Ask(5)}),
      YesNo({Ask(4), Pay(Mute), Pay(Warp(Mute))}), Says({Ask(6), Pay(Warp(Mute))}),
      YesNo({Ask(6), Pay(Warp(Mute))}), Says({Mute})>>)
N2090100 == Resume({Ask(1)}, {Ask(2), OkBox, Mute}, <<Menu({Ask(2)}), Style({OkBox})>>)
N2090101 == Talk({Ask(1)}, <<Menu({Ask(2)}), YesNo({OkBox})>>)
N2090103 == Resume({Ask(1)}, {Ask(3), OkBox, Mute},
    <<Menu({Ask(2), Ask(3)}), Style({OkBox}), YesNo({OkBox})>>)
N2090104 == Resume({Ask(1)}, {Ask(3), OkBox, Mute},
    <<Menu({Ask(2), Ask(3)}), Style({OkBox}), YesNo({OkBox})>>)
N2091005 == Resume({Ask(1)}, {Ask(1), Ask(5), Ask(6), Ask(7)},
    <<Says({Ask(2), OkBox}), Menu({Ask(3), Ask(4), Shop(Bye), OkBox, Mute}), Menu({Ask(4)}),
      Text({OkBox, Warp(Mute)}), Says({OkBox, Warp(Mute)}), Says({Mute}), Says({Ask(4)})>>)
N2094001 == Talk({Ask(1)}, <<Menu({OkBox, Pay(Gain(OkBox)), Gain(Warp(Mute))})>>)
N2094002 == Talk({Ask(1), Pay(Ask(1)), Mute, Warp(Mute)},
    <<Says({Ask(1), Pay(Ask(1)), Mute, Warp(Mute)})>>)
N2100005 == Talk({Ask(1)}, <<Menu({Ask(2)}), YesNo({Ask(3), Pay(OkBox)}), Says({Mute})>>)
N2100006 == Talk({Ask(1)}, <<Menu({Ask(2)}), Style({Ask(3), Pay(OkBox)}), Says({Mute})>>)
N2100008 == Talk({Ask(1)}, <<Style({Ask(2), Pay(OkBox)}), Says({Mute})>>)
N2100009 == Talk({Ask(1)}, <<YesNo({Ask(2), Pay(OkBox)}), Says({Mute})>>)
N2101014 == Talk({Error}, <<>>)
N2112002 == Talk({Ask(1), OkBox, Warp(Mute), Gain(Warp(Mute))},
    <<Menu({OkBox, Warp(Mute), Pay(Gain(Mute)), Gain(Warp(Mute))})>>)
N2112003 == Talk({OkBox, Pay(OkBox), Mute, Warp(Mute)}, <<>>)
N2112004 == Talk({OkBox, Pay(OkBox), Mute, Warp(Mute)}, <<>>)
N2112005 == Talk({OkBox, Pay(OkBox), Mute, Warp(Mute)}, <<>>)
N2112006 == Talk({OkBox, Pay(OkBox), Mute, Warp(Mute)}, <<>>)
N2112012 == Talk({Ask(1), OkBox, Warp(Mute), Gain(Warp(Mute))},
    <<Menu({OkBox, Warp(Mute), Pay(Gain(Mute)), Gain(Warp(Mute))})>>)
N2120028 == Resume({Ask(1)}, {Ask(1), Ask(2), Ask(4), Ask(5), Ask(6)},
    <<Menu({Ask(2), Ask(3), OkBox, Mute}), Menu({Ask(4), OkBox}), YesNo({Pay(Ask(3)), OkBox}),
      Menu({OkBox}), Menu({Mute}), Menu({Pay(Ask(3)), OkBox})>>)
N2133000 == Resume({Ask(1)}, {OkBox, Mute, Pay(Gain(Mute))},
    <<Menu({OkBox, Mute, Warp(Mute), Pay(Gain(Mute))})>>)
N2133001 == Talk({Ask(1), OkBox, Gain(OkBox), Mute, Warp(Mute), Pay(Warp(Mute))},
    <<Says({Ask(1), OkBox, Gain(OkBox), Mute, Warp(Mute), Pay(Warp(Mute))})>>)
N2140000 == Resume({Ask(1), OkBox}, {OkBox, Pay(Gain(OkBox)), Mute},
    <<YesNo({OkBox, Pay(Gain(OkBox))})>>)
N2141001 == Resume({Ask(1), OkBox}, {Ask(1), Ask(2), OkBox},
    <<Menu({OkBox, Pay(Warp(Mute))}), Menu({Mute})>>)
N2143004 == Resume({Ask(1), OkBox}, {Ask(1), Ask(2), OkBox},
    <<YesNo({OkBox, Mute, Warp(Mute)}), YesNo({Mute})>>)
N2159006 == Resume({Ask(1), Mute}, {Ask(2), Ask(3), Mute, Warp(Mute)},
    <<Says({Ask(2), Mute}), Turns({Ask(3), Mute}, {Ask(1), Mute}),
      Turns({Mute, Warp(Mute)}, {Ask(2), Mute})>>)
N2159018 == Resume({Ask(1)}, {Mute}, <<Menu({OkBox, Mute, Warp(Mute), Pay(Gain(Mute))})>>)
N2159307 == Resume({Ask(1)}, {Ask(2), Ask(3), Ask(4), Ask(5), Ask(6), Ask(7), Ask(8), Ask(9),
        Ask(10), Ask(11), Ask(12), Ask(13), Ask(14), Ask(15), Ask(16), Ask(17), Ask(18), Ask(19),
        Ask(20), Mute, Warp(Mute)},
    <<Says({Ask(2)}), Says({Ask(3)}), Says({Ask(4)}), Says({Ask(5)}), Says({Ask(6)}),
      Says({Ask(7)}), Says({Ask(8)}), Says({Ask(9)}), Says({Ask(10)}), Says({Ask(11)}),
      Says({Ask(12)}), Says({Ask(13)}), Says({Ask(14)}), Says({Ask(15)}), Says({Ask(16)}),
      Says({Ask(17)}), Says({Ask(18)}), Says({Ask(19)}), Says({Ask(20)}), Says({Warp(Mute)})>>)
N2159310 == Resume({Ask(1)}, {Ask(2), Ask(3), Ask(4), Ask(5), Ask(6), Ask(7), Ask(8), Ask(9),
        Ask(10), Ask(11), Ask(12), Ask(13), Ask(14), Ask(15), Ask(16), Ask(17), Ask(18), Ask(19),
        Ask(20), Ask(21), Ask(22), Ask(23), Ask(24), Ask(25), Ask(26), Ask(27), Ask(28), Ask(29),
        Mute, Warp(Mute)},
    <<Says({Ask(2)}), Says({Ask(3)}), Says({Ask(4)}), Says({Ask(5)}), Says({Ask(6)}),
      Says({Ask(7)}), Says({Ask(8)}), Says({Ask(9)}), Says({Ask(10)}), Says({Ask(11)}),
      Says({Ask(12)}), Says({Ask(13)}), Says({Ask(14)}), Says({Ask(15)}), Says({Ask(16)}),
      Says({Ask(17)}), Says({Ask(18)}), Says({Ask(19)}), Says({Ask(20)}), Says({Ask(21)}),
      Says({Ask(22)}), Says({Ask(23)}), Says({Ask(24)}), Says({Ask(25)}), Says({Ask(26)}),
      Says({Ask(27)}), Says({Ask(28)}), Says({Ask(29)}), Says({Warp(Mute)})>>)
N2159314 == Resume({Ask(1)}, {Ask(2), Ask(3), Ask(4), Ask(5), Ask(6), Ask(7), Ask(8), Ask(9),
        Ask(10), Ask(11), Ask(12), Ask(13), Ask(14), Ask(15), Ask(16), Ask(17), Ask(18), Ask(19),
        Ask(20), Ask(21), Ask(22), Ask(23), Ask(24), Ask(25), Ask(26), Ask(27), Ask(28), Ask(29),
        Mute, Gain(Warp(Mute))},
    <<Says({Ask(2)}), Says({Ask(3)}), Says({Ask(4)}), Says({Ask(5)}), Says({Ask(6)}),
      Says({Ask(7)}), Says({Ask(8)}), Says({Ask(9)}), Says({Ask(10)}), Says({Ask(11)}),
      Says({Ask(12)}), Says({Ask(13)}), Says({Ask(14)}), Says({Ask(15)}), Says({Ask(16)}),
      Says({Ask(17)}), Says({Ask(18)}), Says({Ask(19)}), Says({Ask(20)}), Says({Ask(21)}),
      Says({Ask(22)}), Says({Ask(23)}), Says({Ask(24)}), Says({Ask(25)}), Says({Ask(26)}),
      Says({Ask(27)}), Says({Ask(28)}), Says({Ask(29)}), Says({Gain(Warp(Mute))})>>)
N2159340 == Resume({Ask(1)}, {Ask(2), Ask(3), Ask(4), Ask(5), Ask(6), Ask(7), Ask(8), Ask(9),
        Ask(10), Ask(11), Ask(12), Ask(13), Ask(14), Ask(15), Mute, Warp(Mute)},
    <<Says({Ask(2)}), Says({Ask(3)}), Says({Ask(4)}), Says({Ask(5)}), Says({Ask(6)}),
      Says({Ask(7)}), Says({Ask(8)}), Says({Ask(9)}), Says({Ask(10)}), Says({Ask(11)}),
      Says({Ask(12)}), Says({Ask(13)}), Says({Ask(14)}), Says({Ask(15)}), Says({Warp(Mute)})>>)
N2159344 == Resume({Ask(1)}, {Ask(2), Ask(3), Ask(4), Ask(5), Ask(6), Ask(7), Ask(8), Ask(9),
        Ask(10), Ask(11), Ask(12), Ask(13), Ask(14), Ask(15), Ask(16), Ask(17), Ask(18), Mute,
        Warp(Mute)},
    <<Says({Ask(2)}), Says({Ask(3)}), Says({Ask(4)}), Says({Ask(5)}), Says({Ask(6)}),
      Says({Ask(7)}), Says({Ask(8)}), Says({Ask(9)}), Says({Ask(10)}), Says({Ask(11)}),
      Says({Ask(12)}), Says({Ask(13)}), Says({Ask(14)}), Says({Ask(15)}), Says({Ask(16)}),
      Says({Ask(17)}), Says({Ask(18)}), Says({Warp(Mute)})>>)
N2161001 == Talk({Ask(1), OkBox}, <<YesNo({OkBox, Pay(OkBox)})>>)
N2161004 == Resume({Ask(1), Ask(2), OkBox}, {Ask(1), Ask(2), Ask(3), Ask(4), OkBox},
    <<Says({OkBox, Pay(Warp(Mute))}), Menu({OkBox, Pay(Warp(Mute))}), Says({Mute}),
      Menu({Mute})>>)
N2161005 == Talk({OkBox}, <<>>)
N2162000 == Talk({Ask(1)}, <<YesNo({OkBox, Gain(OkBox), Pay(Gain(OkBox))})>>)
N2184000 == Talk({Ask(1)},
    <<Menu({Ask(2), OkBox, Mute}), YesNo({Pay(Ask(2)), OkBox, Pay(OkBox)})>>)

Scripts1 == <<
    N1000, N1002, N1003, N1004, N1005, N1006, N1007, N1501, N1502, N1503, N1504, N1505,
    N1506, N1507, N1508, N1509, N1510, N1511, N1512, N2000, N2001, N2002, N2003, N2004,
    N12000, N20000, N22000, N1002000, N1002002, N1002007, N1002100, N1010100, N1012000,
    N1012002, N1012003, N1012100, N1012103, N1012104, N1012106, N1012108, N1012111,
    N1012112, N1013305, N1020000, N1022000, N1022001, N1022003, N1022007, N1022101,
    N1023000, N1032000, N1032001, N1032002, N1032100, N1032101, N1032104, N1032106,
    N1033202, N1043000, N1052000, N1052001, N1052002, N1052003, N1052007, N1052008,
    N1052009, N1052014, N1052015, N1052016, N1052100, N1052101, N1052102, N1052103,
    N1052106, N1061000, N1061005, N1061011, N1061012, N1061014, N1061019, N1061100,
    N1063014, N1064002, N1064004, N1072003, N1090000, N1092014, N1096000, N1103003,
    N1202000, N1209000, N1300013, N1402401, N1530621, N1540496, N1540660, N1540809,
    N2010000, N2010001, N2010003, N2010005, N2010007, N2010008, N2010009, N2012007,
    N2012012, N2012019, N2012020, N2013001, N2020000, N2020002, N2020005, N2020008,
    N2020009, N2020010, N2020011, N2020013, N2022003, N2023000, N2030013, N2032001,
    N2032002, N2040002, N2040016, N2040020, N2040021, N2040022, N2040028, N2040030,
    N2040034, N2040036, N2040037, N2040042, N2040043, N2040044, N2040048, N2040050,
    N2041007, N2041009, N2041017, N2041023, N2042000, N2042001, N2042002, N2042006,
    N2042007, N2060009, N2060103, N2079000, N2081000, N2081010, N2081100, N2081200,
    N2081300, N2081400, N2081500, N2083004, N2084000, N2090005, N2090100, N2090101,
    N2090103, N2090104, N2091005, N2094001, N2094002, N2100005, N2100006, N2100008,
    N2100009, N2101014, N2112002, N2112003, N2112004, N2112005, N2112006, N2112012,
    N2120028, N2133000, N2133001, N2140000, N2141001, N2143004, N2159006, N2159018,
    N2159307, N2159310, N2159314, N2159340, N2159344, N2161001, N2161004, N2161005,
    N2162000, N2184000>>
==============================================================================
