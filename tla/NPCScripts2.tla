----------------------------- MODULE NPCScripts2 -----------------------------
(*****************************************************************************)
(* The scripts 2500001.js to 9200100.js of scripts/npc,                      *)
(* one definition for each file: what start() does, what it does in an       *)
(* engine an earlier conversation left (Resume), and the pages.              *)
(*****************************************************************************)
EXTENDS ScriptPages

N2500001 == Resume({Ask(1)}, {Ask(1), Ask(3), Ask(4)},
    <<Text({Ask(2), OkBox}), Menu({OkBox, Pay(Warp(Mute))}), Text({OkBox, Pay(Warp(Mute))}),
      Text({Mute})>>)
N2560000 == Resume({OkBox, Gain(OkBox)}, {Mute}, <<>>)
N2560102 == Talk({Ask(1), OkBox}, <<YesNo({Bye, Pay(Bye)})>>)
N2560103 == Talk({Ask(1), OkBox}, <<YesNo({Bye, Pay(Bye)})>>)
N2560104 == Talk({Ask(1), OkBox}, <<YesNo({Bye, Pay(Bye)})>>)
N2560106 == Resume({Ask(1)}, {Ask(1), Ask(3), Ask(4)},
    <<Text({Ask(2), OkBox}), Menu({OkBox, Pay(Warp(Mute))}), Text({OkBox, Pay(Warp(Mute))}),
      Text({Mute})>>)
N2560107 == Talk({Ask(1), OkBox}, <<YesNo({Bye, Pay(Bye)})>>)
N2560110 == Talk({Ask(1), OkBox}, <<YesNo({Bye, Pay(Bye)})>>)
N2560111 == Talk({Ask(1), OkBox}, <<YesNo({Bye, Pay(Bye)})>>)
N2560112 == Talk({Ask(1), OkBox}, <<YesNo({Bye, Pay(Bye)})>>)
N2560113 == Talk({Ask(1), OkBox}, <<YesNo({Bye, Pay(Bye)})>>)
N2560118 == Talk({Ask(1), OkBox}, <<YesNo({Bye, Pay(Bye)})>>)
N2560119 == Talk({Ask(1), OkBox}, <<YesNo({Bye, Pay(Bye)})>>)
N3000003 == Resume({Ask(1), OkBox}, {Ask(1), Ask(2), OkBox},
    <<YesNo({OkBox, Pay(Warp(Mute))}), YesNo({Mute})>>)
N3000011 == Resume({Ask(1), OkBox}, {Ask(1), Ask(2), OkBox},
    <<YesNo({OkBox, Pay(Warp(Mute))}), YesNo({Mute})>>)
N3001213 == Resume({Ask(1)}, {Ask(1), Ask(3), Ask(4), Ask(5)},
    <<YesNo({Ask(2)}), Text({Ask(3), OkBox}), YesNo({OkBox, Pay(Gain(OkBox))}),
      YesNo({Ask(3), OkBox}), YesNo({Mute})>>)
N3001215 == Resume({Ask(1)}, {Ask(1), Ask(3), Ask(4), Ask(5)},
    <<YesNo({Ask(2)}), Text({Ask(3), OkBox}), YesNo({OkBox, Pay(Gain(OkBox))}),
      YesNo({Ask(3), OkBox}), YesNo({Mute})>>)
N3001222 == Resume({Ask(1), OkBox}, {Ask(1), Ask(2), OkBox},
    <<Menu({OkBox, Pay(Warp(Mute))}), Menu({Mute})>>)
N3001230 == Resume({Ask(1)}, {Ask(1), Ask(3), Ask(4), Ask(5)},
    <<YesNo({Ask(2)}), Text({Ask(3), OkBox}), YesNo({OkBox, Pay(Gain(OkBox))}),
      YesNo({Ask(3), OkBox}), YesNo({Mute})>>)
N3001612 == Talk({Ask(1), OkBox}, <<Menu({OkBox, Warp(Mute)})>>)
N3001904 == Resume({Ask(1), OkBox}, {Ask(1), Ask(2), OkBox},
    <<Menu({OkBox, Pay(Warp(Mute))}), Menu({Mute})>>)
N3001910 == Resume({Ask(1), OkBox}, {Ask(1), Ask(2), OkBox},
    <<Menu({OkBox, Pay(Warp(Mute))}), Menu({Mute})>>)
N3001913 == Resume({Ask(1), OkBox}, {Ask(1), Ask(2), OkBox},
    <<Menu({OkBox, Pay(Warp(Mute))}), Menu({Mute})>>)
N3001931 == Resume({Ask(1)}, {Ask(3), Ask(4), Ask(5), OkBox, Pay(OkBox), Mute},
    <<Menu({Ask(2), OkBox}), Text({Ask(3), Ask(4), OkBox}), Says({Ask(5)}), Menu({Ask(5)}),
      YesNo({OkBox, Pay(OkBox)})>>)
N3001947 == Talk({Ask(1), OkBox}, <<YesNo({Bye, Pay(Bye)})>>)
N3003100 == Talk({Ask(1), OkBox}, <<Menu({OkBox, Warp(Mute)})>>)
N3003101 == Resume({Ask(1)}, {Ask(1), Ask(2), Ask(5), Ask(6), Ask(7), Ask(8)},
    <<Menu({Ask(2), Mute}), Menu({Ask(3)}), Text({Ask(4), OkBox}),
      YesNo({OkBox, Pay(Gain(OkBox))}), Menu({Mute}), Menu({OkBox}), Menu({Ask(4), OkBox}),
      Menu({OkBox, Pay(Gain(OkBox))})>>)
N3003103 == Talk({Ask(1), OkBox}, <<Menu({OkBox, Mute, Warp(Mute)})>>)
N3003111 == Resume({Ask(1)}, {Ask(1), Ask(3), Ask(4), Ask(5)},
    <<YesNo({Ask(2)}), Text({Ask(3), OkBox}), YesNo({OkBox, Gain(OkBox)}),
      YesNo({Ask(3), OkBox}), YesNo({Mute})>>)
N3003126 == Talk({Ask(1)}, <<Text({Ask(2), OkBox}), Menu({OkBox, Mute, Pay(Warp(Mute))})>>)
N3003146 == Talk({Ask(1)}, <<YesNo({Ask(2), OkBox}), Menu({Warp(Bye), OkBox, Mute})>>)
N3003219 == Resume({Ask(1), OkBox}, {Ask(1), Ask(2), OkBox},
    <<YesNo({OkBox, Mute, Warp(Mute)}), YesNo({Mute})>>)
N3003250 == Talk({Ask(1), OkBox}, <<Menu({OkBox, Mute, Warp(Mute)})>>)
N3003273 == Resume({Ask(1), OkBox}, {Ask(1), Ask(2), OkBox},
    <<YesNo({OkBox, Mute, Warp(Mute)}), YesNo({Mute})>>)
N3003300 == Talk({Ask(1), OkBox, Mute}, <<YesNo({Warp(Mute)})>>)
N3003336 == Talk({Ask(1), OkBox, Mute}, <<YesNo({Warp(Mute)})>>)
N3003403 == Talk({Ask(1), OkBox}, <<Text({Ask(2), OkBox}), YesNo({Warp(Bye)})>>)
N3003428 == Resume({Ask(1)}, {Ask(1), Ask(3), Ask(4), Ask(5)},
    <<YesNo({Ask(2)}), Text({Ask(3), OkBox}), YesNo({OkBox, Pay(Gain(OkBox))}),
      YesNo({Ask(3), OkBox}), YesNo({Mute})>>)
N3003435 == Resume({Ask(1), Ask(2), OkBox}, {Ask(1), Ask(2), Ask(3), Ask(4), OkBox},
    <<Says({OkBox, Pay(Warp(Mute))}), Menu({OkBox, Pay(Warp(Mute))}), Says({Mute}),
      Menu({Mute})>>)
N3003530 == Talk({Ask(1), OkBox}, <<YesNo({Warp(Mute)})>>)
N3003531 == Talk({Ask(1), Pay(OkBox)}, <<YesNo({Bye, Pay(Bye), Pay(Gain(Bye))})>>)
N3003555 == Resume({Ask(1), OkBox}, {Ask(1), Ask(2), OkBox},
    <<YesNo({OkBox, Mute, Warp(Mute)}), YesNo({Mute})>>)
N3003558 == Talk({Ask(1)}, <<YesNo({Bye, Pay(Gain(Bye))})>>)
N3003560 == Resume({Ask(1), OkBox}, {Ask(1), Ask(2), OkBox},
    <<YesNo({OkBox, Mute, Warp(Mute)}), YesNo({Mute})>>)
N3003570 == Talk({Ask(1), OkBox}, <<Menu({Warp(Mute)})>>)
N3003659 == Resume({Ask(1), OkBox}, {Ask(1), Ask(2), OkBox},
    <<Menu({OkBox, Mute, Warp(Mute)}), Menu({Mute})>>)
N3003693 == Resume({Ask(1), OkBox}, {Ask(1), Ask(3), Ask(4), Ask(5), OkBox},
    <<YesNo({Ask(2)}), Text({Ask(3), OkBox}), YesNo({OkBox, Pay(OkBox)}), YesNo({Ask(3), OkBox}),
      YesNo({Mute})>>)
N3003707 == Resume({Ask(1), OkBox}, {Ask(1), Ask(2), OkBox},
    <<Menu({OkBox, Warp(Mute)}), Menu({Mute})>>)
N3003810 == Resume({Ask(1), Ask(2), OkBox}, {Ask(1), Ask(2), Ask(3), OkBox},
    <<YesNo({OkBox, Warp(Mute)}), YesNo({OkBox, Pay(Gain(OkBox))}), YesNo({Mute})>>)
N3003811 == Resume({Ask(1)}, {Ask(1), Ask(7), Ask(8), Ask(9)},
    <<Menu({Ask(2), Ask(3), Ask(4), Mute}), Says({OkBox}), Number({OkBox, Gain(OkBox)}),
      Menu({Ask(5), OkBox}), YesNo({Pay(Gain(Ask(6))), OkBox}), YesNo({Ask(2), Ask(4)}),
      Menu({Ask(3)}), Menu({Mute}), Menu({Ask(2), Ask(4)})>>)
N3003900 == Talk({Ask(1), OkBox}, <<YesNo({Warp(Mute)})>>)
N3003932 == Talk({Ask(1), OkBox}, <<Menu({OkBox, Warp(Mute), Pay(Warp(Mute))})>>)
N3004335 == Talk({Ask(1), OkBox}, <<YesNo({OkBox, Pay(Gain(OkBox))})>>)
N3004410 == Resume({Ask(1), OkBox}, {Ask(1), Ask(2), OkBox},
    <<Menu({OkBox, Pay(Warp(Mute))}), Menu({Mute})>>)
N3004411 == Resume({Ask(1), OkBox}, {Ask(1), Ask(2), OkBox},
    <<Menu({OkBox, Pay(Warp(Mute))}), Menu({Mute})>>)
N3004432 == Resume({Ask(1)}, {Ask(1), Ask(3), Ask(4), Ask(6), Ask(7)},
    <<Menu({Ask(2), Ask(3), OkBox}), Says({Ask(4), OkBox}), Menu({Ask(4), OkBox}),
      Menu({Ask(5), OkBox}), YesNo({OkBox, Pay(OkBox)}), Menu({OkBox, Pay(OkBox)}),
      Menu({Mute})>>)
N3004441 == Talk({Ask(1), OkBox}, <<YesNo({Warp(Mute)})>>)
N3004506 == Resume({Ask(1), OkBox}, {Ask(1), Ask(2), OkBox},
    <<Menu({OkBox, Pay(Warp(Mute))}), Menu({Mute})>>)
N3004541 == Resume({Ask(1), OkBox}, {Ask(1), Ask(2), OkBox},
    <<Menu({OkBox, Pay(Warp(Mute))}), Menu({Mute})>>)
N3004816 == Resume({Ask(1), OkBox}, {Ask(1), Ask(3), Ask(4), OkBox},
    <<Text({Ask(2), OkBox}), Menu({OkBox, Pay(Warp(Mute))}), Text({OkBox, Pay(Warp(Mute))}),
      Text({Mute})>>)
N3004971 == Resume({Ask(1), OkBox}, {Ask(1), Ask(2), OkBox},
    <<Menu({OkBox, Pay(Warp(Mute))}), Menu({Mute})>>)
N3005004 == Resume({Ask(1), OkBox}, {Ask(1), Ask(2), OkBox},
    <<Menu({OkBox, Pay(Warp(Mute))}), Menu({Mute})>>)
N3005016 == Resume({Ask(1), OkBox}, {Ask(1), Ask(2), OkBox},
    <<Menu({OkBox, Pay(Warp(Mute))}), Menu({Mute})>>)
N3005151 == Resume({Ask(1)}, {Ask(1), Ask(3), Ask(4)},
    <<Text({Ask(2), OkBox}), Menu({OkBox, Pay(Warp(Mute))}), Text({OkBox, Pay(Warp(Mute))}),
      Text({Mute})>>)
N3005162 == Resume({Ask(1), OkBox}, {Ask(1), Ask(2), OkBox},
    <<Menu({OkBox, Pay(Warp(Mute))}), Menu({Mute})>>)
N3005164 == Resume({Ask(1), OkBox}, {Ask(1), Ask(2), OkBox},
    <<Menu({OkBox, Pay(Warp(Mute))}), Menu({Mute})>>)
N3005173 == Resume({Ask(1), OkBox}, {Ask(1), Ask(2), OkBox},
    <<Menu({OkBox, Pay(Warp(Mute))}), Menu({Mute})>>)
N3005180 == Resume({Ask(1), OkBox}, {Ask(1), Ask(2), OkBox},
    <<Menu({OkBox, Pay(Warp(Mute))}), Menu({Mute})>>)
N3005258 == Resume({Ask(1)}, {Ask(1), Ask(3), Ask(4)},
    <<Text({Ask(2), OkBox}), Menu({OkBox, Pay(Warp(Mute))}), Text({OkBox, Pay(Warp(Mute))}),
      Text({Mute})>>)
N3005267 == Resume({Ask(1), OkBox}, {Ask(1), Ask(2), OkBox},
    <<Menu({OkBox, Pay(Warp(Mute))}), Menu({Mute})>>)
N3005510 == Resume({Ask(1), OkBox}, {Ask(1), Ask(2), OkBox},
    <<Menu({OkBox, Pay(Warp(Mute))}), Menu({Mute})>>)
N3005531 == Resume({Ask(1), OkBox}, {Ask(1), Ask(2), OkBox},
    <<Menu({OkBox, Pay(Warp(Mute))}), Menu({Mute})>>)
N3005541 == Resume({Ask(1), OkBox}, {Ask(1), Ask(2), OkBox},
    <<Menu({OkBox, Pay(Warp(Mute))}), Menu({Mute})>>)
N3005542 == Resume({Ask(1), OkBox}, {Ask(1), Ask(4), Ask(5), Ask(6), OkBox},
    <<Text({Ask(2), OkBox}), Menu({Ask(3)}), Menu({OkBox, Pay(Warp(Mute))}),
      Text({OkBox, Pay(Warp(Mute))}), Text({Mute}), Text({Ask(3)})>>)
N3005644 == Resume({Ask(1)}, {Ask(1), Ask(3), Ask(4)},
    <<Text({Ask(2), OkBox}), Menu({OkBox, Pay(Warp(Mute))}), Text({OkBox, Pay(Warp(Mute))}),
      Text({Mute})>>)
N3006119 == Resume({Ask(1), OkBox}, {Ask(1), Ask(2), OkBox},
    <<Menu({OkBox, Pay(Warp(Mute))}), Menu({Mute})>>)
N3006125 == Resume({Ask(1), OkBox}, {Ask(1), Ask(2), OkBox},
    <<Menu({OkBox, Pay(Warp(Mute))}), Menu({Mute})>>)
N3006126 == Resume({Ask(1), OkBox}, {Ask(1), Ask(2), OkBox},
    <<Menu({OkBox, Pay(Warp(Mute))}), Menu({Mute})>>)
N3006127 == Resume({Ask(1), OkBox}, {Ask(1), Ask(2), OkBox},
    <<Menu({OkBox, Pay(Warp(Mute))}), Menu({Mute})>>)
N3006199 == Resume({Ask(1), OkBox}, {Ask(1), Ask(2), OkBox},
    <<Menu({OkBox, Pay(Warp(Mute))}), Menu({Mute})>>)
N3006289 == Resume({Ask(1)}, {Ask(1), Ask(3), Ask(4)},
    <<Text({Ask(2), OkBox}), Menu({OkBox, Pay(Warp(Mute))}), Text({OkBox, Pay(Warp(Mute))}),
      Text({Mute})>>)
N3006295 == Resume({Ask(1), OkBox}, {Ask(1), Ask(2), OkBox}, <<YesNo({OkBox}), YesNo({Mute})>>)
N3006427 == Resume({Ask(1), OkBox}, {Ask(1), Ask(2), OkBox},
    <<Menu({OkBox, Pay(Warp(Mute))}), Menu({Mute})>>)
N3006442 == Resume({Ask(1), OkBox}, {Ask(1), Ask(2), OkBox},
    <<Menu({OkBox, Pay(Warp(Mute))}), Menu({Mute})>>)
N3006480 == Resume({Ask(1)}, {Ask(1), Ask(3), Ask(4)},
    <<Text({Ask(2), OkBox}), Menu({OkBox, Pay(Warp(Mute))}), Text({OkBox, Pay(Warp(Mute))}),
      Text({Mute})>>)
N3006519 == Talk({Ask(1), OkBox}, <<YesNo({Bye, Pay(Gain(Bye))})>>)
N3006520 == Talk({Ask(1), OkBox}, <<YesNo({Bye, Pay(Gain(Bye))})>>)
N3006521 == Talk({Ask(1), OkBox}, <<YesNo({Bye, Pay(Gain(Bye))})>>)
N3006531 == Talk({Ask(1), OkBox}, <<YesNo({Bye, Pay(Gain(Bye))})>>)
N3006532 == Talk({Ask(1), OkBox}, <<YesNo({Bye, Pay(Gain(Bye))})>>)
N3006533 == Talk({Ask(1), OkBox}, <<YesNo({Bye, Pay(Gain(Bye))})>>)
N3006534 == Talk({Ask(1), OkBox}, <<YesNo({Bye, Pay(Gain(Bye))})>>)
N3006535 == Talk({Ask(1), OkBox}, <<YesNo({Bye, Pay(Gain(Bye))})>>)
N3006536 == Talk({Ask(1), OkBox}, <<YesNo({Bye, Pay(Gain(Bye))})>>)
N3006537 == Talk({Ask(1), OkBox}, <<YesNo({Bye, Pay(Gain(Bye))})>>)
N3006538 == Talk({Ask(1), OkBox}, <<YesNo({Bye, Pay(Gain(Bye))})>>)
N3006539 == Talk({Ask(1), OkBox}, <<YesNo({Bye, Pay(Gain(Bye))})>>)
N3006540 == Talk({Ask(1), OkBox}, <<YesNo({Bye, Pay(Gain(Bye))})>>)
N3006541 == Talk({Ask(1), OkBox}, <<YesNo({Bye, Pay(Gain(Bye))})>>)
N3006548 == Resume({Ask(1)}, {Ask(1), Ask(3), Ask(4)},
    <<Text({Ask(2), OkBox}), Menu({OkBox, Pay(Warp(Mute))}), Text({OkBox, Pay(Warp(Mute))}),
      Text({Mute})>>)
N3006551 == Talk({OkBox}, <<>>)
N3006553 == Talk({OkBox}, <<>>)
N3006588 == Resume({Ask(1)}, {Ask(1), Ask(3), Ask(4)},
    <<Text({Ask(2), OkBox}), Menu({OkBox, Pay(Warp(Mute))}), Text({OkBox, Pay(Warp(Mute))}),
      Text({Mute})>>)
N3006589 == Resume({Ask(1)}, {Ask(1), Ask(3), Ask(4)},
    <<Text({Ask(2), OkBox}), Menu({OkBox, Pay(Warp(Mute))}), Text({OkBox, Pay(Warp(Mute))}),
      Text({Mute})>>)
N3006592 == Resume({Ask(1)}, {Ask(2), OkBox, Pay(OkBox), Mute},
    <<Text({Ask(2), OkBox}), YesNo({OkBox, Pay(OkBox)})>>)
N9000000 == Talk({Ask(1), Ask(2)},
    <<Menu({Ask(1), Ask(2), Ask(3), Ask(4), OkBox}), Text({Ask(1), Ask(2), Ask(3), OkBox}),
      Menu({Ask(5), OkBox}), Menu({OkBox}), Text({Ask(6), OkBox}), YesNo({OkBox})>>)
N9000001 == Talk({Ask(1)},
    <<Says({Ask(2)}), Menu({Ask(3), Ask(4), Ask(5), Mute, Warp(Mute)}), Says({Mute}),
      Menu({Ask(3), Mute}), Menu({OkBox, Mute, Pay(Gain(Mute))})>>)
N9000008 == Talk({Ask(1)}, <<YesNo({Pay(Ask(1)), OkBox})>>)
N9000011 == Talk({Ask(1)},
    <<Says({Ask(2)}), Menu({Ask(3), Ask(4), Ask(5), Mute, Warp(Mute)}), Says({Mute}),
      Menu({Ask(3), Mute}), Menu({OkBox, Mute, Pay(Gain(Mute))})>>)
N9000013 == Talk({Ask(1)},
    <<Says({Ask(2)}), Menu({Ask(3), Ask(4), Ask(5), Mute, Warp(Mute)}), Says({Mute}),
      Menu({Ask(3), Mute}), Menu({OkBox, Mute, Pay(Gain(Mute))})>>)
N9000017 == Talk({Ask(1), OkBox}, <<YesNo({OkBox, Pay(Gain(OkBox))})>>)
N9000018 == Talk({Error}, <<>>)
N9000020 == Resume({Ask(1), Ask(2)}, {Ask(1), Ask(2), Ask(3), Ask(4), Ask(7), Ask(9), Ask(10),
        Ask(11), Ask(12), Ask(13), Ask(14), Ask(15), Ask(16)},
    <<Says({Ask(3)}), Menu({Ask(4), Mute, Warp(Mute)}), Menu({Ask(5)}), Menu({Ask(6)}),
      YesNo({Ask(7)}), Says({Warp(Mute)}), Says({Ask(8), Pay(Warp(Mute))}),
      Turns({Mute}, {Ask(7)}), Says({Ask(5)}), Says({Ask(7)}), Says({Mute}),
      Menu({Ask(8), Pay(Warp(Mute))}), Menu({Mute}), Menu({Ask(3)}), Menu({Ask(7)}),
      Menu({Warp(Mute)})>>)
N9000030 == Talk({Error}, <<>>)
N9000036 == Talk({Ask(1), OkBox}, <<YesNo({Bye, Pay(Gain(Bye))})>>)
N9000038 == Resume({Ask(1)}, {Ask(1), Ask(3), Ask(4)},
    <<Text({Ask(2), OkBox}), Menu({OkBox, Warp(Mute)}), Text({OkBox, Warp(Mute)}),
      Text({Mute})>>)
N9000039 == Resume({Ask(1)}, {Ask(1), Ask(2), Ask(13), Ask(14), OkBox, Gain(OkBox), Mute, Error},
    <<Menu({Ask(2), Ask(3), Ask(4), Ask(5), Ask(6), Ask(7), Ask(8), Ask(9), Ask(10), Ask(11),
        Ask(12), OkBox, Mute}),
      Says({Ask(1)}), Says({OkBox, Gain(OkBox)}), Number({OkBox, Pay(OkBox), Mute}),
      Number({OkBox, Gain(OkBox), Mute}), Menu({OkBox, Gain(OkBox)}), Menu({OkBox, Error}),
      Menu({OkBox, Mute}), Menu({Ask(13), Ask(14), OkBox}), Style({OkBox}), Text({OkBox, Mute}),
      YesNo({OkBox}), Says({OkBox}), Menu({OkBox})>>)
N9000040 == Talk({Ask(1), OkBox},
    <<Menu({Ask(2), OkBox}), YesNo({Ask(3), OkBox}), YesNo({OkBox})>>)
N9000041 == Talk({Ask(1), OkBox}, <<Text({Ask(2), OkBox}), YesNo({Gain(OkBox)})>>)
N9000046 == Resume({Ask(1)}, {Ask(1), Ask(5)},
    <<Menu({Ask(2), OkBox}), Menu({Ask(3)}), Text({Ask(4), OkBox}), YesNo({OkBox, Pay(OkBox)}),
      Menu({Ask(2), Ask(6), OkBox}), Says({Ask(3)})>>)
N9000049 == Talk({Ask(1), Ask(2)}, <<Menu({OkBox, Mute, Warp(Mute)}), Menu({Warp(Mute)})>>)
N9000055 == Talk({Ask(1)}, <<Says({Ask(1)})>>)
N9000085 == Talk({Ask(1)}, <<Menu({OkBox})>>)
N9000086 == Talk({Ask(1), OkBox}, <<YesNo({Bye, Pay(Gain(Bye))})>>)
N9000087 == Talk({Ask(1), OkBox}, <<YesNo({Bye, Pay(Gain(Bye))})>>)
N9000088 == Talk({Ask(1), OkBox}, <<YesNo({Bye, Pay(Gain(Bye))})>>)
N9000123 == Talk({Ask(1), OkBox}, <<YesNo({Bye, Pay(Gain(Bye))})>>)
N9000157 == Talk({Ask(1), OkBox}, <<YesNo({Bye, Pay(Gain(Bye))})>>)
N9000174 == Talk({OkBox}, <<>>)
N9000230 == Talk({Ask(1), OkBox}, <<YesNo({Bye, Pay(Gain(Bye))})>>)
N9001059 == Talk({Ask(1)},
    <<Menu({Ask(2), Ask(3)}), Text({OkBox, Pay(OkBox)}), Text({OkBox, Mute})>>)
N9001063 == Talk({Ask(1)},
    <<YesNo({Ask(2), Ask(3), OkBox}), Says({Pay(Warp(Bye)), OkBox, Mute}),
      Menu({Pay(Warp(Bye)), OkBox, Mute})>>)
N9001131 == Resume({Ask(1)}, {Ask(1), Ask(3), Ask(4), Ask(5)},
    <<YesNo({Ask(2)}), Text({Ask(3), OkBox}), YesNo({OkBox, Pay(Gain(OkBox))}),
      YesNo({Ask(3), OkBox}), YesNo({Mute})>>)
N9010000 == Resume({Ask(1)}, {Ask(5), Ask(6), Ask(7), OkBox, Gain(OkBox), Pay(OkBox), Mute},
    <<Menu({Ask(2), Ask(3), Ask(4), OkBox}), Text({Ask(5), OkBox}), Text({Ask(6), OkBox}),
      Text({Ask(7), OkBox}), YesNo({Gain(OkBox)}), YesNo({Pay(OkBox)}),
      YesNo({OkBox, Gain(OkBox)})>>)
N9010017 == Resume({Ask(1), OkBox}, {Ask(1), Ask(2), OkBox, Mute},
    <<Menu({Ask(2), OkBox}), Number({Ask(1), OkBox})>>)
N9010022 == Talk({Ask(1), Ask(2), OkBox}, <<Says({Warp(Mute)}), Menu({OkBox, Warp(Mute)})>>)
N9010037 == Talk({Ask(1), OkBox},
    <<Menu({Ask(2), Ask(3), OkBox}), Says({Ask(4), OkBox}), Menu({Ask(4), OkBox}),
      YesNo({OkBox, Pay(OkBox)})>>)
N9010038 == Resume({Ask(1)}, {Ask(3), OkBox, Gain(OkBox), Mute},
    <<Menu({Ask(2), Shop(Bye), OkBox, Pay(OkBox), Mute}), Menu({Ask(3), Ask(4), OkBox}),
      YesNo({OkBox}), YesNo({OkBox, Gain(OkBox)})>>)
N9010100 == Talk({Ask(1)}, <<YesNo({Ask(2)}), Text({Ask(3), OkBox}), YesNo({Bye, Gain(Bye)})>>)
N9020000 == Talk({Ask(1), Ask(2), Mute, Warp(Mute)},
    <<Menu({OkBox, Warp(Mute), Pay(Gain(Mute))}), YesNo({OkBox, Warp(Mute), Pay(Gain(Mute))})>>)
N9020003 == Resume({Ask(1)}, {Mute}, <<Menu({OkBox, Mute, Warp(Mute), Pay(Gain(Mute))})>>)
N9020005 == Resume({Ask(1)}, {Mute}, <<Menu({OkBox, Mute, Warp(Mute), Pay(Gain(Mute))})>>)
N9030000 == Talk({Ask(1), OkBox},
    <<Menu({Ask(2), Ask(3), OkBox}), Says({Pay(Ask(4)), OkBox, Pay(OkBox), Pay(Mute)}),
      Menu({Pay(Ask(4)), OkBox, Pay(OkBox), Pay(Mute)}),
      YesNo({Pay(Ask(4)), OkBox, Pay(OkBox), Pay(Mute)})>>)
N9031001 == Resume({Ask(1)}, {Ask(2), OkBox, Gain(OkBox), Mute},
    <<Menu({Ask(2), OkBox, Pay(Gain(OkBox))}), YesNo({OkBox, Gain(OkBox)})>>)
N9031002 == Resume({Ask(1)}, {Ask(2), OkBox, Gain(OkBox), Mute},
    <<Menu({Ask(2), OkBox, Pay(Gain(OkBox))}), YesNo({OkBox, Gain(OkBox)})>>)
N9040000 == Talk({Ask(1), OkBox}, <<Menu({Ask(2), OkBox, Mute, Warp(Mute)}), Says({Mute})>>)
N9040002 == Talk({Ask(1), OkBox, Mute, Warp(Mute)},
    <<Menu({Ask(2), Ask(3), OkBox}), Says({Ask(4)}), Says({Ask(1), OkBox, Mute, Warp(Mute)}),
      Turns({Ask(1), OkBox, Mute, Warp(Mute)}, {Mute})>>)
N9040004 == Talk({OkBox}, <<>>)
N9040006 == Talk({OkBox, Warp(Mute)}, <<>>)
N9040009 == Resume({OkBox, Warp(Mute)}, {OkBox, Mute, Warp(Mute)}, <<>>)
N9062011 == Talk({Ask(1), OkBox}, <<YesNo({Pay(Warp(Bye)), OkBox, Mute})>>)
N9062015 == Talk({Ask(1), OkBox}, <<Menu({OkBox, Mute, Warp(Mute)})>>)
N9062085 == Talk({Ask(1), Ask(2), OkBox},
    <<Says({Ask(3), OkBox}), Menu({Ask(3), OkBox}), YesNo({Pay(Warp(Bye)), OkBox, Mute})>>)
N9062342 == Resume({Ask(1)}, {Ask(1), Ask(4), Ask(5), Ask(6), Ask(7)},
    <<YesNo({Ask(2)}), Menu({Ask(3)}), Text({Ask(4), OkBox}), YesNo({OkBox, Pay(OkBox)}),
      YesNo({Ask(4), OkBox}), YesNo({Ask(3)}), YesNo({Mute})>>)
N9071000 == Talk({Ask(1)}, <<YesNo({Ask(2), OkBox}), Menu({Pay(Warp(Bye)), OkBox, Mute})>>)
N9071003 == Talk({Ask(1), OkBox}, <<Menu({Bye, Warp(Bye)})>>)
N9100100 == Talk({Ask(1)}, <<Menu({Ask(2), OkBox, Mute}), YesNo({OkBox, Pay(OkBox)})>>)
N9100101 == Talk({Ask(1)}, <<Menu({Ask(2), OkBox, Mute}), YesNo({OkBox, Pay(OkBox)})>>)
N9100102 == Talk({Ask(1)}, <<Menu({Ask(2), OkBox, Mute}), YesNo({OkBox, Pay(OkBox)})>>)
N9100103 == Talk({Ask(1)}, <<Menu({Ask(2), OkBox, Mute}), YesNo({OkBox, Pay(OkBox)})>>)
N9100104 == Talk({Ask(1)}, <<Menu({Ask(2), OkBox, Mute}), YesNo({OkBox, Pay(OkBox)})>>)
N9100105 == Talk({Ask(1)}, <<Menu({Ask(2), OkBox, Mute}), YesNo({OkBox, Pay(OkBox)})>>)
N9100106 == Talk({Ask(1)}, <<Menu({Ask(2), OkBox, Mute}), YesNo({OkBox, Pay(OkBox)})>>)
N9100107 == Talk({Ask(1)}, <<Menu({Ask(2), OkBox, Mute}), YesNo({OkBox, Pay(OkBox)})>>)
N9100108 == Talk({Ask(1)}, <<Menu({Ask(2), OkBox, Mute}), YesNo({OkBox, Pay(OkBox)})>>)
N9100109 == Talk({Ask(1)},
    <<Menu({Ask(2), OkBox, Mute}), YesNo({Pay(Ask(2)), OkBox, Pay(OkBox)})>>)
N9100110 == Talk({Ask(1)}, <<Menu({Ask(2), OkBox, Mute}), YesNo({OkBox, Pay(OkBox)})>>)
N9100111 == Talk({Ask(1)}, <<Menu({Ask(2), OkBox, Mute}), YesNo({OkBox, Pay(OkBox)})>>)
N9100112 == Talk({Ask(1)}, <<Menu({Ask(2), OkBox, Mute}), YesNo({OkBox, Pay(OkBox)})>>)
N9100117 == Talk({Ask(1)}, <<Menu({Ask(2), OkBox, Mute}), YesNo({OkBox, Pay(OkBox)})>>)
N9103001 == Talk({OkBox}, <<>>)
N9103002 == Talk({Ask(1)}, <<YesNo({Gain(Warp(Mute))})>>)
N9105004 == Resume({Ask(1), OkBox, Mute, Warp(Mute)}, {OkBox, Mute, Warp(Mute)},
    <<Menu({OkBox, Mute, Warp(Mute)})>>)
N9110010 == Talk({Ask(1)},
    <<Menu({Ask(2), OkBox, Mute}), YesNo({Pay(Ask(2)), OkBox, Pay(OkBox)})>>)
N9120010 == Resume({Ask(1)}, {Ask(2), Ask(3), Ask(4), OkBox, Pay(Gain(OkBox)), Mute},
    <<YesNo({Ask(2), Ask(3)}), Says({Ask(4), OkBox, Pay(Gain(OkBox))}),
      Menu({Ask(4), OkBox, Pay(Gain(OkBox))}), Says({Mute})>>)
N9120013 == Resume({Ask(1), OkBox}, {Pay(Ask(2)), Ask(3), Ask(4), Ask(5), Ask(6), Ask(7), Ask(8),
        Ask(9), Ask(10), Ask(11), Ask(12), Ask(13), OkBox, Gain(OkBox), Mute},
    <<YesNo({Pay(Ask(2)), OkBox}), Says({Ask(3), Ask(4)}), Says({Ask(5), Ask(6)}),
      Menu({Ask(5), Ask(6)}), Says({Ask(7), Ask(8)}), Menu({Ask(7), Ask(8)}),
      Says({Ask(9), Ask(10)}), Menu({Ask(9), Ask(10)}), Says({Ask(11), Ask(12)}),
      Menu({Ask(11), Ask(12)}), Says({Ask(13)}), Menu({Ask(13)}), Says({Gain(OkBox)})>>)
N9120026 == Talk({Ask(1), Gain(Warp(Mute))}, <<Menu({OkBox, Warp(Mute)})>>)
N9120034 == Resume({Ask(1)}, {Ask(1), Ask(3), Ask(6), Ask(7), Ask(8)},
    <<Menu({Ask(2), Ask(3)}), Says({Ask(4)}), Menu({Ask(5), Pay(Gain(Mute))}),
      Turns({Ask(3)}, {Ask(2)}), Says({Mute}), Menu({Ask(4)}), Menu({Ask(3)}), Menu({Mute})>>)
N9120036 == Talk({Ask(1), Ask(2), Ask(3), Ask(4), Ask(5), Ask(6), OkBox},
    <<Says({Warp(Mute)}), Menu({Ask(7), Ask(8), OkBox, Mute, Warp(Mute)}), Menu({Ask(9), OkBox}),
      YesNo({OkBox}), YesNo({OkBox, Warp(Mute)}), YesNo({OkBox, Mute}), Says({Mute}),
      Menu({Mute}), Says({OkBox})>>)
N9120037 == Talk({Ask(1), Ask(2), Ask(3), Ask(4), Ask(5), Ask(6), OkBox},
    <<Says({Warp(Mute)}), Menu({Ask(7), Ask(8), OkBox, Mute, Warp(Mute)}), Menu({Ask(9), OkBox}),
      YesNo({OkBox}), YesNo({OkBox, Warp(Mute)}), YesNo({OkBox, Mute}), Says({Mute}),
      Menu({Mute}), Says({OkBox})>>)
N9120038 == Talk({Ask(1), Ask(2), Ask(3), Ask(4), Ask(5), Ask(6), OkBox},
    <<Says({Warp(Mute)}), Menu({Ask(7), Ask(8), Ask(9), Ask(10), OkBox}), Menu({Ask(11), OkBox}),
      YesNo({OkBox}), YesNo({OkBox, Warp(Mute)}), YesNo({OkBox, Mute}), Says({Mute}),
      Says({Ask(12)}), Says({Gain(Ask(13))}), Menu({Mute}), Says({OkBox}),
      Turns({Ask(14)}, {Ask(14)}), Turns({Gain(Ask(13))}, {Gain(Ask(13))}),
      Turns({Ask(15)}, {Ask(15)}), Turns({OkBox, Mute, Warp(Mute)}, {OkBox, Mute, Warp(Mute)})>>)
N9120039 == Talk({Ask(1), Ask(2), Ask(3), Ask(4), Ask(5), Ask(6), OkBox},
    <<Says({Warp(Mute)}), Menu({Ask(7), Ask(8), OkBox, Mute, Warp(Mute)}), Menu({Ask(9), OkBox}),
      YesNo({OkBox}), YesNo({OkBox, Warp(Mute)}), YesNo({OkBox, Mute}), Says({Mute}),
      Menu({Mute}), Says({OkBox})>>)
N9120040 == Talk({Ask(1), Ask(2), Ask(3), Ask(4), Ask(5), Ask(6), OkBox},
    <<Says({Warp(Mute)}), Menu({Ask(7), Ask(8), OkBox, Mute, Warp(Mute)}), Menu({Ask(9), OkBox}),
      YesNo({OkBox}), YesNo({OkBox, Warp(Mute)}), YesNo({OkBox, Mute}), Says({Mute}),
      Menu({Mute}), Says({OkBox})>>)
N9120050 == Talk({Ask(1), Ask(2), Ask(3), Ask(4), Ask(5), Ask(6), OkBox},
    <<Says({Warp(Mute)}), Menu({Ask(7), Ask(8), OkBox, Mute, Warp(Mute)}), Menu({Ask(9), OkBox}),
      YesNo({OkBox}), YesNo({OkBox, Warp(Mute)}), YesNo({OkBox, Mute}), Says({Mute}),
      Menu({Mute}), Says({OkBox})>>)
N9120052 == Talk({Ask(1), Ask(2), Ask(3), Ask(4), Ask(5), Ask(6), OkBox},
    <<Says({Warp(Mute)}), Menu({Ask(7), Ask(8), OkBox, Mute, Warp(Mute)}), Menu({Ask(9), OkBox}),
      YesNo({OkBox}), YesNo({OkBox, Warp(Mute)}), YesNo({OkBox, Mute}), Says({Mute}),
      Menu({Mute}), Says({OkBox})>>)
N9120053 == Resume({Ask(1), Ask(2), Ask(3), Ask(4), Ask(5), Ask(6), OkBox}, {Ask(1), Ask(2),
        Ask(3), Ask(4), Ask(5), Ask(6), Ask(7), Ask(9), OkBox, Mute, Warp(Mute)},
    <<Says({Warp(Mute)}), Menu({Ask(7), Ask(8), OkBox, Mute, Warp(Mute)}), Menu({Ask(9), OkBox}),
      YesNo({OkBox}), YesNo({OkBox, Warp(Mute)}), YesNo({OkBox, Mute}), Says({Mute}),
      Menu({Mute}), Says({OkBox})>>)
N9120100 == Resume({Ask(1)}, {Ask(2), OkBox, Mute}, <<Menu({Ask(2)}), Style({OkBox})>>)
N9120201 == Resume({Ask(1), OkBox}, {Ask(1), Ask(2), OkBox},
    <<YesNo({OkBox, Mute, Warp(Mute)}), YesNo({Mute})>>)
N9120206 == Resume({Ask(1), Ask(2)}, {OkBox, Mute, Pay(Gain(Mute))},
    <<Says({OkBox, Pay(Gain(Mute))}), YesNo({OkBox, Pay(Gain(Mute))})>>)
N9120208 == Resume({Ask(1), Ask(2)}, {OkBox, Mute, Pay(Gain(Mute))},
    <<Says({OkBox, Pay(Gain(Mute))}), YesNo({OkBox, Pay(Gain(Mute))})>>)
N9120210 == Resume({Ask(1), Ask(2)}, {OkBox, Mute, Pay(Gain(Mute))},
    <<Says({OkBox, Pay(Gain(Mute))}), YesNo({OkBox, Pay(Gain(Mute))})>>)
N9120212 == Resume({Ask(1), Ask(2)}, {OkBox, Mute, Pay(Gain(Mute))},
    <<Says({OkBox, Pay(Gain(Mute))}), YesNo({OkBox, Pay(Gain(Mute))})>>)
N9120214 == Resume({Ask(1), Ask(2)}, {OkBox, Mute, Pay(Gain(Mute))},
    <<Says({OkBox, Pay(Gain(Mute))}), YesNo({OkBox, Pay(Gain(Mute))})>>)
N9120216 == Resume({Ask(1), Ask(2)}, {OkBox, Mute, Pay(Gain(Mute))},
    <<Says({OkBox, Pay(Gain(Mute))}), YesNo({OkBox, Pay(Gain(Mute))})>>)
N9200100 == Resume({Ask(1)}, {Ask(3), OkBox, Mute},
    <<Menu({Ask(2), Ask(3)}), Style({OkBox}), YesNo({OkBox})>>)

Scripts2 == <<
    N2500001, N2560000, N2560102, N2560103, N2560104, N2560106, N2560107, N2560110,
    N2560111, N2560112, N2560113, N2560118, N2560119, N3000003, N3000011, N3001213,
    N3001215, N3001222, N3001230, N3001612, N3001904, N3001910, N3001913, N3001931,
    N3001947, N3003100, N3003101, N3003103, N3003111, N3003126, N3003146, N3003219,
    N3003250, N3003273, N3003300, N3003336, N3003403, N3003428, N3003435, N3003530,
    N3003531, N3003555, N3003558, N3003560, N3003570, N3003659, N3003693, N3003707,
    N3003810, N3003811, N3003900, N3003932, N3004335, N3004410, N3004411, N3004432,
    N3004441, N3004506, N3004541, N3004816, N3004971, N3005004, N3005016, N3005151,
    N3005162, N3005164, N3005173, N3005180, N3005258, N3005267, N3005510, N3005531,
    N3005541, N3005542, N3005644, N3006119, N3006125, N3006126, N3006127, N3006199,
    N3006289, N3006295, N3006427, N3006442, N3006480, N3006519, N3006520, N3006521,
    N3006531, N3006532, N3006533, N3006534, N3006535, N3006536, N3006537, N3006538,
    N3006539, N3006540, N3006541, N3006548, N3006551, N3006553, N3006588, N3006589,
    N3006592, N9000000, N9000001, N9000008, N9000011, N9000013, N9000017, N9000018,
    N9000020, N9000030, N9000036, N9000038, N9000039, N9000040, N9000041, N9000046,
    N9000049, N9000055, N9000085, N9000086, N9000087, N9000088, N9000123, N9000157,
    N9000174, N9000230, N9001059, N9001063, N9001131, N9010000, N9010017, N9010022,
    N9010037, N9010038, N9010100, N9020000, N9020003, N9020005, N9030000, N9031001,
    N9031002, N9040000, N9040002, N9040004, N9040006, N9040009, N9062011, N9062015,
    N9062085, N9062342, N9071000, N9071003, N9100100, N9100101, N9100102, N9100103,
    N9100104, N9100105, N9100106, N9100107, N9100108, N9100109, N9100110, N9100111,
    N9100112, N9100117, N9103001, N9103002, N9105004, N9110010, N9120010, N9120013,
    N9120026, N9120034, N9120036, N9120037, N9120038, N9120039, N9120040, N9120050,
    N9120052, N9120053, N9120100, N9120201, N9120206, N9120208, N9120210, N9120212,
    N9120214, N9120216, N9200100>>
==============================================================================
