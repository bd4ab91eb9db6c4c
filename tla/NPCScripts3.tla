----------------------------- MODULE NPCScripts3 -----------------------------
(*****************************************************************************)
(* The scripts 9200101.js to who.js of scripts/npc,                          *)
(* one definition for each file: what start() does, what it does in an       *)
(* engine an earlier conversation left (Resume), and the pages.              *)
(*****************************************************************************)
EXTENDS ScriptPages

N9200101 == Resume({Ask(1)}, {Ask(3), OkBox, Mute},
    <<Menu({Ask(2), Ask(3)}), Style({OkBox}), YesNo({OkBox})>>)
N9200102 == Resume({Ask(1)}, {Ask(3), OkBox, Mute},
    <<Menu({Ask(2), Ask(3)}), Style({OkBox}), YesNo({OkBox})>>)
N9201000 == Resume({OkBox}, {Ask(1), Ask(2), OkBox, Pay(Gain(OkBox)), Mute},
    <<Menu({Ask(3)}), Menu({Ask(4)}), YesNo({OkBox, Pay(Gain(OkBox))}), Text({Mute})>>)
N9201006 == Resume({Ask(1), Mute}, {Ask(2), OkBox, Mute, Warp(Mute)},
    <<YesNo({Ask(2), OkBox, Mute, Warp(Mute)}), Says({Mute})>>)
N9201010 == Resume({Ask(1), Mute}, {Ask(2), OkBox, Mute, Warp(Mute)},
    <<YesNo({Ask(2), OkBox, Mute, Warp(Mute)}), Says({Mute})>>)
N9201012 == Resume({Ask(1)}, {Pay(Gain(Ask(2))), OkBox, Mute},
    <<YesNo({Pay(Gain(Ask(2))), OkBox}), Says({Mute})>>)
N9201013 == Resume({Ask(1)}, {Pay(Gain(Ask(2))), OkBox, Mute},
    <<YesNo({Pay(Gain(Ask(2))), OkBox}), Says({Mute})>>)
N9201015 == Resume({Ask(1)}, {Ask(2), OkBox, Mute}, <<Menu({Ask(2)}), Style({OkBox})>>)
N9201016 == Resume({Ask(1)}, {Ask(2), OkBox, Mute}, <<Menu({Ask(2)}), YesNo({OkBox})>>)
N9201023 == Resume({Ask(1)}, {Ask(1), Ask(5), Ask(6), Ask(7), Ask(8)},
    <<Menu({Ask(2), OkBox, Gain(Mute)}), Says({Ask(3)}), YesNo({Ask(4)}), Says({Warp(Mute)}),
      Menu({Ask(3)}), Menu({Ask(4)}), Menu({Warp(Mute)}), Menu({Mute})>>)
N9201024 == Talk({Ask(1), OkBox},
    <<Menu({Ask(2)}), Text({Ask(3), OkBox}), YesNo({OkBox, Pay(OkBox)})>>)
N9201025 == Resume({Ask(1)}, {Ask(1), Ask(5), Ask(6), Ask(7), Ask(8)},
    <<Menu({Ask(2), OkBox, Gain(Mute)}), Says({Ask(3)}), YesNo({Ask(4)}), Says({Warp(Mute)}),
      Menu({Ask(3)}), Menu({Ask(4)}), Menu({Warp(Mute)}), Menu({Mute})>>)
N9201026 == Resume({Ask(1)}, {Ask(1), Ask(5), Ask(6), Ask(7), Ask(8)},
    <<Menu({Ask(2), OkBox, Gain(Mute)}), Says({Ask(3)}), YesNo({Ask(4)}), Says({Warp(Mute)}),
      Menu({Ask(3)}), Menu({Ask(4)}), Menu({Warp(Mute)}), Menu({Mute})>>)
N9201027 == Resume({Ask(1), OkBox}, {Ask(1), Ask(2), OkBox},
    <<YesNo({OkBox, Pay(Warp(Mute))}), YesNo({Mute})>>)
N9201039 == Talk({Ask(1), Ask(2)},
    <<Says({Ask(3)}), YesNo({Ask(3)}), Says({Ask(4), Pay(Ask(4))}), Says({Mute})>>)
N9201043 == Resume({Ask(1), OkBox, Pay(Gain(OkBox))}, {Mute, Pay(Warp(Mute))},
    <<Says({Pay(Warp(Mute))})>>)
N9201044 == Talk({OkBox, Mute, Warp(Mute)}, <<>>)
N9201045 == Talk({OkBox, Mute, Warp(Mute), Pay(Warp(Mute))}, <<>>)
N9201048 == Resume({Ask(1)}, {Mute, Warp(Mute)}, <<Menu({OkBox, Warp(Mute)})>>)
N9201056 == Talk({Ask(1), Ask(2)},
    <<Menu({Ask(3), Ask(4)}), YesNo({Ask(3), Ask(4)}), Says({Warp(Mute)}), YesNo({Warp(Mute)})>>)
N9201057 == Resume({Ask(1), Ask(2), Ask(3)}, {Ask(1), Ask(2), Ask(3), Ask(6), Ask(7)},
    <<Says({Ask(4), Warp(Mute)}), Menu({Ask(4)}), YesNo({Warp(Mute)}),
      YesNo({Ask(5), Pay(Warp(Mute))}), Says({Mute}), Says({Ask(4)}), Says({Warp(Mute)})>>)
N9201061 == Resume({Ask(1)}, {Ask(2), OkBox, Mute}, <<Says({Ask(2)}), YesNo({OkBox})>>)
N9201063 == Resume({Ask(1)}, {Ask(2), OkBox, Mute}, <<Menu({Ask(2)}), YesNo({OkBox})>>)
N9201064 == Resume({Ask(1)}, {Ask(2), OkBox, Mute}, <<Menu({Ask(2)}), Style({OkBox})>>)
N9201088 == Talk({Ask(1), Ask(2), OkBox},
    <<Says({Ask(3), OkBox}), Menu({Ask(3), OkBox}), YesNo({OkBox, Pay(OkBox)})>>)
N9201091 == Resume({Ask(1)}, {Ask(1), Ask(3), Ask(4), Ask(5)},
    <<YesNo({Ask(2)}), Text({Ask(3), OkBox}), YesNo({OkBox, Pay(Gain(OkBox))}),
      YesNo({Ask(3), OkBox}), YesNo({Mute})>>)
N9201101 == Resume({Ask(1)}, {Ask(1), Ask(5)},
    <<Menu({Ask(2), OkBox}), Menu({Ask(3)}), Text({Ask(4), OkBox}), YesNo({OkBox, Pay(OkBox)}),
      Menu({Ask(2), Ask(6), OkBox}), Says({Ask(3)})>>)
N9201102 == Talk({Ask(1), OkBox},
    <<Menu({Ask(2), OkBox}), Text({Ask(3), OkBox}), YesNo({OkBox})>>)
N9201112 == Talk({Ask(1), Mute}, <<Says({Ask(1), Mute})>>)
N9201113 == Talk({Ask(1), Ask(2), Ask(3), Ask(4), Ask(5), OkBox},
    <<Menu({Ask(6), Ask(7), OkBox, Pay(Mute), Pay(Warp(Mute))}), Menu({Ask(8), OkBox}),
      YesNo({OkBox}), YesNo({OkBox, Warp(Mute)}), YesNo({OkBox, Mute}), Says({Mute}),
      Menu({Mute}), Says({OkBox})>>)
N9201115 == Talk({Ask(1), OkBox, Mute}, <<Says({Ask(1), OkBox, Mute})>>)
N9201117 == Talk({Ask(1)}, <<Menu({Ask(2)}), Style({Ask(3), Pay(Mute)}), Says({Mute})>>)
N9201120 == Talk({Ask(1)}, <<YesNo({Bye, Pay(Gain(Bye))})>>)
N9201123 == Talk({Ask(1), OkBox},
    <<Says({Ask(2)}), Turns({Ask(3)}, {Ask(1), OkBox}), Turns({Ask(4)}, {Ask(2)}),
      Menu({Ask(5), Ask(6)}), Says({Mute}), Menu({Ask(7)}), Says({Warp(Mute)})>>)
N9201124 == Talk({Ask(1), OkBox},
    <<Says({Ask(2)}), Turns({Ask(3)}, {Ask(1), OkBox}), Turns({Ask(4)}, {Ask(2)}),
      Menu({Ask(5), Ask(6)}), Says({Mute}), Menu({Ask(7)}), Says({Warp(Mute)})>>)
N9201125 == Talk({Ask(1), OkBox},
    <<Says({Ask(2)}), Turns({Ask(3)}, {Ask(1), OkBox}), Turns({Ask(4)}, {Ask(2)}),
      Menu({Ask(5), Ask(6)}), Says({Mute}), Menu({Ask(7)}), Says({Warp(Mute)})>>)
N9201126 == Talk({Ask(1), OkBox},
    <<Says({Ask(2)}), Turns({Ask(3)}, {Ask(1), OkBox}), Turns({Ask(4)}, {Ask(2)}),
      Menu({Ask(5), Ask(6)}), Says({Mute}), Menu({Ask(7)}), Says({Warp(Mute)})>>)
N9201127 == Talk({Ask(1), OkBox},
    <<Says({Ask(2)}), Turns({Ask(3)}, {Ask(1), OkBox}), Turns({Ask(4)}, {Ask(2)}),
      Menu({Ask(5), Ask(6)}), Says({Mute}), Menu({Ask(7)}), Says({Warp(Mute)})>>)
N9201133 == Talk({OkBox, Warp(Mute)}, <<>>)
N9201135 == Talk({Ask(1)},
    <<Says({Ask(2), Ask(3)}), Says({Ask(4)}), Menu({Ask(4)}), YesNo({Ask(5), Pay(Warp(Mute))}),
      Says({Mute})>>)
N9201142 == Resume({Ask(1)}, {OkBox, Mute, Warp(Mute)}, <<Menu({OkBox, Mute, Warp(Mute)})>>)
N9201186 == Resume({Ask(1), OkBox}, {Ask(1), Ask(2), OkBox}, <<Text({Bye, OkBox}), Text({Mute})>>)
N9201233 == Talk({Ask(1), OkBox}, <<YesNo({Pay(Gain(Ask(2))), OkBox}), YesNo({Ask(1), OkBox})>>)
N9201238 == Talk({Ask(1)},
    <<Menu({Ask(2), OkBox, Mute}), YesNo({Pay(Ask(2)), OkBox, Pay(OkBox)})>>)
N9201252 == Talk({Ask(1), OkBox}, <<YesNo({Bye, Pay(Gain(Bye))})>>)
N9201358 == Talk({Ask(1), OkBox},
    <<Text({Ask(2), OkBox}), Text({Ask(3), OkBox}), Text({Ask(4), OkBox}), YesNo({Bye, OkBox})>>)
N9201428 == Talk({Ask(1), Ask(2), OkBox},
    <<Menu({OkBox, Warp(Mute), Pay(Warp(Mute))}), YesNo({Bye, Pay(Bye)})>>)
N9201429 == Talk({Ask(1), Ask(2), OkBox}, <<YesNo({Bye, Pay(Warp(Bye))}), YesNo({Warp(Bye)})>>)
N9201430 == Talk({Ask(1), OkBox}, <<YesNo({Bye, Pay(Warp(Bye))})>>)
N9201431 == Talk({Ask(1), OkBox}, <<YesNo({Bye, Pay(Warp(Bye))})>>)
N9201432 == Talk({Ask(1), OkBox}, <<YesNo({Bye, Pay(Warp(Bye))})>>)
N9201433 == Talk({Ask(1), OkBox}, <<YesNo({Bye, Pay(Gain(Bye))})>>)
N9201434 == Talk({Ask(1), OkBox}, <<YesNo({Bye, Pay(Gain(Bye))})>>)
N9201435 == Talk({Ask(1), OkBox}, <<YesNo({Bye, Pay(Gain(Bye))})>>)
N9201455 == Talk({Ask(1), OkBox},
    <<Menu({Ask(2), OkBox}), Menu({Ask(3), OkBox}), YesNo({OkBox, Pay(OkBox)})>>)
N9201598 == Talk({OkBox}, <<>>)
N9201609 == Talk({Ask(1)}, <<Text({Ask(2), OkBox}), Menu({OkBox, Warp(Mute)})>>)
N9209001 == Talk({Ask(1)}, <<Text({OkBox, Pay(OkBox)})>>)
N9209008 == Talk({Ask(1)}, <<Text({OkBox})>>)
N9250030 == Talk({Ask(1)}, <<Menu({Ask(2)}), YesNo({Ask(3), Pay(OkBox)}), Says({Mute})>>)
N9250049 == Talk({Ask(1)}, <<Menu({Ask(2)}), Style({Ask(3), Pay(OkBox)}), Says({Mute})>>)
N9250052 == Resume({Ask(1), OkBox}, {Ask(1), Ask(2), OkBox},
    <<YesNo({OkBox, Gain(OkBox)}), YesNo({Mute})>>)
N9250142 == Resume({Ask(1)}, {Ask(1), Ask(3), Ask(4)},
    <<Text({Ask(2), OkBox}), Menu({OkBox, Pay(Warp(Mute))}), Text({OkBox, Pay(Warp(Mute))}),
      Text({Mute})>>)
N9250143 == Resume({Ask(1)}, {OkBox, Mute, Warp(Mute)}, <<Menu({OkBox, Mute, Warp(Mute)})>>)
N9270023 == Talk({Ask(1)}, <<Menu({Mute})>>)
N9270026 == Resume({Ask(1)}, {OkBox, Mute},
    <<Menu({Ask(2), Ask(3)}), Style({Ask(4), Ask(5), OkBox}), YesNo({OkBox}),
      Style({Ask(4), Ask(5), Mute}), YesNo({Mute})>>)
N9270035 == Resume({Ask(1), OkBox, Gain(OkBox)}, {Ask(4), Ask(5), Ask(7), OkBox, Mute, Warp(Mute)},
    <<Menu({Ask(2), Ask(3), Shop(Bye), OkBox, Pay(Gain(OkBox)), Mute, Pay(Gain(Mute))}),
      Menu({Ask(4), Ask(5), OkBox, Mute}), Menu({Shop(Bye), OkBox, Mute}), Says({Ask(6), OkBox}),
      Menu({Ask(7), OkBox}), YesNo({OkBox, Mute}), YesNo({OkBox, Warp(Mute)})>>)
N9270047 == Resume({Ask(1), OkBox}, {Ask(1), Ask(2), OkBox},
    <<YesNo({OkBox, Mute, Warp(Mute)}), YesNo({Mute})>>)
N9300000 == Resume({Ask(1), OkBox}, {Ask(1), Ask(2), OkBox},
    <<YesNo({OkBox, Mute, Warp(Mute)}), YesNo({Mute})>>)
N9310056 == Resume({Ask(1)}, {Ask(2), OkBox, Mute, Warp(Mute)},
    <<Menu({Ask(2), OkBox, Warp(Mute)}), Says({Mute})>>)
N9310057 == Resume({Ask(1), Mute}, {Ask(4), OkBox, Mute, Warp(Mute), Pay(Gain(Mute))},
    <<Menu({Ask(2), Ask(3), OkBox, Mute, Warp(Mute)}), Says({Ask(4), Mute, Pay(Gain(Mute))}),
      Menu({Ask(4), Mute, Pay(Gain(Mute))}), Says({Mute})>>)
N9310421 == Talk({Ask(1)}, <<Menu({Ask(2), OkBox}), YesNo({OkBox, Pay(OkBox)})>>)
N9330045 == Resume({Ask(1)}, {Ask(2), Pay(Gain(Ask(2))), OkBox, Mute, Warp(Mute)},
    <<Menu({Ask(2), Pay(Gain(Ask(2))), Ask(3), OkBox, Pay(Gain(OkBox)), Warp(Mute)}),
      Says({Mute}), YesNo({Ask(2), Pay(Gain(Ask(2))), OkBox})>>)
N9330085 == Talk({Ask(1), Ask(2), Warp(Mute)},
    <<Menu({Mute, Warp(Mute), Pay(Gain(Mute)), Gain(Warp(Mute))}), Menu({Warp(Mute)})>>)
N9330109 == Resume({Ask(1)}, {Ask(2), Pay(Gain(Ask(2))), OkBox, Mute},
    <<Menu({Ask(2), Pay(Gain(Ask(2))), Ask(3), OkBox}), Says({Mute}),
      YesNo({Ask(2), Pay(Gain(Ask(2))), OkBox})>>)
N9390120 == Talk({Ask(1)}, <<YesNo({Bye, Pay(Gain(Bye))})>>)
N9390122 == Talk({Ask(1), OkBox}, <<YesNo({Bye, Gain(Bye), Pay(Gain(Bye))})>>)
N9390126 == Talk({Ask(1), OkBox}, <<Menu({OkBox, Pay(Warp(Mute))})>>)
N9390201 == Talk({Ask(1), OkBox}, <<YesNo({Bye, Pay(Gain(Bye))})>>)
N9390203 == Talk({Ask(1), OkBox}, <<YesNo({Bye, Pay(Gain(Bye))})>>)
N9390204 == Talk({Ask(1), OkBox}, <<YesNo({Bye, Pay(Gain(Bye))})>>)
N9390205 == Talk({Ask(1), OkBox}, <<YesNo({Bye, Pay(Gain(Bye))})>>)
N9390206 == Talk({Ask(1), OkBox}, <<YesNo({Bye, Pay(Gain(Bye))})>>)
N9390207 == Talk({Ask(1), OkBox}, <<YesNo({Bye, Pay(Gain(Bye))})>>)
N9390210 == Talk({Ask(1), OkBox}, <<YesNo({Bye, Pay(Gain(Bye))})>>)
N9390212 == Talk({Ask(1), OkBox}, <<YesNo({Bye, Pay(Gain(Bye))})>>)
N9390213 == Talk({Ask(1), OkBox}, <<YesNo({Bye, Pay(Gain(Bye))})>>)
N9390215 == Talk({Ask(1), OkBox}, <<YesNo({Bye, Pay(Gain(Bye))})>>)
N9390216 == Talk({Ask(1), OkBox}, <<YesNo({Bye, Pay(Gain(Bye))})>>)
N9390219 == Talk({Ask(1), OkBox}, <<YesNo({Bye, Pay(Gain(Bye))})>>)
N9390220 == Talk({Ask(1), OkBox}, <<YesNo({Bye, Pay(Gain(Bye))})>>)
N9390221 == Talk({Ask(1), OkBox}, <<YesNo({Bye, Pay(Gain(Bye))})>>)
N9390234 == Talk({Ask(1), OkBox}, <<YesNo({Bye, Pay(Gain(Bye))})>>)
N9390236 == Talk({Ask(1), OkBox}, <<YesNo({Bye, Pay(Gain(Bye))})>>)
N9390237 == Talk({Ask(1), Ask(2), OkBox},
    <<YesNo({Warp(Bye)}), YesNo({OkBox, Pay(Gain(OkBox))})>>)
N9390239 == Talk({Ask(1), OkBox}, <<YesNo({Bye, Pay(Gain(Bye))})>>)
N9390240 == Talk({Ask(1), OkBox}, <<YesNo({Bye, Pay(Gain(Bye))})>>)
N9390241 == Talk({Ask(1), OkBox}, <<YesNo({Bye, Pay(Gain(Bye))})>>)
N9390249 == Talk({Ask(1), OkBox}, <<YesNo({Bye, Pay(Gain(Bye))})>>)
N9390250 == Talk({Ask(1), OkBox}, <<YesNo({Bye, Pay(Gain(Bye))})>>)
N9390251 == Talk({Ask(1), OkBox}, <<YesNo({Bye, Pay(Gain(Bye))})>>)
N9390252 == Talk({Ask(1), OkBox}, <<YesNo({Bye, Pay(Gain(Bye))})>>)
N9390255 == Talk({Ask(1), OkBox}, <<YesNo({Bye, Pay(Gain(Bye))})>>)
N9390258 == Talk({Ask(1), OkBox}, <<YesNo({Bye, Pay(Gain(Bye))})>>)
N9390259 == Talk({Ask(1), OkBox}, <<YesNo({Bye, Pay(Gain(Bye))})>>)
N9390260 == Talk({Ask(1), OkBox}, <<YesNo({Bye, Pay(Gain(Bye))})>>)
N9390262 == Talk({Ask(1), OkBox}, <<YesNo({Bye, Pay(Gain(Bye))})>>)
N9390304 == Talk({Ask(1), OkBox}, <<YesNo({Bye, Pay(Gain(Bye))})>>)
N9390305 == Talk({Ask(1), OkBox}, <<YesNo({Bye, Pay(Gain(Bye))})>>)
N9390306 == Talk({Ask(1), OkBox}, <<YesNo({Bye, Pay(Gain(Bye))})>>)
N9390307 == Talk({OkBox, Mute}, <<>>)
N9390308 == Talk({Ask(1), OkBox}, <<YesNo({Bye, Pay(Gain(Bye))})>>)
N9390309 == Talk({Ask(1), OkBox}, <<YesNo({Bye, Pay(Gain(Bye))})>>)
N9390310 == Talk({Ask(1), OkBox}, <<YesNo({Bye, Pay(Gain(Bye))})>>)
N9390312 == Talk({Ask(1), OkBox}, <<YesNo({Bye, Pay(Gain(Bye))})>>)
N9390313 == Talk({Ask(1), OkBox}, <<YesNo({Bye, Pay(Gain(Bye))})>>)
N9390314 == Talk({OkBox}, <<>>)
N9390315 == Talk({OkBox, Pay(OkBox), Pay(Gain(OkBox))}, <<>>)
N9390316 == Talk({OkBox, Pay(OkBox)}, <<>>)
N9390317 == Talk({Ask(1), OkBox}, <<YesNo({Bye, Pay(Gain(Bye))})>>)
N9390318 == Talk({OkBox}, <<>>)
N9390319 == Talk({Ask(1), OkBox}, <<YesNo({Bye, Pay(Gain(Bye))})>>)
N9390320 == Talk({Ask(1), OkBox}, <<YesNo({Bye, Pay(Gain(Bye))})>>)
N9390324 == Talk({OkBox, Pay(OkBox), Pay(Gain(OkBox))}, <<>>)
N9390326 == Resume({Ask(1), OkBox}, {Ask(1), Ask(5), OkBox},
    <<Menu({Ask(2), Ask(3), OkBox}), Says({Ask(4), OkBox}), Menu({Ask(4), OkBox}),
      YesNo({OkBox, Pay(OkBox)}), Says({Ask(2), Ask(3), OkBox})>>)
N9390327 == Resume({Ask(1)}, {Ask(1), Ask(5), Ask(6), Ask(7), Ask(8)},
    <<YesNo({Ask(2), OkBox}), Menu({Ask(3), Ask(4)}), Says({Ask(5)}), Menu({Ask(5)}),
      YesNo({OkBox, Pay(OkBox)}), YesNo({Ask(3), Ask(4)}), YesNo({Ask(5)}), YesNo({OkBox})>>)
N9390328 == Talk({Ask(1), OkBox}, <<YesNo({Bye, Pay(Gain(Bye))})>>)
N9390329 == Talk({Ask(1), OkBox}, <<YesNo({Bye, Pay(Gain(Bye))})>>)
N9390330 == Talk({Ask(1), OkBox}, <<YesNo({Bye, Pay(Gain(Bye))})>>)
N9390331 == Talk({Ask(1), OkBox}, <<YesNo({Bye, Pay(Gain(Bye))})>>)
N9390333 == Talk({Ask(1), OkBox}, <<YesNo({Bye, Pay(Gain(Bye))})>>)
N9390335 == Talk({Ask(1), OkBox}, <<YesNo({Bye, Pay(Gain(Bye))})>>)
N9390336 == Talk({OkBox}, <<>>)
N9390417 == Talk({Ask(1), OkBox},
    <<YesNo({Ask(2)}), Text({Ask(3), OkBox}), YesNo({OkBox, Pay(OkBox)})>>)
N9390442 == Resume({Ask(1), OkBox}, {Ask(1), Ask(3), Ask(4), Ask(5), OkBox},
    <<YesNo({Ask(2)}), Text({Ask(3), OkBox}), YesNo({OkBox, Gain(OkBox)}),
      YesNo({Ask(3), OkBox}), YesNo({OkBox})>>)
N9390443 == Talk({Ask(1), OkBox},
    <<YesNo({Ask(2), OkBox}), Menu({OkBox, Warp(Mute), Pay(Warp(Mute))})>>)
N9390450 == Talk({OkBox}, <<>>)
N9390451 == Talk({OkBox}, <<>>)
N9390470 == Talk({Ask(1), OkBox}, <<YesNo({Bye, Pay(Gain(Bye))})>>)
N9400061 == Resume({Ask(1)}, {Ask(3), Ask(4), Pay(Ask(5)), OkBox, Pay(OkBox), Mute},
    <<Menu({Ask(2), Ask(3), OkBox}), Text({Ask(4), OkBox}), YesNo({Pay(Ask(5)), OkBox}),
      YesNo({OkBox, Pay(OkBox)}), Menu({Ask(3), OkBox})>>)
N9400218 == Resume({Ask(1), OkBox}, {Ask(1), Ask(3), OkBox},
    <<Menu({Ask(2), OkBox}), YesNo({Pay(Ask(2)), OkBox, Pay(OkBox)}), Says({Ask(2), OkBox})>>)
N9400527 == Resume({Ask(1)}, {Ask(3), Ask(4), Ask(5), OkBox, Pay(OkBox), Mute},
    <<Menu({Ask(2), OkBox}), Text({Ask(3), Ask(4), OkBox}), Says({Ask(5)}), Menu({Ask(5)}),
      YesNo({OkBox, Pay(OkBox)})>>)
N9400530 == Talk({Ask(1)}, <<YesNo({OkBox, Pay(Warp(Mute))})>>)
N9400581 == Talk({Ask(1), OkBox},
    <<Menu({Ask(2), OkBox}), Menu({Ask(3), OkBox}), YesNo({OkBox, Pay(OkBox)})>>)
N9400584 == Talk({Ask(1)},
    <<Menu({Ask(2), Ask(3), Ask(4), OkBox}), Text({Ask(3), OkBox}), YesNo({OkBox, Pay(OkBox)}),
      YesNo({OkBox})>>)
N9400719 == Talk({Ask(1), OkBox}, <<Menu({OkBox, Mute, Warp(Mute)})>>)
N9400801 == Talk({Ask(1)},
    <<Menu({Ask(2), Ask(3), Ask(4), Ask(5), Ask(6), OkBox}), Says({OkBox, Pay(Gain(OkBox))}),
      Says({Ask(7)}), Menu({OkBox, Pay(Gain(OkBox))}), Menu({Ask(7)}),
      YesNo({OkBox, Pay(Gain(OkBox))}), Text({OkBox, Pay(Warp(OkBox))})>>)
N9400813 == Resume({Ask(1)}, {Ask(1), Ask(3), Ask(4)},
    <<Menu({Ask(2), Ask(3), OkBox}), Says({OkBox}), Menu({OkBox}), Menu({Mute})>>)
N9400822 == Resume({Ask(1)}, {Ask(1), Ask(3), Ask(5), Ask(6), Ask(7)},
    <<Menu({Ask(2), Ask(3), Ask(4), OkBox}), Says({Ask(5), OkBox}), Menu({Ask(5), OkBox}),
      YesNo({Pay(Ask(4)), OkBox}), Menu({OkBox}), Menu({Mute}), Menu({Pay(Ask(4)), OkBox})>>)
N9400823 == Resume({Ask(1)}, {Ask(1), Ask(3), Ask(5), Ask(7), Ask(8), Ask(9)},
    <<Menu({Ask(2), Ask(3), Ask(4), OkBox}), Says({Ask(5), OkBox}), Menu({Ask(5), OkBox}),
      YesNo({Pay(Ask(4)), OkBox}), Menu({Ask(6), OkBox}), YesNo({OkBox, Pay(OkBox)}),
      Menu({OkBox, Pay(OkBox)}), Menu({Mute}), Menu({Pay(Ask(4)), OkBox})>>)
N9400827 == Resume({Ask(1)}, {Ask(1), Ask(3), Ask(5), Ask(6), Ask(7)},
    <<Menu({Ask(2), Ask(3), Ask(4), OkBox}), Says({Ask(5), OkBox}), Menu({Ask(5), OkBox}),
      YesNo({Pay(Ask(4)), OkBox}), Menu({OkBox}), Menu({Mute}), Menu({Pay(Ask(4)), OkBox})>>)
N9400829 == Talk({Ask(1), OkBox},
    <<YesNo({Ask(2), Ask(3), OkBox}), Says({Ask(4), OkBox}), Menu({Ask(4), OkBox}),
      YesNo({OkBox})>>)
N9400832 == Resume({Ask(1)}, {Ask(1), Ask(3), Ask(5), Ask(6), Ask(7)},
    <<Menu({Ask(2), Ask(3), Ask(4), OkBox}), Says({Ask(5), OkBox}), Menu({Ask(5), OkBox}),
      YesNo({Pay(Ask(4)), OkBox}), Menu({OkBox}), Menu({Mute}), Menu({Pay(Ask(4)), OkBox})>>)
N9400836 == Talk({Ask(1), OkBox},
    <<Menu({Ask(2), OkBox}), Menu({Ask(3), OkBox}), YesNo({OkBox, Pay(OkBox)})>>)
N9400837 == Resume({Ask(1)}, {Ask(1), Ask(3), Ask(5), Ask(6), Ask(7)},
    <<Menu({Ask(2), Ask(3), Ask(4), OkBox}), Says({Ask(5), OkBox}), Menu({Ask(5), OkBox}),
      YesNo({Pay(Ask(4)), OkBox}), Menu({OkBox}), Menu({Mute}), Menu({Pay(Ask(4)), OkBox})>>)
N9400841 == Talk({Ask(1)},
    <<Menu({Ask(2), Ask(3)}), Says({OkBox, Pay(Gain(OkBox))}), Menu({OkBox, Pay(Gain(OkBox))})>>)
N9400842 == Talk({Ask(1)},
    <<Menu({Ask(2), Ask(3)}), Says({OkBox, Pay(Gain(OkBox))}), Menu({OkBox, Pay(Gain(OkBox))})>>)
N9400843 == Resume({Ask(1)}, {Ask(1), Ask(3), Ask(5), Ask(6), Ask(7)},
    <<Menu({Ask(2), Ask(3), Ask(4), OkBox}), Says({Ask(5), OkBox}), Menu({Ask(5), OkBox}),
      YesNo({Pay(Ask(4)), OkBox}), Menu({OkBox}), Menu({Mute}), Menu({Pay(Ask(4)), OkBox})>>)
N9400844 == Talk({Ask(1)}, <<Menu({Ask(2), OkBox}), YesNo({OkBox, Pay(OkBox)})>>)
N9400845 == Talk({Ask(1), OkBox},
    <<Menu({Ask(2), Ask(3), Ask(4)}), Says({OkBox, Pay(OkBox)}), Menu({OkBox, Pay(OkBox)}),
      YesNo({OkBox, Pay(OkBox)})>>)
N9400852 == Resume({Ask(1)}, {Ask(1), Ask(3), Ask(5), Ask(6), Ask(7)},
    <<Menu({Ask(2), Ask(3), Ask(4), OkBox}), Says({Ask(5), OkBox}), Menu({Ask(5), OkBox}),
      YesNo({Pay(Ask(4)), OkBox}), Menu({OkBox}), Menu({Mute}), Menu({Pay(Ask(4)), OkBox})>>)
N9400917 == Talk({Ask(1), OkBox},
    <<Menu({Ask(2)}), Text({Ask(3), OkBox}), YesNo({OkBox, Pay(OkBox)})>>)
N9400981 == Talk({Ask(1), OkBox},
    <<Menu({Ask(2), Ask(3), OkBox}), Says({Pay(Gain(OkBox))}), Menu({Pay(Gain(OkBox))})>>)
N9400982 == Resume({Ask(1), OkBox}, {Ask(1), Ask(3), OkBox},
    <<Menu({Ask(2), OkBox}), YesNo({Pay(Ask(2)), OkBox, Pay(OkBox)}), Says({Ask(2), OkBox})>>)
N9400983 == Resume({Ask(1), OkBox}, {Ask(1), Ask(4), OkBox},
    <<Menu({Ask(2)}), YesNo({Gain(Ask(3)), OkBox}), YesNo({Ask(1), Ask(4), OkBox}),
      Says({Ask(2)})>>)
N9400985 == Talk({Ask(1)},
    <<Menu({Ask(2), Ask(3)}), Says({OkBox, Pay(Gain(OkBox))}), Menu({OkBox, Pay(Gain(OkBox))})>>)
N9400986 == Talk({Ask(1), Ask(2), OkBox},
    <<Says({OkBox, Pay(Gain(OkBox))}), Menu({OkBox, Pay(Gain(OkBox))})>>)
N9401088 == Talk({Ask(1), Ask(2), OkBox},
    <<Says({Ask(3)}), Menu({Ask(3)}), YesNo({Ask(4)}), Menu({Ask(5), Ask(6)}), Says({Ask(7)}),
      Menu({Ask(7)}), YesNo({OkBox, Pay(OkBox)})>>)
N9401169 == Talk({Ask(1)}, <<YesNo({Ask(2)}), YesNo({OkBox, Pay(OkBox)})>>)
N9900000 == Talk({Ask(1), OkBox}, <<Menu({Ask(2)}), Style({Mute})>>)
N9901101 == Resume({Ask(1)}, {Ask(4), OkBox, Pay(Gain(OkBox)), Mute, Pay(Mute), Warp(Mute),
        Pay(Warp(Mute))},
    <<Menu({Ask(2), Ask(3), Ask(4)}), Says({OkBox, Pay(Gain(OkBox))}),
      Menu({OkBox, Pay(Gain(OkBox))}),
      YesNo({OkBox, Mute, Pay(Mute), Warp(Mute), Pay(Warp(Mute))})>>)
N9901201 == Resume({Ask(1)}, {Ask(2), Ask(3), OkBox, Gain(OkBox), Mute},
    <<Menu({Ask(2), Ask(3), Ask(4), Ask(5), Ask(6), Mute}), Says({OkBox, Mute}),
      Menu({OkBox, Gain(OkBox)}), Menu({OkBox, Gain(OkBox), Mute}), Style({OkBox}),
      YesNo({OkBox})>>)
N9901501 == Resume({Ask(1)}, {Ask(2), Ask(3), OkBox, Gain(OkBox), Mute},
    <<Menu({Ask(2), Ask(3)}), Says({OkBox, Gain(OkBox)}), Menu({OkBox, Gain(OkBox)})>>)
N9901503 == Talk({Ask(1), Ask(2), Ask(3), Ask(4), Ask(5), OkBox},
    <<Menu({Ask(6), Ask(7), OkBox, Mute, Warp(Mute)}), Menu({Ask(8), OkBox}), YesNo({OkBox}),
      YesNo({OkBox, Warp(Mute)}), YesNo({OkBox, Mute}), Says({Mute}), Menu({Mute}),
      Says({OkBox})>>)
N9901504 == Resume({Ask(1)}, {Ask(2), OkBox, Gain(OkBox), Mute},
    <<Says({Ask(2), OkBox}), YesNo({Gain(OkBox)})>>)
N9901900 == Talk({Ask(1)}, <<Menu({Ask(2), Mute}), Says({Ask(1)})>>)
Nachievements == Talk({Ask(1)}, <<Menu({OkBox})>>)
Nap == Resume({Ask(1), OkBox}, {Ask(3), Ask(4), OkBox, Mute},
    <<Menu({Ask(2), Ask(3)}), Text({Ask(4)}), Text({Mute}), YesNo({OkBox})>>)
Nblacklist == Talk({Ask(1)},
    <<Menu({Ask(2), Ask(3), OkBox}), Menu({Ask(4)}), Menu({Ask(5)}), Text({Mute}),
      Says({Ask(1)})>>)
Nboost == Resume({Ask(1)}, {Ask(1), Ask(4), Ask(5), Ask(6)},
    <<Menu({Ask(2)}), Text({Ask(3), OkBox}), YesNo({OkBox, Pay(OkBox)}), Menu({Ask(3), OkBox}),
      Menu({OkBox, Pay(OkBox)}), Menu({Mute})>>)
Nequips == Talk({Ask(1)}, <<Menu({Ask(2), Ask(3), OkBox}), Says({OkBox}), Menu({OkBox})>>)
Nfish == Resume({Ask(1), OkBox}, {OkBox, Mute}, <<Menu({OkBox})>>)
Nhelp == Talk({OkBox}, <<>>)
Ninstance == Resume({Ask(1), OkBox}, {Ask(1), Ask(2), OkBox},
    <<Menu({OkBox, Warp(Mute), Pay(Warp(Mute))}), Menu({Mute})>>)
Njob == Talk({OkBox}, <<>>)
Nmaps == Talk({Ask(1), Ask(2)}, <<Says({Warp(Mute)}), Menu({OkBox, Warp(Mute)})>>)
Nmoral_quest == Talk({Ask(1), OkBox}, <<YesNo({Bye, Pay(Gain(Bye))})>>)
Npal_battle == Talk({Ask(1), Ask(2), OkBox}, <<Says({Bye}), YesNo({Bye})>>)
Nquest == Resume({Ask(1)}, {Ask(1), Ask(2)}, <<Says({OkBox}), Says({Mute})>>)
Nrandom_job == Talk({Ask(1)}, <<Menu({OkBox})>>)
Nshop == Talk({Ask(1), OkBox}, <<Menu({Ask(2)}), Text({Bye})>>)
Nskill == Talk({OkBox}, <<>>)
Ntest == Resume({Ask(1)}, {Ask(1), Ask(3), Ask(4)},
    <<Menu({Ask(2), Ask(3), OkBox}), Says({OkBox}), Menu({OkBox}), Menu({Mute})>>)
Nwarp == Resume({Ask(1)}, {Ask(1), Ask(2), Ask(3), Ask(5), Ask(6)},
    <<Menu({Ask(2), Ask(3), Ask(4), OkBox}), Menu({Warp(Mute)}), Menu({OkBox}),
      YesNo({OkBox, Pay(OkBox)}), Menu({Mute}), Menu({OkBox, Pay(OkBox)})>>)
Nwho == Talk({OkBox}, <<>>)

Scripts3 == <<
    N9200101, N9200102, N9201000, N9201006, N9201010, N9201012, N9201013, N9201015,
    N9201016, N9201023, N9201024, N9201025, N9201026, N9201027, N9201039, N9201043,
    N9201044, N9201045, N9201048, N9201056, N9201057, N9201061, N9201063, N9201064,
    N9201088, N9201091, N9201101, N9201102, N9201112, N9201113, N9201115, N9201117,
    N9201120, N9201123, N9201124, N9201125, N9201126, N9201127, N9201133, N9201135,
    N9201142, N9201186, N9201233, N9201238, N9201252, N9201358, N9201428, N9201429,
    N9201430, N9201431, N9201432, N9201433, N9201434, N9201435, N9201455, N9201598,
    N9201609, N9209001, N9209008, N9250030, N9250049, N9250052, N9250142, N9250143,
    N9270023, N9270026, N9270035, N9270047, N9300000, N9310056, N9310057, N9310421,
    N9330045, N9330085, N9330109, N9390120, N9390122, N9390126, N9390201, N9390203,
    N9390204, N9390205, N9390206, N9390207, N9390210, N9390212, N9390213, N9390215,
    N9390216, N9390219, N9390220, N9390221, N9390234, N9390236, N9390237, N9390239,
    N9390240, N9390241, N9390249, N9390250, N9390251, N9390252, N9390255, N9390258,
    N9390259, N9390260, N9390262, N9390304, N9390305, N9390306, N9390307, N9390308,
    N9390309, N9390310, N9390312, N9390313, N9390314, N9390315, N9390316, N9390317,
    N9390318, N9390319, N9390320, N9390324, N9390326, N9390327, N9390328, N9390329,
    N9390330, N9390331, N9390333, N9390335, N9390336, N9390417, N9390442, N9390443,
    N9390450, N9390451, N9390470, N9400061, N9400218, N9400527, N9400530, N9400581,
    N9400584, N9400719, N9400801, N9400813, N9400822, N9400823, N9400827, N9400829,
    N9400832, N9400836, N9400837, N9400841, N9400842, N9400843, N9400844, N9400845,
    N9400852, N9400917, N9400981, N9400982, N9400983, N9400985, N9400986, N9401088,
    N9401169, N9900000, N9901101, N9901201, N9901501, N9901503, N9901504, N9901900,
    Nachievements, Nap, Nblacklist, Nboost, Nequips, Nfish, Nhelp, Ninstance, Njob, Nmaps,
    Nmoral_quest, Npal_battle, Nquest, Nrandom_job, Nshop, Nskill, Ntest, Nwarp, Nwho>>
==============================================================================
