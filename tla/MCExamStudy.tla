---- MODULE MCExamStudy ----
(* Small instances of ExamStudy for TLC. *)
EXTENDS ExamStudy
TwoHomes == [c \in Cards |-> IF c = 1 THEN "Ethics Pairs" ELSE "CFA"]
\* The first card has tags of both topics: that of the longer name is its own.
TwoTopics == [c \in Cards |-> CASE c = 1 -> <<<<"los", "quant">>, <<"los", "ethics", "r1">>>>
                                [] c = 2 -> <<<<"los", "quant">>, <<"x">>>>
                                [] OTHER -> <<<<"los", "fra">>>>]
Official == {<<"los", "ethics">>, <<"los", "quant">>}
Characters == [t \in Official |-> IF t = <<"los", "ethics">> THEN 11 ELSE 10]
NoConfig == [t \in {} |-> 0]
HeavyEthics == [t \in Official |-> IF t = <<"los", "ethics">> THEN 2 ELSE 1]
Configs == {NoConfig, HeavyEthics}
OnlyHeavyEthics == {HeavyEthics}
\* The eases on either side of the threshold of a correct answer.
AgainOnDesktop == [dev \in Devices |->
  {<<2, "review">>} \cup IF dev = "desktop" THEN {<<1, "learn">>} ELSE {}]
OnlyGood == [dev \in Devices |-> {<<3, "review">>}]
====
