------------------------------- MODULE MCSlide -------------------------------
(* slideArray against the rule, on every line of small tiles, and the rule *)
(* against the tests of the code.                                          *)
EXTENDS Slide

\* The table of test() (2048.c:302-316).
TestTable ==
  { <<<<0,0,0,1>>, <<1,0,0,0>>>>, <<<<0,0,1,1>>, <<2,0,0,0>>>>,
    <<<<0,1,0,1>>, <<2,0,0,0>>>>, <<<<1,0,0,1>>, <<2,0,0,0>>>>,
    <<<<1,0,1,0>>, <<2,0,0,0>>>>, <<<<1,1,1,0>>, <<2,1,0,0>>>>,
    <<<<1,0,1,1>>, <<2,1,0,0>>>>, <<<<1,1,0,1>>, <<2,1,0,0>>>>,
    <<<<1,1,1,1>>, <<2,2,0,0>>>>, <<<<2,2,1,1>>, <<3,2,0,0>>>>,
    <<<<1,1,2,2>>, <<2,3,0,0>>>>, <<<<3,0,1,1>>, <<3,2,0,0>>>>,
    <<<<2,0,1,1>>, <<2,2,0,0>>>> }
AsLine(s) == [i \in Index |-> s[i + 1]]
ASSUME RuleFitsTests == \A test \in TestTable : Slid(AsLine(test[1]), SIZE) = AsLine(test[2])
=============================================================================
