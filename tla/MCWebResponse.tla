----------------------------- MODULE MCWebResponse -----------------------------
(***************************************************************************)
(* Every kind of response.  Files of templates have a name whose value is  *)
(* longer than its placeholder, one whose value is empty, one that is too  *)
(* long for a name, doubled and lone percent signs; 0 is the percent sign. *)
(***************************************************************************)
EXTENDS WebResponse

File(text) == [i \in DOMAIN text |-> <<"body", text[i]>>]

MCValues == [name \in {File(<<1>>), File(<<2>>), File(<<1, 1>>)} |->
               IF name = File(<<1>>) THEN File(<<7, 8, 9, 6, 4>>) ELSE IF name = File(<<2>>) THEN <<>> ELSE File(<<4>>)]

MCTexts == << File(<<5, 0, 1, 0, 5>>), File(<<0, 2, 0, 0, 1, 0>>), File(<<5, 0, 0, 1, 0>>),
              File(<<0, 1, 1, 0, 5>>), File(<<5, 0, 5, 5>>), File(<<0, 1, 1, 5, 0, 5>>) >>
=============================================================================
