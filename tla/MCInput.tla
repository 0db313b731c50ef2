------------------------------ MODULE MCInput ------------------------------
(***************************************************************************)
(* Instances of Input for TLC.                                             *)
(***************************************************************************)
EXTENDS Input

CONSTANTS t1, t2, u1, u2, blank, s1, q1, q2

TwoTabs == {t1, t2}
SomeURLs == {u1, u2, blank}
SomeSites == [u \in SomeURLs |-> IF u = blank THEN NoSite ELSE s1]
OneSite == {s1}
TwoTexts == {q1, q2}
SomeMatches == [q \in TwoTexts |-> IF q = q1 THEN 2 ELSE 0]
ThreeSteps == {90, 100, 110}

Budget(k, f, z, t) == [keys |-> k, find |-> f, zoom |-> z, tabs |-> t]
Calm ==
  {Budget(3, 0, 0, 0), Budget(2, 0, 0, 1), Budget(2, 1, 0, 0), Budget(1, 1, 0, 1),
   Budget(0, 4, 0, 0), Budget(1, 3, 0, 0), Budget(0, 3, 0, 1), Budget(1, 0, 0, 2)}
Start(b, n) == [acts |-> b, file |-> [s \in OneSite |-> n]]
SomeStarts ==
  {Start(b, 0) : b \in Calm} \cup {Start(Budget(0, 0, 1, 1), 0), Start(Budget(0, 0, 1, 0), 500), Start(Budget(0, 0, 2, 0), 95)}
=============================================================================
