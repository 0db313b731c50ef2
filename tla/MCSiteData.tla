----------------------------- MODULE MCSiteData -----------------------------
(***************************************************************************)
(* Instances of SiteData for TLC.                                          *)
(***************************************************************************)
EXTENDS SiteData

CONSTANTS s1, s2

TwoSites == {s1, s2}

\* An old cache of s1, what s2 stored under s1, and cookies of the last hour.
SomeFiles ==
  [i \in Items |-> CASE i = <<s1, s1, "dom">> -> "old"
                    [] i = <<s1, s2, "local">> -> "old"
                    [] i = Jar -> "new"
                    [] OTHER -> "none"]
BothVisited == [s \in Sites |-> "old"]

OneSite == [origin |-> s1, types |-> StorageKinds \cup {"cookies"}, recent |-> FALSE]
CachesOfTheHour == [origin |-> NoSite, types |-> {"dom", "cookies"}, recent |-> TRUE]

SomeWrites == {<<s1, s1, "local">>, <<s1, s2, "dom">>}

\* What s2 stores under s1 may be open in another program.
HeldOpen == {<<s1, s2, "dom">>}

SomeClearings == {OneSite, CachesOfTheHour}
=============================================================================
