--------------------------- MODULE MCWmmScheduler ---------------------------
\* Instances of WmmScheduler for model checking.
EXTENDS WmmScheduler, TLC, Sequences

\* VO sends bursts of up to 2 (6 in the code); VI's TXOP limit gives none.
ShortBursts == (VI_Q_STA :> 0) @@ (VO_Q_STA :> 2)

\* Background 3, best effort 2, video 2, voice 1, for stations and APs.
Org == [q \in EDCA |-> <<3, 2, 2, 1>>[(q % 4) + 1]]
\* A later WME update that makes all categories equal.
Equal == [q \in EDCA |-> 2]
OneOrg  == {Org}
TwoOrgs == {Org, Equal}

\* Queues of the station (0..3), of the access point (4..7), management (8).
VoBeMgmt    == {3, 5, 8}
NoQueue     == {}
BkVo        == {0, 3}
AllKinds    == {"beacon", "full", "block"}
Quiet       == {}
=============================================================================
