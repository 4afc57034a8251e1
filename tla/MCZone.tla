-------------------------------- MODULE MCZone --------------------------------
EXTENDS Zone, TLC
CONSTANTS p1, p2, p3, z1, z2

\* Either three peers meet in one zone, or two peers in two.
VARIABLE meetings
Plans == {{p1, p2, p3} \X {z1}, {p1, p2} \X {z1, z2}}

MCInit == Init /\ meetings \in Plans

MCNext ==
  /\ Next
  /\ \A z \in zones' : \E p \in Peers : <<p, z>> \in meetings
  /\ \A z \in Zones : interest'[z] \X {z} \subseteq meetings
  /\ \A p \in peers \ peers' : \E z \in Zones : <<p, z>> \in meetings
  /\ UNCHANGED meetings

MCSpec == MCInit /\ [][MCNext]_<<vars, meetings>> /\ Fairness
==============================================================================
