----------------------------- MODULE MCSidecars -----------------------------
(* A small instance of Sidecars for TLC.  The two tasks have the same task  *)
(* ID in different clusters.                                                *)
EXTENDS MCFargate, Sidecars

MCTwins ==
    {MCTask(<<Nil, <<c1, id1>>>>, c1, d1, ip1),
     MCTask(<<Nil, <<c2, id1>>>>, c2, d2, ip2)}
=============================================================================
