---------------------------- MODULE MCAutoscaler ----------------------------
(* Autoscaler on a few machines: model values and their symmetry.          *)
EXTENDS Autoscaler, TLC

CONSTANTS s1, s2, s3, o1, o2, o3, o4, r1, p1

MCSpotNodes == {s1, s2, s3}
MCOnDemandNodes == {o1, o2}
MCFourOnDemandNodes == {o1, o2, o3, o4}
MCOneSpotNode == {s1}
MCReservedNodes == {r1}
MCNoNodes == {}
MCOnePod == {p1}
MCNodePools == <<"on-demand", "spot">>

\* On-demand machines are interchangeable.
MCSymmetry == Permutations(MCFourOnDemandNodes)
=============================================================================
