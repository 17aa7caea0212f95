---------------------------- MODULE MCAutoSelection ----------------------------
(***************************************************************************)
(* Two nodes, in units of 10 ms and of one health check.  A node is near,  *)
(* far enough behind that to be left for it, or does not answer.           *)
(***************************************************************************)
EXTENDS AutoSelection

CONSTANTS a, b

MCRank == [n \in Nodes |-> IF n = a THEN 1 ELSE 2]

Link(latency, egress) == [latency |-> latency, egress |-> egress]

\* A link that answers probes also carries traffic.
HonestLinks == {Link(0, FALSE), Link(4, TRUE), Link(12, TRUE)}
=============================================================================
