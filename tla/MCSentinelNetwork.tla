------------------------- MODULE MCSentinelNetwork -------------------------
(* The sentinel and two others, so that a dispute may have a bystander.    *)
EXTENDS SentinelNetwork

CONSTANTS me, s1, s2
=============================================================================
