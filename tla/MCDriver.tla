------------------------------ MODULE MCDriver ------------------------------
(* The driver on a chain of a few blocks that reorgs while it is followed.  *)
EXTENDS Driver

\* From a configured block on a chain that is as shallow as max_reorg_depth says,
\* and without one on a chain that is not.
MCSettings == {[start_block |-> 0, limit |-> 2], [start_block |-> NoBlock, limit |-> 3]}
=============================================================================
