----------------------------- MODULE MCPipeline -----------------------------
(* Small instances of the pipeline for TLC.                                *)
EXTENDS Pipeline

CONSTANTS q1, q2

Each(n) == [q \in Query |-> n]

Zero == Each(0)
One == Each(1)
Two == Each(2)
Three == Each(3)
=============================================================================
