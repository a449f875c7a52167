--------------------------- MODULE MCMcpLifecycle ---------------------------
(* Small instances of McpLifecycle. *)
EXTENDS McpLifecycle, TLC

CONSTANTS p1, p2, p3, s1, s2, s3

Interchangeable == Permutations({p1, p2, p3}) \cup Permutations({s1, s2, s3})
=============================================================================
