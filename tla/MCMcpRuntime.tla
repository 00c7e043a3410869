---------------------------- MODULE MCMcpRuntime ----------------------------
(* Small instances of McpRuntime: two servers, a call that can fail and one  *)
(* after it, an interrupt at every point and another while the program stops. *)
EXTENDS McpRuntime
=============================================================================
