----------------------------- MODULE MCMcpFiles -----------------------------
(* McpFiles on small instances: contents of different sizes. *)
EXTENDS McpFiles

MCSize == [c \in Content |-> CASE c = "small" -> 1
                               [] c = "medium" -> 2
                               [] c = "large" -> 4]
=============================================================================
