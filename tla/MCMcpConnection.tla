-------------------------- MODULE MCMcpConnection --------------------------
(* A tool call and a listing of two concurrent turns.                      *)
EXTENDS McpConnection

Kinds == [o \in Ops |-> IF o = "l1" THEN "list" ELSE "call"]
=============================================================================
