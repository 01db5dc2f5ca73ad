------------------------------ MODULE MCPager -------------------------------
(* Pager on small instances. *)
EXTENDS Pager
=============================================================================
