------------------------------ MODULE MCTerminal ------------------------------
(***************************************************************************)
(* Two users; three switches of the first, two of them a VPC pair, and one *)
(* of the second. The limit is two terminals, so that one pair or two      *)
(* single switches reach it.                                               *)
(***************************************************************************)
EXTENDS Terminal, TLC

CONSTANTS s1, s2, s3, s4, u1, u2

MCOwns  == (u1 :> {s1, s2, s3}) @@ (u2 :> {s4})
MCPairs == {{s1, s2}}
==============================================================================
