------------------------------ MODULE MCAccounts ------------------------------
(***************************************************************************)
(* Three names: the first account, an administrator and a free name that    *)
(* can be created or renamed to.  Wrong passwords are typed for one of      *)
(* them.  The clock is long enough for a window to end, a lock to begin in  *)
(* the next one and to end.  Two ticks make a second and the server starts  *)
(* in the middle of one, so that a token of the first second expires.       *)
(***************************************************************************)
EXTENDS Accounts

MCInitial == [admin |-> "super_admin", bob |-> "admin", cat |-> NoRole]

=============================================================================
