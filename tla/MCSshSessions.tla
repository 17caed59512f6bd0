---------------------------- MODULE MCSshSessions ----------------------------
(***************************************************************************)
(* Two owners of the switch, one with a user name of its own at the switch,*)
(* two passwords, and three jobs: a sweep worker or a change of the entry, *)
(* a request or an addition, and a request. The entry starts under a name  *)
(* of the switch that is not its owner's.                                  *)
(***************************************************************************)
EXTENDS SshSessions, TLC

CONSTANTS j1, j2, j3, o1, o2, n1, n2, p1, p2

A(kind, owner) == [kind |-> kind, owner |-> owner]
C(user, pass)  == [user |-> user, pass |-> pass]

MCNames == (o1 :> n1) @@ (o2 :> n2)

MCAsks == (j1 :> {A("sweep", o1), A("update", o1), A("grant", o1), A("delete", o1)}) @@
          (j2 :> {A("command", o1), A("add", o2)}) @@
          (j3 :> {A("command", o1)})

MCOutset == {(o1 :> C(n2, p1)) @@ (o2 :> NoRow)}
==============================================================================
