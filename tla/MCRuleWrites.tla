----------------------------- MODULE MCRuleWrites -----------------------------
(***************************************************************************)
(* Three sequence numbers, two rules, two remarks, two administrators and  *)
(* two requests. The jobs meet on the same numbers, so that every check of *)
(* a handler can pass, fail, and pass on a list that changes afterwards.   *)
(***************************************************************************)
EXTENDS RuleWrites, TLC

CONSTANTS a1, a2, r1, r2, p, q, m, n

List(l1, l2, l3) == (1 :> l1) @@ (2 :> l2) @@ (3 :> l3)

\* Number 1 holds a rule; number 2 is free or holds a remark.
MCOutset == {List(p, Free, Free), List(p, n, Free)}

Blank == [kind |-> "delete", acct |-> a2, old |-> 1, new |-> 1, was |-> p,
          line |-> q, rseq |-> 2, remark |-> Free,
          source |-> List(q, Free, Free)]

ApplyWithRemark == [Blank EXCEPT !.kind = "apply", !.acct = a1, !.new = 3, !.remark = m]
ApplyBare       == [Blank EXCEPT !.kind = "apply", !.new = 2]
EditMove        == [Blank EXCEPT !.kind = "edit", !.acct = a1, !.new = 2]
EditInPlace     == [Blank EXCEPT !.kind = "edit", !.acct = a1]
Delete          == Blank
\* The source has a rule, or the same remark, where the target may hold a remark.
SyncRule        == [Blank EXCEPT !.kind = "sync", !.source = List(p, q, Free)]
SyncRemark      == [Blank EXCEPT !.kind = "sync", !.source = List(p, n, Free)]

\* r1 uses a1's session. r2 uses a2's, except for its edit, which shares a1's:
\* two requests wait for one session in some behaviours and race on two in others.
MCAsks == (r1 :> {ApplyWithRemark, EditInPlace}) @@
          (r2 :> {ApplyBare, EditMove, SyncRule, SyncRemark, Delete})
==============================================================================
