--------------------------- MODULE MCConfigObjects ---------------------------
(***************************************************************************)
(* One object of each type and a list more; one request of any kind, and   *)
(* one that takes away or changes what the first one read.                 *)
(***************************************************************************)
EXTENDS ConfigObjects, TLC

Job(op, o, k, v) ==
    [op |-> op, o |-> o, k |-> k, v |-> v, w |-> "", lines |-> <<>>, refs |-> {}]
With(j, lines, refs) == [j EXCEPT !.lines = lines, !.refs = refs]

MCText ==
    {"web", "old", "h1", "h2", "h3", "h4", "mon", "tue", "sat", "permit a", "permit b",
     "permit x", "remark r", "deny", "deny y"}

Bindings ==
    {Job("attach", "Vlan1", In, "web"), Job("attach", "Vlan2", In, "web"),
     Job("detach", "Vlan1", Out, "web"), Job("flip", "Vlan1", Out, "web")}

ListJobs ==
    {With(Job("template", "web", 0, ""), <<"permit a", "permit b">>, {"hosts"}),
     With(Job("createList", "new", 0, "deny"), <<"permit a">>, {"night"}),
     Job("deleteList", "web", 0, "")}

RangeJobs ==
    {With(Job("range", "night", 0, ""), <<"mon", "tue">>, {}),
     With(Job("range", "day", 0, ""), <<"mon">>, {}),
     Job("deleteRange", "night", 0, "")}

GroupJobs ==
    {With(Job("createGroup", "more", 0, ""), <<"h1", "h2">>, {}),
     With(Job("createGroup", "hosts", 0, ""), <<"h4">>, {}),
     Job("addMember", "hosts", 0, "h3"),
     With(Job("addMember", "hosts", 0, "h2"), <<>>, {"more"}),
     Job("deleteMember", "hosts", 1, "h1"),
     [Job("editMember", "hosts", 2, "h2") EXCEPT !.w = "h3"],
     [Job("editMember", "hosts", 2, "h2") EXCEPT !.w = "h1"],
     Job("deleteGroup", "hosts", 0, "")}

MCAsks ==
    [r \in {"first", "second"} |->
        IF r = "first" THEN Bindings \cup ListJobs \cup RangeJobs \cup GroupJobs
        ELSE {Job("deleteMember", "hosts", 2, "h2"),
              Job("attach", "Vlan1", In, "old"),
              Job("deleteList", "web", 0, "")}]

\* Configurations: with the list outbound on the interface, or both ways.
Config(bound) ==
    [hosts |-> <<"h1", "h2">>, night |-> <<"sat">>,
     web |-> (1 :> "permit x" @@ 2 :> "remark r" @@ 4 :> "deny y"),
     old |-> (1 :> "permit x"), Vlan1 |-> bound]

MCOutset == {Config(Out :> "web"), Config(In :> "web" @@ Out :> "web")}
=============================================================================
