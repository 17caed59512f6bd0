----------------------------- MODULE MCAclAdvice -----------------------------
(***************************************************************************)
(* Four addresses, three ports, a handful of lines per platform, chosen    *)
(* so that rules contain, meet and miss each other in address, port,       *)
(* protocol, schedule and group.  Lists have up to three of them, in every *)
(* order, and are edited once.                                             *)
(***************************************************************************)
EXTENDS AclAdvice

NetMember(lo, hi) == [form |-> "net", lo |-> lo, hi |-> hi, of |-> ""]
PortMember(proto, pos, op, ports) ==
    [form |-> "port", proto |-> proto, pos |-> pos, op |-> op, ports |-> ports,
     of |-> ""]
NestedMember(g) == [form |-> "nested", of |-> g]

\* "pair" is inside "more", which holds it by reference; "web" are ports.
MCGroups ==
    [pair |-> [kind |-> "address", members |-> {NetMember(1, 1), NetMember(2, 2)}],
     more |-> [kind |-> "address",
               members |-> {NestedMember("pair"), NetMember(3, 3)}],
     web  |-> [kind |-> "port",
               members |-> {PortMember("tcp", "", "eq", <<1>>),
                            PortMember("tcp", "", "eq", <<2>>)}]]

\* "past" is over; "mixed" has an end that is, and a weekly entry.
MCSchedules ==
    [past  |-> {[kind |-> "absolute", end |-> 1]},
     mixed |-> {[kind |-> "absolute", end |-> 1], [kind |-> "periodic", end |-> 0]}]

All == AnyAddress
Rl(action, proto, src, dst, port) == Line(action, proto, src, NoPorts, dst, port)
Eq(p) == Ports("eq", <<p>>)

Common ==
    {Rl("permit", "ip", All, All, NoPorts),
     Rl("deny", "tcp", Host(1), All, NoPorts),
     Rl("permit", "tcp", Host(1), Host(0), Eq(1))}

MCPool(nx) ==
    Common \cup
    IF nx
    THEN {Rl("permit", "tcp", Net(0, 1), Host(0), Ports("range", <<1, 2>>)),
          Rl("permit", "tcp", AddressGroup("more"), Host(0), PortGroup("web")),
          Rl("deny", "tcp", AddressGroup("pair"), Host(0), Ports("neq", <<1>>)),
          [Rl("deny", "ip", Net(0, 1), All, NoPorts) EXCEPT !.time = "past"],
          [Rl("permit", "icmp", All, Host(0), NoPorts) EXCEPT !.icmp = "echo"],
          [Line("permit", "tcp", All, Eq(1), All, NoPorts)
            EXCEPT !.established = TRUE]}
    ELSE {[Rl("permit", "ip", All, Host(0), NoPorts) EXCEPT !.service = "web"],
          [Rl("deny", "ip", Net(1, 3), All, NoPorts) EXCEPT !.src.form = "odd"],
          [Rl("permit", "ip", Host(1), All, NoPorts) EXCEPT !.time = "mixed"],
          Rl("permit", "tcp", Host(2), Host(0), Eq(1)),
          Rl("permit", "tcp", Host(2), Host(0), Eq(2)),
          Line("permit", "tcp", All, Eq(1), Host(2), Eq(2))}

\* Access from one host, with a range of ports, for replies, by group and by
\* schedule; from any for all protocols.
Req(src, proto, port) ==
    [src |-> src, dst |-> Host(0), proto |-> proto, port |-> port,
     icmp |-> "", established |-> FALSE, time |-> "",
     number |-> 0, remarked |-> TRUE, remark |-> 0]

MCRequests(nx) ==
    {Req(Host(1), "tcp", Ports("range", <<1, 2>>)),
     [Req(Host(2), "tcp", Eq(1)) EXCEPT !.established = TRUE, !.remarked = FALSE],
     [Req(Host(1), "tcp", Eq(2)) EXCEPT !.time = "mixed", !.remark = 15],
     [Req(All, "ip", NoPorts) EXCEPT !.number = 5],
     [Req(IF nx THEN AddressGroup("pair") ELSE Host(2), "tcp", PortGroup("web"))
        EXCEPT !.number = 12, !.remark = 11]}

MCBindings ==
    {{[direction |-> "in", subnet |-> <<2, 3>>],
      [direction |-> "in", subnet |-> <<>>]},
     {[direction |-> "out", subnet |-> <<0, 1>>]}}

MCPlacements == {<<"in", "src">>, <<"out", "src">>}

MCPacketEnds == {<<a, 0>> : a \in 0..3} \cup {<<0, a>> : a \in 0..3}

\* One host, two, or any; a port, any, and protocols without.
Query(src, proto, port, icmp) ==
    [src |-> src, dst |-> Host(0), proto |-> proto, port |-> port, icmp |-> icmp]

MCQueries ==
    {Query(Host(s), "tcp", p, "") : s \in {1, 2}, p \in {NoPort, 1, 2}} \cup
    {Query(Net(1, 2), "tcp", 1, ""), Query(All, "tcp", 1, ""),
     Query(Host(1), "ip", NoPort, ""), Query(All, "icmp", NoPort, ""),
     Query(Host(2), "icmp", NoPort, "echo"),
     [Query(Host(0), "udp", 1, "") EXCEPT !.dst = Host(1)]}
=============================================================================
