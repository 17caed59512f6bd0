------------------------------ MODULE AclRules ------------------------------
(***************************************************************************)
(* The algebra of ACL rules (acl_parser.py, acl_service.py,                *)
(* rule_generator.py): which lines are understood, which traffic a rule    *)
(* covers or shares with another, what a lookup answers, how a rule is     *)
(* reversed, widened, generated and given a number.  Pure operators; the   *)
(* lists they are applied to are in AclAdvice.                             *)
(*                                                                         *)
(* A line is a record.  "" stands for what the line does not have, as in   *)
(* the code.  Addresses and ports are numbers of a small width; an address *)
(* operand is an interval with the form it was written in.                 *)
(***************************************************************************)
EXTENDS Integers, Sequences, FiniteSets, FiniteSetsExt, SequencesExt

CONSTANTS
    AddrBits,       \* width of an address (32 in the code)
    MaxPort,        \* highest port (65535)
    Groups,         \* object groups of the switch: name -> [kind, members]
    Schedules       \* its time ranges: name -> set of entries

ASSUME RulesAssumption ==
    /\ AddrBits \in Nat
    /\ MaxPort \in Nat
    /\ IsFiniteSet(DOMAIN Groups)
    /\ \A g \in DOMAIN Groups : Groups[g].kind \in {"address", "port"}
    /\ "" \notin DOMAIN Groups /\ "" \notin DOMAIN Schedules
    /\ \A s \in DOMAIN Schedules : \A e \in Schedules[s] :
            e.kind \in {"absolute", "periodic"} /\ e.end \in Int

MaxAddr == 2^AddrBits - 1

-----------------------------------------------------------------------------
(* Lines and rules *)

AnyAddress == [form |-> "any", lo |-> 0, hi |-> MaxAddr, group |-> ""]
Host(h) == [form |-> "host", lo |-> h, hi |-> h, group |-> ""]
Net(lo, hi) == [form |-> "net", lo |-> lo, hi |-> hi, group |-> ""]
AddressGroup(g) == [form |-> "group", lo |-> 0, hi |-> 0, group |-> g]

NoPorts == [op |-> "", ports |-> <<>>, group |-> ""]
Ports(op, ports) == [op |-> op, ports |-> ports, group |-> ""]
PortGroup(g) == [op |-> "portgroup", ports |-> <<>>, group |-> g]

\* What the switch answered to "show object-group": nothing, when the read
\* failed, or every group; a group that is not known has no kind.
KindOf(g, known) == IF g \in known THEN Groups[g].kind ELSE ""

\* NX-OS accepts any group while it knows of none; a wildcard with holes
\* ("odd") is refused on both platforms.
AddressParses(a, nexus, known) ==
    /\ a.form # "odd"
    /\ a.form = "cidr" => nexus
    /\ a.group # "" => \/ KindOf(a.group, known) = "address"
                       \/ nexus /\ known = {}

PortsParse(c, nexus, known) ==
    c.group # "" => /\ nexus
                    /\ known = {} \/ KindOf(c.group, known) = "port"

\* parse_acl_rule returns a rule.  A line of a standard list is understood
\* only by a caller that knows the kind of the list.
Parses(line, nexus, known, kind) ==
    /\ line.action \in {"permit", "deny"}
    /\ line.standard = (kind = "standard")
    /\ AddressParses(line.src, nexus, known)
    /\ ~line.standard =>
        /\ line.service # "" => ~nexus /\ KindOf(line.service, known) = "port"
        /\ AddressParses(line.dst, nexus, known)
        /\ PortsParse(line.sport, nexus, known)
        /\ PortsParse(line.dport, nexus, known)

\* The rule it returns: addresses as network and wildcard however they were
\* written; a time range behind another clause is not seen.
Normal(a) ==
    [a EXCEPT !.form = IF @ \in {"any", "group"} THEN @
                       ELSE IF a.lo = a.hi THEN "host" ELSE "net"]

Rule(line) ==
    [line EXCEPT !.src = Normal(@), !.dst = Normal(@),
                 !.time = IF line.log THEN "" ELSE @, !.log = FALSE]

Line(action, proto, src, sport, dst, dport) ==
    [action |-> action, proto |-> proto, service |-> "", standard |-> FALSE,
     src |-> src, sport |-> sport, dst |-> dst, dport |-> dport,
     icmp |-> "", established |-> FALSE, time |-> "", log |-> FALSE]

-----------------------------------------------------------------------------
(* Object groups *)

Nested(g) == {m.of : m \in {n \in Groups[g].members : n.form = "nested"}}
Own(g) == {m \in Groups[g].members : m.form # "nested"}

\* The groups met when references are followed, each once.
Reached(g) ==
    LET upTo[n \in 0..Cardinality(DOMAIN Groups)] ==
            IF n = 0 THEN {g}
            ELSE upTo[n - 1] \cup
                 UNION {Nested(h) : h \in upTo[n - 1] \cap DOMAIN Groups}
    IN  upTo[Cardinality(DOMAIN Groups)] \cap DOMAIN Groups

Expanded(g) == UNION {Own(h) : h \in Reached(g)}

\* Group maps: with references followed, and with the lines of references
\* skipped, as the lookup and the preview read them.
Resolved(known) == [g \in known |-> Expanded(g)]
Flat(known) == [g \in known |-> Own(g)]

\* An operator has the ports it needs, and a group, with those nested in it,
\* members of its kind.
Operated(op, ports) ==
    /\ ports \in Seq(Int)
    /\ op \in {"eq", "neq", "lt", "gt"} => ports # <<>>
    /\ op = "range" => Len(ports) = 2

ASSUME MembersAssumption ==
    \A g \in DOMAIN Groups : \A m \in Expanded(g) :
        IF Groups[g].kind = "address" THEN m.lo \in Int /\ m.hi \in Int
        ELSE /\ m.proto \in {"", "tcp", "udp", "tcp-udp"}
             /\ m.pos \in {"", "src", "dst"}
             /\ Operated(m.op, m.ports)

\* The form of a line in a list: "any" is every address, only an operand that
\* names a group has no addresses of its own, ports are those of TCP or UDP, a
\* service group stands in the place of protocol and ports, and the members of a
\* group of ports leave the protocol to the line.
IcmpTypes == {"echo", "echo-reply"}         \* two of those there are

Words ==                                    \* those the program writes named
    STRING \cup {"", "remark", "permit", "ip", "tcp", "udp", "icmp"} \cup IcmpTypes

Operand ==
    [form : {"any", "host", "net", "cidr", "odd", "group"}, lo : Int, hi : Int,
     group : Words]
Clause == [op : Words, ports : Seq(Int), group : Words]
AnyLine ==
    [action : Words, proto : Words, service : Words, standard : BOOLEAN,
     src : Operand, sport : Clause, dst : Operand, dport : Clause,
     icmp : Words, established : BOOLEAN, time : Words, log : BOOLEAN]

FormedAddress(a) ==
    /\ a.form = "any" => a.lo = 0 /\ a.hi = MaxAddr
    /\ a.form = "group" <=> a.group # ""

FormedPorts(c, proto) ==
    /\ Operated(c.op, c.ports)
    /\ c.op # "" => proto \in {"tcp", "udp"}
    /\ c.op = "portgroup" <=> c.group # ""
    /\ c.group # "" => \A m \in Expanded(c.group) :
                        m.proto \in {""} \cup ({"tcp", "udp"} \cap {proto})

Formed(line) ==
    /\ line \in AnyLine
    /\ FormedAddress(line.src) /\ FormedAddress(line.dst)
    /\ FormedPorts(line.sport, line.proto) /\ FormedPorts(line.dport, line.proto)
    /\ line.service # "" => line.proto = "ip" /\ {line.sport, line.dport} = {NoPorts}
    /\ line.icmp # "" => line.proto = "icmp"

Members(groups, g) == IF g \in DOMAIN groups THEN groups[g] ELSE {}

-----------------------------------------------------------------------------
(* Coverage and overlap *)

\* A port operator as a set of closed intervals.
Except(listed) ==
    {r \in (0..MaxPort) \X (0..MaxPort) :
        /\ r[1] <= r[2] /\ \A p \in r[1]..r[2] : p \notin listed
        /\ r[1] = 0 \/ r[1] - 1 \in listed
        /\ r[2] = MaxPort \/ r[2] + 1 \in listed}

PortRanges(op, ports) ==
    CASE op = "" -> {<<0, MaxPort>>}
      [] op = "eq" -> {<<p, p>> : p \in ToSet(ports)}
      [] op = "range" -> {<<ports[1], ports[2]>>}
      [] op = "lt" -> {<<0, p - 1>> : p \in ToSet(ports) \ {0}}
      [] op = "gt" -> {<<p + 1, MaxPort>> : p \in ToSet(ports) \ {MaxPort}}
      [] op = "neq" -> Except(ToSet(ports))
      [] OTHER -> {}

Within(r, s) == s[1] <= r[1] /\ r[2] <= s[2]
EachWithin(narrow, broad) == \A r \in narrow : \E s \in broad : Within(r, s)
RangesOverlap(R, S) == \E r \in R, s \in S : r[1] <= s[2] /\ s[1] <= r[2]

PortCovers(a, b) == EachWithin(PortRanges(b.op, b.ports),
                               PortRanges(a.op, a.ports))

\* What both comparisons refuse first: another action, another schedule
\* (unless a deny is asked for), a narrower ICMP type, replies only.
MayCover(a, b, sameAction) ==
    /\ sameAction => a.action = b.action
    /\ a.time \notin {"", b.time} => ~sameAction /\ a.action = "deny"
    /\ a.proto = "icmp" => a.icmp \in {"", b.icmp}
    /\ a.established => b.established

AddressCovers(a, b) ==
    \/ a.form = "any"
    \/ IF a.group # "" \/ b.group # ""
       THEN a.group = b.group
       ELSE b.form # "any" /\ a.lo <= b.lo /\ b.hi <= a.hi

ClausePortsCover(a, b) ==
    IF a.group # "" \/ b.group # ""
    THEN a.op = "" \/ a.group = b.group
    ELSE PortCovers(a, b)

\* rule_covers: by the text of the two rules.
StructuralCovers(a, b, sameAction) ==
    /\ MayCover(a, b, sameAction)
    /\ a.proto \in {"ip", b.proto}
    /\ a.service # "" \/ b.service # "" =>
            \/ a.service = "" /\ a.proto = "ip"
            \/ a.service = b.service
    /\ AddressCovers(a.src, b.src)
    /\ AddressCovers(a.dst, b.dst)
    /\ ClausePortsCover(a.sport, b.sport)
    /\ ClausePortsCover(a.dport, b.dport)

AddrRanges(a, groups) ==
    IF a.group # "" THEN {<<m.lo, m.hi>> : m \in Members(groups, a.group)}
    ELSE {<<a.lo, a.hi>>}

MemberProtocols(m, default) ==
    CASE m.proto = "tcp-udp" -> {"tcp", "udp"}
      [] m.proto = "" -> default
      [] OTHER -> {m.proto}

\* The protocol and port clauses of a rule, groups resolved to members.
PositionClauses(rule, pos, c, groups) ==
    IF c.group # ""
    THEN UNION {{[proto |-> p, pos |-> pos, op |-> m.op, ports |-> m.ports] :
                    p \in MemberProtocols(m, {rule.proto})} :
                m \in Members(groups, c.group)}
    ELSE {clause \in {[proto |-> rule.proto, pos |-> pos,
                       op |-> c.op, ports |-> c.ports]} : c.op # ""}

OrNone(clauses, proto) ==
    IF clauses # {} THEN clauses
    ELSE {[proto |-> proto, pos |-> "", op |-> "", ports |-> <<>>]}

Clauses(rule, groups) ==
    IF rule.service # ""
    THEN UNION {{[proto |-> p, pos |-> IF m.pos = "" THEN "dst" ELSE m.pos,
                  op |-> m.op, ports |-> m.ports] :
                    p \in MemberProtocols(m, {"tcp", "udp"})} :
                m \in Members(groups, rule.service)}
    ELSE OrNone(PositionClauses(rule, "src", rule.sport, groups) \cup
                PositionClauses(rule, "dst", rule.dport, groups), rule.proto)

ClauseCovers(a, b) ==
    /\ a.proto \in {"ip", b.proto}
    /\ a.pos \in {"", b.pos}
    /\ PortCovers(a, b)

ClauseOverlaps(a, b) ==
    /\ a.proto = b.proto \/ "ip" \in {a.proto, b.proto}
    /\ a.pos = b.pos \/ "" \in {a.pos, b.pos}
    /\ RangesOverlap(PortRanges(a.op, a.ports), PortRanges(b.op, b.ports))

ClausesCover(as, bs) ==
    /\ as # {} /\ bs # {}
    /\ \A y \in bs : \E x \in as : ClauseCovers(x, y)

AddressesCover(as, bs) == as # {} /\ bs # {} /\ EachWithin(bs, as)

\* rule_covers_with_group_members: by what the groups hold.
MemberCovers(a, b, groups, sameAction) ==
    /\ MayCover(a, b, sameAction)
    /\ ClausesCover(Clauses(a, groups), Clauses(b, groups))
    /\ AddressesCover(AddrRanges(a.src, groups), AddrRanges(b.src, groups))
    /\ AddressesCover(AddrRanges(a.dst, groups), AddrRanges(b.dst, groups))

Covers(a, b, groups, sameAction) ==
    \/ StructuralCovers(a, b, sameAction)
    \/ MemberCovers(a, b, groups, sameAction)

\* rules_traffic_overlaps
TrafficOverlaps(a, b, groups) ==
    /\ a.proto = b.proto \/ "ip" \in {a.proto, b.proto}
    /\ a.proto = "icmp" /\ b.proto = "icmp" =>
            a.icmp = b.icmp \/ "" \in {a.icmp, b.icmp}
    /\ \E x \in Clauses(a, groups), y \in Clauses(b, groups) :
            ClauseOverlaps(x, y)
    /\ RangesOverlap(AddrRanges(a.src, groups), AddrRanges(b.src, groups))
    /\ RangesOverlap(AddrRanges(a.dst, groups), AddrRanges(b.dst, groups))
=============================================================================
