---------------------------- MODULE AclPlacement ----------------------------
(***************************************************************************)
(* Asking for access: the lookup of a connection in a list, the permit     *)
(* line that grants it, how that line compares with the lines there are,   *)
(* and the number it gets (acl_service.py, rule_generator.py, main.py).    *)
(*                                                                         *)
(* Lists are functions from numbers to lines.                              *)
(***************************************************************************)
EXTENDS AclRules

CONSTANT MaxNumber      \* highest sequence number (4294967294)

ASSUME NumberAssumption == MaxNumber \in Nat

NoPort == -1            \* a lookup that does not ask for a port

-----------------------------------------------------------------------------
(* What may be asked *)

\* validate_ip_or_network without groups.
IsAddress(a) ==
    /\ a \in Operand /\ FormedAddress(a) /\ a.form \in {"any", "host", "net"}
    /\ 0 <= a.lo /\ a.lo <= a.hi /\ a.hi <= MaxAddr

\* validate_protocol, where "all" is what the lines call "ip"; validate_icmp_type;
\* source and destination not both "any".
Validated(x) ==
    /\ x.proto \in {"ip", "tcp", "udp", "icmp"}
    /\ x.icmp \in {""} \cup (IF x.proto = "icmp" THEN IcmpTypes ELSE {})
    /\ {x.src.form, x.dst.form} # {"any"}

\* check_access: only TCP and UDP have ports, of a range the first is asked.
Question(q) ==
    /\ Validated(q) /\ IsAddress(q.src) /\ IsAddress(q.dst)
    /\ q.port \in {NoPort} \cup (IF q.proto \in {"tcp", "udp"} THEN 1..MaxPort ELSE {})

\* validate_port_spec: one port, a range of them in order, or a group.
ValidPort(c) ==
    /\ c \in Clause /\ c.op \in {"", "eq", "range", "portgroup"}
    /\ c.op \in {"eq", "range"} => \A i \in DOMAIN c.ports : c.ports[i] \in 1..MaxPort
    /\ c.op = "range" => c.ports[1] < c.ports[2]

\* rule_preview, with validate_established and validate_sequence.
Request(req, nexus) ==
    /\ Validated(req) /\ ValidPort(req.port)
    /\ \A a \in {req.src, req.dst} :
        \/ IsAddress(a)
        \/ a \in Operand /\ FormedAddress(a) /\ a.form = "group"
    /\ (nexus \/ req.port.group = "") => FormedPorts(req.port, req.proto)
    /\ req.port.op = "portgroup" <=> req.port.group # ""
    /\ req.established \in BOOLEAN
    /\ req.established => req.proto = "tcp" /\ req.port.op # ""
    /\ req.time \in Words
    /\ req.number \in 0..MaxNumber /\ req.remark \in 0..MaxNumber
    /\ req.remark # 0 => req.remarked

-----------------------------------------------------------------------------
(* The lookup *)

\* ip_in_list: a range member is compared with the first address only.
InList(a, operand, groups) ==
    IF operand.group # ""
    THEN /\ a.form # "any"
         /\ \E m \in Members(groups, operand.group) :
                IF m.form = "range" THEN m.lo <= a.lo /\ a.lo <= m.hi
                ELSE Within(<<a.lo, a.hi>>, <<m.lo, m.hi>>)
    ELSE \/ operand.form = "any"
         \/ a.form # "any" /\ Within(<<a.lo, a.hi>>, <<operand.lo, operand.hi>>)

\* Mutant: a connection without a port matches every port.
PortMatches_NoneIsAny(port, op, ports) ==
    \/ op = "" \/ port = NoPort
    \/ \E r \in PortRanges(op, ports) : Within(<<port, port>>, r)

PortMatches(port, op, ports) ==
    \/ op = ""
    \/ /\ port # NoPort
       /\ \E r \in PortRanges(op, ports) : Within(<<port, port>>, r)

\* evaluate_rule: both directions for a rule without ports; with ports, the
\* address next to the port is where the connection goes.
RuleMatches(rule, q, groups) ==
    LET forward == InList(q.src, rule.src, groups) /\ InList(q.dst, rule.dst, groups)
        backward == InList(q.src, rule.dst, groups) /\ InList(q.dst, rule.src, groups)
        fits(m) == /\ q.proto \in MemberProtocols(m, {q.proto})
                   /\ PortMatches(q.port, m.op, m.ports)
        satisfies(c) ==
            IF c.group # "" THEN \E m \in Members(groups, c.group) : fits(m)
            ELSE c.op # "" /\ PortMatches(q.port, c.op, c.ports)
    IN  /\ rule.proto \in {"ip", q.proto}
        /\ rule.proto = "icmp" => rule.icmp \in {"", q.icmp}
        /\ IF rule.service # ""
           THEN \E m \in Members(groups, rule.service) :
                    fits(m) /\ IF m.pos = "src" THEN backward ELSE forward
           ELSE IF rule.sport.op = "" /\ rule.dport.op = ""
           THEN forward \/ backward
           ELSE \/ forward /\ satisfies(rule.dport)
                \/ backward /\ satisfies(rule.sport)

\* A schedule the switch does not report counts as active.
IsActive(name, active) ==
    name \in DOMAIN Schedules => name \in active

\* evaluate_interface, one list: the first line that matches decides; lines
\* that are not understood, and schedules that are not active, are passed by.
Considered(line, q, nexus, known, active) ==
    /\ Parses(line, nexus, known, "extended")
    /\ IsActive(Rule(line).time, active)
    /\ RuleMatches(Rule(line), q, Flat(known))

\* The first of the lines that decide; none, and the list denies.
Decision(lines, deciding) ==
    IF deciding = {} THEN [verdict |-> "DENIED", n |-> 0]
    ELSE [verdict |-> IF lines[Min(deciding)].action = "permit" THEN "PERMITTED"
                                                                ELSE "DENIED",
          n |-> Min(deciding)]

Lookup(lines, q, nexus, known, active) ==
    Decision(lines, {n \in DOMAIN lines : Considered(lines[n], q, nexus, known, active)})

-----------------------------------------------------------------------------
(* The line that grants a request *)

\* The side of the interface comes first in an inbound list and second in an
\* outbound one; the port stays with the destination.
DestinationFirst(direction, side) ==
    side = IF direction = "in" THEN "dst" ELSE "src"

GeneratePermit(req, direction, side, nexus) ==
    LET byService == req.port.group # "" /\ ~nexus
        proto == IF byService THEN "ip" ELSE req.proto
        port == IF byService THEN NoPorts ELSE req.port
        swapped == DestinationFirst(direction, side)
        operands == IF swapped
                    THEN Line("permit", proto, req.dst, port, req.src, NoPorts)
                    ELSE Line("permit", proto, req.src, NoPorts, req.dst, port)
    IN  [operands EXCEPT
            !.service = IF byService THEN req.port.group ELSE "",
            !.icmp = IF proto = "icmp" THEN req.icmp ELSE "",
            !.established = req.established /\ proto = "tcp" /\ swapped,
            !.time = req.time]

-----------------------------------------------------------------------------
(* What is there already *)

UsesGroups(req) ==
    \E g \in {req.src.group, req.dst.group, req.port.group} : g # ""

\* _structural_acl_inspections: the first rule that covers the new one, or
\* that denies a part of it.
StructuralInspection(lines, new, nexus, known, groups) ==
    Decision(lines, {n \in DOMAIN lines :
        /\ Parses(lines[n], nexus, known, "extended")
        /\ \/ Covers(Rule(lines[n]), Rule(new), groups, FALSE)
           \/ /\ lines[n].action = "deny"
              /\ Covers(Rule(new), Rule(lines[n]), groups, FALSE)})

\* _port_probes: the ends of a range stand for it.
PortProbes(c) ==
    IF c.op = "" THEN {NoPort} ELSE {c.ports[i] : i \in DOMAIN c.ports}

\* _representative_ips: every address, but "any" for itself.
AddressProbes(a) ==
    IF a.form = "any" THEN {AnyAddress} ELSE {Host(h) : h \in a.lo..a.hi}

Samples(req) ==
    [src : AddressProbes(req.src), dst : AddressProbes(req.dst),
     proto : {req.proto}, port : PortProbes(req.port), icmp : {req.icmp}]

\* rule_preview: by groups, and by a time range, the new line is compared
\* with the lines; otherwise every sample is looked up.
Inspections(lines, new, req, nexus, known, active) ==
    IF UsesGroups(req)
    THEN {StructuralInspection(lines, new, nexus, known, Flat(known))}
    ELSE IF req.time # ""
    THEN {StructuralInspection(lines, new, nexus, {}, Flat({}))}
    ELSE {Lookup(lines, q, nexus, known, active) : q \in Samples(req)}

-----------------------------------------------------------------------------
(* The number it gets; 0 for a refusal, or for no remark *)

\* The first of the denying rules; the mutant takes the last.
DenyingNumbers(inspections) ==
    {i.n : i \in {j \in inspections : j.verdict = "DENIED" /\ j.n # 0}}

Blocking_Last(inspections) ==
    LET denying == DenyingNumbers(inspections)
    IN  IF denying = {} THEN 0 ELSE Max(denying)

Blocking(inspections) ==
    LET denying == DenyingNumbers(inspections)
    IN  IF denying = {} THEN 0 ELSE Min(denying)

Below(blocking) == 1..(IF blocking = 0 THEN MaxNumber ELSE blocking - 1)

\* Tens first; without a denying rule only tens.
Preferred(free, blocking) ==
    LET tens == {n \in free : n % 10 = 0}
    IN  CASE tens # {} -> Min(tens)
          [] tens = {} /\ blocking # 0 /\ free # {} -> Min(free)
          [] OTHER -> 0

\* _select_rule_sequence
Selected(free, blocking, requested) ==
    IF requested = 0 THEN Preferred(free, blocking)
    ELSE IF requested \in free THEN requested ELSE 0

SelectNumber(used, blocking, requested) ==
    [n |-> Selected(Below(blocking) \ used, blocking, requested), remark |-> 0]

\* _select_rule_and_remark_sequence: the remark wants the number before.
\* "rules" are the numbers of rules, "used" those of rules and remarks.
Pair(n, r) == [n |-> n, remark |-> IF n = 0 THEN 0 ELSE r]
HasSlot(used, n) == n > 1 /\ n - 1 \notin used
BeforeIt(n) == Pair(n, n - 1)

AtRemark(free, blocking, first, remark) ==
    IF remark + 1 \in free THEN Pair(remark + 1, remark)
    ELSE IF remark < first THEN Pair(first, remark)
    ELSE Pair(Preferred({n \in free : n > remark}, blocking), remark)

FindSlot(used, free, blocking, first) ==
    LET n == Preferred({m \in free : HasSlot(used, m)}, blocking)
    IN  IF n # 0 THEN BeforeIt(n) ELSE Pair(first, 0)

RemarkPlace(rules, used, free, blocking, first, requested, remark) ==
    CASE first = 0 -> Pair(0, 0)
      [] first # 0 /\ remark # 0 ->
            IF remark \in rules THEN Pair(0, 0)
            ELSE IF requested = 0 THEN AtRemark(free, blocking, first, remark)
            ELSE Pair(IF remark < first THEN first ELSE 0, remark)
      [] OTHER ->
            IF HasSlot(used, first) THEN BeforeIt(first)
            ELSE IF requested # 0 THEN Pair(first, 0)
            ELSE FindSlot(used, free, blocking, first)

WithRemark(rules, used, blocking, requested, remark) ==
    RemarkPlace(rules, used, Below(blocking) \ used, blocking,
                Selected(Below(blocking) \ used, blocking, requested),
                requested, remark)
=============================================================================
