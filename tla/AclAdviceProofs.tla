--------------------------- MODULE AclAdviceProofs ---------------------------
(***************************************************************************)
(* That what the analysis pages say of a list is so, for lists, groups,    *)
(* schedules and addresses of any number and width.  The first part is     *)
(* about the algebra: which packets a rule takes is what its ranges and    *)
(* clauses say (LineClauses), so coverage and overlap are about packets.   *)
(* The second is about lists: what an edit changes of them.  The third is  *)
(* about questions: what the lookup and the preview find of a connection   *)
(* is whether the rules take its packets.                                  *)
(***************************************************************************)
EXTENDS AclAdvice, FiniteSetTheorems, SequenceTheorems, WellFoundedInduction, TLAPS

-----------------------------------------------------------------------------
(* Ranges *)

\* The object groups when all of them are read.
Known == Resolved(DOMAIN Groups)

Inside(x, ranges) == \E r \in ranges : r[1] <= x /\ x <= r[2]
Ranges(R) == \A r \in R : r[1] \in Int /\ r[2] \in Int

\* Ports are natural numbers up to the highest.
LEMMA Highest == MaxPort \in Nat
BY RulesAssumption

\* An operator with its ports is a set of ranges.
LEMMA PortRangesAre ==
  ASSUME NEW op, NEW ports, Operated(op, ports)
  PROVE  Ranges(PortRanges(op, ports))
<1>1. ports \in Seq(Int)
  BY DEF Operated
<1>2. ToSet(ports) \subseteq Int
  BY <1>1 DEF ToSet
<1>3. CASE op = ""
  <2>1. PortRanges(op, ports) = {<<0, MaxPort>>}
    BY <1>3, Zenon DEF PortRanges
  <2> QED BY <2>1, Highest DEF Ranges
<1>4. CASE op = "eq"
  <2>1. PortRanges(op, ports) = {<<p, p>> : p \in ToSet(ports)}
    BY <1>4 DEF PortRanges
  <2> QED BY <1>2, <2>1 DEF Ranges
<1>5. CASE op = "range"
  <2>1. PortRanges(op, ports) = {<<ports[1], ports[2]>>}
    BY <1>5 DEF PortRanges
  <2>2. Len(ports) = 2
    BY <1>5 DEF Operated
  <2>3. ports[1] \in Int /\ ports[2] \in Int
    BY <1>1, <2>2, ElementOfSeq
  <2> QED BY <2>1, <2>3 DEF Ranges
<1>6. CASE op = "lt"
  <2>1. PortRanges(op, ports) = {<<0, p - 1>> : p \in ToSet(ports) \ {0}}
    BY <1>6 DEF PortRanges
  <2> QED BY <1>2, <2>1 DEF Ranges
<1>7. CASE op = "gt"
  <2>1. PortRanges(op, ports) = {<<p + 1, MaxPort>> : p \in ToSet(ports) \ {MaxPort}}
    BY <1>7 DEF PortRanges
  <2> QED BY <1>2, <2>1, Highest DEF Ranges
<1>8. CASE op = "neq"
  <2>1. PortRanges(op, ports) = Except(ToSet(ports))
    BY <1>8 DEF PortRanges
  <2> QED BY <2>1, Highest DEF Ranges, Except
<1>9. CASE op \notin {"", "eq", "range", "lt", "gt", "neq"}
  <2>1. PortRanges(op, ports) = {}
    BY <1>9 DEF PortRanges
  <2> QED BY <2>1 DEF Ranges
<1> QED BY <1>3, <1>4, <1>5, <1>6, <1>7, <1>8, <1>9

\* No operator is every port.
LEMMA EveryPort ==
  ASSUME NEW ports, NEW x \in 0..MaxPort
  PROVE  Inside(x, PortRanges("", ports))
<1>1. PortRanges("", ports) = {<<0, MaxPort>>}
  BY DEF PortRanges
<1>2. <<0, MaxPort>>[1] <= x /\ x <= <<0, MaxPort>>[2]
  BY Highest
<1> QED BY <1>1, <1>2 DEF Inside

\* What is inside of narrow ranges is inside of those around them.
LEMMA InsideWider ==
  ASSUME NEW narrow, NEW broad, Ranges(narrow), Ranges(broad),
         EachWithin(narrow, broad), NEW x \in Int, Inside(x, narrow)
  PROVE  Inside(x, broad)
<1>1. PICK r \in narrow : r[1] <= x /\ x <= r[2]
  BY DEF Inside
<1>2. PICK s \in broad : s[1] <= r[1] /\ r[2] <= s[2]
  BY DEF EachWithin, Within
<1>3. r[1] \in Int /\ r[2] \in Int /\ s[1] \in Int /\ s[2] \in Int
  BY DEF Ranges
<1>4. s[1] <= x /\ x <= s[2]
  BY <1>1, <1>2, <1>3
<1> QED BY <1>4 DEF Inside

\* Ranges with an element in common overlap.
LEMMA InsideBoth ==
  ASSUME NEW R, NEW S, Ranges(R), Ranges(S), NEW x \in Int, Inside(x, R), Inside(x, S)
  PROVE  RangesOverlap(R, S)
<1>1. PICK r \in R : r[1] <= x /\ x <= r[2]
  BY DEF Inside
<1>2. PICK s \in S : s[1] <= x /\ x <= s[2]
  BY DEF Inside
<1>3. r[1] \in Int /\ r[2] \in Int /\ s[1] \in Int /\ s[2] \in Int
  BY DEF Ranges
<1>4. r[1] <= s[2] /\ s[1] <= r[2]
  BY <1>1, <1>2, <1>3
<1> QED BY <1>4 DEF RangesOverlap

-----------------------------------------------------------------------------
(* Packets and addresses *)

\* Addresses are numbers up to the highest.
LEMMA Widest == MaxAddr \in Int
<1>1. AddrBits \in Nat
  BY RulesAssumption
<1> QED BY <1>1 DEF MaxAddr

\* What a packet has.
LEMMA PacketHas ==
  ASSUME NEW p \in Traffic
  PROVE  /\ p.proto \in {"tcp", "udp", "icmp"}
         /\ p.src \in 0..MaxAddr /\ p.dst \in 0..MaxAddr /\ p.src \in Int /\ p.dst \in Int
         /\ p.sport \in 0..MaxPort /\ p.dport \in 0..MaxPort /\ p.sport \in Int /\ p.dport \in Int
         /\ p.when \subseteq Running
<1>1. <<p.src, p.dst>> \in PacketEnds
  BY DEF Traffic
<1>2. <<p.src, p.dst>> \in (0..MaxAddr) \X (0..MaxAddr)
  BY <1>1, ListsAssumption
<1>3. \/ p \in PacketsOf("tcp", 0..MaxPort, {""}, BOOLEAN)
      \/ p \in PacketsOf("udp", 0..MaxPort, {""}, {FALSE})
      \/ p \in PacketsOf("icmp", {0}, IcmpTypes, {FALSE})
  BY DEF Traffic
<1>4. p.proto \in {"tcp", "udp", "icmp"} /\ p.when \subseteq Running
  BY <1>3 DEF PacketsOf
<1>5. 0 \in 0..MaxPort
  BY Highest
<1>6. p.sport \in 0..MaxPort /\ p.dport \in 0..MaxPort
  BY <1>3, <1>5 DEF PacketsOf
<1>7. p.src \in 0..MaxAddr /\ p.dst \in 0..MaxAddr
  BY <1>2
<1> QED BY <1>4, <1>6, <1>7

\* The members of a group that is understood are those of the maps.
LEMMA MembersKnown ==
  ASSUME NEW g, g # "", NEW kind, kind # "",
         KindOf(g, DOMAIN Groups) = kind \/ DOMAIN Groups = {}
  PROVE  /\ Members(Known, g) = Expanded(g)
         /\ \A m \in Expanded(g) : g \in DOMAIN Groups /\ Groups[g].kind = kind
<1>1. CASE DOMAIN Groups = {}
  <2>1. Expanded(g) = {}
    BY <1>1 DEF Expanded, Reached
  <2>2. Members(Known, g) = {}
    BY <1>1 DEF Members, Known, Resolved
  <2> QED BY <2>1, <2>2
<1>2. CASE KindOf(g, DOMAIN Groups) = kind
  <2>1. g \in DOMAIN Groups /\ Groups[g].kind = kind
    BY <1>2 DEF KindOf
  <2>2. Members(Known, g) = Expanded(g)
    BY <2>1 DEF Members, Known, Resolved
  <2> QED BY <2>1, <2>2
<1> QED BY <1>1, <1>2

\* A number is inside the ranges of members when it is inside of one of them.
LEMMA InsideMembers ==
  ASSUME NEW S, NEW x
  PROVE  Inside(x, {<<m.lo, m.hi>> : m \in S}) <=> \E m \in S : m.lo <= x /\ x <= m.hi
<1> DEFINE R == {<<m.lo, m.hi>> : m \in S}
<1>1. ASSUME Inside(x, R)
      PROVE  \E m \in S : m.lo <= x /\ x <= m.hi
  <2>1. PICK r \in R : r[1] <= x /\ x <= r[2]
    BY <1>1 DEF Inside
  <2>2. PICK m \in S : r = <<m.lo, m.hi>>
    OBVIOUS
  <2> QED BY <2>1, <2>2
<1>2. ASSUME NEW m \in S, m.lo <= x, x <= m.hi
      PROVE  Inside(x, R)
  <2>1. <<m.lo, m.hi>> \in R
    OBVIOUS
  <2>2. <<m.lo, m.hi>>[1] <= x /\ x <= <<m.lo, m.hi>>[2]
    BY <1>2
  <2> HIDE DEF R
  <2> QED BY <2>1, <2>2 DEF Inside
<1> QED BY <1>1, <1>2

\* The ranges of an operand hold the addresses the switch matches.
LEMMA AddressRanges ==
  ASSUME NEW a \in Operand, FormedAddress(a), NEW nx,
         AddressParses(a, nx, DOMAIN Groups)
  PROVE  /\ Ranges(AddrRanges(Normal(a), Known))
         /\ \A x \in 0..MaxAddr :
              AddressHolds(a, x) <=> Inside(x, AddrRanges(Normal(a), Known))
<1> DEFINE b == Normal(a)
<1>1. b.lo = a.lo /\ b.hi = a.hi /\ b.group = a.group
  BY DEF Normal, Operand
<1>2. a.form # "odd" /\ a.lo \in Int /\ a.hi \in Int
  BY DEF AddressParses, Operand
<1>3. CASE a.group # ""
  <2>1. KindOf(a.group, DOMAIN Groups) = "address" \/ DOMAIN Groups = {}
    BY <1>3 DEF AddressParses
  <2>2. /\ Members(Known, a.group) = Expanded(a.group)
        /\ \A m \in Expanded(a.group) :
             a.group \in DOMAIN Groups /\ Groups[a.group].kind = "address"
    BY <1>3, <2>1, MembersKnown
  <2>3. \A m \in Expanded(a.group) : m.lo \in Int /\ m.hi \in Int
    BY <2>2, MembersAssumption
  <2>4. AddrRanges(b, Known) = {<<m.lo, m.hi>> : m \in Expanded(a.group)}
    BY <1>1, <1>3, <2>2 DEF AddrRanges
  <2>5. a.form = "group"
    BY <1>3 DEF FormedAddress
  <2>6. \A x : AddressHolds(a, x) <=> \E m \in Expanded(a.group) : m.lo <= x /\ x <= m.hi
    BY <2>5 DEF AddressHolds
  <2>7. \A x : Inside(x, AddrRanges(b, Known))
                 <=> \E m \in Expanded(a.group) : m.lo <= x /\ x <= m.hi
    BY <2>4, InsideMembers
  <2>8. Ranges(AddrRanges(b, Known))
    BY <2>3, <2>4 DEF Ranges
  <2> QED BY <2>6, <2>7, <2>8
<1>4. CASE a.group = ""
  <2>1. AddrRanges(b, Known) = {<<a.lo, a.hi>>}
    BY <1>1, <1>4 DEF AddrRanges
  <2>2. a.form # "group"
    BY <1>4 DEF FormedAddress
  <2>3. ASSUME NEW x \in 0..MaxAddr
        PROVE  AddressHolds(a, x) <=> a.lo <= x /\ x <= a.hi
    <3>1. CASE a.form = "any"
      <4>1. AddressHolds(a, x)
        BY <3>1 DEF AddressHolds
      <4>2. a.lo <= x /\ x <= a.hi
        <5>1. a.lo = 0 /\ a.hi = MaxAddr
          BY <3>1 DEF FormedAddress
        <5> QED BY <5>1, Widest
      <4> QED BY <4>1, <4>2
    <3>2. CASE a.form # "any"
      BY <1>2, <2>2, <3>2 DEF AddressHolds
    <3> QED BY <3>1, <3>2
  <2>4. \A x : Inside(x, AddrRanges(b, Known)) <=> a.lo <= x /\ x <= a.hi
    BY <2>1 DEF Inside
  <2>5. Ranges(AddrRanges(b, Known))
    BY <1>2, <2>1 DEF Ranges
  <2> QED BY <2>3, <2>4, <2>5
<1> QED BY <1>3, <1>4

-----------------------------------------------------------------------------
(* Clauses *)

\* A clause says which ports, at one end or at none, and of which protocol.
Meets(c, p) ==
    /\ c.proto \in {"ip", p.proto}
    /\ c.pos = "src" => Inside(p.sport, PortRanges(c.op, c.ports))
    /\ c.pos = "dst" => Inside(p.dport, PortRanges(c.op, c.ports))

ClauseFormed(c) ==
    /\ c.pos \in {"", "src", "dst"}
    /\ Operated(c.op, c.ports)
    /\ c.pos = "" => c.op = ""

\* What a line says of the protocol and the ports of a packet.
PortPart(line, p) ==
    IF line.service # ""
    THEN \E m \in Expanded(line.service) : MemberHolds(m, p)
    ELSE /\ line.proto \in {"ip", p.proto}
         /\ PortHolds(line.sport, p.sport) /\ PortHolds(line.dport, p.dport)

\* A port clause holds for a port inside its ranges, or those of a member of its
\* group.
LEMMA PortHoldsIs ==
  ASSUME NEW c, NEW x
  PROVE  /\ c.group = "" => (PortHolds(c, x) <=> Inside(x, PortRanges(c.op, c.ports)))
         /\ c.group # "" => (PortHolds(c, x) <=>
              \E m \in Expanded(c.group) : Inside(x, PortRanges(m.op, m.ports)))
BY DEF PortHolds, Inside

\* The protocols a member stands for.
LEMMA ProtocolsAre ==
  ASSUME NEW m, NEW default
  PROVE  /\ m.proto = "tcp-udp" => MemberProtocols(m, default) = {"tcp", "udp"}
         /\ m.proto = "" => MemberProtocols(m, default) = default
         /\ m.proto \notin {"", "tcp-udp"} => MemberProtocols(m, default) = {m.proto}
<1>1. ASSUME m.proto = "tcp-udp"
      PROVE  MemberProtocols(m, default) = {"tcp", "udp"}
  BY <1>1 DEF MemberProtocols
<1>2. ASSUME m.proto = ""
      PROVE  MemberProtocols(m, default) = default
  <2>1. m.proto # "tcp-udp"
    BY <1>2
  <2> QED BY <1>2, <2>1 DEF MemberProtocols
<1>3. ASSUME m.proto \notin {"", "tcp-udp"}
      PROVE  MemberProtocols(m, default) = {m.proto}
  <2>1. m.proto # "tcp-udp" /\ m.proto # ""
    BY <1>3
  <2> QED BY <2>1 DEF MemberProtocols
<1> QED BY <1>1, <1>2, <1>3

\* The clauses of one end that has an operator or a group.
LEMMA OnePosition ==
  ASSUME NEW rule, NEW pos \in {"src", "dst"}, NEW c \in Clause, NEW nx,
         FormedPorts(c, rule.proto), PortsParse(c, nx, DOMAIN Groups), c.op # "",
         c.group # "" => Expanded(c.group) # {}
  PROVE  /\ PositionClauses(rule, pos, c, Known) # {}
         /\ \A d \in PositionClauses(rule, pos, c, Known) :
              d.pos = pos /\ d.proto = rule.proto /\ Operated(d.op, d.ports)
         /\ \A x : PortHolds(c, x) <=> \E d \in PositionClauses(rule, pos, c, Known) :
                                          Inside(x, PortRanges(d.op, d.ports))
<1> DEFINE S == PositionClauses(rule, pos, c, Known)
           At(op, ports) == [proto |-> rule.proto, pos |-> pos, op |-> op, ports |-> ports]
<1>1. CASE c.group = ""
  <2>1. S = {At(c.op, c.ports)}
    <3>1. S = {clause \in {At(c.op, c.ports)} : c.op # ""}
      BY <1>1 DEF PositionClauses
    <3> QED BY <3>1
  <2>2. Operated(c.op, c.ports)
    BY DEF FormedPorts
  <2>3. At(c.op, c.ports).op = c.op /\ At(c.op, c.ports).ports = c.ports
        /\ At(c.op, c.ports).pos = pos /\ At(c.op, c.ports).proto = rule.proto
    OBVIOUS
  <2> DEFINE d == At(c.op, c.ports)
  <2> HIDE DEF S, At, d
  <2>4. S = {d} /\ d.op = c.op /\ d.ports = c.ports /\ d.pos = pos /\ d.proto = rule.proto
    BY <2>1, <2>3 DEF d
  <2>5. S # {} /\ \A e \in S : e.pos = pos /\ e.proto = rule.proto /\ Operated(e.op, e.ports)
    BY <2>2, <2>4
  <2>6. ASSUME NEW x
        PROVE  PortHolds(c, x) <=> \E e \in S : Inside(x, PortRanges(e.op, e.ports))
    <3>1. PortHolds(c, x) <=> Inside(x, PortRanges(c.op, c.ports))
      BY <1>1, <2>2, PortHoldsIs
    <3> QED BY <2>4, <3>1
  <2> QED BY <2>5, <2>6 DEF S
<1>2. CASE c.group # ""
  <2>1. KindOf(c.group, DOMAIN Groups) = "port" \/ DOMAIN Groups = {}
    BY <1>2 DEF PortsParse
  <2>2. /\ Members(Known, c.group) = Expanded(c.group)
        /\ \A m \in Expanded(c.group) :
             c.group \in DOMAIN Groups /\ Groups[c.group].kind = "port"
    BY <1>2, <2>1, MembersKnown
  <2>3. \A m \in Expanded(c.group) : Operated(m.op, m.ports)
    BY <2>2, MembersAssumption
  <2>4. ASSUME NEW m \in Expanded(c.group)
        PROVE  MemberProtocols(m, {rule.proto}) = {rule.proto}
    <3>1. m.proto \in {""} \cup ({"tcp", "udp"} \cap {rule.proto})
      BY <1>2 DEF FormedPorts
    <3>2. CASE m.proto = ""
      BY <3>2, ProtocolsAre
    <3>3. CASE m.proto \in {"tcp", "udp"} /\ m.proto = rule.proto
      <4>1. MemberProtocols(m, {rule.proto}) = {m.proto}
        BY <3>3, ProtocolsAre
      <4> QED BY <3>3, <4>1
    <3> QED BY <3>1, <3>2, <3>3
  <2>5. S = UNION {{[proto |-> q, pos |-> pos, op |-> m.op, ports |-> m.ports] :
                       q \in MemberProtocols(m, {rule.proto})} : m \in Expanded(c.group)}
    BY <1>2, <2>2 DEF PositionClauses
  <2>6. S = {At(m.op, m.ports) : m \in Expanded(c.group)}
    <3> DEFINE of(m) == {[proto |-> q, pos |-> pos, op |-> m.op, ports |-> m.ports] :
                            q \in MemberProtocols(m, {rule.proto})}
    <3>1. \A m \in Expanded(c.group) : of(m) = {At(m.op, m.ports)}
      BY <2>4
    <3>2. S = UNION {of(m) : m \in Expanded(c.group)}
      BY <2>5
    <3> HIDE DEF of, S, At
    <3>3. \A d : d \in S <=> \E m \in Expanded(c.group) : d = At(m.op, m.ports)
      BY <3>1, <3>2
    <3> QED BY <3>3
  <2>7. \A m : At(m.op, m.ports).op = m.op /\ At(m.op, m.ports).ports = m.ports
               /\ At(m.op, m.ports).pos = pos /\ At(m.op, m.ports).proto = rule.proto
    OBVIOUS
  <2> HIDE DEF S, At
  <2>8. S # {}
    BY <1>2, <2>6
  <2>9. ASSUME NEW d \in S
        PROVE  d.pos = pos /\ d.proto = rule.proto /\ Operated(d.op, d.ports)
    <3>1. PICK m \in Expanded(c.group) : d = At(m.op, m.ports)
      BY <2>6
    <3>2. d.op = m.op /\ d.ports = m.ports /\ d.pos = pos /\ d.proto = rule.proto
      BY <2>7, <3>1
    <3> QED BY <2>3, <3>2
  <2>10. ASSUME NEW x
         PROVE  PortHolds(c, x) <=> \E d \in S : Inside(x, PortRanges(d.op, d.ports))
    <3>1. (\E d \in S : Inside(x, PortRanges(d.op, d.ports)))
             <=> \E m \in Expanded(c.group) : Inside(x, PortRanges(m.op, m.ports))
      <4>1. ASSUME NEW d \in S, Inside(x, PortRanges(d.op, d.ports))
            PROVE  \E m \in Expanded(c.group) : Inside(x, PortRanges(m.op, m.ports))
        <5>1. PICK m \in Expanded(c.group) : d = At(m.op, m.ports)
          BY <2>6
        <5>2. d.op = m.op /\ d.ports = m.ports
          BY <2>7, <5>1
        <5> QED BY <4>1, <5>2
      <4>2. ASSUME NEW m \in Expanded(c.group), Inside(x, PortRanges(m.op, m.ports))
            PROVE  \E d \in S : Inside(x, PortRanges(d.op, d.ports))
        <5> DEFINE d == At(m.op, m.ports)
        <5> HIDE DEF d
        <5>1. d \in S
          BY <2>6 DEF d
        <5>2. d.op = m.op /\ d.ports = m.ports
          BY <2>7 DEF d
        <5> QED BY <4>2, <5>1, <5>2
      <4> QED BY <4>1, <4>2
    <3> QED BY <1>2, <3>1, PortHoldsIs
  <2> QED BY <2>8, <2>9, <2>10 DEF S
<1> QED BY <1>1, <1>2

\* An end without an operator has no clause.
LEMMA NoPosition ==
  ASSUME NEW rule, NEW pos, NEW c, FormedPorts(c, rule.proto), c.op = ""
  PROVE  /\ PositionClauses(rule, pos, c, Known) = {}
         /\ \A x \in 0..MaxPort : PortHolds(c, x)
<1>1. c.group = ""
  BY DEF FormedPorts
<1>2. PositionClauses(rule, pos, c, Known) = {}
  BY <1>1 DEF PositionClauses
<1>3. \A x \in 0..MaxPort : PortHolds(c, x)
  BY <1>1, PortHoldsIs, EveryPort
<1> QED BY <1>2, <1>3

LEMMA NoPortsListed == <<>> \in Seq(Int)
OBVIOUS

\* The clauses of a line say of a packet what the line says.
LEMMA LineClauses ==
  ASSUME NEW line, Formed(line), NEW nx, Parses(line, nx, DOMAIN Groups, "extended"),
         "" \in {line.sport.op, line.dport.op},
         \A c \in {line.sport, line.dport} : c.group # "" => Expanded(c.group) # {}
  PROVE  /\ \A c \in Clauses(Rule(line), Known) :
              ClauseFormed(c) /\ (c.pos # "" => c.pos \in PortsAt(line))
         /\ \A p \in Traffic :
              PortPart(line, p) <=> \E c \in Clauses(Rule(line), Known) : Meets(c, p)
<1> DEFINE r == Rule(line)
           S == Clauses(r, Known)
<1>1. /\ r.proto = line.proto /\ r.service = line.service
      /\ r.sport = line.sport /\ r.dport = line.dport
  BY DEF Rule, Formed, AnyLine
<1>2. /\ line.sport \in Clause /\ line.dport \in Clause
      /\ FormedPorts(line.sport, r.proto) /\ FormedPorts(line.dport, r.proto)
  BY <1>1 DEF Formed, AnyLine
<1>3. CASE line.service # ""
  <2> DEFINE E == Expanded(line.service)
             At(q, m) == [proto |-> q, pos |-> IF m.pos = "" THEN "dst" ELSE m.pos,
                          op |-> m.op, ports |-> m.ports]
             of(m) == {At(q, m) : q \in MemberProtocols(m, {"tcp", "udp"})}
  <2>1. KindOf(line.service, DOMAIN Groups) = "port"
    BY <1>3 DEF Parses, Formed
  <2>2. Members(Known, line.service) = E /\ \A m \in E : line.service \in DOMAIN Groups
          /\ Groups[line.service].kind = "port"
    BY <1>3, <2>1, MembersKnown
  <2>3. \A m \in E : /\ m.proto \in {"", "tcp", "udp", "tcp-udp"}
                     /\ m.pos \in {"", "src", "dst"} /\ Operated(m.op, m.ports)
    BY <2>2, MembersAssumption
  <2>4. S = UNION {of(m) : m \in E}
    BY <1>1, <1>3, <2>2 DEF Clauses
  <2>5. \A m \in E : MemberProtocols(m, {"tcp", "udp"}) \subseteq {"tcp", "udp"}
    BY <2>3, ProtocolsAre
  <2>6. \A q, m : /\ At(q, m).proto = q /\ At(q, m).op = m.op /\ At(q, m).ports = m.ports
                  /\ At(q, m).pos = IF m.pos = "" THEN "dst" ELSE m.pos
    OBVIOUS
  <2>7. ASSUME NEW c \in S
        PROVE  \E m \in E : \E q \in MemberProtocols(m, {"tcp", "udp"}) : c = At(q, m)
    BY <2>4
  <2>8. ASSUME NEW m \in E, NEW q \in MemberProtocols(m, {"tcp", "udp"})
        PROVE  At(q, m) \in S
    <3>1. At(q, m) \in of(m)
      OBVIOUS
    <3> HIDE DEF of, At
    <3> QED BY <2>4, <3>1
  <2> HIDE DEF S, At, of
  <2>9. ASSUME NEW c \in S
        PROVE  ClauseFormed(c) /\ c.pos \in PortsAt(line)
    <3>0. PICK m \in E : \E q \in MemberProtocols(m, {"tcp", "udp"}) : c = At(q, m)
      BY <2>7
    <3>1. PICK q \in MemberProtocols(m, {"tcp", "udp"}) : c = At(q, m)
      BY <3>0
    <3>2. c.op = m.op /\ c.ports = m.ports /\ c.pos = IF m.pos = "" THEN "dst" ELSE m.pos
      BY <2>6, <3>1
    <3>3. c.pos = IF m.pos = "src" THEN "src" ELSE "dst"
      BY <2>3, <3>2
    <3>4. c.pos \in PortsAt(line)
      BY <1>3, <3>3 DEF PortsAt
    <3>5. ClauseFormed(c)
      BY <2>3, <3>2, <3>3 DEF ClauseFormed
    <3> QED BY <3>4, <3>5
  <2>10. ASSUME NEW p \in Traffic, NEW m \in E
         PROVE  MemberHolds(m, p) <=> \E q \in MemberProtocols(m, {"tcp", "udp"}) :
                                         Meets(At(q, m), p)
    <3> DEFINE c == Ports(m.op, m.ports)
               x == IF m.pos = "src" THEN p.sport ELSE p.dport
               holds == Inside(x, PortRanges(m.op, m.ports))
    <3>1. PortHolds(c, x) <=> holds
      <4>1. c.group = "" /\ c.op = m.op /\ c.ports = m.ports
        BY DEF Ports
      <4> HIDE DEF c, x
      <4> QED BY <4>1, PortHoldsIs
    <3>2. MemberHolds(m, p) <=> p.proto \in MemberProtocols(m, {"tcp", "udp"}) /\ holds
      <4> HIDE DEF holds
      <4> QED BY <3>1 DEF MemberHolds
    <3>3. ASSUME NEW q
          PROVE  Meets(At(q, m), p) <=> q \in {"ip", p.proto} /\ holds
      <4>1. /\ At(q, m).proto = q /\ At(q, m).op = m.op /\ At(q, m).ports = m.ports
            /\ At(q, m).pos = IF m.pos = "" THEN "dst" ELSE m.pos
        BY <2>6
      <4>4. m.pos \in {"", "src", "dst"}
        BY <2>3
      <4>2. CASE m.pos = "src"
        <5>1. At(q, m).pos = "src"
          BY <4>1, <4>2
        <5> QED BY <4>1, <4>2, <5>1 DEF Meets
      <4>3. CASE m.pos # "src"
        <5>1. At(q, m).pos = "dst"
          BY <4>1, <4>3, <4>4
        <5> QED BY <4>1, <4>3, <5>1 DEF Meets
      <4> QED BY <4>2, <4>3
    <3>4. p.proto # "ip" /\ "ip" \notin MemberProtocols(m, {"tcp", "udp"})
      BY <2>5, PacketHas
    <3> HIDE DEF c, x, holds
    <3>5. ASSUME MemberHolds(m, p)
          PROVE  \E q \in MemberProtocols(m, {"tcp", "udp"}) : Meets(At(q, m), p)
      BY <3>2, <3>3, <3>5
    <3>6. ASSUME NEW q \in MemberProtocols(m, {"tcp", "udp"}), Meets(At(q, m), p)
          PROVE  MemberHolds(m, p)
      <4>1. q = p.proto /\ holds
        <5>1. q \in {"ip", p.proto} /\ holds
          BY <3>3, <3>6, Zenon
        <5> QED BY <3>4, <5>1, Zenon
      <4> QED BY <3>2, <4>1
    <3> QED BY <3>5, <3>6
  <2>11. ASSUME NEW p \in Traffic
         PROVE  PortPart(line, p) <=> \E c \in S : Meets(c, p)
    <3>1. PortPart(line, p) <=> \E m \in E : MemberHolds(m, p)
      BY <1>3 DEF PortPart
    <3>2. (\E c \in S : Meets(c, p)) <=>
            \E m \in E : \E q \in MemberProtocols(m, {"tcp", "udp"}) : Meets(At(q, m), p)
      BY <2>7, <2>8
    <3> HIDE DEF E
    <3> QED BY <2>10, <3>1, <3>2
  <2> QED BY <2>9, <2>11 DEF S
<1>4. CASE line.service = ""
  <2> DEFINE A == PositionClauses(r, "src", r.sport, Known)
             B == PositionClauses(r, "dst", r.dport, Known)
             none == [proto |-> r.proto, pos |-> "", op |-> "", ports |-> <<>>]
  <2>1. S = IF A \cup B # {} THEN A \cup B ELSE {none}
    BY <1>1, <1>4 DEF Clauses, OrNone
  <2>2. PortsParse(r.sport, nx, DOMAIN Groups) /\ PortsParse(r.dport, nx, DOMAIN Groups)
    BY <1>1 DEF Parses, Formed, AnyLine
  <2>3. \A p \in Traffic : PortPart(line, p) <=> /\ r.proto \in {"ip", p.proto}
                                                 /\ PortHolds(r.sport, p.sport)
                                                 /\ PortHolds(r.dport, p.dport)
    BY <1>1, <1>4 DEF PortPart
  <2>4. \A end \in {"src", "dst"} :
          end \in PortsAt(line) <=> (IF end = "src" THEN r.sport ELSE r.dport).op # ""
    BY <1>1, <1>4 DEF PortsAt
  <2>5. none.proto = r.proto /\ none.pos = "" /\ none.op = "" /\ none.ports = <<>>
    OBVIOUS
  <2> HIDE DEF r, A, B, S, none
  <2>6. CASE r.sport.op = "" /\ r.dport.op = ""
    <3>1. /\ A = {} /\ \A x \in 0..MaxPort : PortHolds(r.sport, x)
          /\ B = {} /\ \A x \in 0..MaxPort : PortHolds(r.dport, x)
      BY <1>1, <1>2, <2>6, NoPosition DEF A, B
    <3>2. S = {none}
      BY <2>1, <3>1
    <3>3. ClauseFormed(none)
      <4>1. <<>> \in Seq(Int)
        BY NoPortsListed
      <4>2. "" \notin {"eq", "neq", "lt", "gt"} /\ "" # "range"
        OBVIOUS
      <4> QED BY <2>5, <4>1, <4>2 DEF ClauseFormed, Operated
    <3>4. ASSUME NEW p \in Traffic
          PROVE  PortPart(line, p) <=> Meets(none, p)
      <4>1. PortHolds(r.sport, p.sport) /\ PortHolds(r.dport, p.dport)
        BY <3>1, PacketHas
      <4> QED BY <2>3, <2>5, <4>1 DEF Meets
    <3> QED BY <2>5, <3>2, <3>3, <3>4 DEF S, r
  <2>7. CASE r.sport.op # "" /\ r.dport.op = ""
    <3>1. B = {} /\ \A x \in 0..MaxPort : PortHolds(r.dport, x)
      BY <1>1, <1>2, <2>7, NoPosition DEF B
    <3>2. /\ A # {}
          /\ \A d \in A : d.pos = "src" /\ d.proto = r.proto /\ Operated(d.op, d.ports)
          /\ \A x : PortHolds(r.sport, x) <=> \E d \in A : Inside(x, PortRanges(d.op, d.ports))
      <4>1. /\ r.sport \in Clause /\ FormedPorts(r.sport, r.proto)
            /\ PortsParse(r.sport, nx, DOMAIN Groups) /\ r.sport.op # ""
            /\ r.sport.group # "" => Expanded(r.sport.group) # {}
        BY <1>1, <1>2, <2>2, <2>7
      <4> QED BY <4>1, OnePosition DEF A
    <3>3. S = A
      BY <2>1, <3>1, <3>2
    <3>4. \A c \in A : ClauseFormed(c) /\ c.pos \in PortsAt(line)
      BY <2>4, <2>7, <3>2 DEF ClauseFormed
    <3>5. ASSUME NEW p \in Traffic
          PROVE  PortPart(line, p) <=> \E c \in A : Meets(c, p)
      <4>1. PortHolds(r.dport, p.dport)
        BY <3>1, PacketHas
      <4>2. \A c \in A : Meets(c, p) <=> /\ r.proto \in {"ip", p.proto}
                                         /\ Inside(p.sport, PortRanges(c.op, c.ports))
        BY <3>2 DEF Meets
      <4> QED BY <2>3, <3>2, <4>1, <4>2
    <3> QED BY <3>3, <3>4, <3>5 DEF S, r
  <2>8. CASE r.sport.op = "" /\ r.dport.op # ""
    <3>1. A = {} /\ \A x \in 0..MaxPort : PortHolds(r.sport, x)
      BY <1>1, <1>2, <2>8, NoPosition DEF A
    <3>2. /\ B # {}
          /\ \A d \in B : d.pos = "dst" /\ d.proto = r.proto /\ Operated(d.op, d.ports)
          /\ \A x : PortHolds(r.dport, x) <=> \E d \in B : Inside(x, PortRanges(d.op, d.ports))
      <4>1. /\ r.dport \in Clause /\ FormedPorts(r.dport, r.proto)
            /\ PortsParse(r.dport, nx, DOMAIN Groups) /\ r.dport.op # ""
            /\ r.dport.group # "" => Expanded(r.dport.group) # {}
        BY <1>1, <1>2, <2>2, <2>8
      <4> QED BY <4>1, OnePosition DEF B
    <3>3. S = B
      BY <2>1, <3>1, <3>2
    <3>4. \A c \in B : ClauseFormed(c) /\ c.pos \in PortsAt(line)
      BY <2>4, <2>8, <3>2 DEF ClauseFormed
    <3>5. ASSUME NEW p \in Traffic
          PROVE  PortPart(line, p) <=> \E c \in B : Meets(c, p)
      <4>1. PortHolds(r.sport, p.sport)
        BY <3>1, PacketHas
      <4>2. \A c \in B : Meets(c, p) <=> /\ r.proto \in {"ip", p.proto}
                                         /\ Inside(p.dport, PortRanges(c.op, c.ports))
        BY <3>2 DEF Meets
      <4> QED BY <2>3, <3>2, <4>1, <4>2
    <3> QED BY <3>3, <3>4, <3>5 DEF S, r
  <2> QED BY <1>1, <2>6, <2>7, <2>8 DEF r
<1> QED BY <1>3, <1>4

-----------------------------------------------------------------------------
(* Coverage and overlap are about packets *)

\* What a line and its rule have in common.
LEMMA RuleOf ==
  ASSUME NEW line, Formed(line), Plain(line)
  PROVE  /\ Rule(line).proto = line.proto /\ Rule(line).service = line.service
         /\ Rule(line).sport = line.sport /\ Rule(line).dport = line.dport
         /\ Rule(line).src = Normal(line.src) /\ Rule(line).dst = Normal(line.dst)
         /\ Rule(line).icmp = line.icmp /\ Rule(line).established = line.established
         /\ Rule(line).action = line.action /\ Rule(line).time = line.time
<1>1. line \in AnyLine /\ (line.time = "" \/ ~line.log)
  BY DEF Formed, Plain
<1>2. Rule(line).time = line.time
  BY <1>1 DEF Rule, AnyLine
<1> QED BY <1>1, <1>2 DEF Rule, AnyLine

\* The parts of a plain line.
LEMMA PartsOf ==
  ASSUME NEW line, Formed(line), Plain(line)
  PROVE  /\ line.src \in Operand /\ FormedAddress(line.src)
         /\ AddressParses(line.src, nexus, DOMAIN Groups)
         /\ line.dst \in Operand /\ FormedAddress(line.dst)
         /\ AddressParses(line.dst, nexus, DOMAIN Groups)
         /\ line.sport \in Clause /\ FormedPorts(line.sport, line.proto)
         /\ line.dport \in Clause /\ FormedPorts(line.dport, line.proto)
         /\ line.established \in BOOLEAN
BY DEF Formed, Plain, Parses, AnyLine

\* A line takes a packet that its schedule, addresses, ports and flags all take.
LEMMA HitsIs ==
  ASSUME NEW line, NEW p
  PROVE  Hits(line, p) <=> /\ line.time = "" \/ line.time \in p.when
                           /\ AddressHolds(line.src, p.src) /\ AddressHolds(line.dst, p.dst)
                           /\ PortPart(line, p)
                           /\ line.icmp \in {"", p.icmp}
                           /\ line.established => p.reply
BY DEF Hits, PortPart

\* An operand that covers another holds every address the other holds.
LEMMA AddressCovered ==
  ASSUME NEW a \in Operand, FormedAddress(a), AddressParses(a, nexus, DOMAIN Groups),
         NEW b \in Operand, FormedAddress(b), AddressParses(b, nexus, DOMAIN Groups),
         AddressCovers(Normal(a), Normal(b)), NEW x \in Int, AddressHolds(b, x)
  PROVE  AddressHolds(a, x)
<1>1. /\ Normal(a).group = a.group /\ Normal(a).lo = a.lo /\ Normal(a).hi = a.hi
      /\ Normal(b).group = b.group /\ Normal(b).lo = b.lo /\ Normal(b).hi = b.hi
      /\ Normal(a).form = "any" <=> a.form = "any"
      /\ Normal(b).form = "any" <=> b.form = "any"
  BY DEF Normal, Operand
<1>2. CASE a.form = "any"
  BY <1>2 DEF AddressHolds
<1>3. CASE a.form # "any" /\ (a.group # "" \/ b.group # "")
  <2>1. a.group = b.group
    BY <1>1, <1>3 DEF AddressCovers
  <2>2. a.form = "group" /\ b.form = "group"
    BY <1>3, <2>1 DEF FormedAddress
  <2> QED BY <2>1, <2>2 DEF AddressHolds
<1>4. CASE a.form # "any" /\ a.group = "" /\ b.group = ""
  <2>1. b.form # "any" /\ a.lo <= b.lo /\ b.hi <= a.hi
    BY <1>1, <1>4 DEF AddressCovers
  <2>2. /\ a.form # "group" /\ b.form # "group" /\ a.form # "odd" /\ b.form # "odd"
        /\ a.lo \in Int /\ a.hi \in Int /\ b.lo \in Int /\ b.hi \in Int
    BY <1>4 DEF FormedAddress, AddressParses, Operand
  <2>3. b.lo <= x /\ x <= b.hi
    BY <2>1, <2>2 DEF AddressHolds
  <2>4. a.lo <= x /\ x <= a.hi
    BY <2>1, <2>2, <2>3
  <2> QED BY <1>4, <2>2, <2>4 DEF AddressHolds
<1> QED BY <1>2, <1>3, <1>4

\* A port clause that covers another holds for every port the other holds for.
LEMMA PortsCovered ==
  ASSUME NEW c, NEW d, NEW proto, NEW other, FormedPorts(c, proto), FormedPorts(d, other),
         ClausePortsCover(c, d), NEW x \in 0..MaxPort, PortHolds(d, x)
  PROVE  PortHolds(c, x)
<1>1. CASE c.op = ""
  <2>1. c.group = ""
    BY <1>1 DEF FormedPorts
  <2> QED BY <1>1, <2>1, PortHoldsIs, EveryPort
<1>2. CASE c.op # "" /\ (c.group # "" \/ d.group # "")
  <2>1. c.group = d.group
    BY <1>2 DEF ClausePortsCover
  <2> QED BY <1>2, <2>1, PortHoldsIs
<1>3. CASE c.group = "" /\ d.group = ""
  <2>1. EachWithin(PortRanges(d.op, d.ports), PortRanges(c.op, c.ports))
    BY <1>3 DEF ClausePortsCover, PortCovers
  <2>2. Ranges(PortRanges(d.op, d.ports)) /\ Ranges(PortRanges(c.op, c.ports))
    BY PortRangesAre DEF FormedPorts
  <2>3. x \in Int
    BY Highest
  <2>5. Inside(x, PortRanges(d.op, d.ports))
    BY <1>3, PortHoldsIs
  <2>4. Inside(x, PortRanges(c.op, c.ports))
    BY <2>1, <2>2, <2>3, <2>5, InsideWider
  <2> QED BY <1>3, <2>4, PortHoldsIs
<1> QED BY <1>1, <1>2, <1>3

\* A clause that covers another is met by every packet that meets the other.
LEMMA ClauseCovered ==
  ASSUME NEW x, ClauseFormed(x), NEW y, ClauseFormed(y), ClauseCovers(x, y),
         NEW p \in Traffic, Meets(y, p)
  PROVE  Meets(x, p)
<1>1. x.proto \in {"ip", y.proto} /\ x.pos \in {"", y.pos}
  BY DEF ClauseCovers
<1>2. EachWithin(PortRanges(y.op, y.ports), PortRanges(x.op, x.ports))
  BY DEF ClauseCovers, PortCovers
<1>3. Ranges(PortRanges(x.op, x.ports)) /\ Ranges(PortRanges(y.op, y.ports))
  BY PortRangesAre DEF ClauseFormed
<1>4. p.sport \in Int /\ p.dport \in Int
  BY PacketHas
<1>5. x.proto \in {"ip", p.proto}
  BY <1>1 DEF Meets
<1>6. CASE x.pos = ""
  BY <1>5, <1>6 DEF Meets
<1>7. CASE x.pos = y.pos
  <2>1. y.pos = "src" => Inside(p.sport, PortRanges(x.op, x.ports))
    BY <1>2, <1>3, <1>4, InsideWider DEF Meets
  <2>2. y.pos = "dst" => Inside(p.dport, PortRanges(x.op, x.ports))
    BY <1>2, <1>3, <1>4, InsideWider DEF Meets
  <2> QED BY <1>5, <1>7, <2>1, <2>2 DEF Meets
<1> QED BY <1>1, <1>6, <1>7

\* Coverage by the text (rule_covers) is coverage of addresses, protocol and
\* ports.
LEMMA StructuralTakes ==
  ASSUME NEW a, Formed(a), Plain(a), NEW b, Formed(b), Plain(b),
         StructuralCovers(Rule(a), Rule(b), TRUE), NEW p \in Traffic, Hits(b, p)
  PROVE  AddressHolds(a.src, p.src) /\ AddressHolds(a.dst, p.dst) /\ PortPart(a, p)
<1> DEFINE r == Rule(a)
           s == Rule(b)
<1>1. /\ r.proto \in {"ip", s.proto}
      /\ r.service # "" \/ s.service # "" =>
            (r.service = "" /\ r.proto = "ip") \/ r.service = s.service
      /\ AddressCovers(r.src, s.src) /\ AddressCovers(r.dst, s.dst)
      /\ ClausePortsCover(r.sport, s.sport) /\ ClausePortsCover(r.dport, s.dport)
  BY DEF StructuralCovers
<1>2. /\ r.proto = a.proto /\ r.service = a.service /\ r.sport = a.sport /\ r.dport = a.dport
      /\ r.src = Normal(a.src) /\ r.dst = Normal(a.dst)
      /\ s.proto = b.proto /\ s.service = b.service /\ s.sport = b.sport /\ s.dport = b.dport
      /\ s.src = Normal(b.src) /\ s.dst = Normal(b.dst)
  BY RuleOf
<1> HIDE DEF r, s
<1>3. /\ p.src \in Int /\ p.dst \in Int /\ p.sport \in 0..MaxPort /\ p.dport \in 0..MaxPort
  BY PacketHas
<1>4. AddressHolds(b.src, p.src) /\ AddressHolds(b.dst, p.dst) /\ PortPart(b, p)
  BY HitsIs
<1>5. AddressHolds(a.src, p.src)
  BY <1>1, <1>2, <1>3, <1>4, PartsOf, AddressCovered
<1>6. AddressHolds(a.dst, p.dst)
  BY <1>1, <1>2, <1>3, <1>4, PartsOf, AddressCovered
<1>7. /\ PortHolds(b.sport, p.sport) => PortHolds(a.sport, p.sport)
      /\ PortHolds(b.dport, p.dport) => PortHolds(a.dport, p.dport)
  <2>1. /\ FormedPorts(a.sport, a.proto) /\ FormedPorts(b.sport, b.proto)
        /\ FormedPorts(a.dport, a.proto) /\ FormedPorts(b.dport, b.proto)
    BY PartsOf
  <2>2. ClausePortsCover(a.sport, b.sport) /\ ClausePortsCover(a.dport, b.dport)
    BY <1>1, <1>2
  <2> QED BY <1>3, <2>1, <2>2, PortsCovered
<1>8. CASE a.service # "" /\ a.service = b.service
  BY <1>4, <1>5, <1>6, <1>8 DEF PortPart
<1>9. CASE a.service = "" /\ b.service # ""
  <2>1. a.proto = "ip"
    BY <1>1, <1>2, <1>9
  <2>2. b.sport = NoPorts /\ b.dport = NoPorts
    BY <1>9 DEF Formed
  <2>3. NoPorts.op = "" /\ NoPorts.group = "" /\ NoPorts.ports = <<>>
    BY DEF NoPorts
  <2>4. PortHolds(b.sport, p.sport) /\ PortHolds(b.dport, p.dport)
    BY <1>3, <2>2, <2>3, PortHoldsIs, EveryPort
  <2> QED BY <1>5, <1>6, <1>7, <1>9, <2>1, <2>4 DEF PortPart
<1>10. CASE a.service = "" /\ b.service = ""
  <2>1. b.proto \in {"ip", p.proto} /\ PortHolds(b.sport, p.sport) /\ PortHolds(b.dport, p.dport)
    BY <1>4, <1>10 DEF PortPart
  <2>2. a.proto \in {"ip", p.proto}
    BY <1>1, <1>2, <2>1
  <2> QED BY <1>5, <1>6, <1>7, <1>10, <2>1, <2>2 DEF PortPart
<1> QED BY <1>1, <1>2, <1>8, <1>9, <1>10

\* So is coverage by the members of groups (rule_covers_with_group_members).
LEMMA MemberTakes ==
  ASSUME NEW a, Formed(a), Plain(a), NEW b, Formed(b), Plain(b),
         MemberCovers(Rule(a), Rule(b), Known, TRUE), NEW p \in Traffic, Hits(b, p)
  PROVE  AddressHolds(a.src, p.src) /\ AddressHolds(a.dst, p.dst) /\ PortPart(a, p)
<1> DEFINE A == Clauses(Rule(a), Known)
           B == Clauses(Rule(b), Known)
<1>1. /\ \A y \in B : \E x \in A : ClauseCovers(x, y)
      /\ EachWithin(AddrRanges(Rule(b).src, Known), AddrRanges(Rule(a).src, Known))
      /\ EachWithin(AddrRanges(Rule(b).dst, Known), AddrRanges(Rule(a).dst, Known))
  BY DEF MemberCovers, ClausesCover, AddressesCover
<1>2. /\ Rule(a).src = Normal(a.src) /\ Rule(a).dst = Normal(a.dst)
      /\ Rule(b).src = Normal(b.src) /\ Rule(b).dst = Normal(b.dst)
  BY RuleOf
<1>3. /\ p.src \in 0..MaxAddr /\ p.dst \in 0..MaxAddr /\ p.src \in Int /\ p.dst \in Int
  BY PacketHas
<1>4. AddressHolds(b.src, p.src) /\ AddressHolds(b.dst, p.dst) /\ PortPart(b, p)
  BY HitsIs
<1>5. ASSUME NEW x \in Operand, FormedAddress(x), AddressParses(x, nexus, DOMAIN Groups),
             NEW y \in Operand, FormedAddress(y), AddressParses(y, nexus, DOMAIN Groups),
             EachWithin(AddrRanges(Normal(y), Known), AddrRanges(Normal(x), Known)),
             NEW h \in 0..MaxAddr, h \in Int, AddressHolds(y, h)
      PROVE  AddressHolds(x, h)
  <2>1. Inside(h, AddrRanges(Normal(y), Known))
    BY <1>5, AddressRanges
  <2>2. Ranges(AddrRanges(Normal(x), Known)) /\ Ranges(AddrRanges(Normal(y), Known))
    BY <1>5, AddressRanges
  <2>3. Inside(h, AddrRanges(Normal(x), Known))
    BY <1>5, <2>1, <2>2, InsideWider
  <2> QED BY <1>5, <2>3, AddressRanges
<1>6. AddressHolds(a.src, p.src)
  BY <1>1, <1>2, <1>3, <1>4, <1>5, PartsOf
<1>7. AddressHolds(a.dst, p.dst)
  BY <1>1, <1>2, <1>3, <1>4, <1>5, PartsOf
<1>8. /\ \A c \in A : ClauseFormed(c)
      /\ PortPart(a, p) <=> \E c \in A : Meets(c, p)
      /\ \A c \in B : ClauseFormed(c)
      /\ PortPart(b, p) <=> \E c \in B : Meets(c, p)
  BY LineClauses DEF Plain
<1> HIDE DEF A, B
<1>9. PICK y \in B : Meets(y, p)
  BY <1>4, <1>8
<1>10. PICK x \in A : ClauseCovers(x, y)
  BY <1>1
<1>11. Meets(x, p)
  BY <1>8, <1>9, <1>10, ClauseCovered
<1> QED BY <1>6, <1>7, <1>8, <1>11

\* A rule that is covered takes no packet that the rule which covers it does
\* not take (rule_covers, rule_covers_with_group_members): for plain lines,
\* any addresses, ports and protocols, and groups however nested.
THEOREM CoveredIsTaken ==
  ASSUME NEW a, Formed(a), Plain(a), NEW b, Formed(b), Plain(b),
         Covers(Rule(a), Rule(b), Known, TRUE)
  PROVE  a.action = b.action /\ \A p \in Traffic : Hits(b, p) => Hits(a, p)
<1>1. MayCover(Rule(a), Rule(b), TRUE)
  BY DEF Covers, StructuralCovers, MemberCovers
<1>2. /\ Rule(a).action = Rule(b).action /\ Rule(a).time \in {"", Rule(b).time}
      /\ Rule(a).proto = "icmp" => Rule(a).icmp \in {"", Rule(b).icmp}
      /\ Rule(a).established => Rule(b).established
  BY <1>1 DEF MayCover
<1>3. /\ a.action = b.action /\ a.time \in {"", b.time}
      /\ a.proto = "icmp" => a.icmp \in {"", b.icmp}
      /\ a.established => b.established
  BY <1>2, RuleOf
<1>4. ASSUME NEW p \in Traffic, Hits(b, p)
      PROVE  Hits(a, p)
  <2>1. AddressHolds(a.src, p.src) /\ AddressHolds(a.dst, p.dst) /\ PortPart(a, p)
    BY <1>4, StructuralTakes, MemberTakes DEF Covers
  <2>2. /\ b.time = "" \/ b.time \in p.when
        /\ b.icmp \in {"", p.icmp}
        /\ b.established => p.reply
    BY <1>4, HitsIs
  <2>3. a.icmp \in {"", p.icmp}
    BY <1>3, <2>2 DEF Formed
  <2>4. a.time = "" \/ a.time \in p.when
    BY <1>3, <2>2
  <2>5. a.established => p.reply
    BY <1>3, <2>2
  <2> QED BY <2>1, <2>3, <2>4, <2>5, HitsIs
<1> QED BY <1>3, <1>4

\* Clauses of one end, or of none, that a packet meets overlap.
LEMMA MetOverlap ==
  ASSUME NEW x, ClauseFormed(x), NEW y, ClauseFormed(y), NEW p \in Traffic,
         Meets(x, p), Meets(y, p), x.pos = y.pos \/ "" \in {x.pos, y.pos}
  PROVE  ClauseOverlaps(x, y)
<1>1. Ranges(PortRanges(x.op, x.ports)) /\ Ranges(PortRanges(y.op, y.ports))
  BY PortRangesAre DEF ClauseFormed
<1>2. /\ p.sport \in 0..MaxPort /\ p.dport \in 0..MaxPort
      /\ p.sport \in Int /\ p.dport \in Int
  BY PacketHas
<1>3. ASSUME NEW c, ClauseFormed(c), Meets(c, p)
      PROVE  /\ c.pos # "dst" => Inside(p.sport, PortRanges(c.op, c.ports))
             /\ c.pos # "src" => Inside(p.dport, PortRanges(c.op, c.ports))
  <2>1. c.pos = "" => /\ Inside(p.sport, PortRanges(c.op, c.ports))
                      /\ Inside(p.dport, PortRanges(c.op, c.ports))
    BY <1>2, <1>3, EveryPort DEF ClauseFormed
  <2> QED BY <1>3, <2>1 DEF ClauseFormed, Meets
<1>4. \/ Inside(p.sport, PortRanges(x.op, x.ports)) /\ Inside(p.sport, PortRanges(y.op, y.ports))
      \/ Inside(p.dport, PortRanges(x.op, x.ports)) /\ Inside(p.dport, PortRanges(y.op, y.ports))
  <2>1. \/ x.pos # "dst" /\ y.pos # "dst"
        \/ x.pos # "src" /\ y.pos # "src"
    BY DEF ClauseFormed
  <2> QED BY <1>3, <2>1
<1>5. RangesOverlap(PortRanges(x.op, x.ports), PortRanges(y.op, y.ports))
  BY <1>1, <1>2, <1>4, InsideBoth
<1>6. x.proto = y.proto \/ "ip" \in {x.proto, y.proto}
  BY DEF Meets
<1> QED BY <1>5, <1>6 DEF ClauseOverlaps

\* Operands that hold an address in common have ranges that overlap.
LEMMA AddressesMeet ==
  ASSUME NEW x \in Operand, FormedAddress(x), AddressParses(x, nexus, DOMAIN Groups),
         NEW y \in Operand, FormedAddress(y), AddressParses(y, nexus, DOMAIN Groups),
         NEW h \in 0..MaxAddr, h \in Int, AddressHolds(x, h), AddressHolds(y, h)
  PROVE  RangesOverlap(AddrRanges(Normal(x), Known), AddrRanges(Normal(y), Known))
<1>1. /\ Ranges(AddrRanges(Normal(x), Known))
      /\ Inside(h, AddrRanges(Normal(x), Known))
  BY AddressRanges
<1>2. /\ Ranges(AddrRanges(Normal(y), Known))
      /\ Inside(h, AddrRanges(Normal(y), Known))
  BY AddressRanges
<1> QED BY <1>1, <1>2, InsideBoth

\* The protocol of a line that a packet hits.
LEMMA ProtocolOf ==
  ASSUME NEW line, Formed(line), NEW p, PortPart(line, p)
  PROVE  line.proto \in {"ip", p.proto}
<1>1. CASE line.service # ""
  BY <1>1 DEF Formed
<1>2. CASE line.service = ""
  BY <1>2 DEF PortPart
<1> QED BY <1>1, <1>2

\* Rules with a packet in common are not said to share no traffic
\* (rules_traffic_overlaps), unless one names source ports and the other
\* destination ports.
THEOREM SharedIsOverlap ==
  ASSUME NEW a, Formed(a), Plain(a), NEW b, Formed(b), Plain(b),
         PortsAt(a) \cup PortsAt(b) # {"src", "dst"},
         NEW p \in Traffic, Hits(a, p), Hits(b, p)
  PROVE  TrafficOverlaps(Rule(a), Rule(b), Known)
<1> DEFINE A == Clauses(Rule(a), Known)
           B == Clauses(Rule(b), Known)
<1>1. /\ AddressHolds(a.src, p.src) /\ AddressHolds(a.dst, p.dst) /\ PortPart(a, p)
      /\ a.icmp \in {"", p.icmp}
  BY HitsIs
<1>2. /\ AddressHolds(b.src, p.src) /\ AddressHolds(b.dst, p.dst) /\ PortPart(b, p)
      /\ b.icmp \in {"", p.icmp}
  BY HitsIs
<1>3. /\ p.src \in 0..MaxAddr /\ p.dst \in 0..MaxAddr /\ p.src \in Int /\ p.dst \in Int
  BY PacketHas
<1>4. a.proto = b.proto \/ "ip" \in {a.proto, b.proto}
  BY <1>1, <1>2, ProtocolOf
<1>5. a.icmp = b.icmp \/ "" \in {a.icmp, b.icmp}
  BY <1>1, <1>2
<1>6. /\ \A c \in A : ClauseFormed(c) /\ (c.pos # "" => c.pos \in PortsAt(a))
      /\ PortPart(a, p) <=> \E c \in A : Meets(c, p)
  BY LineClauses DEF Plain
<1>7. /\ \A c \in B : ClauseFormed(c) /\ (c.pos # "" => c.pos \in PortsAt(b))
      /\ PortPart(b, p) <=> \E c \in B : Meets(c, p)
  BY LineClauses DEF Plain
<1>8. PortsAt(a) \subseteq {"src", "dst"} /\ PortsAt(b) \subseteq {"src", "dst"}
  BY DEF PortsAt
<1>9. RangesOverlap(AddrRanges(Normal(a.src), Known), AddrRanges(Normal(b.src), Known))
  BY <1>1, <1>2, <1>3, PartsOf, AddressesMeet
<1>10. RangesOverlap(AddrRanges(Normal(a.dst), Known), AddrRanges(Normal(b.dst), Known))
  BY <1>1, <1>2, <1>3, PartsOf, AddressesMeet
<1> HIDE DEF A, B
<1>11. PICK x \in A : Meets(x, p)
  BY <1>1, <1>6
<1>12. PICK y \in B : Meets(y, p)
  BY <1>2, <1>7
<1>13. x.pos = y.pos \/ "" \in {x.pos, y.pos}
  BY <1>6, <1>7, <1>8 DEF ClauseFormed
<1>14. ClauseOverlaps(x, y)
  BY <1>6, <1>7, <1>11, <1>12, <1>13, MetOverlap
<1>15. /\ Rule(a).proto = a.proto /\ Rule(a).icmp = a.icmp
       /\ Rule(a).src = Normal(a.src) /\ Rule(a).dst = Normal(a.dst)
  BY RuleOf
<1>16. /\ Rule(b).proto = b.proto /\ Rule(b).icmp = b.icmp
       /\ Rule(b).src = Normal(b.src) /\ Rule(b).dst = Normal(b.dst)
  BY RuleOf
<1> QED BY <1>4, <1>5, <1>9, <1>10, <1>14, <1>15, <1>16 DEF TrafficOverlaps, A, B

-----------------------------------------------------------------------------
(* What a list lets through *)

\* A set of numbers has a smallest member.
LEMMA LeastOf ==
  ASSUME NEW S, S \subseteq Nat, S # {}
  PROVE  \E n \in S : \A m \in S : ~(m < n)
<1>1. PICK n \in S : \A m \in S : ~(<<m, n>> \in OpToRel(<, Nat))
  BY WFMin, NatLessThanWellFounded
<1> QED BY <1>1 DEF OpToRel

\* A finite set that is ordered has an element nothing is above of.
LEMMA TopOf ==
  ASSUME NEW S, IsFiniteSet(S), S # {}, NEW R,
         \A x \in S : <<x, x>> \notin R,
         \A x, y, z \in S : <<x, y>> \in R /\ <<y, z>> \in R => <<x, z>> \in R
  PROVE  \E t \in S : \A x \in S : <<t, x>> \notin R
<1> DEFINE Tops(U) == {t \in U : \A x \in U : <<t, x>> \notin R}
           B == {U \in FiniteSubsetsOf(S) : U # {} /\ Tops(U) = {}}
<1>1. S \in FiniteSubsetsOf(S)
  BY DEF FiniteSubsetsOf
<1>2. SUFFICES ASSUME B # {} PROVE FALSE
  BY <1>1
<1>3. PICK U \in B : \A V \in B : ~(<<V, U>> \in StrictSubsetOrdering(S))
  <2>1. B \subseteq FiniteSubsetsOf(S)
    OBVIOUS
  <2> HIDE DEF B
  <2> QED BY <1>2, <2>1, WFMin, FS_StrictSubsetOrderingWellFounded
<1>4. U \subseteq S /\ IsFiniteSet(U) /\ U # {} /\ Tops(U) = {}
  BY DEF FiniteSubsetsOf
<1>5. PICK x \in U : TRUE
  BY <1>4
<1> DEFINE V == U \ {x}
<1>6. V \in FiniteSubsetsOf(S) /\ <<V, U>> \in StrictSubsetOrdering(S)
  BY <1>4, <1>5, FS_RemoveElement DEF FiniteSubsetsOf, StrictSubsetOrdering
<1>7. V = {} \/ Tops(V) # {}
  BY <1>3, <1>6
<1>8. CASE V = {}
  BY <1>4, <1>5, <1>8
<1>9. CASE Tops(V) # {}
  <2>1. PICK m \in V : \A y \in V : <<m, y>> \notin R
    BY <1>9
  <2>2. \A y \in U : y = x \/ y \in V
    OBVIOUS
  <2>3. CASE <<m, x>> \notin R
    BY <1>4, <2>1, <2>2, <2>3
  <2>4. CASE <<m, x>> \in R
    <3>1. \A y \in V : <<x, y>> \notin R
      BY <1>4, <1>5, <2>1, <2>4
    <3>2. x \in Tops(U)
      BY <1>4, <1>5, <2>2, <3>1
    <3> QED BY <1>4, <3>2
  <2> QED BY <2>3, <2>4
<1> QED BY <1>7, <1>8, <1>9

\* Finite sets of numbers.
LEMMA LargestOf ==
  ASSUME NEW S, S \subseteq Int, IsFiniteSet(S), S # {}
  PROVE  \E n \in S : \A m \in S : m <= n
<1> DEFINE R == {r \in S \X S : r[1] < r[2]}
<1>1. \A x, y \in S : <<x, y>> \in R <=> x < y
  OBVIOUS
<1> HIDE DEF R
<1>2. PICK t \in S : \A x \in S : <<t, x>> \notin R
  <2>1. \A x \in S : <<x, x>> \notin R
    BY <1>1
  <2>2. \A x, y, z \in S : <<x, y>> \in R /\ <<y, z>> \in R => <<x, z>> \in R
    BY <1>1
  <2> QED BY <2>1, <2>2, TopOf
<1>3. \A x \in S : ~(t < x)
  BY <1>1, <1>2
<1> QED BY <1>3

\* So has a finite set of integers a smallest one.
LEMMA SmallestOf ==
  ASSUME NEW S, S \subseteq Int, IsFiniteSet(S), S # {}
  PROVE  \E n \in S : \A m \in S : n <= m
<1> DEFINE R == {r \in S \X S : r[2] < r[1]}
<1>1. \A x, y \in S : <<x, y>> \in R <=> y < x
  OBVIOUS
<1> HIDE DEF R
<1>2. PICK t \in S : \A x \in S : <<t, x>> \notin R
  <2>1. \A x \in S : <<x, x>> \notin R
    BY <1>1
  <2>2. \A x, y, z \in S : <<x, y>> \in R /\ <<y, z>> \in R => <<x, z>> \in R
    BY <1>1
  <2> QED BY <2>1, <2>2, TopOf
<1>3. \A x \in S : ~(x < t)
  BY <1>1, <1>2
<1> QED BY <1>3

\* Max and Min of the community modules are what they are called.
LEMMA MaxIs ==
  ASSUME NEW S, S \subseteq Int, IsFiniteSet(S), S # {}
  PROVE  Max(S) \in S /\ \A x \in S : x <= Max(S)
<1>1. PICK n \in S : \A m \in S : n >= m
  BY LargestOf
<1>2. Max(S) \in S /\ \A x \in S : Max(S) >= x
  BY <1>1 DEF Max
<1> QED BY <1>2

LEMMA MinIs ==
  ASSUME NEW S, S \subseteq Int, IsFiniteSet(S), S # {}
  PROVE  Min(S) \in S /\ \A x \in S : Min(S) <= x
<1>1. PICK n \in S : \A m \in S : n <= m
  BY SmallestOf
<1> QED BY <1>1 DEF Min

\* A set of natural numbers need not be finite to have a minimum.
LEMMA MinOfNat ==
  ASSUME NEW S, S \subseteq Nat, S # {}
  PROVE  Min(S) \in S /\ \A m \in S : Min(S) <= m
<1>1. PICK n \in S : \A m \in S : ~(m < n)
  BY LeastOf
<1>2. \A m \in S : n <= m
  BY <1>1
<1> QED BY <1>1, <1>2 DEF Min

Numbered(list) == DOMAIN list \subseteq Nat \ {0} /\ IsFiniteSet(DOMAIN list)

\* The packets a line takes are the same whether they were worked out before or not.
LEMMA HitByIs ==
  ASSUME NEW line
  PROVE  HitBy(line) = {p \in Traffic : Hits(line, p)}
BY DEF HitBy, TakenBy

\* Rule n is the first of the list that a packet hits.
First(list, n, p) ==
    /\ n \in RuleNumbers(list) /\ Hits(list[n], p)
    /\ \A m \in RuleNumbers(list) : m < n => ~Hits(list[m], p)

Decides(list, p, action) == \E n \in RuleNumbers(list) : First(list, n, p) /\ list[n].action = action

\* A packet is let through when the first rule that takes it permits it.
LEMMA PermittedIs ==
  ASSUME NEW list, NEW p
  PROVE  p \in Permitted(list) <=> p \in Traffic /\ Decides(list, p, "permit")
<1>1. ASSUME NEW n \in RuleNumbers(list)
      PROVE  p \in Reaching(list, n) <=> p \in Traffic /\ First(list, n, p)
  <2>1. \A m : p \in HitBy(list[m]) <=> p \in Traffic /\ Hits(list[m], p)
    BY HitByIs
  <2>2. p \in Reaching(list, n) <=>
          p \in HitBy(list[n]) /\ \A m \in RuleNumbers(list) : m < n => p \notin HitBy(list[m])
    BY DEF Reaching
  <2> QED BY <2>1, <2>2 DEF First
<1>2. p \in Permitted(list) <=>
        \E n \in RuleNumbers(list) : list[n].action = "permit" /\ p \in Reaching(list, n)
  BY DEF Permitted
<1> QED BY <1>1, <1>2 DEF Decides

\* Some rule decides a packet that any hits.
LEMMA FirstExists ==
  ASSUME NEW list, Numbered(list), NEW p, NEW n \in RuleNumbers(list), Hits(list[n], p)
  PROVE  \E m \in RuleNumbers(list) : First(list, m, p) /\ m <= n
<1> DEFINE S == {m \in RuleNumbers(list) : Hits(list[m], p)}
<1>1. S \subseteq Nat /\ n \in S
  BY DEF Numbered, RuleNumbers
<1>2. PICK m \in S : \A k \in S : ~(k < m)
  <2> HIDE DEF S
  <2> QED BY <1>1, LeastOf
<1>3. First(list, m, p)
  BY <1>2 DEF First
<1>4. m <= n
  BY <1>1, <1>2
<1> QED BY <1>3, <1>4

\* It is the only one.
LEMMA FirstIsOne ==
  ASSUME NEW list, Numbered(list), NEW p, NEW n, First(list, n, p), NEW m, First(list, m, p)
  PROVE  n = m
<1>1. n \in Nat /\ m \in Nat
  BY DEF First, Numbered, RuleNumbers
<1> QED BY <1>1 DEF First

\* What taking lines out of a list leaves.
LEMMA WithoutIs ==
  ASSUME NEW list, NEW S
  PROVE  /\ DOMAIN Without(list, S) = DOMAIN list \ S
         /\ \A n \in DOMAIN list \ S : Without(list, S)[n] = list[n]
         /\ RuleNumbers(Without(list, S)) = RuleNumbers(list) \ S
         /\ \A n \in RuleNumbers(Without(list, S)) : Without(list, S)[n] = list[n]
         /\ Numbered(list) => Numbered(Without(list, S))
<1>1. /\ DOMAIN Without(list, S) = DOMAIN list \ S
      /\ \A n \in DOMAIN list \ S : Without(list, S)[n] = list[n]
  BY DEF Without
<1>2. RuleNumbers(Without(list, S)) = RuleNumbers(list) \ S
  BY <1>1 DEF RuleNumbers
<1>3. Numbered(list) => Numbered(Without(list, S))
  <2>1. DOMAIN list \ S \subseteq DOMAIN list
    OBVIOUS
  <2> QED BY <1>1, <2>1, FS_Subset DEF Numbered
<1>4. \A n \in RuleNumbers(Without(list, S)) : Without(list, S)[n] = list[n]
  BY <1>1, <1>2 DEF RuleNumbers
<1> QED BY <1>1, <1>2, <1>3, <1>4

\* Lines whose removal leaves each packet the decision it got are not missed.
LEMMA DecisionsKept ==
  ASSUME NEW list, Numbered(list), NEW S, NEW p \in Traffic,
         \A action : Decides(list, p, action) => Decides(Without(list, S), p, action)
  PROVE  p \in Permitted(Without(list, S)) <=> p \in Permitted(list)
<1> DEFINE rest == Without(list, S)
<1>1. /\ Numbered(rest) /\ RuleNumbers(rest) = RuleNumbers(list) \ S
      /\ \A n \in RuleNumbers(rest) : rest[n] = list[n]
  BY WithoutIs
<1> HIDE DEF rest
<1>2. ASSUME Decides(rest, p, "permit")
      PROVE  Decides(list, p, "permit")
  <2>1. PICK n \in RuleNumbers(rest) : First(rest, n, p) /\ rest[n].action = "permit"
    BY <1>2 DEF Decides
  <2>2. n \in RuleNumbers(list) /\ Hits(list[n], p)
    BY <1>1, <2>1 DEF First
  <2>3. PICK m \in RuleNumbers(list) : First(list, m, p)
    BY <2>2, FirstExists
  <2>4. Decides(list, p, list[m].action)
    BY <2>3 DEF Decides
  <2>5. Decides(rest, p, list[m].action)
    BY <2>4 DEF rest
  <2>6. PICK k \in RuleNumbers(rest) : First(rest, k, p) /\ rest[k].action = list[m].action
    BY <2>5 DEF Decides
  <2>7. k = n
    BY <1>1, <2>1, <2>6, FirstIsOne
  <2> QED BY <2>1, <2>3, <2>6, <2>7 DEF Decides
<1>3. Decides(list, p, "permit") => Decides(rest, p, "permit")
  BY DEF rest
<1> QED BY <1>2, <1>3, PermittedIs DEF rest

\* Lines no packet reaches are not missed.
LEMMA UnreachedKept ==
  ASSUME NEW list, Numbered(list), NEW S, NEW p \in Traffic,
         \A n \in S : ~First(list, n, p)
  PROVE  p \in Permitted(Without(list, S)) <=> p \in Permitted(list)
<1> DEFINE rest == Without(list, S)
<1>1. /\ RuleNumbers(rest) = RuleNumbers(list) \ S
      /\ \A n \in RuleNumbers(rest) : rest[n] = list[n]
  BY WithoutIs
<1>2. ASSUME NEW action, Decides(list, p, action)
      PROVE  Decides(rest, p, action)
  <2>1. PICK n \in RuleNumbers(list) : First(list, n, p) /\ list[n].action = action
    BY <1>2 DEF Decides
  <2>2. n \notin S
    BY <2>1
  <2>3. First(rest, n, p) /\ rest[n].action = action /\ n \in RuleNumbers(rest)
    <3> HIDE DEF rest
    <3> QED BY <1>1, <2>1, <2>2 DEF First
  <2> QED BY <2>3 DEF Decides
<1> QED BY <1>2, DecisionsKept

-----------------------------------------------------------------------------
(* Redundant rules *)

FormedList(list) == \A n \in DOMAIN list : Formed(list[n])

\* The rules of a plain list are all understood.
LEMMA AllUnderstood ==
  ASSUME NEW list, PlainList(list)
  PROVE  /\ DOMAIN Understood(list, DOMAIN Groups) = RuleNumbers(list)
         /\ \A n \in RuleNumbers(list) : Understood(list, DOMAIN Groups)[n] = Rule(list[n])
<1> DEFINE D == {m \in DOMAIN list : Parses(list[m], nexus, DOMAIN Groups, "extended")}
<1>1. \A m \in RuleNumbers(list) : m \in D
  BY DEF PlainList, RuleSet, Plain, RuleNumbers
<1>2. \A m \in D : m \in RuleNumbers(list)
  BY DEF Parses, RuleNumbers, IsRule
<1>3. D = RuleNumbers(list)
  BY <1>1, <1>2
<1> HIDE DEF D
<1>4. Understood(list, DOMAIN Groups) = [n \in D |-> Rule(list[n])]
  BY DEF Understood, D
<1> QED BY <1>3, <1>4

\* The lines of a list of plain lines.
LEMMA PlainRules ==
  ASSUME NEW list, FormedList(list), PlainList(list), NEW n \in RuleNumbers(list)
  PROVE  Formed(list[n]) /\ Plain(list[n])
BY DEF FormedList, PlainList, RuleSet, RuleNumbers

\* No packet reaches a rule that an earlier one covers.
LEMMA CoveredIsUnreached ==
  ASSUME NEW list, Numbered(list), FormedList(list), PlainList(list),
         NEW p \in Traffic,
         NEW n \in Redundant(Understood(list, DOMAIN Groups), Known)
  PROVE  ~First(list, n, p)
<1> DEFINE rules == Understood(list, DOMAIN Groups)
<1>1. /\ DOMAIN rules = RuleNumbers(list)
      /\ \A m \in RuleNumbers(list) : rules[m] = Rule(list[m])
  BY AllUnderstood
<1> HIDE DEF rules
<1>2. n \in RuleNumbers(list) /\ CoveredEarlier(rules, Known, n)
  BY <1>1 DEF Redundant, rules
<1>3. PICK j \in RuleNumbers(list) : j < n /\ Covers(rules[j], rules[n], Known, TRUE)
  BY <1>1, <1>2 DEF CoveredEarlier
<1>4. Covers(Rule(list[j]), Rule(list[n]), Known, TRUE)
  BY <1>1, <1>2, <1>3
<1>5. Hits(list[n], p) => Hits(list[j], p)
  BY <1>2, <1>4, PlainRules, CoveredIsTaken
<1> QED BY <1>3, <1>5 DEF First

\* A rule that is superseded leaves its packets to one behind it that decides
\* them the same.
LEMMA SupersededIsDecided ==
  ASSUME NEW list, Numbered(list), FormedList(list), PlainList(list), SameEnds(list),
         NEW p \in Traffic, NEW action, Decides(list, p, action)
  PROVE  Decides(Without(list, Trailing(Understood(list, DOMAIN Groups), Known)), p, action)
<1> DEFINE rules == Understood(list, DOMAIN Groups)
           S == Trailing(rules, Known)
           rest == Without(list, S)
<1>1. /\ DOMAIN rules = RuleNumbers(list)
      /\ \A m \in RuleNumbers(list) : rules[m] = Rule(list[m])
  BY AllUnderstood
<1>2. PICK n \in RuleNumbers(list) : First(list, n, p) /\ list[n].action = action
  BY DEF Decides
<1>3. RuleNumbers(list) \subseteq Nat /\ IsFiniteSet(RuleNumbers(list))
  <2>1. RuleNumbers(list) \subseteq DOMAIN list
    BY DEF RuleNumbers
  <2> QED BY <2>1, FS_Subset DEF Numbered
<1> DEFINE T == {j \in RuleNumbers(list) :
                    /\ n <= j /\ Hits(list[j], p) /\ list[j].action = action
                    /\ \A m \in RuleNumbers(list) :
                         n <= m /\ m < j /\ Hits(list[m], p) => list[m].action = action}
<1>4. n \in T
  BY <1>2, <1>3 DEF First
<1>5. PICK j \in T : \A k \in T : k <= j
  <2>1. T \subseteq RuleNumbers(list)
    OBVIOUS
  <2>2. T \subseteq Int /\ IsFiniteSet(T)
    BY <1>3, <2>1, FS_Subset
  <2> HIDE DEF T
  <2> QED BY <1>4, <2>2, LargestOf
<1>6. j \notin S
  <2> SUFFICES ASSUME j \in S PROVE FALSE
    OBVIOUS
  <2>1. PICK k \in RuleNumbers(list) : SupersededBy(rules, Known, j, k)
    <3> HIDE DEF rules, T
    <3> QED BY <1>1 DEF Trailing
  <2>2. /\ j < k /\ Covers(rules[k], rules[j], Known, TRUE)
        /\ \A m \in RuleNumbers(list) : j < m /\ m < k => ~Conflicts(rules, Known, j, m)
    <3> HIDE DEF rules, T
    <3> QED BY <1>1, <2>1 DEF SupersededBy
  <2>3. /\ j \in RuleNumbers(list) /\ Hits(list[j], p) /\ list[j].action = action /\ n <= j
        /\ \A m \in RuleNumbers(list) :
             n <= m /\ m < j /\ Hits(list[m], p) => list[m].action = action
    OBVIOUS
  <2> HIDE DEF rules, S, rest
  <2>4. Hits(list[k], p) /\ list[k].action = action
    <3>1. Covers(Rule(list[k]), Rule(list[j]), Known, TRUE)
      BY <1>1, <2>2, <2>3
    <3> QED BY <2>3, <3>1, PlainRules, CoveredIsTaken
  <2>5. ASSUME NEW m \in RuleNumbers(list), j < m, m < k, Hits(list[m], p)
        PROVE  list[m].action = action
    <3> SUFFICES ASSUME list[m].action # action PROVE FALSE
      OBVIOUS
    <3>1. PortsAt(list[j]) \cup PortsAt(list[m]) # {"src", "dst"}
      BY <2>3 DEF SameEnds, RuleSet
    <3>2. Formed(list[j]) /\ Plain(list[j]) /\ Formed(list[m]) /\ Plain(list[m])
      BY <2>3, PlainRules
    <3>3. TrafficOverlaps(Rule(list[j]), Rule(list[m]), Known)
      BY <2>3, <2>5, <3>1, <3>2, SharedIsOverlap
    <3>4. Rule(list[j]).action = list[j].action /\ Rule(list[m]).action = list[m].action
      BY <3>2, RuleOf
    <3>5. Conflicts(rules, Known, j, m)
      BY <1>1, <2>3, <3>3, <3>4 DEF Conflicts
    <3> QED BY <2>2, <2>5, <3>5
  <2>6. n \in Nat /\ j \in Nat /\ k \in Nat
    BY <1>3, <2>3
  <2>7. n <= k
    BY <2>2, <2>3, <2>6
  <2>8. ASSUME NEW m \in RuleNumbers(list), n <= m, m < k, Hits(list[m], p)
        PROVE  list[m].action = action
    <3>1. m \in Nat
      BY <1>3
    <3>2. m < j \/ m = j \/ j < m
      BY <2>6, <3>1
    <3> QED BY <2>3, <2>5, <2>8, <3>2
  <2>9. k \in T
    BY <2>4, <2>7, <2>8
  <2> QED BY <1>5, <2>2, <2>6, <2>9
<1>7. /\ j \in RuleNumbers(list) /\ Hits(list[j], p) /\ list[j].action = action /\ n <= j
      /\ \A m \in RuleNumbers(list) :
           n <= m /\ m < j /\ Hits(list[m], p) => list[m].action = action
  OBVIOUS
<1>8. /\ Numbered(rest) /\ RuleNumbers(rest) = RuleNumbers(list) \ S
      /\ \A m \in RuleNumbers(rest) : rest[m] = list[m]
  BY WithoutIs
<1> HIDE DEF rules, S, rest, T
<1>9. j \in RuleNumbers(rest) /\ Hits(rest[j], p)
  BY <1>6, <1>7, <1>8
<1>10. PICK m \in RuleNumbers(rest) : First(rest, m, p) /\ m <= j
  BY <1>8, <1>9, FirstExists
<1>11. m \in RuleNumbers(list) /\ Hits(list[m], p) /\ rest[m] = list[m]
  BY <1>8, <1>10 DEF First
<1>12. n <= m
  BY <1>2, <1>3, <1>11 DEF First
<1>13. list[m].action = action
  <2>1. m = j \/ m < j
    BY <1>3, <1>7, <1>10, <1>11
  <2> QED BY <1>7, <1>11, <1>12, <2>1
<1> QED BY <1>10, <1>11, <1>13 DEF Decides, rest, S, rules

\* Removing what the reports call redundant changes nothing.
LEMMA RedundantIsKept ==
  ASSUME NEW list, Numbered(list), FormedList(list), PlainList(list)
  PROVE  Permitted(Without(list, Redundant(Understood(list, DOMAIN Groups), Known)))
           = Permitted(list)
<1> DEFINE S == Redundant(Understood(list, DOMAIN Groups), Known)
<1>1. ASSUME NEW p \in Traffic
      PROVE  p \in Permitted(Without(list, S)) <=> p \in Permitted(list)
  BY CoveredIsUnreached, UnreachedKept
<1> HIDE DEF S
<1>2. \A l, p : p \in Permitted(l) => p \in Traffic
  BY PermittedIs
<1> QED BY <1>1, <1>2 DEF S

\* Rules that later ones supersede can all be taken out.
LEMMA SupersededIsKept ==
  ASSUME NEW list, Numbered(list), FormedList(list), PlainList(list), SameEnds(list)
  PROVE  Permitted(Without(list, Trailing(Understood(list, DOMAIN Groups), Known)))
           = Permitted(list)
<1> DEFINE S == Trailing(Understood(list, DOMAIN Groups), Known)
<1>1. ASSUME NEW p \in Traffic
      PROVE  p \in Permitted(Without(list, S)) <=> p \in Permitted(list)
  BY SupersededIsDecided, DecisionsKept
<1> HIDE DEF S
<1>2. \A l, p : p \in Permitted(l) => p \in Traffic
  BY PermittedIs
<1> QED BY <1>1, <1>2 DEF S

-----------------------------------------------------------------------------
(* Flagged rules *)

\* The traffic a report about these bindings is of.
Seen(bindings) ==
    IF \A b \in bindings : b.subnet = <<>> THEN Traffic ELSE Crossing(bindings)

\* A rule whose schedule is over takes no packet from now on.
LEMMA DeadTakesNothing ==
  ASSUME NEW list, FormedList(list), NEW p \in Traffic,
         NEW n \in DeadSchedule(Understood(list, DOMAIN Groups), Now)
  PROVE  n \in DOMAIN list /\ ~Hits(list[n], p)
<1> DEFINE rules == Understood(list, DOMAIN Groups)
<1>1. /\ DOMAIN rules \subseteq DOMAIN list
      /\ \A m \in DOMAIN rules : rules[m] = Rule(list[m])
  BY DEF Understood
<1> HIDE DEF rules
<1>2. /\ n \in DOMAIN rules /\ rules[n].time \in DOMAIN Schedules
      /\ Expired(Schedules[rules[n].time], Now)
  BY DEF DeadSchedule, rules
<1> DEFINE line == list[n]
<1>3. n \in DOMAIN list /\ Formed(line) /\ rules[n] = Rule(line)
  BY <1>1, <1>2 DEF FormedList
<1> HIDE DEF line
<1>4. Rule(line).time # ""
  BY <1>2, <1>3, RulesAssumption
<1>5. Rule(line).time = IF line.log THEN "" ELSE line.time
  BY <1>3 DEF Rule, Formed, AnyLine
<1>6. Rule(line).time = line.time
  BY <1>4, <1>5
<1>7. \A e \in Schedules[line.time] : e.kind = "absolute" /\ e.end # 0 /\ e.end <= Now
  BY <1>2, <1>3, <1>6 DEF Expired
<1>8. line.time \in DOMAIN Schedules /\ line.time # ""
  BY <1>2, <1>3, <1>4, <1>6
<1>9. line.time \notin Running
  <2> SUFFICES ASSUME NEW e \in Schedules[line.time],
                      e.kind = "periodic" \/ e.end = 0 \/ e.end > Now
               PROVE  FALSE
    BY DEF Running
  <2>1. e.end \in Int /\ Now \in Int
    BY <1>8, RulesAssumption, ListsAssumption
  <2> QED BY <1>7, <2>1
<1>10. line.time \notin p.when
  BY <1>9, PacketHas
<1> QED BY <1>3, <1>8, <1>10, HitsIs DEF line

\* A rule on the wrong side takes no packet that crosses the interfaces.
LEMMA WrongSideTakesNothing ==
  ASSUME NEW list, FormedList(list), NEW bindings \in Bindings, NEW p \in Seen(bindings),
         NEW n \in WrongDirection(Understood(list, DOMAIN Groups), bindings, Known)
  PROVE  n \in DOMAIN list /\ ~Hits(list[n], p)
<1> DEFINE rules == Understood(list, DOMAIN Groups)
           usable == {b \in bindings : b.subnet # <<>>}
<1>1. /\ DOMAIN rules \subseteq DOMAIN list
      /\ \A m \in DOMAIN rules : /\ rules[m] = Rule(list[m])
                                 /\ Parses(list[m], nexus, DOMAIN Groups, "extended")
  BY DEF Understood
<1> HIDE DEF rules
<1>2. n \in DOMAIN rules /\ usable # {} /\ \A b \in usable : ~Fires(rules[n], b, Known)
  BY DEF WrongDirection, rules
<1>3. p \in Traffic /\ \E b \in usable :
          LET end == IF b.direction = "in" THEN p.src ELSE p.dst
          IN  b.subnet[1] <= end /\ end <= b.subnet[2]
  BY <1>2 DEF Seen, Crossing
<1>4. PICK b \in usable :
          LET end == IF b.direction = "in" THEN p.src ELSE p.dst
          IN  b.subnet[1] <= end /\ end <= b.subnet[2]
  BY <1>3
<1> DEFINE line == list[n]
           end == IF b.direction = "in" THEN p.src ELSE p.dst
           side == IF b.direction = "in" THEN line.src ELSE line.dst
<1>5. /\ n \in DOMAIN list /\ Formed(line) /\ rules[n] = Rule(line)
      /\ Parses(line, nexus, DOMAIN Groups, "extended")
  BY <1>1, <1>2 DEF FormedList
<1>6. b.subnet \in Int \X Int
  BY ListsAssumption
<1>7. end \in 0..MaxAddr /\ end \in Int
  BY <1>3, PacketHas
<1>8. b.subnet[1] <= end /\ end <= b.subnet[2]
  BY <1>4
<1>9. ~Fires(rules[n], b, Known)
  BY <1>2
<1>10. SUFFICES ASSUME Hits(line, p) PROVE FALSE
  BY <1>5
<1>11. AddressHolds(side, end)
  BY <1>10, HitsIs
<1>12. side \in Operand /\ FormedAddress(side) /\ AddressParses(side, nexus, DOMAIN Groups)
  <2>1. ~line.standard
    BY <1>5 DEF Parses, Formed, AnyLine
  <2> QED BY <1>5, <2>1 DEF Formed, AnyLine, Parses
<1>13. (IF b.direction = "in" THEN Rule(line).src ELSE Rule(line).dst) = Normal(side)
  <2> HIDE DEF line
  <2> QED BY <1>5 DEF Rule, Formed, AnyLine
<1> HIDE DEF side, end, line, usable
<1>14. /\ Ranges(AddrRanges(Normal(side), Known))
       /\ Inside(end, AddrRanges(Normal(side), Known))
  BY <1>7, <1>11, <1>12, AddressRanges
<1>15. Ranges({b.subnet}) /\ Inside(end, {b.subnet})
  BY <1>6, <1>8 DEF Ranges, Inside
<1>16. RangesOverlap(AddrRanges(Normal(side), Known), {b.subnet})
  BY <1>7, <1>14, <1>15, InsideBoth
<1> QED BY <1>5, <1>9, <1>13, <1>16 DEF Fires

\* Rules reported as over or on the wrong side can all be taken out.
LEMMA FlaggedIsKept ==
  ASSUME NEW list, Numbered(list), FormedList(list), NEW bindings \in Bindings
  PROVE  Permitted(Without(list, Flagged(Understood(list, DOMAIN Groups),
                                         DOMAIN Groups, bindings))) \cap Seen(bindings)
           = Permitted(list) \cap Seen(bindings)
<1> DEFINE S == Flagged(Understood(list, DOMAIN Groups), DOMAIN Groups, bindings)
<1>1. ASSUME NEW p \in Seen(bindings), p \in Traffic
      PROVE  p \in Permitted(Without(list, S)) <=> p \in Permitted(list)
  <2>1. ASSUME NEW n \in S PROVE ~First(list, n, p)
    <3>1. ~Hits(list[n], p)
      BY <1>1, DeadTakesNothing, WrongSideTakesNothing DEF Flagged, Known
    <3> QED BY <3>1 DEF First
  <2> HIDE DEF S
  <2> QED BY <1>1, <2>1, UnreachedKept
<1> HIDE DEF S
<1>2. \A l, p : p \in Permitted(l) => p \in Traffic
  BY PermittedIs
<1> QED BY <1>1, <1>2 DEF S

-----------------------------------------------------------------------------
(* Edits keep a list a list *)

\* Lists stay lists of lines when a line is sent, or lines are removed.
LEMMA WithKept ==
  ASSUME NEW list, Numbered(list), FormedList(list), NEW n \in Nat \ {0},
         NEW line, Formed(line)
  PROVE  Numbered(With(list, n, line)) /\ FormedList(With(list, n, line))
<1>1. /\ DOMAIN With(list, n, line) = DOMAIN list \cup {n}
      /\ With(list, n, line)[n] = line
      /\ \A m \in DOMAIN list : m # n => With(list, n, line)[m] = list[m]
  BY DEF With
<1>2. IsFiniteSet(DOMAIN list \cup {n})
  BY FS_AddElement DEF Numbered
<1>3. Numbered(With(list, n, line))
  BY <1>1, <1>2 DEF Numbered
<1> QED BY <1>1, <1>3 DEF FormedList

LEMMA WithoutKept ==
  ASSUME NEW list, Numbered(list), FormedList(list), NEW S
  PROVE  Numbered(Without(list, S)) /\ FormedList(Without(list, S))
<1>1. /\ DOMAIN Without(list, S) = DOMAIN list \ S
      /\ \A n \in DOMAIN list \ S : Without(list, S)[n] = list[n]
      /\ Numbered(Without(list, S))
  BY WithoutIs
<1> QED BY <1>1 DEF FormedList

\* A line sent without a number comes last.
Behind(list) == IF DOMAIN list = {} THEN 10 ELSE Max(DOMAIN list) + 10

\* A line without a number gets one behind all others.
LEMMA AppendedIs ==
  ASSUME NEW list, Numbered(list), NEW line
  PROVE  /\ Appended(list, line) = With(list, Behind(list), line)
         /\ Behind(list) \in Nat \ {0}
         /\ \A m \in DOMAIN list : m < Behind(list)
<1>1. Appended(list, line) = With(list, Behind(list), line)
  BY DEF Appended, Behind
<1>2. CASE DOMAIN list = {}
  BY <1>1, <1>2 DEF Behind
<1>3. CASE DOMAIN list # {}
  <2>1. DOMAIN list \subseteq Int /\ DOMAIN list \subseteq Nat
    BY DEF Numbered
  <2>2. Max(DOMAIN list) \in DOMAIN list /\ \A x \in DOMAIN list : x <= Max(DOMAIN list)
    BY <1>3, <2>1, MaxIs DEF Numbered
  <2>3. Behind(list) = Max(DOMAIN list) + 10
    BY <1>3 DEF Behind
  <2> QED BY <1>1, <2>1, <2>2, <2>3
<1> QED BY <1>2, <1>3

-----------------------------------------------------------------------------
(* The lines that are sent *)

\* The words the program writes itself.
LEMMA NamedWords ==
  /\ {"", "remark", "permit", "ip", "tcp", "udp", "icmp"} \subseteq Words
  /\ "" \in Words /\ "ip" \in Words /\ "remark" \in Words /\ "permit" \in Words
  /\ IcmpTypes \subseteq Words
BY DEF Words

\* Operands stay operands when they are normalised or written back.
LEMMA NormalFormed ==
  ASSUME NEW a \in Operand, FormedAddress(a)
  PROVE  Normal(a) \in Operand /\ FormedAddress(Normal(a))
BY DEF Normal, Operand, FormedAddress

LEMMA WrittenFormed ==
  ASSUME NEW c \in Clause, NEW proto, FormedPorts(c, proto)
  PROVE  WrittenPorts(c) \in Clause /\ FormedPorts(WrittenPorts(c), proto)
<1>1. CASE c.op \in {"eq", "neq"}
  <2> DEFINE d == [c EXCEPT !.ports = <<@[1]>>]
  <2>1. WrittenPorts(c) = d
    BY <1>1 DEF WrittenPorts
  <2>2. c.ports \in Seq(Int) /\ c.ports # <<>>
    BY <1>1 DEF FormedPorts, Operated
  <2>3. c.ports[1] \in Int
    BY <2>2
  <2>4. d.ports = <<c.ports[1]>> /\ d.op = c.op /\ d.group = c.group
    BY DEF Clause
  <2>5. d.ports \in Seq(Int) /\ d.ports # <<>>
    BY <2>3, <2>4
  <2>6. d \in Clause
    BY <2>5 DEF Clause
  <2>7. Operated(d.op, d.ports)
    BY <1>1, <2>4, <2>5 DEF Operated
  <2>8. FormedPorts(d, proto)
    BY <2>4, <2>7 DEF FormedPorts
  <2> QED BY <2>1, <2>6, <2>8
<1>2. CASE c.op \notin {"eq", "neq"}
  BY <1>2 DEF WrittenPorts
<1> QED BY <1>1, <1>2

LEMMA NoPortsWritten == WrittenPorts(NoPorts) = NoPorts
BY DEF WrittenPorts, NoPorts

\* What a rule is, of a line that is understood.
LEMMA RuleFormed ==
  ASSUME NEW line, Formed(line)
  PROVE  Formed(Rule(line))
<1>1. line \in AnyLine
  BY DEF Formed
<1>2. /\ Normal(line.src) \in Operand /\ FormedAddress(Normal(line.src))
      /\ Normal(line.dst) \in Operand /\ FormedAddress(Normal(line.dst))
  BY NormalFormed DEF Formed, AnyLine
<1>3. Rule(line) \in AnyLine
  BY <1>1, <1>2, NamedWords DEF Rule, AnyLine
<1>4. /\ Rule(line).src = Normal(line.src) /\ Rule(line).dst = Normal(line.dst)
      /\ Rule(line).sport = line.sport /\ Rule(line).dport = line.dport
      /\ Rule(line).proto = line.proto /\ Rule(line).service = line.service
      /\ Rule(line).icmp = line.icmp
  BY <1>1 DEF Rule, AnyLine
<1> QED BY <1>2, <1>3, <1>4 DEF Formed

\* The form of a rule whose operands are written back.
LEMMA WrittenRule ==
  ASSUME NEW rule, Formed(rule)
  PROVE  Formed(Written(rule))
<1>1. rule \in AnyLine /\ rule.sport \in Clause /\ rule.dport \in Clause
  BY DEF Formed, AnyLine
<1>2. /\ Written(rule).src = rule.src /\ Written(rule).dst = rule.dst
      /\ Written(rule).sport = WrittenPorts(rule.sport)
      /\ Written(rule).dport = WrittenPorts(rule.dport)
      /\ Written(rule).proto = rule.proto /\ Written(rule).service = rule.service
      /\ Written(rule).icmp = rule.icmp
  BY <1>1 DEF Written, AnyLine
<1>3. /\ WrittenPorts(rule.sport) \in Clause
      /\ FormedPorts(WrittenPorts(rule.sport), rule.proto)
      /\ WrittenPorts(rule.dport) \in Clause
      /\ FormedPorts(WrittenPorts(rule.dport), rule.proto)
  BY <1>1, WrittenFormed DEF Formed
<1>4. Written(rule) \in AnyLine
  BY <1>1, <1>3 DEF Written, AnyLine
<1>5. rule.service # "" => WrittenPorts(rule.sport) = NoPorts /\ WrittenPorts(rule.dport) = NoPorts
  BY NoPortsWritten DEF Formed
<1> QED BY <1>2, <1>3, <1>4, <1>5 DEF Formed

\* The reverse of a rule.
LEMMA ReversedFormed ==
  ASSUME NEW rule, Formed(rule)
  PROVE  Formed(Reversed(rule))
<1> DEFINE r == [rule EXCEPT !.src = rule.dst, !.sport = rule.dport,
                             !.dst = rule.src, !.dport = rule.sport]
<1>1. rule \in AnyLine
  BY DEF Formed
<1>2. /\ r \in AnyLine /\ r.src = rule.dst /\ r.dst = rule.src
      /\ r.sport = rule.dport /\ r.dport = rule.sport
      /\ r.proto = rule.proto /\ r.service = rule.service /\ r.icmp = rule.icmp
  BY <1>1 DEF AnyLine
<1>3. Reversed(rule) = Written(r)
  BY DEF Reversed
<1> HIDE DEF r
<1>4. Formed(r)
  BY <1>2 DEF Formed
<1> QED BY <1>3, <1>4, WrittenRule

\* No ports have the form of ports, of any protocol.
LEMMA NoPortsFormed == NoPorts \in Clause /\ \A proto : FormedPorts(NoPorts, proto)
<1>1. NoPorts.op = "" /\ NoPorts.ports = <<>> /\ NoPorts.group = ""
  BY DEF NoPorts
<1>2. <<>> \in Seq(Int)
  BY NoPortsListed
<1>3. NoPorts \in Clause
  <2> DEFINE e == <<>>
  <2>1. NoPorts = [op |-> "", ports |-> e, group |-> ""]
    BY DEF NoPorts
  <2> HIDE DEF e
  <2> QED BY <1>2, <2>1, NamedWords DEF Clause, e
<1>4. \A proto : FormedPorts(NoPorts, proto)
  BY <1>1, <1>2 DEF FormedPorts, Operated
<1> QED BY <1>3, <1>4

\* The fields of a line (Line is the line without options).
LEMMA LineIs ==
  ASSUME NEW action \in Words, NEW proto \in Words, NEW a \in Operand, NEW c \in Clause,
         NEW b \in Operand, NEW d \in Clause
  PROVE  LET line == Line(action, proto, a, c, b, d)
         IN  /\ line \in AnyLine
             /\ line.action = action /\ line.proto = proto
             /\ line.src = a /\ line.sport = c /\ line.dst = b /\ line.dport = d
             /\ ~line.standard /\ ~line.log
<1> DEFINE none == ""
<1>1. none \in Words
  BY NamedWords
<1> DEFINE r == [action |-> action, proto |-> proto, service |-> none, standard |-> FALSE,
                 src |-> a, sport |-> c, dst |-> b, dport |-> d, icmp |-> none,
                 established |-> FALSE, time |-> none, log |-> FALSE]
<1>2. Line(action, proto, a, c, b, d) = r
  BY DEF Line
<1> HIDE DEF none
<1>3. r \in AnyLine
  BY <1>1 DEF AnyLine
<1> QED BY <1>2, <1>3

\* The fields of the line generated for a request.
Grants(line, req, swapped, nx) ==
    LET byService == req.port.group # "" /\ ~nx
        proto == IF byService THEN "ip" ELSE req.proto
        port == IF byService THEN NoPorts ELSE req.port
    IN  /\ line \in AnyLine
        /\ line.action = "permit" /\ line.proto = proto
        /\ line.service = (IF byService THEN req.port.group ELSE "")
        /\ ~line.standard /\ ~line.log
        /\ IF swapped
           THEN /\ line.src = req.dst /\ line.sport = port
                /\ line.dst = req.src /\ line.dport = NoPorts
           ELSE /\ line.src = req.src /\ line.sport = NoPorts
                /\ line.dst = req.dst /\ line.dport = port
        /\ line.icmp = (IF proto = "icmp" THEN req.icmp ELSE "")
        /\ (line.established <=> req.established /\ proto = "tcp" /\ swapped)
        /\ line.time = req.time

LEMMA GeneratedIs ==
  ASSUME NEW req, NEW direction, NEW side, NEW nx \in BOOLEAN, Request(req, nx)
  PROVE  Grants(GeneratePermit(req, direction, side, nx), req,
                DestinationFirst(direction, side), nx)
<1> DEFINE byService == req.port.group # "" /\ ~nx
           proto == IF byService THEN "ip" ELSE req.proto
           port == IF byService THEN NoPorts ELSE req.port
           swapped == DestinationFirst(direction, side)
           service == IF byService THEN req.port.group ELSE ""
           icmp == IF proto = "icmp" THEN req.icmp ELSE ""
           established == req.established /\ proto = "tcp" /\ swapped
           time == req.time
           act == "permit"
           a == IF swapped THEN req.dst ELSE req.src
           c == IF swapped THEN port ELSE NoPorts
           b == IF swapped THEN req.src ELSE req.dst
           d == IF swapped THEN NoPorts ELSE port
           r == Line(act, proto, a, c, b, d)
<1>1. GeneratePermit(req, direction, side, nx) =
        [r EXCEPT !.service = service, !.icmp = icmp,
                  !.established = established, !.time = time]
  BY DEF GeneratePermit
<1>2. NoPorts \in Clause /\ req.port \in Clause /\ port \in Clause
  BY NoPortsFormed DEF Request, ValidPort
<1>3. a \in Operand /\ b \in Operand /\ c \in Clause /\ d \in Clause
  BY <1>2 DEF Request, IsAddress
<1>4. act \in Words /\ proto \in Words /\ service \in Words /\ icmp \in Words /\ time \in Words
  <2>1. req.proto \in Words /\ req.icmp \in Words /\ req.time \in Words
    BY NamedWords DEF Request, Validated
  <2>2. req.port.group \in Words
    BY <1>2 DEF Clause
  <2> QED BY <2>1, <2>2, NamedWords
<1>5. established \in BOOLEAN
  OBVIOUS
<1> HIDE DEF act, proto, a, b, c, d, r, service, icmp, established, time
<1>6. /\ r \in AnyLine /\ r.action = act /\ r.proto = proto
      /\ r.src = a /\ r.sport = c /\ r.dst = b /\ r.dport = d
      /\ ~r.standard /\ ~r.log
  BY <1>3, <1>4, LineIs DEF r
<1> DEFINE line == [r EXCEPT !.service = service, !.icmp = icmp,
                             !.established = established, !.time = time]
<1>7. /\ line \in AnyLine
      /\ line.action = act /\ line.proto = proto /\ line.service = service
      /\ line.src = a /\ line.sport = c /\ line.dst = b /\ line.dport = d
      /\ ~line.standard /\ ~line.log
      /\ line.icmp = icmp /\ line.established = established /\ line.time = time
  BY <1>4, <1>5, <1>6 DEF AnyLine
<1> HIDE DEF line
<1>8. /\ line.action = "permit"
      /\ line.established <=> req.established /\ proto = "tcp" /\ swapped
  BY <1>7 DEF act, established
<1>9. IF swapped
      THEN /\ line.src = req.dst /\ line.sport = port
           /\ line.dst = req.src /\ line.dport = NoPorts
      ELSE /\ line.src = req.src /\ line.sport = NoPorts
           /\ line.dst = req.dst /\ line.dport = port
  BY <1>7 DEF a, b, c, d
<1>10. GeneratePermit(req, direction, side, nx) = line
  BY <1>1 DEF line
<1>11. Grants(line, req, swapped, nx)
  <2> HIDE DEF swapped
  <2> QED BY <1>7, <1>8, <1>9 DEF Grants, proto, service, icmp, time
<1> QED BY <1>10, <1>11

\* The line generated for a request has the form of lines (generate_permit_rule).
LEMMA GeneratedFormed ==
  ASSUME NEW req, NEW direction, NEW side, NEW nx \in BOOLEAN, Request(req, nx)
  PROVE  Formed(GeneratePermit(req, direction, side, nx))
<1> DEFINE line == GeneratePermit(req, direction, side, nx)
           byService == req.port.group # "" /\ ~nx
           proto == IF byService THEN "ip" ELSE req.proto
           port == IF byService THEN NoPorts ELSE req.port
<1>1. /\ line \in AnyLine /\ line.proto = proto
      /\ line.service = (IF byService THEN req.port.group ELSE "")
      /\ line.icmp = (IF proto = "icmp" THEN req.icmp ELSE "")
      /\ \/ /\ line.src = req.src /\ line.sport = NoPorts
            /\ line.dst = req.dst /\ line.dport = port
         \/ /\ line.src = req.dst /\ line.sport = port
            /\ line.dst = req.src /\ line.dport = NoPorts
  <2>1. /\ line \in AnyLine /\ line.proto = proto
        /\ line.service = (IF byService THEN req.port.group ELSE "")
        /\ line.icmp = (IF proto = "icmp" THEN req.icmp ELSE "")
        /\ IF DestinationFirst(direction, side)
           THEN /\ line.src = req.dst /\ line.sport = port
                /\ line.dst = req.src /\ line.dport = NoPorts
           ELSE /\ line.src = req.src /\ line.sport = NoPorts
                /\ line.dst = req.dst /\ line.dport = port
    <3>1. Grants(line, req, DestinationFirst(direction, side), nx)
      BY GeneratedIs
    <3> HIDE DEF line
    <3> QED BY <3>1 DEF Grants
  <2> HIDE DEF line, proto, port
  <2> QED BY <2>1
<1> HIDE DEF line
<1>2. FormedAddress(req.src) /\ FormedAddress(req.dst)
  BY DEF Request, IsAddress
<1>3. \A p : FormedPorts(NoPorts, p)
  BY NoPortsFormed
<1>4. FormedPorts(port, proto)
  BY <1>3 DEF Request
<1>5. /\ FormedPorts(line.sport, line.proto) /\ FormedPorts(line.dport, line.proto)
      /\ FormedAddress(line.src) /\ FormedAddress(line.dst)
  BY <1>1, <1>2, <1>3, <1>4
<1>6. line.service # "" => line.proto = "ip" /\ {line.sport, line.dport} = {NoPorts}
  BY <1>1
<1>7. line.icmp # "" => line.proto = "icmp"
  BY <1>1
<1>8. Formed(line)
  BY <1>1, <1>5, <1>6, <1>7 DEF Formed
<1> QED BY <1>8 DEF line

\* All addresses, and one, have the form of operands.
LEMMA AnyAddressIs ==
  /\ AnyAddress.form = "any" /\ AnyAddress.lo = 0 /\ AnyAddress.hi = MaxAddr
  /\ AnyAddress.group = "" /\ AnyAddress \in Operand /\ FormedAddress(AnyAddress)
<1>1. /\ AnyAddress.form = "any" /\ AnyAddress.lo = 0 /\ AnyAddress.hi = MaxAddr
      /\ AnyAddress.group = ""
  BY DEF AnyAddress
<1>2. AnyAddress \in Operand
  <2> DEFINE forms == {"any", "host", "net", "cidr", "odd", "group"}
             form == "any"
             lo == 0
             hi == MaxAddr
             group == ""
  <2>1. AnyAddress = [form |-> form, lo |-> lo, hi |-> hi, group |-> group]
    BY DEF AnyAddress
  <2>2. form \in forms /\ lo \in Int
    OBVIOUS
  <2>3. hi \in Int
    BY Widest
  <2>4. group \in Words
    BY NamedWords
  <2>5. Operand = [form : forms, lo : Int, hi : Int, group : Words]
    BY DEF Operand
  <2> HIDE DEF forms, form, lo, hi, group
  <2> QED BY <2>1, <2>2, <2>3, <2>4, <2>5
<1> QED BY <1>1, <1>2 DEF FormedAddress

LEMMA HostIs ==
  ASSUME NEW h \in Int
  PROVE  /\ Host(h).form = "host" /\ Host(h).lo = h /\ Host(h).hi = h
         /\ Host(h).group = "" /\ Host(h) \in Operand /\ FormedAddress(Host(h))
<1>1. Host(h).form = "host" /\ Host(h).lo = h /\ Host(h).hi = h /\ Host(h).group = ""
  BY DEF Host
<1>2. Host(h) \in Operand
  <2> DEFINE forms == {"any", "host", "net", "cidr", "odd", "group"}
             form == "host"
             group == ""
  <2>1. Host(h) = [form |-> form, lo |-> h, hi |-> h, group |-> group]
    BY DEF Host
  <2>2. form \in forms
    OBVIOUS
  <2>3. group \in Words
    BY NamedWords
  <2>4. Operand = [form : forms, lo : Int, hi : Int, group : Words]
    BY DEF Operand
  <2> HIDE DEF forms, form, group
  <2> QED BY <2>1, <2>2, <2>3, <2>4
<1> QED BY <1>1, <1>2 DEF FormedAddress

\* A remark has the form of a line.
LEMMA RemarkFormed == Formed(Remark)
<1>1. NoPorts \in Clause /\ FormedPorts(NoPorts, "ip")
  BY NoPortsFormed
<1>2. AnyAddress \in Operand /\ FormedAddress(AnyAddress)
  BY AnyAddressIs
<1>3. Remark = [action |-> "remark", proto |-> "ip", service |-> "", standard |-> FALSE,
                src |-> AnyAddress, sport |-> NoPorts, dst |-> AnyAddress, dport |-> NoPorts,
                icmp |-> "", established |-> FALSE, time |-> "", log |-> FALSE]
  BY DEF Remark, Line
<1>4. Remark \in AnyLine
  BY <1>1, <1>2, <1>3, NamedWords DEF AnyLine
<1>5. /\ Remark.src = AnyAddress /\ Remark.dst = AnyAddress
      /\ Remark.sport = NoPorts /\ Remark.dport = NoPorts
      /\ Remark.proto = "ip" /\ Remark.service = "" /\ Remark.icmp = ""
  BY <1>3
<1> QED BY <1>1, <1>2, <1>4, <1>5 DEF Formed

-----------------------------------------------------------------------------
(* Summaries *)

\* A function of a finite set has finitely many values.
LEMMA FiniteRange ==
  ASSUME NEW f, IsFiniteSet(DOMAIN f)
  PROVE  IsFiniteSet({f[x] : x \in DOMAIN f})
<1> DEFINE T == {f[x] : x \in DOMAIN f}
           g == [x \in DOMAIN f |-> f[x]]
<1>1. g \in [DOMAIN f -> T] /\ \A t \in T : \E x \in DOMAIN f : g[x] = t
  OBVIOUS
<1> HIDE DEF T, g
<1>2. g \in Surjection(DOMAIN f, T)
  BY <1>1 DEF Surjection
<1>3. IsFiniteSet(T)
  BY <1>2, FS_Surjection
<1> QED BY <1>3 DEF T

\* An induction over the numbers up to n.
LEMMA UpFromZero ==
  ASSUME NEW n \in Nat, NEW S, 0 \in S,
         \A i \in 0..n : i \in S /\ i # n => i + 1 \in S
  PROVE  \A i \in 0..n : i \in S
<1> DEFINE T == {i \in 0..n : i \notin S}
<1> SUFFICES ASSUME T # {} PROVE FALSE
  OBVIOUS
<1>1. T \subseteq Nat
  OBVIOUS
<1>2. PICK i \in T : \A y \in T : ~(y < i)
  <2> HIDE DEF T
  <2> QED BY <1>1, LeastOf
<1>3. i \in 0..n /\ i \notin S
  OBVIOUS
<1>4. i # 0
  BY <1>3
<1>5. i - 1 \in 0..n /\ i - 1 < i /\ i - 1 # n /\ (i - 1) + 1 = i
  BY <1>3, <1>4
<1>6. i - 1 \in S
  BY <1>2, <1>5
<1> QED BY <1>3, <1>5, <1>6

Doubled(g, k) == IF k = 0 THEN 1 ELSE 2 * g[k - 1]

\* The recursive function PowerOf2 exists, up to any number, and is positive.
LEMMA PowersExist ==
  ASSUME NEW n \in Nat
  PROVE  \A k \in 0..n : \E g : g = [i \in 0..k |-> Doubled(g, i)]
<1> DEFINE P(k) == \E g : g = [i \in 0..k |-> Doubled(g, i)]
           S == {k \in 0..n : P(k)}
<1>1. P(0)
  <2> DEFINE g == [i \in 0..0 |-> 1]
  <2>1. \A i \in 0..0 : i = 0
    OBVIOUS
  <2>2. \A i \in 0..0 : Doubled(g, i) = 1
    BY <2>1 DEF Doubled
  <2>3. g = [i \in 0..0 |-> Doubled(g, i)]
    BY <2>2
  <2> QED BY <2>3
<1>2. ASSUME NEW k \in 0..n, P(k) PROVE P(k + 1)
  <2>1. PICK g : g = [i \in 0..k |-> Doubled(g, i)]
    BY <1>2
  <2> DEFINE h == [i \in 0..(k + 1) |-> IF i = k + 1 THEN Doubled(g, i) ELSE g[i]]
  <2>2. ASSUME NEW i \in 0..(k + 1) PROVE h[i] = Doubled(h, i)
    <3>1. i # k + 1 => i \in 0..k
      OBVIOUS
    <3>2. h[i] = Doubled(g, i)
      BY <2>1, <3>1
    <3>3. i # 0 => i - 1 \in 0..(k + 1) /\ i - 1 # k + 1
      OBVIOUS
    <3>4. i # 0 => h[i - 1] = g[i - 1]
      BY <3>3
    <3> QED BY <3>2, <3>4 DEF Doubled
  <2>3. h = [i \in 0..(k + 1) |-> h[i]]
    OBVIOUS
  <2> HIDE DEF h
  <2>4. h = [i \in 0..(k + 1) |-> Doubled(h, i)]
    BY <2>2, <2>3
  <2> QED BY <2>4
<1> HIDE DEF P
<1>3. 0 \in S
  BY <1>1
<1>4. \A k \in 0..n : k \in S /\ k # n => k + 1 \in S
  BY <1>2
<1> HIDE DEF S
<1>5. \A k \in 0..n : k \in S
  BY <1>3, <1>4, UpFromZero
<1> QED BY <1>5 DEF S, P

LEMMA PowersAre ==
  ASSUME NEW k \in 0..AddrBits
  PROVE  PowerOf2[k] \in Nat \ {0}
<1>1. AddrBits \in Nat /\ AddrBits \in 0..AddrBits
  <2>1. AddrBits \in Nat
    BY RulesAssumption
  <2> QED BY <2>1
<1>2. PICK g : g = [i \in 0..AddrBits |-> Doubled(g, i)]
  BY <1>1, PowersExist
<1>3. g = [i \in 0..AddrBits |-> IF i = 0 THEN 1 ELSE 2 * g[i - 1]]
  BY <1>2 DEF Doubled
<1>4. PowerOf2 = [i \in 0..AddrBits |-> IF i = 0 THEN 1 ELSE 2 * PowerOf2[i - 1]]
  BY <1>3 DEF PowerOf2
<1> DEFINE f == PowerOf2
           S == {i \in 0..AddrBits : f[i] \in Nat \ {0}}
<1>5. \A i \in 0..AddrBits : f[i] = IF i = 0 THEN 1 ELSE 2 * f[i - 1]
  BY <1>4
<1> HIDE DEF f
<1>6. 0 \in S
  BY <1>1, <1>5
<1>7. \A i \in 0..AddrBits : i \in S /\ i # AddrBits => i + 1 \in S
  <2> SUFFICES ASSUME NEW i \in 0..AddrBits, f[i] \in Nat \ {0}, i # AddrBits
               PROVE  i + 1 \in 0..AddrBits /\ f[i + 1] \in Nat \ {0}
    OBVIOUS
  <2>1. i + 1 \in 0..AddrBits /\ i + 1 # 0 /\ (i + 1) - 1 = i
    BY <1>1
  <2>2. f[i + 1] = 2 * f[i]
    BY <1>5, <2>1
  <2> QED BY <2>1, <2>2
<1> HIDE DEF S
<1>8. k \in S
  BY <1>1, <1>6, <1>7, UpFromZero
<1> QED BY <1>8 DEF S, f

\* A summary is around the networks it is of.
LEMMA AroundIs ==
  ASSUME NEW nets, NEW lo \in Int, NEW hi, NEW total, NEW block \in Around(nets, lo, hi, total)
  PROVE  block[1] \in Int /\ block[2] \in Int /\ Within(<<lo, hi>>, block)
<1> DEFINE fits == {k \in 0..AddrBits : Held(k, nets, lo, hi, total)}
<1>1. fits # {} /\ block = Block(Min(fits), lo)
  BY DEF Around
<1>2. Min(fits) \in fits
  <2>1. fits \subseteq Nat
    OBVIOUS
  <2> HIDE DEF fits
  <2> QED BY <1>1, <2>1, MinOfNat
<1>3. Min(fits) \in 0..AddrBits /\ Within(<<lo, hi>>, block)
  BY <1>1, <1>2 DEF Held
<1> DEFINE w == PowerOf2[Min(fits)]
<1>4. w \in Nat \ {0}
  BY <1>3, PowersAre
<1>5. block = <<lo - (lo % w), lo - (lo % w) + w - 1>>
  BY <1>1 DEF Block
<1> HIDE DEF w, fits
<1>6. lo % w \in Int
  BY <1>4
<1>7. block[1] \in Int /\ block[2] \in Int
  BY <1>4, <1>5, <1>6
<1> QED BY <1>3, <1>7

\* A summary is around all the networks it was made for.
LEMMA SummaryHolds ==
  ASSUME NEW n \in Nat \ {0}, NEW nets, DOMAIN nets = 1..n,
         \A i \in 1..n : nets[i][1] \in Int /\ nets[i][2] \in Int,
         NEW block \in BestSummary(nets)
  PROVE  /\ block[1] \in Int /\ block[2] \in Int
         /\ \A i \in 1..n : block[1] <= nets[i][1] /\ nets[i][2] <= block[2]
<1> DEFINE los == {nets[i][1] : i \in DOMAIN nets}
           his == {nets[i][2] : i \in DOMAIN nets}
           first == [i \in 1..n |-> nets[i][1]]
           second == [i \in 1..n |-> nets[i][2]]
<1>1. IsFiniteSet(1..n)
  BY FS_Interval
<1>2. los # {} /\ his # {} /\ los \subseteq Int /\ his \subseteq Int
  <2>1. 1 \in 1..n
    OBVIOUS
  <2> QED BY <2>1
<1>3. IsFiniteSet(los)
  <2>1. los = {first[i] : i \in DOMAIN first} /\ DOMAIN first = 1..n
    OBVIOUS
  <2> HIDE DEF los, first
  <2> QED BY <1>1, <2>1, FiniteRange
<1>4. IsFiniteSet(his)
  <2>1. his = {second[i] : i \in DOMAIN second} /\ DOMAIN second = 1..n
    OBVIOUS
  <2> HIDE DEF his, second
  <2> QED BY <1>1, <2>1, FiniteRange
<1>5. \E total : block \in Around(nets, Min(los), Max(his), total)
  BY DEF BestSummary
<1>6. \A i \in 1..n : nets[i][1] \in los /\ nets[i][2] \in his
  OBVIOUS
<1> HIDE DEF los, his
<1>7. Min(los) \in los /\ \A x \in los : Min(los) <= x
  BY <1>2, <1>3, MinIs
<1>8. Max(his) \in his /\ \A x \in his : x <= Max(his)
  BY <1>2, <1>4, MaxIs
<1>9. Min(los) \in Int /\ Max(his) \in Int
  BY <1>2, <1>7, <1>8
<1>10. block[1] \in Int /\ block[2] \in Int /\ Within(<<Min(los), Max(his)>>, block)
  BY <1>5, <1>9, AroundIs
<1>11. block[1] <= Min(los) /\ Max(his) <= block[2]
  BY <1>10 DEF Within
<1>12. ASSUME NEW i \in 1..n
       PROVE  block[1] <= nets[i][1] /\ nets[i][2] <= block[2]
  <2>1. Min(los) <= nets[i][1] /\ nets[i][2] <= Max(his)
    BY <1>6, <1>7, <1>8
  <2> QED BY <1>9, <1>10, <1>11, <2>1
<1> QED BY <1>10, <1>12

-----------------------------------------------------------------------------
(* The order of entries *)

Comparable(entries) ==
    /\ IsFiniteSet(entries)
    /\ \A e \in entries : e.net[1] \in Int /\ e.n \in Int
    /\ \A e, o \in entries : e.n = o.n => e = o

Arranged(s, entries) ==
    /\ s \in [1..Cardinality(entries) -> entries]
    /\ \A i, j \in DOMAIN s : i < j => InOrder(s[i], s[j])

\* The order of entries is a strict total order, so they can be arranged.
LEMMA OrderOf ==
  ASSUME NEW entries, Comparable(entries)
  PROVE  /\ \A x \in entries : ~InOrder(x, x)
         /\ \A x, y, z \in entries : InOrder(x, y) /\ InOrder(y, z) => InOrder(x, z)
         /\ \A x, y \in entries : x = y \/ InOrder(x, y) \/ InOrder(y, x)
BY DEF Comparable, InOrder

LEMMA ArrangementExists ==
  ASSUME NEW E, Comparable(E)
  PROVE  \E s : Arranged(s, E)
<1> DEFINE B == {U \in FiniteSubsetsOf(E) : ~\E s : Arranged(s, U)}
<1>1. E \in FiniteSubsetsOf(E)
  BY DEF FiniteSubsetsOf, Comparable
<1>2. SUFFICES ASSUME B # {} PROVE FALSE
  BY <1>1
<1>3. PICK U \in B : \A V \in B : ~(<<V, U>> \in StrictSubsetOrdering(E))
  <2>1. B \subseteq FiniteSubsetsOf(E)
    OBVIOUS
  <2>2. IsFiniteSet(E)
    BY DEF Comparable
  <2> HIDE DEF B
  <2> QED BY <1>2, <2>1, <2>2, WFMin, FS_StrictSubsetOrderingWellFounded
<1>4. U \subseteq E /\ IsFiniteSet(U) /\ ~\E s : Arranged(s, U)
  BY DEF FiniteSubsetsOf
<1>5. CASE U = {}
  <2> DEFINE s == [i \in 1..0 |-> i]
  <2>1. Cardinality(U) = 0
    BY <1>5, FS_EmptySet
  <2>2. s \in [1..0 -> U] /\ \A i \in DOMAIN s : FALSE
    OBVIOUS
  <2> HIDE DEF s
  <2>3. Arranged(s, U)
    BY <2>1, <2>2 DEF Arranged
  <2> QED BY <1>4, <2>3
<1>6. CASE U # {}
  <2> DEFINE R == {r \in U \X U : InOrder(r[1], r[2])}
  <2>1. \A x, y \in U : <<x, y>> \in R <=> InOrder(x, y)
    OBVIOUS
  <2> HIDE DEF R
  <2>2. PICK t \in U : \A x \in U : <<t, x>> \notin R
    <3>1. \A x \in U : <<x, x>> \notin R
      BY <1>4, <2>1, OrderOf
    <3>2. \A x, y, z \in U : <<x, y>> \in R /\ <<y, z>> \in R => <<x, z>> \in R
      BY <1>4, <2>1, OrderOf
    <3> QED BY <1>4, <1>6, <3>1, <3>2, TopOf
  <2> DEFINE V == U \ {t}
             n == Cardinality(U)
  <2>3. V \in FiniteSubsetsOf(E) /\ <<V, U>> \in StrictSubsetOrdering(E)
    BY <1>4, FS_RemoveElement DEF FiniteSubsetsOf, StrictSubsetOrdering
  <2>4. PICK s : Arranged(s, V)
    BY <1>3, <2>3
  <2>5. n \in Nat /\ Cardinality(V) \in Nat /\ Cardinality(V) = n - 1
    BY <1>4, FS_RemoveElement, FS_CardinalityType
  <2>6. \A x \in V : InOrder(x, t)
    BY <1>4, <2>1, <2>2, OrderOf
  <2>7. /\ s \in [1..(n - 1) -> V]
        /\ \A i, j \in 1..(n - 1) : i < j => InOrder(s[i], s[j])
    BY <2>4, <2>5 DEF Arranged
  <2>8. \A x \in V : x \in U
    OBVIOUS
  <2> HIDE DEF V, n
  <2> DEFINE u == [i \in 1..n |-> IF i = n THEN t ELSE s[i]]
  <2>9. \A i \in 1..n : i # n => i \in 1..(n - 1)
    BY <2>5
  <2>10. u \in [1..n -> U]
    BY <2>7, <2>8, <2>9
  <2>11. ASSUME NEW i \in 1..n, NEW j \in 1..n, i < j
         PROVE  InOrder(u[i], u[j])
    <3>1. i # n /\ u[i] = s[i] /\ s[i] \in V
      BY <2>5, <2>7, <2>9, <2>11
    <3>2. CASE j = n
      BY <2>6, <3>1, <3>2
    <3>3. CASE j # n
      <4>1. u[j] = s[j] /\ i \in 1..(n - 1) /\ j \in 1..(n - 1)
        BY <2>9, <3>1, <3>3
      <4> QED BY <2>7, <2>11, <3>1, <4>1
    <3> QED BY <3>2, <3>3
  <2>12. Arranged(u, U)
    <3>1. DOMAIN u = 1..n
      OBVIOUS
    <3> HIDE DEF u
    <3> QED BY <2>10, <2>11, <3>1 DEF Arranged, n
  <2> QED BY <1>4, <2>12
<1> QED BY <1>5, <1>6

\* Ordered arranges the entries it is given.
LEMMA OrderedIs ==
  ASSUME NEW entries, Comparable(entries)
  PROVE  Ordered(entries) \in [1..Cardinality(entries) -> entries]
<1>1. PICK s : Arranged(s, entries)
  BY ArrangementExists
<1>2. /\ s \in [1..Cardinality(entries) -> entries]
      /\ \A i, j \in DOMAIN s : i < j => InOrder(s[i], s[j])
  BY <1>1 DEF Arranged
<1> QED BY <1>2 DEF Ordered

-----------------------------------------------------------------------------
(* What a suggestion is *)

\* A function of 1..n is a sequence of length n.
LEMMA ListedIs ==
  ASSUME NEW n \in Nat, NEW S, NEW f \in [1..n -> S]
  PROVE  f \in Seq(S) /\ Len(f) = n
<1>1. f \in Seq(S)
  BY SeqDef
<1>2. Len(f) \in Nat /\ 1..Len(f) = 1..n
  BY <1>1, LenProperties
<1> QED BY <1>1, <1>2

\* A cluster is two or more of the networks, one behind the other.
LEMMA ClusterIs ==
  ASSUME NEW n \in Nat, NEW nets, DOMAIN nets = 1..n, Len(nets) = n,
         NEW c \in Clusters(nets)
  PROVE  c[1] \in 1..n /\ c[2] \in 1..n /\ c[1] < c[2]
<1> DEFINE grows(i, j) == \A m \in (i + 1)..j : BestSummary(SubSeq(nets, i, m)) # {}
           reach(i) == {j \in i..Len(nets) : grows(i, j)}
<1>1. \E i \in DOMAIN nets : c = <<i, Max(reach(i))>> /\ Max(reach(i)) > i
  BY DEF Clusters
<1>2. PICK i \in 1..n : c = <<i, Max(reach(i))>> /\ Max(reach(i)) > i
  BY <1>1
<1>3. reach(i) \subseteq i..n /\ i \in reach(i)
  <2>1. grows(i, i)
    OBVIOUS
  <2> HIDE DEF grows
  <2> QED BY <2>1
<1> HIDE DEF reach
<1>4. IsFiniteSet(reach(i))
  <2>1. IsFiniteSet(i..n)
    BY FS_Interval
  <2> QED BY <1>3, <2>1, FS_Subset
<1>5. reach(i) \subseteq Int /\ reach(i) # {}
  BY <1>3
<1>6. Max(reach(i)) \in i..n
  BY <1>3, <1>4, <1>5, MaxIs
<1> QED BY <1>2, <1>6

Gathered(rules, side, key, e) ==
    \E n \in Widened(rules, side, key) : e = Entry(rules, n, side)

\* The entries T of one group are replaced by the first with this block.
Summarizes(rules, s, side, key, T, first, block) ==
    /\ s.side = side /\ first \in T /\ \A e \in T : Gathered(rules, side, key, e)
    /\ s.replaces = {e.n : e \in T} /\ s.n = Min(s.replaces)
    /\ s.rule = WithSide(Written(first.rule), side, WrittenNet(block))
    /\ block[1] \in Int /\ block[2] \in Int
    /\ \A e \in T : block[1] <= e.net[1] /\ e.net[2] <= block[2]
    /\ s.extra = {a \in block[1]..block[2] : \A e \in T : ~Within(<<a, a>>, e.net)}

FormedRules(rules) ==
    /\ DOMAIN rules \subseteq Nat \ {0} /\ IsFiniteSet(DOMAIN rules)
    /\ \A n \in DOMAIN rules : Formed(rules[n])

\* An entry is the network of a rule, its number and the rule.
LEMMA EntryIs ==
  ASSUME NEW rules, FormedRules(rules), NEW side, NEW n \in DOMAIN rules
  PROVE  /\ Entry(rules, n, side).net[1] = SideOf(rules[n], side).lo
         /\ Entry(rules, n, side).net[2] = SideOf(rules[n], side).hi
         /\ Entry(rules, n, side).net[1] \in Int /\ Entry(rules, n, side).net[2] \in Int
         /\ Entry(rules, n, side).n = n /\ Entry(rules, n, side).rule = rules[n]
<1>1. SideOf(rules[n], side) \in Operand
  BY DEF FormedRules, Formed, AnyLine, SideOf
<1>2. SideOf(rules[n], side).lo \in Int /\ SideOf(rules[n], side).hi \in Int
  BY <1>1 DEF Operand
<1> QED BY <1>2 DEF Entry

\* The entries of a group are of rules that may be widened to its key.
LEMMA GroupIs ==
  ASSUME NEW rules, FormedRules(rules), NEW side, NEW key
  PROVE  \E n, E :
           /\ n \in Nat /\ GroupEntries(rules, side, key) \in [1..n -> E]
           /\ \A e \in E : Gathered(rules, side, key, e)
<1> DEFINE W == Widened(rules, side, key)
           all == {Entry(rules, n, side) : n \in W}
           E == Outer(all)
<1>1. W \subseteq DOMAIN rules
  BY DEF Widened
<1>2. IsFiniteSet(W)
  BY <1>1, FS_Subset DEF FormedRules
<1>3. IsFiniteSet(all)
  <2> DEFINE f == [n \in W |-> Entry(rules, n, side)]
  <2>1. all = {f[n] : n \in DOMAIN f} /\ DOMAIN f = W
    OBVIOUS
  <2> HIDE DEF all, f, W
  <2> QED BY <1>2, <2>1, FiniteRange
<1>4. E \subseteq all
  BY DEF Outer
<1>5. \A e \in all : \E n \in W : e = Entry(rules, n, side)
  OBVIOUS
<1> HIDE DEF W, all, E
<1>6. Comparable(E)
  <2>1. IsFiniteSet(E)
    BY <1>3, <1>4, FS_Subset
  <2>2. ASSUME NEW e \in E
        PROVE  e.net[1] \in Int /\ e.n \in Int
    <3>1. PICK n \in W : e = Entry(rules, n, side)
      BY <1>4, <1>5
    <3>2. n \in DOMAIN rules /\ n \in Int
      BY <1>1 DEF FormedRules
    <3> QED BY <3>1, <3>2, EntryIs
  <2>3. ASSUME NEW e \in E, NEW o \in E, e.n = o.n
        PROVE  e = o
    <3>1. PICK n \in W : e = Entry(rules, n, side)
      BY <1>4, <1>5
    <3>2. PICK m \in W : o = Entry(rules, m, side)
      BY <1>4, <1>5
    <3>3. e.n = n /\ o.n = m
      BY <1>1, <3>1, <3>2, EntryIs
    <3> QED BY <2>3, <3>1, <3>2, <3>3
  <2> QED BY <2>1, <2>2, <2>3 DEF Comparable
<1>7. GroupEntries(rules, side, key) = Ordered(E)
  BY DEF GroupEntries, E, all, W
<1>8. Ordered(E) \in [1..Cardinality(E) -> E] /\ Cardinality(E) \in Nat
  BY <1>6, OrderedIs, FS_CardinalityType DEF Comparable
<1>9. \A e \in E : Gathered(rules, side, key, e)
  BY <1>4, <1>5 DEF Gathered, W
<1> QED BY <1>7, <1>8, <1>9

\* Every suggestion is a summary of some of the rules of one group.
LEMMA SuggestionIs ==
  ASSUME NEW rules, FormedRules(rules), NEW s \in SuggestSummaries(rules)
  PROVE  \E side, key, T, first, block :
           Summarizes(rules, s, side, key, T, first, block)
<1>1. PICK side \in {"src", "dst"} : s \in SuggestWidening(rules, side)
  BY DEF SuggestSummaries
<1>2. PICK key : s \in OfGroup(GroupEntries(rules, side, key), side)
  BY <1>1 DEF SuggestWidening
<1> DEFINE entries == GroupEntries(rules, side, key)
<1>3. PICK n, E : /\ n \in Nat /\ entries \in [1..n -> E]
                  /\ \A e \in E : Gathered(rules, side, key, e)
  BY GroupIs
<1> HIDE DEF entries
<1>4. PICK c \in Clusters(Nets(entries)) :
        \E block \in BestSummary(Nets(SubSeq(entries, c[1], c[2]))) :
          s = Suggestion(SubSeq(entries, c[1], c[2]), block, side)
  BY <1>2 DEF OfGroup, entries
<1> DEFINE cluster == SubSeq(entries, c[1], c[2])
<1>5. PICK block \in BestSummary(Nets(cluster)) : s = Suggestion(cluster, block, side)
  BY <1>4
<1>6. DOMAIN Nets(entries) = 1..n /\ Len(Nets(entries)) = n
  <2> DEFINE S == {entries[i].net : i \in 1..n}
  <2>1. Nets(entries) \in [1..n -> S]
    BY <1>3 DEF Nets
  <2> HIDE DEF S
  <2>2. n \in Nat
    BY <1>3
  <2> QED BY <2>1, <2>2, ListedIs
<1>7. c[1] \in 1..n /\ c[2] \in 1..n /\ c[1] < c[2]
  BY <1>6, ClusterIs
<1> DEFINE m == c[2] - c[1] + 1
<1>8. cluster \in Seq(E) /\ Len(cluster) = m /\ m \in Nat \ {0}
  <2>1. \A i \in c[1]..c[2] : entries[i] \in E
    BY <1>3, <1>7
  <2>2. c[1] \in Int /\ c[2] \in Int /\ c[1] <= c[2]
    BY <1>7
  <2> QED BY <2>1, <2>2, SubSeqProperties
<1> HIDE DEF cluster, m
<1>9. DOMAIN cluster = 1..m /\ \A i \in 1..m : cluster[i] \in E
  BY <1>8, LenProperties, ElementOfSeq
<1> DEFINE T == {cluster[i] : i \in 1..m}
<1>10. ToSet(cluster) = T
  BY <1>9 DEF ToSet
<1>11. DOMAIN Nets(cluster) = 1..m /\ \A i \in 1..m : Nets(cluster)[i] = cluster[i].net
  BY <1>9 DEF Nets
<1>12. ASSUME NEW e \in E
       PROVE  e.net[1] \in Int /\ e.net[2] \in Int
  <2>1. PICK k \in Widened(rules, side, key) : e = Entry(rules, k, side)
    BY <1>3 DEF Gathered
  <2>2. k \in DOMAIN rules
    BY DEF Widened
  <2> QED BY <2>1, <2>2, EntryIs
<1>13. \A i \in 1..m : Nets(cluster)[i][1] \in Int /\ Nets(cluster)[i][2] \in Int
  BY <1>9, <1>11, <1>12
<1>14. /\ block[1] \in Int /\ block[2] \in Int
       /\ \A i \in 1..m : block[1] <= cluster[i].net[1] /\ cluster[i].net[2] <= block[2]
  <2> DEFINE nets == Nets(cluster)
  <2>1. /\ DOMAIN nets = 1..m /\ block \in BestSummary(nets)
        /\ \A i \in 1..m : nets[i][1] \in Int /\ nets[i][2] \in Int
    BY <1>11, <1>13
  <2> HIDE DEF nets
  <2>2. /\ block[1] \in Int /\ block[2] \in Int
        /\ \A i \in 1..m : block[1] <= nets[i][1] /\ nets[i][2] <= block[2]
    BY <1>8, <2>1, SummaryHolds
  <2>3. \A i \in 1..m : nets[i] = cluster[i].net
    BY <1>11 DEF nets
  <2> QED BY <2>2, <2>3
<1>15. cluster[1] \in T /\ \A e \in T : e \in E
  BY <1>8, <1>9
<1>16. \A e \in T : block[1] <= e.net[1] /\ e.net[2] <= block[2]
  BY <1>14
<1>17. /\ s.side = side
       /\ s.replaces = {e.n : e \in ToSet(cluster)}
       /\ s.n = Min({e.n : e \in ToSet(cluster)})
       /\ s.rule = WithSide(Written(cluster[1].rule), side, WrittenNet(block))
       /\ s.extra = {a \in block[1]..block[2] :
                        \A e \in ToSet(cluster) : ~Within(<<a, a>>, e.net)}
  BY <1>5 DEF Suggestion
<1> HIDE DEF T
<1>18. Summarizes(rules, s, side, key, T, cluster[1], block)
  BY <1>3, <1>10, <1>14, <1>15, <1>16, <1>17 DEF Summarizes
<1> QED BY <1>18

\* A network is written back as a host or a network, and holds its addresses.
LEMMA WrittenNetIs ==
  ASSUME NEW span
  PROVE  /\ WrittenNet(span).group = ""
         /\ WrittenNet(span).lo = span[1] /\ WrittenNet(span).hi = span[2]
         /\ span[1] = span[2] => WrittenNet(span).form = "host"
         /\ span[1] # span[2] => WrittenNet(span).form = "net"
<1> DEFINE lo == span[1]
           hi == span[2]
           a == WrittenNet(span)
<1>1. a = IF lo = hi THEN Host(lo) ELSE Net(lo, hi)
  BY DEF WrittenNet
<1> HIDE DEF lo, hi, a
<1>2. lo = hi => a.group = "" /\ a.lo = lo /\ a.hi = hi /\ a.form = "host"
  BY <1>1 DEF Host
<1>3. lo # hi => a.group = "" /\ a.lo = lo /\ a.hi = hi /\ a.form = "net"
  BY <1>1 DEF Net
<1> QED BY <1>2, <1>3 DEF lo, hi, a

LEMMA NetFormed ==
  ASSUME NEW span, span[1] \in Int, span[2] \in Int
  PROVE  /\ WrittenNet(span) \in Operand /\ FormedAddress(WrittenNet(span))
         /\ \A x : AddressHolds(WrittenNet(span), x) <=> span[1] <= x /\ x <= span[2]
<1> DEFINE forms == {"any", "host", "net", "cidr", "odd", "group"}
           host == "host"
           range == "net"
           none == ""
<1>1. host \in forms /\ range \in forms
  OBVIOUS
<1>2. none \in Words
  BY NamedWords
<1>3. Operand = [form : forms, lo : Int, hi : Int, group : Words]
  BY DEF Operand
<1>4. CASE span[1] = span[2]
  <2>1. WrittenNet(span) = [form |-> host, lo |-> span[1], hi |-> span[1], group |-> none]
    BY <1>4 DEF WrittenNet, Host
  <2>2. WrittenNet(span) \in Operand
    <3> HIDE DEF forms, host, none
    <3> QED BY <1>1, <1>2, <1>3, <2>1
  <2>3. /\ WrittenNet(span).form = "host" /\ WrittenNet(span).group = ""
        /\ WrittenNet(span).lo = span[1] /\ WrittenNet(span).hi = span[2]
    BY <1>4, WrittenNetIs
  <2>4. FormedAddress(WrittenNet(span))
    BY <2>3 DEF FormedAddress
  <2>5. \A x : AddressHolds(WrittenNet(span), x) <=> span[1] <= x /\ x <= span[2]
    BY <2>3 DEF AddressHolds
  <2> QED BY <2>2, <2>4, <2>5
<1>5. CASE span[1] # span[2]
  <2>1. WrittenNet(span) = [form |-> range, lo |-> span[1], hi |-> span[2], group |-> none]
    BY <1>5 DEF WrittenNet, Net
  <2>2. WrittenNet(span) \in Operand
    <3> HIDE DEF forms, range, none
    <3> QED BY <1>1, <1>2, <1>3, <2>1
  <2>3. /\ WrittenNet(span).form = "net" /\ WrittenNet(span).group = ""
        /\ WrittenNet(span).lo = span[1] /\ WrittenNet(span).hi = span[2]
    BY <1>5, WrittenNetIs
  <2>4. FormedAddress(WrittenNet(span))
    BY <2>3 DEF FormedAddress
  <2>5. \A x : AddressHolds(WrittenNet(span), x) <=> span[1] <= x /\ x <= span[2]
    BY <2>3 DEF AddressHolds
  <2> QED BY <2>2, <2>4, <2>5
<1> QED BY <1>4, <1>5

\* A rule with another operand is of the form of a rule, and so is a summary.
LEMMA WithSideFormed ==
  ASSUME NEW rule, Formed(rule), NEW side, NEW a \in Operand, FormedAddress(a)
  PROVE  Formed(WithSide(rule, side, a))
<1>1. rule \in AnyLine
  BY DEF Formed
<1>2. CASE side = "src"
  <2> DEFINE r == [rule EXCEPT !.src = a]
  <2>1. /\ r \in AnyLine /\ r.src = a /\ r.dst = rule.dst
        /\ r.sport = rule.sport /\ r.dport = rule.dport
        /\ r.proto = rule.proto /\ r.service = rule.service /\ r.icmp = rule.icmp
    BY <1>1 DEF AnyLine
  <2> HIDE DEF r
  <2>2. Formed(r)
    BY <2>1 DEF Formed
  <2> QED BY <1>2, <2>2 DEF WithSide, r
<1>3. CASE side # "src"
  <2> DEFINE r == [rule EXCEPT !.dst = a]
  <2>1. /\ r \in AnyLine /\ r.dst = a /\ r.src = rule.src
        /\ r.sport = rule.sport /\ r.dport = rule.dport
        /\ r.proto = rule.proto /\ r.service = rule.service /\ r.icmp = rule.icmp
    BY <1>1 DEF AnyLine
  <2> HIDE DEF r
  <2>2. Formed(r)
    BY <2>1 DEF Formed
  <2> QED BY <1>3, <2>2 DEF WithSide, r
<1> QED BY <1>2, <1>3

LEMMA SuggestionFormed ==
  ASSUME NEW rules, FormedRules(rules), NEW s, NEW side, NEW key, NEW T, NEW first, NEW block,
         Summarizes(rules, s, side, key, T, first, block)
  PROVE  /\ Formed(s.rule) /\ s.n \in Nat \ {0}
         /\ s.replaces \subseteq DOMAIN rules /\ s.n \in s.replaces
<1>1. ASSUME NEW e \in T
      PROVE  e.n \in DOMAIN rules /\ Formed(e.rule)
  <2>1. PICK k \in Widened(rules, side, key) : e = Entry(rules, k, side)
    BY DEF Summarizes, Gathered
  <2>2. k \in DOMAIN rules
    BY DEF Widened
  <2>3. e.n = k /\ e.rule = rules[k]
    BY <2>1, <2>2, EntryIs
  <2> QED BY <2>2, <2>3 DEF FormedRules
<1>2. first \in T /\ s.replaces = {e.n : e \in T} /\ s.n = Min(s.replaces)
      /\ s.rule = WithSide(Written(first.rule), side, WrittenNet(block))
      /\ block[1] \in Int /\ block[2] \in Int
  BY DEF Summarizes
<1>3. s.replaces \subseteq DOMAIN rules /\ s.replaces # {}
  BY <1>1, <1>2
<1>4. s.n \in s.replaces
  <2>1. s.replaces \subseteq Nat
    BY <1>3 DEF FormedRules
  <2> QED BY <1>2, <1>3, <2>1, MinOfNat
<1>5. s.n \in Nat \ {0}
  BY <1>3, <1>4 DEF FormedRules
<1>6. Formed(Written(first.rule))
  BY <1>1, <1>2, WrittenRule
<1>7. Formed(s.rule)
  BY <1>2, <1>6, NetFormed, WithSideFormed
<1> QED BY <1>3, <1>4, <1>5, <1>7

\* The rules of a list of lines are of the form of lines.
LEMMA UnderstoodFormed ==
  ASSUME NEW list, Numbered(list), FormedList(list), NEW known
  PROVE  /\ FormedRules(Understood(list, known))
         /\ \A n \in DOMAIN Understood(list, known) :
              /\ n \in DOMAIN list /\ Parses(list[n], nexus, known, "extended")
              /\ Understood(list, known)[n] = Rule(list[n])
<1> DEFINE D == {m \in DOMAIN list : Parses(list[m], nexus, known, "extended")}
           rules == Understood(list, known)
<1>1. D \subseteq DOMAIN list /\ \A n \in D : Parses(list[n], nexus, known, "extended")
  OBVIOUS
<1>2. rules = [n \in D |-> Rule(list[n])]
  BY DEF Understood
<1> HIDE DEF D, rules
<1>3. DOMAIN rules = D /\ \A n \in D : rules[n] = Rule(list[n])
  BY <1>2
<1>4. D \subseteq Nat \ {0} /\ IsFiniteSet(D)
  BY <1>1, FS_Subset DEF Numbered
<1>5. \A n \in D : Formed(rules[n])
  BY <1>1, <1>3, RuleFormed DEF FormedList
<1> QED BY <1>1, <1>3, <1>4, <1>5 DEF FormedRules, rules

-----------------------------------------------------------------------------
(* The number a line gets *)

\* Whatever is free, the number chosen is of it, 0 for none.
LEMMA PreferredIs ==
  ASSUME NEW free, free \subseteq Nat, NEW blocking
  PROVE  Preferred(free, blocking) \in {0} \cup free
<1> DEFINE tens == {n \in free : n % 10 = 0}
<1>1. CASE tens # {}
  <2>1. Preferred(free, blocking) = Min(tens)
    BY <1>1 DEF Preferred
  <2>2. tens \subseteq Nat /\ tens \subseteq free
    OBVIOUS
  <2> HIDE DEF tens
  <2>3. Min(tens) \in tens
    BY <1>1, <2>2, MinOfNat
  <2> QED BY <2>1, <2>2, <2>3
<1>2. CASE tens = {} /\ blocking # 0 /\ free # {}
  <2>1. Preferred(free, blocking) = Min(free)
    BY <1>2 DEF Preferred
  <2>2. Min(free) \in free
    BY <1>2, MinOfNat
  <2> QED BY <2>1, <2>2
<1>3. CASE ~(tens # {}) /\ ~(tens = {} /\ blocking # 0 /\ free # {})
  <2>1. Preferred(free, blocking) = 0
    BY <1>3 DEF Preferred
  <2> QED BY <2>1
<1> QED BY <1>1, <1>2, <1>3

LEMMA SelectedIs ==
  ASSUME NEW free, free \subseteq Nat, NEW blocking, NEW requested
  PROVE  Selected(free, blocking, requested) \in {0} \cup free
BY PreferredIs DEF Selected

\* A place is a free number, or none, and one for the remark that no rule has.
PlaceFree(place, rules, free) ==
    /\ place.n \in {0} \cup free /\ place.remark \in Nat
    /\ place.n # 0 => place.remark \notin rules /\ place.remark # place.n

\* So are those of a rule and its remark.
LEMMA PairFree ==
  ASSUME NEW rules, rules \subseteq Nat \ {0}, NEW free, free \subseteq Nat \ {0},
         NEW n \in {0} \cup free, NEW r \in Nat, n # 0 => r \notin rules /\ r # n
  PROVE  PlaceFree(Pair(n, r), rules, free)
<1>1. Pair(n, r).n = n /\ Pair(n, r).remark = IF n = 0 THEN 0 ELSE r
  BY DEF Pair
<1> QED BY <1>1 DEF PlaceFree

\* At a remark of its own number, and where there is room in front, no rule is hit.
LEMMA AtRemarkFree ==
  ASSUME NEW rules, rules \subseteq Nat \ {0}, NEW free, free \subseteq Nat \ {0},
         NEW blocking, NEW first \in free, NEW remark \in Nat, remark \notin rules
  PROVE  PlaceFree(AtRemark(free, blocking, first, remark), rules, free)
<1> DEFINE behind == {n \in free : n > remark}
           n == Preferred(behind, blocking)
<1>1. behind \subseteq Nat /\ \A m \in behind : m \in free /\ m # remark
  <2>1. \A m \in free : m \in Nat /\ (m > remark => m # remark)
    OBVIOUS
  <2> QED BY <2>1
<1> HIDE DEF behind
<1>2. n = 0 \/ (n \in free /\ n # remark)
  BY <1>1, PreferredIs
<1> HIDE DEF n
<1>3. CASE remark + 1 \in free
  <2>1. PlaceFree(Pair(remark + 1, remark), rules, free)
    <3>1. remark + 1 # remark
      OBVIOUS
    <3> QED BY <1>3, <3>1, PairFree
  <2> QED BY <1>3, <2>1 DEF AtRemark
<1>4. CASE remark + 1 \notin free /\ remark < first
  <2>1. first \in Nat /\ remark # first
    BY <1>4
  <2>2. PlaceFree(Pair(first, remark), rules, free)
    BY <2>1, PairFree
  <2> QED BY <1>4, <2>2 DEF AtRemark
<1>5. CASE remark + 1 \notin free /\ ~(remark < first)
  <2>1. PlaceFree(Pair(n, remark), rules, free)
    BY <1>2, PairFree
  <2> QED BY <1>5, <2>1 DEF AtRemark, behind, n
<1> QED BY <1>3, <1>4, <1>5

LEMMA BeforeItFree ==
  ASSUME NEW rules, rules \subseteq Nat \ {0}, NEW free, free \subseteq Nat \ {0},
         NEW used, rules \subseteq used, NEW n \in free, HasSlot(used, n)
  PROVE  PlaceFree(BeforeIt(n), rules, free)
<1>1. n - 1 \in Nat /\ n - 1 \notin rules /\ n - 1 # n
  BY DEF HasSlot
<1> QED BY <1>1, PairFree DEF BeforeIt

LEMMA FindSlotFree ==
  ASSUME NEW rules, rules \subseteq Nat \ {0}, NEW free, free \subseteq Nat \ {0},
         NEW used, rules \subseteq used, NEW blocking, NEW first \in free
  PROVE  PlaceFree(FindSlot(used, free, blocking, first), rules, free)
<1> DEFINE slots == {m \in free : HasSlot(used, m)}
           n == Preferred(slots, blocking)
<1>1. slots \subseteq Nat /\ \A m \in slots : m \in free /\ HasSlot(used, m)
  OBVIOUS
<1> HIDE DEF slots
<1>2. n = 0 \/ (n \in free /\ HasSlot(used, n))
  BY <1>1, PreferredIs
<1>3. FindSlot(used, free, blocking, first) = IF n # 0 THEN BeforeIt(n) ELSE Pair(first, 0)
  BY DEF FindSlot, slots
<1> HIDE DEF n
<1>4. n # 0 => PlaceFree(BeforeIt(n), rules, free)
  BY <1>2, BeforeItFree
<1>5. PlaceFree(Pair(first, 0), rules, free)
  BY PairFree
<1> QED BY <1>3, <1>4, <1>5

\* So is the place of a rule and its remark, however the remark is numbered.
LEMMA RemarkPlaceFree ==
  ASSUME NEW rules, rules \subseteq Nat \ {0}, NEW free, free \subseteq Nat \ {0},
         NEW used, rules \subseteq used, NEW blocking,
         NEW first \in {0} \cup free, NEW requested, NEW remark \in Nat
  PROVE  PlaceFree(RemarkPlace(rules, used, free, blocking, first, requested, remark), rules, free)
<1> DEFINE place == RemarkPlace(rules, used, free, blocking, first, requested, remark)
<1>1. PlaceFree(Pair(0, 0), rules, free) /\ PlaceFree(Pair(0, remark), rules, free)
  BY PairFree
<1>2. CASE first = 0
  <2>1. place = Pair(0, 0)
    BY <1>2 DEF RemarkPlace
  <2> QED BY <1>1, <2>1
<1>3. CASE first # 0 /\ remark # 0
  <2>1. place = IF remark \in rules THEN Pair(0, 0)
                ELSE IF requested = 0 THEN AtRemark(free, blocking, first, remark)
                ELSE Pair(IF remark < first THEN first ELSE 0, remark)
    BY <1>3 DEF RemarkPlace
  <2>2. remark \notin rules => PlaceFree(AtRemark(free, blocking, first, remark), rules, free)
    BY <1>3, AtRemarkFree
  <2>3. remark \notin rules /\ remark < first => PlaceFree(Pair(first, remark), rules, free)
    <3>1. first \in free /\ (remark < first => remark # first)
      BY <1>3
    <3> QED BY <3>1, PairFree
  <2> HIDE DEF place
  <2> QED BY <1>1, <2>1, <2>2, <2>3 DEF place
<1>4. CASE first # 0 /\ remark = 0
  <2>1. place = IF HasSlot(used, first) THEN BeforeIt(first)
                ELSE IF requested # 0 THEN Pair(first, 0)
                ELSE FindSlot(used, free, blocking, first)
    BY <1>4 DEF RemarkPlace
  <2>2. HasSlot(used, first) => PlaceFree(BeforeIt(first), rules, free)
    BY <1>4, BeforeItFree
  <2>3. PlaceFree(Pair(first, 0), rules, free)
    BY <1>4, PairFree
  <2>4. PlaceFree(FindSlot(used, free, blocking, first), rules, free)
    BY <1>4, FindSlotFree
  <2> HIDE DEF place
  <2> QED BY <2>1, <2>2, <2>3, <2>4 DEF place
<1> QED BY <1>2, <1>3, <1>4

\* The place of a request: free, and in front of the rule that blocks it.
LEMMA PlaceIs ==
  ASSUME Numbered(acl), NEW req, req.remark \in Nat, NEW blocking
  PROVE  PlaceFree(Place(req, blocking), RuleNumbers(acl), Below(blocking) \ RuleNumbers(acl))
<1> DEFINE rules == RuleNumbers(acl)
           used == IF req.remarked THEN DOMAIN acl ELSE rules
           free == Below(blocking) \ used
           n == Selected(free, blocking, req.number)
<1>1. rules \subseteq Nat \ {0} /\ rules \subseteq used
  BY DEF Numbered, RuleNumbers
<1>2. free \subseteq Nat \ {0} /\ free \subseteq Below(blocking) \ rules
  BY <1>1 DEF Below
<1> HIDE DEF free
<1>3. n \in {0} \cup free
  BY <1>2, SelectedIs
<1>4. PlaceFree(Place(req, blocking), rules, free)
  <2>1. CASE req.remarked
    <3>1. Place(req, blocking) = RemarkPlace(rules, used, free, blocking, n,
                                             req.number, req.remark)
      BY <2>1 DEF Place, WithRemark, free
    <3> HIDE DEF n, rules, used
    <3>2. PlaceFree(RemarkPlace(rules, used, free, blocking, n, req.number, req.remark), rules, free)
      BY <1>1, <1>2, <1>3, RemarkPlaceFree
    <3> QED BY <3>1, <3>2
  <2>2. CASE ~req.remarked
    <3>1. Place(req, blocking) = [n |-> n, remark |-> 0]
      BY <2>2 DEF Place, SelectNumber, free
    <3> HIDE DEF n, rules, used
    <3> QED BY <1>1, <1>2, <1>3, <3>1 DEF PlaceFree
  <2> QED BY <2>1, <2>2
<1> QED BY <1>2, <1>4 DEF PlaceFree

PlaceFormed(place) == place.n \in Nat /\ place.remark \in Nat

-----------------------------------------------------------------------------
(* Lines sent one after the other *)

Done(chosen, k) == {m \in chosen : m <= k}

Following(plan, chosen, list, f, n) ==
    SendReversed(plan, n, IF Earlier(chosen, n) = {} THEN list
                          ELSE f[Max(Earlier(chosen, n))])

Stages(plan, chosen, list) ==
    CHOOSE f : f = [n \in chosen |->
        SendReversed(plan, n, IF Earlier(chosen, n) = {} THEN list
                              ELSE f[Max(Earlier(chosen, n))])]

\* The last of the chosen rules before this one.
LEMMA EarlierIs ==
  ASSUME NEW chosen, chosen \subseteq Nat, IsFiniteSet(chosen), NEW n \in chosen,
         Earlier(chosen, n) # {}
  PROVE  /\ Max(Earlier(chosen, n)) \in chosen /\ Max(Earlier(chosen, n)) < n
         /\ Done(chosen, Max(Earlier(chosen, n))) = Earlier(chosen, n)
<1> DEFINE E == Earlier(chosen, n)
<1>1. E \subseteq chosen /\ \A m \in E : m < n
  BY DEF Earlier
<1>2. \A m \in chosen : m < n => m \in E
  BY DEF Earlier
<1> HIDE DEF E
<1>3. IsFiniteSet(E)
  BY <1>1, FS_Subset
<1>31. E \subseteq Nat
  BY <1>1
<1>32. E \subseteq Int
  BY <1>31
<1>4. Max(E) \in E /\ \A x \in E : x <= Max(E)
  BY <1>3, <1>32, MaxIs DEF E
<1>5. Max(E) \in chosen /\ Max(E) < n
  BY <1>1, <1>4
<1>6. \A m \in chosen : m <= Max(E) <=> m \in E
  <2> SUFFICES ASSUME NEW m \in chosen PROVE m <= Max(E) <=> m \in E
    OBVIOUS
  <2>1. m \in Nat /\ Max(E) \in Nat /\ n \in Nat
    BY <1>5
  <2>2. m <= Max(E) => m < n
    BY <1>5, <2>1
  <2> QED BY <1>2, <1>4, <2>2
<1>7. Done(chosen, Max(E)) = E
  BY <1>1, <1>6 DEF Done
<1> QED BY <1>5, <1>7 DEF E

Staged(plan, chosen, list, k) ==
    \E g : g = [n \in Done(chosen, k) |-> Following(plan, chosen, list, g, n)]

\* The recursive function of SendAll exists.
LEMMA StagesExist ==
  ASSUME NEW plan, NEW chosen, chosen \subseteq Nat, IsFiniteSet(chosen), NEW list,
         NEW top \in Nat
  PROVE  \A k \in 0..top : Staged(plan, chosen, list, k)
<1> DEFINE to(g, n) == Following(plan, chosen, list, g, n)
           P(k) == \E g : g = [n \in Done(chosen, k) |-> to(g, n)]
           S == {k \in 0..top : P(k)}
<1>1. \A k : \A n \in Done(chosen, k) : n \in chosen /\ n \in Nat /\ n <= k
  BY DEF Done
<1>2. P(0)
  <2> DEFINE g == [n \in Done(chosen, 0) |-> SendReversed(plan, n, list)]
  <2>1. ASSUME NEW n \in Done(chosen, 0)
        PROVE  to(g, n) = SendReversed(plan, n, list)
    <3>1. n = 0
      BY <1>1
    <3>2. \A m \in chosen : ~(m < n)
      BY <3>1
    <3>3. Earlier(chosen, n) = {}
      BY <3>2 DEF Earlier
    <3> HIDE DEF g
    <3> QED BY <3>3 DEF Following
  <2>2. g = [n \in Done(chosen, 0) |-> to(g, n)]
    <3>1. g = [n \in Done(chosen, 0) |-> SendReversed(plan, n, list)]
      OBVIOUS
    <3> HIDE DEF g, to
    <3> QED BY <2>1, <3>1
  <2> QED BY <2>2
<1>3. ASSUME NEW k \in 0..top, P(k) PROVE P(k + 1)
  <2>1. PICK g : g = [n \in Done(chosen, k) |-> to(g, n)]
    BY <1>3
  <2> DEFINE h == [n \in Done(chosen, k + 1) |-> IF n = k + 1 THEN to(g, n) ELSE g[n]]
  <2>2. k \in Nat /\ \A n \in Done(chosen, k + 1) : n # k + 1 => n \in Done(chosen, k)
    BY DEF Done
  <2>3. \A n \in Done(chosen, k + 1) : h[n] = to(g, n)
    <3> HIDE DEF to
    <3> QED BY <2>1, <2>2
  <2>4. ASSUME NEW n \in Done(chosen, k + 1)
        PROVE  to(h, n) = to(g, n)
    <3>1. CASE Earlier(chosen, n) = {}
      <4> HIDE DEF h
      <4> QED BY <3>1 DEF Following
    <3>2. CASE Earlier(chosen, n) # {}
      <4> DEFINE m == Max(Earlier(chosen, n))
      <4>1. m \in chosen /\ m < n /\ n \in Nat /\ n <= k + 1
        BY <1>1, <3>2, EarlierIs
      <4> HIDE DEF m
      <4>11. m \in Nat
        BY <4>1
      <4>2. m \in Nat /\ m <= k /\ m # k + 1 /\ m <= k + 1
        BY <2>2, <4>1, <4>11
      <4>3. m \in Done(chosen, k + 1)
        BY <4>1, <4>2 DEF Done
      <4>4. h[m] = g[m]
        BY <4>2, <4>3
      <4> HIDE DEF h
      <4> QED BY <3>2, <4>4 DEF Following, m
    <3> QED BY <3>1, <3>2
  <2>5. h = [n \in Done(chosen, k + 1) |-> h[n]]
    OBVIOUS
  <2>6. h = [n \in Done(chosen, k + 1) |-> to(h, n)]
    <3> HIDE DEF h, to
    <3> QED BY <2>3, <2>4, <2>5
  <2> QED BY <2>6
<1> HIDE DEF P
<1>4. 0 \in S
  BY <1>2
<1>5. \A k \in 0..top : k \in S /\ k # top => k + 1 \in S
  BY <1>3
<1> HIDE DEF S
<1>6. \A k \in 0..top : k \in S
  BY <1>4, <1>5, UpFromZero
<1> QED BY <1>6 DEF S, P, Staged

\* It gives the list after each of the chosen rules was sent.
LEMMA StagesAre ==
  ASSUME NEW plan, NEW chosen, chosen \subseteq Nat, IsFiniteSet(chosen), chosen # {}, NEW list
  PROVE  /\ Max(chosen) \in chosen /\ Done(chosen, Max(chosen)) = chosen
         /\ SendAll(plan, chosen, list) = Stages(plan, chosen, list)[Max(chosen)]
         /\ \A n \in chosen : Stages(plan, chosen, list)[n]
              = Following(plan, chosen, list, Stages(plan, chosen, list), n)
<1>1. chosen \subseteq Int
  OBVIOUS
<1>2. Max(chosen) \in chosen /\ \A x \in chosen : x <= Max(chosen)
  BY <1>1, MaxIs
<1>3. Done(chosen, Max(chosen)) = chosen
  BY <1>2 DEF Done
<1>4. SendAll(plan, chosen, list) = Stages(plan, chosen, list)[Max(chosen)]
  BY DEF SendAll, Stages
<1> DEFINE top == Max(chosen)
<1> HIDE DEF top
<1>51. top \in Nat
  BY <1>2 DEF top
<1>52. top \in 0..top
  BY <1>51
<1>53. \A k \in 0..top : Staged(plan, chosen, list, k)
  BY <1>51, StagesExist
<1>6. PICK g : g = [n \in Done(chosen, Max(chosen)) |-> Following(plan, chosen, list, g, n)]
  BY <1>52, <1>53 DEF top, Staged
<1>7. g = [n \in chosen |-> Following(plan, chosen, list, g, n)]
  BY <1>3, <1>6
<1>8. g = [n \in chosen |->
             SendReversed(plan, n, IF Earlier(chosen, n) = {} THEN list
                                   ELSE g[Max(Earlier(chosen, n))])]
  BY <1>7 DEF Following
<1> DEFINE f == Stages(plan, chosen, list)
<1>9. f = [n \in chosen |->
             SendReversed(plan, n, IF Earlier(chosen, n) = {} THEN list
                                   ELSE f[Max(Earlier(chosen, n))])]
  BY <1>8 DEF Stages
<1>10. \A n \in chosen : f[n] = Following(plan, chosen, list, f, n)
  <2> HIDE DEF f
  <2> QED BY <1>9 DEF Following
<1> QED BY <1>2, <1>3, <1>4, <1>10

\* The rules D of a list stand behind the others, in their order, as planned.
Places(plan, list, D, l, h) ==
    /\ DOMAIN l = (DOMAIN list \ D) \cup {h[m] : m \in D}
    /\ \A k \in DOMAIN list \ D : l[k] = list[k]
    /\ \A m \in D : h[m] \in Nat /\ l[h[m]] = plan[m] /\ \A k \in DOMAIN list \ D : k < h[m]
    /\ \A m, o \in D : m < o => h[m] < h[o]

Swapped(plan, list, D, l) ==
    /\ Numbered(l) /\ FormedList(l)
    /\ \E h : Places(plan, list, D, l, h)

\* Before the first is sent nothing has changed.
LEMMA NoneSwapped ==
  ASSUME NEW plan, NEW list, Numbered(list), FormedList(list)
  PROVE  Swapped(plan, list, {}, list)
<1>1. \A h : Places(plan, list, {}, list, h)
  BY DEF Places
<1> QED BY <1>1 DEF Swapped

\* Sending one more puts it behind those that were sent before.
LEMMA OneSwapped ==
  ASSUME NEW plan, NEW list, Numbered(list), NEW D, D \subseteq DOMAIN list, NEW l,
         Swapped(plan, list, D, l),
         NEW n \in DOMAIN list, Formed(plan[n]), \A m \in D : m < n
  PROVE  Swapped(plan, list, D \cup {n}, SendReversed(plan, n, l))
<1>1. PICK h : Places(plan, list, D, l, h)
  BY DEF Swapped
<1>2. /\ DOMAIN l = (DOMAIN list \ D) \cup {h[m] : m \in D}
      /\ \A k \in DOMAIN list \ D : l[k] = list[k]
      /\ \A m \in D : h[m] \in Nat /\ l[h[m]] = plan[m] /\ \A k \in DOMAIN list \ D : k < h[m]
      /\ \A m, o \in D : m < o => h[m] < h[o]
  BY <1>1 DEF Places
<1>3. DOMAIN list \subseteq Nat /\ n \in Nat /\ n \notin D
  BY DEF Numbered
<1> DEFINE rest == Without(l, {n})
           b == Behind(rest)
           sent == SendReversed(plan, n, l)
           Rest == DOMAIN list \ (D \cup {n})
           h2 == [m \in D \cup {n} |-> IF m = n THEN b ELSE h[m]]
<1>4. /\ DOMAIN rest = DOMAIN l \ {n} /\ \A k \in DOMAIN l \ {n} : rest[k] = l[k]
      /\ Numbered(rest) /\ FormedList(rest)
  BY WithoutIs, WithoutKept DEF Swapped
<1>5. sent = Appended(rest, plan[n])
  BY DEF SendReversed
<1> HIDE DEF rest
<1>6. /\ sent = With(rest, b, plan[n]) /\ b \in Nat \ {0}
      /\ \A k \in DOMAIN rest : k < b
  BY <1>4, <1>5, AppendedIs
<1> HIDE DEF sent, b
<1>7. Numbered(sent) /\ FormedList(sent)
  BY <1>4, <1>6, WithKept
<1>8. /\ DOMAIN sent = DOMAIN rest \cup {b} /\ sent[b] = plan[n]
      /\ \A k \in DOMAIN rest : k # b => sent[k] = rest[k]
  BY <1>6 DEF With
<1>9. \A m \in D : h[m] # n /\ h[m] \in DOMAIN l /\ h[m] \in DOMAIN rest
  <2> SUFFICES ASSUME NEW m \in D PROVE h[m] # n /\ h[m] \in DOMAIN l /\ h[m] \in DOMAIN rest
    OBVIOUS
  <2>1. n < h[m] /\ h[m] \in Nat
    BY <1>2, <1>3
  <2>2. h[m] # n
    BY <1>3, <2>1
  <2> QED BY <1>2, <1>4, <2>2
<1>10. \A k \in Rest : k \in DOMAIN l /\ k # n /\ k \in DOMAIN rest /\ k \in DOMAIN list \ D
  BY <1>2, <1>4
<1>11. DOMAIN rest = Rest \cup {h[m] : m \in D}
  BY <1>2, <1>4, <1>9
<1>12. \A k \in DOMAIN rest : sent[k] = l[k] /\ k < b /\ k # b
  <2> SUFFICES ASSUME NEW k \in DOMAIN rest PROVE sent[k] = l[k] /\ k < b /\ k # b
    OBVIOUS
  <2>1. k < b /\ k \in Nat /\ b \in Nat
    BY <1>4, <1>6 DEF Numbered
  <2>2. k # b
    BY <2>1
  <2> QED BY <1>4, <1>8, <2>1, <2>2
<1>13. h2[n] = b /\ \A m \in D : h2[m] = h[m]
  BY <1>3
<1> HIDE DEF h2, Rest
<1>14. DOMAIN sent = Rest \cup {h2[m] : m \in D \cup {n}}
  <2>1. {h2[m] : m \in D \cup {n}} = {h[m] : m \in D} \cup {b}
    BY <1>13
  <2> QED BY <1>8, <1>11, <2>1
<1>15. \A k \in Rest : sent[k] = list[k]
  BY <1>2, <1>10, <1>12
<1>16. ASSUME NEW m \in D \cup {n}
       PROVE  h2[m] \in Nat /\ sent[h2[m]] = plan[m] /\ \A k \in Rest : k < h2[m]
  <2>1. CASE m = n
    BY <1>6, <1>8, <1>10, <1>12, <1>13, <2>1
  <2>2. CASE m \in D
    BY <1>2, <1>9, <1>10, <1>12, <1>13, <2>2
  <2> QED BY <2>1, <2>2
<1>17. ASSUME NEW m \in D \cup {n}, NEW o \in D \cup {n}, m < o
       PROVE  h2[m] < h2[o]
  <2>1. m \in Nat /\ o \in Nat
    BY <1>3
  <2>2. m # n
    BY <1>3, <1>17, <2>1
  <2>3. CASE o = n
    BY <1>9, <1>12, <1>13, <2>2, <2>3
  <2>4. CASE o \in D
    BY <1>2, <1>13, <1>17, <2>2, <2>4
  <2> QED BY <2>3, <2>4
<1>18. Places(plan, list, D \cup {n}, sent, h2)
  BY <1>14, <1>15, <1>16, <1>17 DEF Places, Rest
<1> QED BY <1>7, <1>18 DEF Swapped, sent

\* All that were chosen.
LEMMA AllSwapped ==
  ASSUME NEW plan, NEW list, Numbered(list), FormedList(list),
         NEW chosen, chosen \subseteq DOMAIN list, chosen # {},
         \A n \in chosen : Formed(plan[n])
  PROVE  Swapped(plan, list, chosen, SendAll(plan, chosen, list))
<1>1. chosen \subseteq Nat /\ IsFiniteSet(chosen)
  BY FS_Subset DEF Numbered
<1> DEFINE f == Stages(plan, chosen, list)
           Bad == {n \in chosen : ~Swapped(plan, list, Done(chosen, n), f[n])}
<1>2. /\ Max(chosen) \in chosen /\ Done(chosen, Max(chosen)) = chosen
      /\ SendAll(plan, chosen, list) = f[Max(chosen)]
      /\ \A n \in chosen : f[n] = Following(plan, chosen, list, f, n)
  BY <1>1, StagesAre
<1> HIDE DEF f
<1>3. Bad = {}
  <2> SUFFICES ASSUME Bad # {} PROVE FALSE
    OBVIOUS
  <2>1. Bad \subseteq Nat
    BY <1>1
  <2>2. PICK n \in Bad : \A m \in Bad : ~(m < n)
    <3> HIDE DEF Bad
    <3> QED BY <2>1, LeastOf
  <2>3. n \in chosen /\ ~Swapped(plan, list, Done(chosen, n), f[n])
    OBVIOUS
  <2> DEFINE E == Earlier(chosen, n)
             l == IF E = {} THEN list ELSE f[Max(E)]
  <2>4. f[n] = SendReversed(plan, n, l)
    BY <1>2, <2>3 DEF Following
  <2>5. Swapped(plan, list, E, l)
    <3>1. CASE E = {}
      BY <3>1, NoneSwapped
    <3>2. CASE E # {}
      <4>1. Max(E) \in chosen /\ Max(E) < n /\ Done(chosen, Max(E)) = E
        BY <1>1, <2>3, <3>2, EarlierIs
      <4>2. Max(E) \notin Bad
        BY <2>2, <4>1
      <4>3. Swapped(plan, list, Done(chosen, Max(E)), f[Max(E)])
        BY <4>1, <4>2
      <4> HIDE DEF E
      <4> QED BY <3>2, <4>1, <4>3
    <3> QED BY <3>1, <3>2
  <2>6. E \subseteq DOMAIN list /\ \A m \in E : m < n
    BY DEF Earlier
  <2>7. Done(chosen, n) = E \cup {n}
    <3>1. \A m \in chosen : m <= n <=> m < n \/ m = n
      BY <1>1, <2>3
    <3> QED BY <2>3, <3>1 DEF Done, Earlier
  <2> HIDE DEF E, l
  <2>8. Swapped(plan, list, E \cup {n}, SendReversed(plan, n, l))
    BY <2>3, <2>5, <2>6, OneSwapped
  <2> QED BY <2>3, <2>4, <2>7, <2>8
<1> QED BY <1>2, <1>3

-----------------------------------------------------------------------------
(* The packets of the other direction *)

Mirrors(p, q) ==
    /\ q.src = p.dst /\ q.dst = p.src /\ q.sport = p.dport /\ q.dport = p.sport
    /\ q.proto = p.proto /\ q.icmp = p.icmp /\ q.reply = p.reply /\ q.when = p.when

\* The other direction of a packet is a packet, and its other direction is this one.
LEMMA MirrorOf ==
  ASSUME NEW proto, NEW ports, NEW icmps, NEW replies,
         NEW p \in PacketsOf(proto, ports, icmps, replies),
         <<p.dst, p.src>> \in PacketEnds
  PROVE  /\ Mirror(p) \in PacketsOf(proto, ports, icmps, replies)
         /\ Mirrors(p, Mirror(p)) /\ Mirror(Mirror(p)) = p
<1> DEFINE S == {o[1] : o \in PacketEnds}
           D == {o[2] : o \in PacketEnds}
<1>1. p.dst \in S /\ p.src \in D
  <2> DEFINE e == <<p.dst, p.src>>
  <2>1. e \in PacketEnds /\ e[1] = p.dst /\ e[2] = p.src
    OBVIOUS
  <2> HIDE DEF e
  <2> QED BY <2>1
<1>2. p \in [proto : {proto}, src : S, dst : D, sport : ports, dport : ports,
             icmp : icmps, reply : replies, when : SUBSET Running]
  BY DEF PacketsOf
<1> HIDE DEF S, D
<1>3. Mirror(p) \in [proto : {proto}, src : S, dst : D, sport : ports, dport : ports,
                     icmp : icmps, reply : replies, when : SUBSET Running]
  BY <1>1, <1>2 DEF Mirror
<1>4. /\ Mirror(p).src = p.dst /\ Mirror(p).dst = p.src
      /\ Mirror(p).sport = p.dport /\ Mirror(p).dport = p.sport
      /\ Mirror(p).proto = p.proto /\ Mirror(p).icmp = p.icmp
      /\ Mirror(p).reply = p.reply /\ Mirror(p).when = p.when
  BY <1>2 DEF Mirror
<1>5. Mirror(Mirror(p)) = p
  BY <1>2 DEF Mirror
<1> QED BY <1>3, <1>4, <1>5 DEF PacketsOf, S, D, Mirrors

LEMMA MirrorIs ==
  ASSUME NEW p \in Traffic
  PROVE  /\ Mirror(p) \in Traffic
         /\ Mirror(p).src = p.dst /\ Mirror(p).dst = p.src
         /\ Mirror(p).sport = p.dport /\ Mirror(p).dport = p.sport
         /\ Mirror(p).proto = p.proto /\ Mirror(p).icmp = p.icmp
         /\ Mirror(p).reply = p.reply /\ Mirror(p).when = p.when
         /\ Mirror(Mirror(p)) = p
<1>1. <<p.src, p.dst>> \in PacketEnds
  BY DEF Traffic
<1>2. <<p.dst, p.src>> \in PacketEnds
  <2>1. \A e \in PacketEnds : <<e[2], e[1]>> \in PacketEnds
    BY ListsAssumption
  <2> QED BY <1>1, <2>1
<1>3. \A proto, ports, icmps, replies : p \in PacketsOf(proto, ports, icmps, replies)
        => Mirror(p) \in PacketsOf(proto, ports, icmps, replies)
           /\ Mirrors(p, Mirror(p)) /\ Mirror(Mirror(p)) = p
  BY <1>2, MirrorOf
<1> DEFINE Tcp == PacketsOf("tcp", 0..MaxPort, {""}, BOOLEAN)
           Udp == PacketsOf("udp", 0..MaxPort, {""}, {FALSE})
           Icmp == PacketsOf("icmp", {0}, IcmpTypes, {FALSE})
<1>4. p \in Tcp \/ p \in Udp \/ p \in Icmp
  BY DEF Traffic
<1>5. \A q : /\ q \in Tcp \/ q \in Udp \/ q \in Icmp
             /\ <<q.src, q.dst>> \in PacketEnds
             => q \in Traffic
  BY DEF Traffic
<1>6. /\ p \in Tcp => Mirror(p) \in Tcp
      /\ p \in Udp => Mirror(p) \in Udp
      /\ p \in Icmp => Mirror(p) \in Icmp
  BY <1>3
<1>7. Mirrors(p, Mirror(p)) /\ Mirror(Mirror(p)) = p
  BY <1>3, <1>4
<1> HIDE DEF Tcp, Udp, Icmp
<1>8. Mirror(p).src = p.dst /\ Mirror(p).dst = p.src
  BY <1>7 DEF Mirrors
<1>9. Mirror(p) \in Traffic
  BY <1>2, <1>4, <1>5, <1>6, <1>8
<1> QED BY <1>7, <1>9 DEF Mirrors

\* An operand holds the same addresses when it is normalised.
LEMMA NormalHolds ==
  ASSUME NEW a \in Operand, a.form # "odd", NEW x
  PROVE  AddressHolds(Normal(a), x) <=> AddressHolds(a, x)
<1> DEFINE b == Normal(a)
<1>1. b.lo = a.lo /\ b.hi = a.hi /\ b.group = a.group
  BY DEF Normal, Operand
<1>2. CASE a.form \in {"any", "group"}
  <2>1. b.form = a.form
    BY <1>2 DEF Normal, Operand
  <2> HIDE DEF b
  <2>2. AddressHolds(b, x) <=> AddressHolds(a, x)
    BY <1>1, <1>2, <2>1 DEF AddressHolds
  <2> QED BY <2>2 DEF b
<1>3. CASE a.form \notin {"any", "group"}
  <2>1. b.form \in {"host", "net"}
    BY <1>3 DEF Normal, Operand
  <2> HIDE DEF b
  <2>2. AddressHolds(b, x) <=> b.lo <= x /\ x <= b.hi
    BY <2>1 DEF AddressHolds
  <2>3. AddressHolds(a, x) <=> a.lo <= x /\ x <= a.hi
    BY <1>3 DEF AddressHolds
  <2> QED BY <1>1, <2>2, <2>3 DEF b
<1> QED BY <1>2, <1>3

\* The reverse of a rule takes the packets of the other direction.
LEMMA ReversedTakes ==
  ASSUME NEW line, Formed(line), NEW known, Parses(line, nexus, known, "extended"),
         Reversible(Rule(line), nexus), ~line.log,
         WrittenPorts(line.sport) = line.sport, WrittenPorts(line.dport) = line.dport,
         NEW p \in Traffic
  PROVE  /\ Hits(Reversed(Rule(line)), Mirror(p)) <=> Hits(line, p)
         /\ Reversed(Rule(line)).action = line.action
<1> DEFINE rule == Rule(line)
           back == Reversed(rule)
<1>1. line \in AnyLine /\ rule \in AnyLine
  BY RuleFormed DEF Formed
<1>2. /\ rule.src = Normal(line.src) /\ rule.dst = Normal(line.dst)
      /\ rule.sport = line.sport /\ rule.dport = line.dport
      /\ rule.proto = line.proto /\ rule.service = line.service
      /\ rule.icmp = line.icmp /\ rule.established = line.established
      /\ rule.action = line.action /\ rule.time = line.time
  BY <1>1 DEF Rule, AnyLine
<1> HIDE DEF rule
<1>3. /\ back.src = rule.dst /\ back.dst = rule.src
      /\ back.sport = WrittenPorts(rule.dport) /\ back.dport = WrittenPorts(rule.sport)
      /\ back.proto = rule.proto /\ back.service = rule.service
      /\ back.icmp = rule.icmp /\ back.established = rule.established
      /\ back.action = rule.action /\ back.time = rule.time
  BY <1>1 DEF Reversed, Written, AnyLine
<1> HIDE DEF back
<1>4. back.sport = line.dport /\ back.dport = line.sport
  BY <1>2, <1>3
<1>5. line.service = ""
  <2>1. CASE nexus
    BY <2>1 DEF Parses
  <2>2. CASE ~nexus
    BY <1>2, <2>2 DEF Reversible, HasGroup, rule
  <2> QED BY <2>1, <2>2
<1>6. line.src \in Operand /\ line.dst \in Operand
  BY <1>1 DEF AnyLine
<1>7. line.src.form # "odd" /\ line.dst.form # "odd"
  BY DEF Parses, AddressParses
<1>8. \A x : /\ AddressHolds(back.src, x) <=> AddressHolds(line.dst, x)
             /\ AddressHolds(back.dst, x) <=> AddressHolds(line.src, x)
  BY <1>2, <1>3, <1>6, <1>7, NormalHolds
<1> DEFINE q == Mirror(p)
<1>9. /\ q.src = p.dst /\ q.dst = p.src /\ q.sport = p.dport /\ q.dport = p.sport
      /\ q.proto = p.proto /\ q.icmp = p.icmp /\ q.reply = p.reply /\ q.when = p.when
  BY MirrorIs
<1> HIDE DEF q
<1>10. PortPart(back, q) <=> PortPart(line, p)
  BY <1>2, <1>3, <1>4, <1>5, <1>9 DEF PortPart
<1>11. Hits(back, q) <=> Hits(line, p)
  <2>1. Hits(line, p) <=> /\ line.time = "" \/ line.time \in p.when
                          /\ AddressHolds(line.src, p.src) /\ AddressHolds(line.dst, p.dst)
                          /\ PortPart(line, p)
                          /\ line.icmp \in {"", p.icmp}
                          /\ line.established => p.reply
    BY HitsIs
  <2>2. Hits(back, q) <=> /\ back.time = "" \/ back.time \in q.when
                          /\ AddressHolds(back.src, q.src) /\ AddressHolds(back.dst, q.dst)
                          /\ PortPart(back, q)
                          /\ back.icmp \in {"", q.icmp}
                          /\ back.established => q.reply
    BY HitsIs
  <2> QED BY <1>2, <1>3, <1>8, <1>9, <1>10, <2>1, <2>2
<1> QED BY <1>2, <1>3, <1>11 DEF rule, back, q

\* Rules D of the list and their reverses take the two directions of packets.
Turns(plan, list, D) ==
    \A n \in D : /\ plan[n].action = list[n].action
                 /\ \A p \in Traffic : Hits(plan[n], Mirror(p)) <=> Hits(list[n], p)

\* The rules of the list after the reversal are those that were sent.
LEMMA SwappedRules ==
  ASSUME NEW plan, NEW list, NEW l, NEW h, Places(plan, list, RuleNumbers(list), l, h),
         Turns(plan, list, RuleNumbers(list))
  PROVE  RuleNumbers(l) = {h[m] : m \in RuleNumbers(list)}
<1> DEFINE D == RuleNumbers(list)
<1>1. \A m \in D : m \in DOMAIN list /\ IsRule(list[m])
  BY DEF RuleNumbers
<1>2. \A k \in DOMAIN list : IsRule(list[k]) => k \in D
  BY DEF RuleNumbers
<1> HIDE DEF D
<1>3. /\ DOMAIN l = (DOMAIN list \ D) \cup {h[m] : m \in D}
      /\ \A k \in DOMAIN list \ D : l[k] = list[k]
      /\ \A m \in D : l[h[m]] = plan[m] /\ plan[m].action = list[m].action
  BY DEF Places, Turns, D
<1>4. \A m \in D : h[m] \in DOMAIN l /\ IsRule(l[h[m]])
  BY <1>1, <1>3 DEF IsRule
<1>5. \A k \in DOMAIN list \ D : ~IsRule(l[k])
  BY <1>2, <1>3
<1>6. \A k : k \in RuleNumbers(l) <=> k \in DOMAIN l /\ IsRule(l[k])
  BY DEF RuleNumbers
<1> QED BY <1>3, <1>4, <1>5, <1>6 DEF D

\* The rule that decides a packet is sent as the one that decides its other direction.
LEMMA SwappedDecides ==
  ASSUME NEW plan, NEW list, Numbered(list), NEW l, NEW h,
         Places(plan, list, RuleNumbers(list), l, h),
         Turns(plan, list, RuleNumbers(list)), NEW p \in Traffic, NEW action
  PROVE  Decides(l, Mirror(p), action) <=> Decides(list, p, action)
<1> DEFINE D == RuleNumbers(list)
           q == Mirror(p)
<1>1. RuleNumbers(l) = {h[m] : m \in D}
  BY SwappedRules
<1>2. \A m \in D : m \in Nat
  BY DEF RuleNumbers, Numbered
<1> HIDE DEF D
<1>3. \A m \in D : /\ l[h[m]].action = list[m].action /\ h[m] \in Nat
                   /\ Hits(l[h[m]], q) <=> Hits(list[m], p)
  BY DEF Places, Turns, D
<1>4. \A m, o \in D : m < o => h[m] < h[o]
  BY DEF Places, D
<1> HIDE DEF q
<1>5. \A m \in D, o \in D : h[o] < h[m] => o < m
  <2> SUFFICES ASSUME NEW m \in D, NEW o \in D, h[o] < h[m] PROVE o < m
    OBVIOUS
  <2>1. m \in Nat /\ o \in Nat /\ h[m] \in Nat /\ h[o] \in Nat
    BY <1>2, <1>3
  <2>2. m # o
    BY <2>1
  <2>3. ~(m < o)
    BY <1>4, <2>1
  <2> QED BY <2>1, <2>2, <2>3
<1>6. \A m \in D : First(l, h[m], q) <=> First(list, m, p)
  <2> SUFFICES ASSUME NEW m \in D PROVE First(l, h[m], q) <=> First(list, m, p)
    OBVIOUS
  <2>1. First(list, m, p) <=> Hits(list[m], p) /\ \A o \in D : o < m => ~Hits(list[o], p)
    BY DEF First, D
  <2>2. First(l, h[m], q) <=>
          Hits(l[h[m]], q) /\ \A o \in D : h[o] < h[m] => ~Hits(l[h[o]], q)
    BY <1>1 DEF First
  <2>3. \A o \in D : h[o] < h[m] <=> o < m
    BY <1>4, <1>5
  <2> QED BY <1>3, <2>1, <2>2, <2>3
<1>7. Decides(l, q, action) <=> \E m \in D : First(l, h[m], q) /\ l[h[m]].action = action
  BY <1>1 DEF Decides
<1>8. Decides(list, p, action) <=> \E m \in D : First(list, m, p) /\ list[m].action = action
  BY DEF Decides, D
<1> QED BY <1>3, <1>6, <1>7, <1>8 DEF q

\* So the list lets the other direction through.
LEMMA SwappedMirrors ==
  ASSUME NEW plan, NEW list, Numbered(list), NEW l, NEW h,
         Places(plan, list, RuleNumbers(list), l, h), Turns(plan, list, RuleNumbers(list))
  PROVE  Permitted(l) = {Mirror(p) : p \in Permitted(list)}
<1>1. \A p \in Traffic : Decides(l, Mirror(p), "permit") <=> Decides(list, p, "permit")
  BY SwappedDecides
<1>2. \A p : p \in Permitted(list) <=> p \in Traffic /\ Decides(list, p, "permit")
  BY PermittedIs
<1>3. \A p : p \in Permitted(l) <=> p \in Traffic /\ Decides(l, p, "permit")
  BY PermittedIs
<1>4. \A p \in Traffic : Mirror(p) \in Traffic /\ Mirror(Mirror(p)) = p
  BY MirrorIs
<1>5. ASSUME NEW p \in Permitted(l) PROVE \E o \in Permitted(list) : p = Mirror(o)
  <2>1. p \in Traffic /\ Decides(l, p, "permit")
    BY <1>3, <1>5
  <2>2. Mirror(p) \in Traffic /\ Mirror(Mirror(p)) = p
    BY <1>4, <2>1
  <2>3. Mirror(p) \in Permitted(list)
    BY <1>1, <1>2, <2>1, <2>2
  <2> QED BY <2>2, <2>3
<1>6. ASSUME NEW p \in Permitted(list) PROVE Mirror(p) \in Permitted(l)
  BY <1>1, <1>2, <1>3, <1>4
<1> QED BY <1>5, <1>6

\* All rules of a list that the plan reverses.
LEMMA ReversalIsMirror ==
  ASSUME NEW list, Numbered(list), FormedList(list), NEW known,
         RuleNumbers(list) \subseteq DOMAIN ReversalPlan(Understood(list, known), nexus),
         RuleNumbers(list) # {}, WrittenWhole(list),
         \A line \in RuleSet(list) : ~line.log
  PROVE  Permitted(SendAll(ReversalPlan(Understood(list, known), nexus),
                           RuleNumbers(list), list))
           = {Mirror(p) : p \in Permitted(list)}
<1> DEFINE rules == Understood(list, known)
           plan == ReversalPlan(rules, nexus)
           D == RuleNumbers(list)
<1>1. \A n \in D : /\ n \in DOMAIN list /\ Formed(list[n])
                   /\ list[n] \in RuleSet(list) /\ ~list[n].log
                   /\ WrittenPorts(list[n].sport) = list[n].sport
                   /\ WrittenPorts(list[n].dport) = list[n].dport
  BY DEF RuleNumbers, RuleSet, FormedList, WrittenWhole
<1>2. \A n \in DOMAIN rules : /\ Parses(list[n], nexus, known, "extended")
                              /\ rules[n] = Rule(list[n]) /\ Formed(rules[n])
  BY UnderstoodFormed DEF FormedRules
<1>3. \A n \in D : /\ n \in DOMAIN rules /\ Reversible(rules[n], nexus)
                   /\ plan[n] = Reversed(rules[n])
  BY DEF ReversalPlan
<1>4. \A n \in D : Formed(plan[n])
  BY <1>2, <1>3, ReversedFormed
<1> HIDE DEF plan, rules
<1>5. Turns(plan, list, D)
  <2> SUFFICES ASSUME NEW n \in D
               PROVE  /\ plan[n].action = list[n].action
                      /\ \A p \in Traffic : Hits(plan[n], Mirror(p)) <=> Hits(list[n], p)
    BY DEF Turns
  <2>1. Parses(list[n], nexus, known, "extended") /\ Reversible(Rule(list[n]), nexus)
        /\ plan[n] = Reversed(Rule(list[n]))
    BY <1>2, <1>3
  <2> HIDE DEF D
  <2>2. \A p \in Traffic : /\ Hits(Reversed(Rule(list[n])), Mirror(p)) <=> Hits(list[n], p)
                           /\ Reversed(Rule(list[n])).action = list[n].action
    BY <1>1, <2>1, ReversedTakes
  <2>3. Reversed(Rule(list[n])).action = list[n].action
    <3>1. list[n] \in AnyLine /\ Rule(list[n]) \in AnyLine
      BY <1>1, RuleFormed DEF Formed
    <3>2. Rule(list[n]).action = list[n].action
      BY <3>1 DEF Rule, AnyLine
    <3>3. Reversed(Rule(list[n])).action = Rule(list[n]).action
      BY <3>1 DEF Reversed, Written, AnyLine
    <3> QED BY <3>2, <3>3
  <2> QED BY <2>1, <2>2, <2>3
<1>6. Swapped(plan, list, D, SendAll(plan, D, list))
  <2>1. D \subseteq DOMAIN list
    BY <1>1
  <2> HIDE DEF D
  <2>2. D # {}
    BY DEF D
  <2> QED BY <1>4, <2>1, <2>2, AllSwapped
<1>7. PICK h : Places(plan, list, D, SendAll(plan, D, list), h)
  BY <1>6 DEF Swapped
<1>8. Permitted(SendAll(plan, D, list)) = {Mirror(p) : p \in Permitted(list)}
  BY <1>5, <1>7, SwappedMirrors
<1> QED BY <1>8 DEF plan, rules

-----------------------------------------------------------------------------
(* A summary in the place of its rules *)

End(p, side) == IF side = "src" THEN p.src ELSE p.dst

\* What a rule asks of a packet beside the address of one side.
Beside(rule, side, p) ==
    /\ rule.time = "" \/ rule.time \in p.when
    /\ AddressHolds(IF side = "src" THEN rule.dst ELSE rule.src,
                    IF side = "src" THEN p.dst ELSE p.src)
    /\ PortPart(rule, p)
    /\ rule.icmp \in {"", p.icmp}
    /\ rule.established => p.reply

\* A packet is taken for its address on one side and for what is beside it.
LEMMA HitsBySide ==
  ASSUME NEW rule, NEW side, NEW p
  PROVE  Hits(rule, p) <=> /\ Beside(rule, side, p)
                           /\ AddressHolds(SideOf(rule, side), End(p, side))
<1>1. Hits(rule, p) <=> /\ rule.time = "" \/ rule.time \in p.when
                        /\ AddressHolds(rule.src, p.src) /\ AddressHolds(rule.dst, p.dst)
                        /\ PortPart(rule, p)
                        /\ rule.icmp \in {"", p.icmp}
                        /\ rule.established => p.reply
  BY HitsIs
<1>2. CASE side = "src"
  BY <1>1, <1>2 DEF Beside, SideOf, End
<1>3. CASE side # "src"
  BY <1>1, <1>3 DEF Beside, SideOf, End
<1> QED BY <1>2, <1>3

\* Another operand on one side changes nothing beside it.
LEMMA BesideKept ==
  ASSUME NEW rule \in AnyLine, NEW side, NEW a, NEW p
  PROVE  /\ Beside(WithSide(rule, side, a), side, p) <=> Beside(rule, side, p)
         /\ SideOf(WithSide(rule, side, a), side) = a
         /\ WithSide(rule, side, a).action = rule.action
<1> DEFINE r == WithSide(rule, side, a)
<1>1. /\ r.time = rule.time /\ r.icmp = rule.icmp /\ r.established = rule.established
      /\ r.service = rule.service /\ r.proto = rule.proto
      /\ r.sport = rule.sport /\ r.dport = rule.dport /\ r.action = rule.action
      /\ side = "src" => r.src = a /\ r.dst = rule.dst
      /\ side # "src" => r.src = rule.src /\ r.dst = a
  <2>1. CASE side = "src"
    BY <2>1 DEF WithSide, AnyLine
  <2>2. CASE side # "src"
    BY <2>2 DEF WithSide, AnyLine
  <2> QED BY <2>1, <2>2
<1> HIDE DEF r
<1>2. PortPart(r, p) <=> PortPart(rule, p)
  BY <1>1 DEF PortPart
<1>3. SideOf(r, side) = a
  BY <1>1 DEF SideOf
<1>4. Beside(r, side, p) <=> Beside(rule, side, p)
  BY <1>1, <1>2 DEF Beside
<1> QED BY <1>1, <1>3, <1>4 DEF r

\* A line and the rule it is take the same packets.
LEMMA RuleHits ==
  ASSUME NEW line, Formed(line), Plain(line), NEW p
  PROVE  Hits(Rule(line), p) <=> Hits(line, p)
<1> DEFINE r == Rule(line)
<1>1. /\ r.proto = line.proto /\ r.service = line.service
      /\ r.sport = line.sport /\ r.dport = line.dport
      /\ r.src = Normal(line.src) /\ r.dst = Normal(line.dst)
      /\ r.icmp = line.icmp /\ r.established = line.established /\ r.time = line.time
  BY RuleOf
<1>2. /\ line.src \in Operand /\ line.src.form # "odd"
      /\ line.dst \in Operand /\ line.dst.form # "odd"
  BY PartsOf DEF AddressParses
<1> HIDE DEF r
<1>3. /\ AddressHolds(r.src, p.src) <=> AddressHolds(line.src, p.src)
      /\ AddressHolds(r.dst, p.dst) <=> AddressHolds(line.dst, p.dst)
  BY <1>1, <1>2, NormalHolds
<1>4. PortPart(r, p) <=> PortPart(line, p)
  BY <1>1 DEF PortPart
<1> QED BY <1>1, <1>3, <1>4, HitsIs DEF r

\* A normalised operand that is a host or a network is an interval.
LEMMA NormalSpan ==
  ASSUME NEW a \in Operand, NEW x, Normal(a).form \notin {"any", "group"}
  PROVE  AddressHolds(Normal(a), x) <=> Normal(a).lo <= x /\ x <= Normal(a).hi
<1> DEFINE b == Normal(a)
<1>1. b.form \in {"host", "net"}
  BY DEF Normal, Operand
<1> HIDE DEF b
<1>2. AddressHolds(b, x) <=> b.lo <= x /\ x <= b.hi
  BY <1>1 DEF AddressHolds
<1> QED BY <1>2 DEF b

\* One of the rules that are widened to the same key.
LEMMA WidenedIs ==
  ASSUME NEW rules, FormedRules(rules), NEW side, NEW key, NEW n \in Widened(rules, side, key),
         NEW a \in Operand, rules[n].src = Normal(a), NEW b \in Operand, rules[n].dst = Normal(b)
  PROVE  /\ rules[n].action = "permit"
         /\ \A p : Hits(rules[n], p) <=>
              /\ Beside(key, side, p)
              /\ SideOf(rules[n], side).lo <= End(p, side)
              /\ End(p, side) <= SideOf(rules[n], side).hi
<1>1. /\ n \in DOMAIN rules /\ rules[n].action = "permit"
      /\ SideOf(rules[n], side).form \notin {"any", "group"}
      /\ WithSide(rules[n], side, AnyAddress) = key
  BY DEF Widened, WidenKey
<1>2. rules[n] \in AnyLine
  BY <1>1 DEF FormedRules, Formed
<1>3. \A p : Beside(key, side, p) <=> Beside(rules[n], side, p)
  BY <1>1, <1>2, BesideKept
<1>4. \A x : AddressHolds(SideOf(rules[n], side), x) <=>
               SideOf(rules[n], side).lo <= x /\ x <= SideOf(rules[n], side).hi
  <2>1. CASE side = "src"
    <3>1. SideOf(rules[n], side) = Normal(a)
      BY <2>1 DEF SideOf
    <3> QED BY <1>1, <3>1, NormalSpan
  <2>2. CASE side # "src"
    <3>1. SideOf(rules[n], side) = Normal(b)
      BY <2>2 DEF SideOf
    <3> QED BY <1>1, <3>1, NormalSpan
  <2> QED BY <2>1, <2>2
<1>5. \A p : Hits(rules[n], p) <=>
               Beside(rules[n], side, p) /\ AddressHolds(SideOf(rules[n], side), End(p, side))
  BY HitsBySide
<1> QED BY <1>1, <1>3, <1>4, <1>5

\* The summary takes what its rules take, and more only at an extra address.
Widens(list, s) ==
    /\ s.replaces \subseteq RuleNumbers(list) /\ s.rule.action = "permit"
    /\ \A n \in s.replaces :
         /\ list[n].action = "permit"
         /\ \A p \in Traffic : Hits(list[n], p) => Hits(s.rule, p)
    /\ \A p \in Traffic : Hits(s.rule, p) /\ End(p, s.side) \notin s.extra
         => \E n \in s.replaces : Hits(list[n], p)

\* The ends of packets are numbers.
LEMMA EndIs ==
  ASSUME NEW p \in Traffic, NEW side
  PROVE  End(p, side) \in Int
BY PacketHas DEF End

\* Every suggestion is a wider rule.
LEMMA SummaryWidens ==
  ASSUME NEW list, Numbered(list), FormedList(list), PlainList(list), WrittenWhole(list),
         NEW known, NEW s \in SuggestSummaries(Understood(list, known))
  PROVE  Widens(list, s)
<1> DEFINE rules == Understood(list, known)
<1>1. /\ FormedRules(rules)
      /\ \A n \in DOMAIN rules : /\ n \in DOMAIN list /\ rules[n] = Rule(list[n])
                                 /\ Parses(list[n], nexus, known, "extended")
  BY UnderstoodFormed
<1>2. PICK side, key, T, first, block :
        Summarizes(rules, s, side, key, T, first, block)
  <2> HIDE DEF rules
  <2> QED BY <1>1, SuggestionIs DEF rules
<1>3. \A n \in DOMAIN rules : n \in RuleNumbers(list) /\ list[n] \in RuleSet(list)
  <2>1. \A n \in DOMAIN rules : n \in DOMAIN list /\ IsRule(list[n])
    BY <1>1 DEF Parses, IsRule
  <2> HIDE DEF rules
  <2> QED BY <2>1 DEF RuleNumbers, RuleSet
<1> HIDE DEF rules
<1>4. \A n \in DOMAIN rules : Formed(list[n]) /\ Plain(list[n])
  BY <1>3, PlainRules
<1>5. /\ s.side = side /\ first \in T /\ \A e \in T : Gathered(rules, side, key, e)
      /\ s.replaces = {e.n : e \in T}
      /\ s.rule = WithSide(Written(first.rule), side, WrittenNet(block))
      /\ block[1] \in Int /\ block[2] \in Int
      /\ \A e \in T : block[1] <= e.net[1] /\ e.net[2] <= block[2]
      /\ s.extra = {a \in block[1]..block[2] : \A e \in T : ~Within(<<a, a>>, e.net)}
  BY <1>2 DEF Summarizes
<1>6. ASSUME NEW n \in Widened(rules, side, key)
      PROVE  /\ n \in DOMAIN rules /\ rules[n].action = "permit" /\ list[n].action = "permit"
             /\ \A p : Hits(list[n], p) <=>
                  /\ Beside(key, side, p)
                  /\ SideOf(rules[n], side).lo <= End(p, side)
                  /\ End(p, side) <= SideOf(rules[n], side).hi
  <2>1. n \in DOMAIN rules
    BY DEF Widened
  <2>2. /\ rules[n] = Rule(list[n]) /\ Formed(list[n]) /\ Plain(list[n])
    BY <1>1, <1>4, <2>1
  <2>3. /\ rules[n].src = Normal(list[n].src) /\ rules[n].dst = Normal(list[n].dst)
        /\ rules[n].action = list[n].action
    BY <2>2, RuleOf
  <2>4. list[n].src \in Operand /\ list[n].dst \in Operand
    BY <2>2, PartsOf
  <2>5. /\ rules[n].action = "permit"
        /\ \A p : Hits(rules[n], p) <=>
             /\ Beside(key, side, p)
             /\ SideOf(rules[n], side).lo <= End(p, side)
             /\ End(p, side) <= SideOf(rules[n], side).hi
    BY <1>1, <2>3, <2>4, WidenedIs
  <2>6. \A p : Hits(rules[n], p) <=> Hits(list[n], p)
    BY <2>2, RuleHits
  <2> QED BY <2>1, <2>3, <2>5, <2>6
<1>7. \A e \in T : /\ e.n \in Widened(rules, side, key)
                   /\ e.net[1] = SideOf(rules[e.n], side).lo
                   /\ e.net[2] = SideOf(rules[e.n], side).hi
                   /\ e.rule = rules[e.n]
  <2> SUFFICES ASSUME NEW e \in T
               PROVE  /\ e.n \in Widened(rules, side, key)
                      /\ e.net[1] = SideOf(rules[e.n], side).lo
                      /\ e.net[2] = SideOf(rules[e.n], side).hi
                      /\ e.rule = rules[e.n]
    OBVIOUS
  <2>1. PICK n \in Widened(rules, side, key) : e = Entry(rules, n, side)
    BY <1>5 DEF Gathered
  <2>2. n \in DOMAIN rules
    BY DEF Widened
  <2> QED BY <1>1, <2>1, <2>2, EntryIs
<1> DEFINE f == first.n
<1>8. f \in Widened(rules, side, key) /\ first.rule = rules[f] /\ f \in DOMAIN rules
  BY <1>5, <1>6, <1>7
<1> HIDE DEF f
<1>9. rules[f] \in AnyLine /\ rules[f].action = "permit"
  BY <1>1, <1>6, <1>8 DEF FormedRules, Formed
<1>10. Written(rules[f]) = rules[f]
  <2>1. Formed(list[f]) /\ Plain(list[f]) /\ rules[f] = Rule(list[f]) /\ list[f] \in RuleSet(list)
    BY <1>1, <1>3, <1>4, <1>8
  <2>2. rules[f].sport = list[f].sport /\ rules[f].dport = list[f].dport
    BY <2>1, RuleOf
  <2>3. WrittenPorts(list[f].sport) = list[f].sport /\ WrittenPorts(list[f].dport) = list[f].dport
    BY <2>1 DEF WrittenWhole
  <2> QED BY <1>9, <2>2, <2>3 DEF Written, AnyLine
<1>11. s.rule = WithSide(rules[f], side, WrittenNet(block))
  BY <1>5, <1>8, <1>10
<1>12. \A p : Hits(s.rule, p) <=> /\ Beside(key, side, p)
                                  /\ block[1] <= End(p, side) /\ End(p, side) <= block[2]
  <2>1. \A p : /\ Beside(s.rule, side, p) <=> Beside(rules[f], side, p)
               /\ SideOf(s.rule, side) = WrittenNet(block)
    BY <1>9, <1>11, BesideKept
  <2>2. key = WithSide(rules[f], side, AnyAddress)
    BY <1>8 DEF Widened, WidenKey
  <2>3. \A p : Beside(key, side, p) <=> Beside(rules[f], side, p)
    BY <1>9, <2>2, BesideKept
  <2>4. \A x : AddressHolds(WrittenNet(block), x) <=> block[1] <= x /\ x <= block[2]
    BY <1>5, NetFormed
  <2>5. \A p : Hits(s.rule, p) <=>
                 Beside(s.rule, side, p) /\ AddressHolds(SideOf(s.rule, side), End(p, side))
    BY HitsBySide
  <2> QED BY <2>1, <2>3, <2>4, <2>5
<1>13. s.rule.action = "permit"
  BY <1>9, <1>11, BesideKept
<1>14. s.replaces \subseteq RuleNumbers(list)
  BY <1>3, <1>5, <1>6, <1>7
<1>15. ASSUME NEW n \in s.replaces
       PROVE  /\ list[n].action = "permit"
              /\ \A p \in Traffic : Hits(list[n], p) => Hits(s.rule, p)
  <2>1. PICK e \in T : n = e.n
    BY <1>5
  <2>2. n \in Widened(rules, side, key) /\ e.net[1] = SideOf(rules[n], side).lo
        /\ e.net[2] = SideOf(rules[n], side).hi /\ n \in DOMAIN rules
    BY <1>6, <1>7, <2>1
  <2>3. SideOf(rules[n], side).lo \in Int /\ SideOf(rules[n], side).hi \in Int
    BY <1>1, <2>2, EntryIs
  <2> DEFINE lo == SideOf(rules[n], side).lo
             hi == SideOf(rules[n], side).hi
             b1 == block[1]
             b2 == block[2]
  <2>4. lo \in Int /\ hi \in Int /\ b1 \in Int /\ b2 \in Int /\ b1 <= lo /\ hi <= b2
    BY <1>5, <2>2, <2>3
  <2>5. \A p : Hits(list[n], p) <=>
                 Beside(key, side, p) /\ lo <= End(p, side) /\ End(p, side) <= hi
    BY <1>6, <2>2
  <2>6. \A p : Hits(s.rule, p) <=>
                 Beside(key, side, p) /\ b1 <= End(p, side) /\ End(p, side) <= b2
    BY <1>12
  <2> HIDE DEF lo, hi, b1, b2
  <2>7. \A p \in Traffic : Hits(list[n], p) => Hits(s.rule, p)
    BY <2>4, <2>5, <2>6, EndIs
  <2> QED BY <1>6, <2>2, <2>7
<1>16. ASSUME NEW p \in Traffic, Hits(s.rule, p), End(p, s.side) \notin s.extra
       PROVE  \E n \in s.replaces : Hits(list[n], p)
  <2> DEFINE x == End(p, side)
  <2>1. Beside(key, side, p) /\ block[1] <= x /\ x <= block[2]
    BY <1>12, <1>16
  <2>2. x \in Int /\ x \notin s.extra
    BY <1>5, <1>16, EndIs
  <2> HIDE DEF x
  <2>3. x \in block[1]..block[2]
    BY <1>5, <2>1, <2>2
  <2>4. PICK e \in T : Within(<<x, x>>, e.net)
    BY <1>5, <2>2, <2>3
  <2>5. e.net[1] <= x /\ x <= e.net[2]
    BY <2>4 DEF Within
  <2>6. Hits(list[e.n], p)
    BY <1>6, <1>7, <2>1, <2>5 DEF x
  <2>7. e.n \in s.replaces
    BY <1>5
  <2> QED BY <2>6, <2>7
<1> QED BY <1>13, <1>14, <1>15, <1>16 DEF Widens

\* The list with the summary in the place of its rules.
Summed(list, s) == With(Without(list, s.replaces), s.n, s.rule)

\* The rules of the list with the summary.
LEMMA SummedIs ==
  ASSUME NEW list, NEW s, Widens(list, s), s.n \in s.replaces
  PROVE  LET l == Summed(list, s) IN
         /\ RuleNumbers(l) = (RuleNumbers(list) \ s.replaces) \cup {s.n}
         /\ l[s.n] = s.rule
         /\ \A n \in RuleNumbers(l) : n # s.n => l[n] = list[n]
<1> DEFINE w == Without(list, s.replaces)
           l == With(w, s.n, s.rule)
<1>1. /\ RuleNumbers(w) = RuleNumbers(list) \ s.replaces
      /\ \A n \in RuleNumbers(w) : w[n] = list[n]
      /\ DOMAIN w = DOMAIN list \ s.replaces
  BY WithoutIs
<1> HIDE DEF w
<1>2. /\ DOMAIN l = DOMAIN w \cup {s.n} /\ l[s.n] = s.rule
      /\ \A n \in DOMAIN w : n # s.n => l[n] = w[n]
  BY DEF With
<1> HIDE DEF l
<1>3. IsRule(s.rule) /\ s.n \notin DOMAIN w
  BY <1>1 DEF Widens, IsRule
<1>4. RuleNumbers(l) = RuleNumbers(w) \cup {s.n}
  <2>1. \A n : n \in RuleNumbers(l) <=> n \in DOMAIN l /\ IsRule(l[n])
    BY DEF RuleNumbers
  <2>2. \A n : n \in RuleNumbers(w) <=> n \in DOMAIN w /\ IsRule(w[n])
    BY DEF RuleNumbers
  <2> QED BY <1>2, <1>3, <2>1, <2>2
<1>5. \A n \in RuleNumbers(l) : n # s.n => n \in RuleNumbers(w) /\ n \in DOMAIN w
  BY <1>4 DEF RuleNumbers
<1>6. \A n \in RuleNumbers(l) : n # s.n => l[n] = list[n]
  BY <1>1, <1>2, <1>5
<1> QED BY <1>1, <1>2, <1>4, <1>6 DEF Summed, l, w

\* A wider rule in the place of the first of its rules loses nothing, and adds only
\* what no rule it replaces takes.
LEMMA SummaryIsMore ==
  ASSUME NEW list, Numbered(list), NEW s, Widens(list, s),
         s.n \in s.replaces, s.n = Min(s.replaces),
         \A n \in Among(list, s.replaces) : list[n].action = "permit"
  PROVE  /\ Permitted(list) \subseteq Permitted(Summed(list, s))
         /\ \A p \in Permitted(Summed(list, s)) \ Permitted(list) :
              End(p, s.side) \in s.extra
<1> DEFINE l == Summed(list, s)
           R == RuleNumbers(list)
           S == s.replaces
           n0 == s.n
           top == Max(S)
<1>1. /\ S \subseteq R /\ s.rule.action = "permit"
      /\ \A n \in S : /\ list[n].action = "permit"
                      /\ \A p \in Traffic : Hits(list[n], p) => Hits(s.rule, p)
      /\ \A p \in Traffic : Hits(s.rule, p) /\ End(p, s.side) \notin s.extra
           => \E n \in S : Hits(list[n], p)
  BY DEF Widens
<1>2. /\ RuleNumbers(l) = (R \ S) \cup {n0} /\ l[n0] = s.rule
      /\ \A n \in RuleNumbers(l) : n # n0 => l[n] = list[n]
  BY SummedIs
<1>3. R \subseteq Nat /\ IsFiniteSet(R)
  <2>1. R \subseteq DOMAIN list
    BY DEF RuleNumbers
  <2> HIDE DEF R
  <2> QED BY <2>1, FS_Subset DEF Numbered
<1> HIDE DEF R, S, l, n0, top
<1>4. n0 \in S /\ n0 \in R /\ \A n \in S : n0 <= n /\ n <= top
  <2>1. IsFiniteSet(S) /\ S \subseteq Nat /\ S # {}
    BY <1>1, <1>3, FS_Subset DEF n0, S
  <2>2. S \subseteq Int
    BY <2>1
  <2>3. n0 = Min(S) /\ n0 \in S
    BY DEF n0, S
  <2>4. \A n \in S : Min(S) <= n
    BY <2>1, <2>2, MinIs
  <2>5. \A n \in S : n <= top
    BY <2>1, <2>2, MaxIs DEF top
  <2> QED BY <1>1, <2>3, <2>4, <2>5
<1>41. top \in S /\ top \in Nat
  <2>1. IsFiniteSet(S) /\ S \subseteq Nat /\ S # {}
    BY <1>1, <1>3, FS_Subset DEF n0, S
  <2>2. S \subseteq Int
    BY <2>1
  <2>3. top \in S
    BY <2>1, <2>2, MaxIs DEF top
  <2> QED BY <2>1, <2>3
<1>42. \A n \in R : n0 < n /\ n < top => list[n].action = "permit"
  <2>1. Among(list, S) = {n \in R : n0 < n /\ n < top}
    BY DEF Among, n0, S, top, R
  <2>2. \A n \in Among(list, S) : list[n].action = "permit"
    BY DEF S
  <2> QED BY <2>1, <2>2
<1>5. \A m \in R : m # n0 => (m \in RuleNumbers(l) <=> m \notin S)
  BY <1>2
<1>6. \A m : m \in RuleNumbers(l) /\ m # n0 => m \in R /\ m \notin S /\ l[m] = list[m]
  BY <1>2
<1>7. n0 \in RuleNumbers(l)
  BY <1>2
<1>8. ASSUME NEW p \in Permitted(list) PROVE p \in Permitted(l)
  <2>1. p \in Traffic /\ Decides(list, p, "permit")
    BY <1>8, PermittedIs
  <2>2. PICK n \in R : First(list, n, p) /\ list[n].action = "permit"
    BY <2>1 DEF Decides, R
  <2>3. Hits(list[n], p) /\ \A m \in R : m < n => ~Hits(list[m], p)
    BY <2>2 DEF First, R
  <2>4. CASE Hits(s.rule, p) /\ n0 <= n
    <3>1. \A m \in RuleNumbers(l) : m < n0 => ~Hits(l[m], p)
      <4> SUFFICES ASSUME NEW m \in RuleNumbers(l), m < n0 PROVE ~Hits(l[m], p)
        OBVIOUS
      <4>1. n0 \in Nat /\ n \in Nat
        BY <1>3, <1>4
      <4>2. m # n0
        BY <4>1
      <4>3. m \in R /\ l[m] = list[m] /\ m \in Nat
        BY <1>3, <1>6, <4>2
      <4>4. m < n
        BY <2>4, <4>1, <4>3
      <4> QED BY <2>3, <4>3, <4>4
    <3>2. First(l, n0, p)
      BY <1>2, <1>7, <2>4, <3>1 DEF First
    <3>3. Decides(l, p, "permit")
      BY <1>1, <1>2, <1>7, <3>2 DEF Decides
    <3> QED BY <2>1, <3>3, PermittedIs
  <2>5. CASE ~(Hits(s.rule, p) /\ n0 <= n)
    <3>1. n \notin S
      BY <1>1, <1>4, <2>1, <2>3, <2>5
    <3>2. n # n0
      BY <1>4, <3>1
    <3>3. n \in RuleNumbers(l) /\ l[n] = list[n]
      BY <1>5, <1>6, <3>1, <3>2
    <3>4. \A m \in RuleNumbers(l) : m < n => ~Hits(l[m], p)
      <4> SUFFICES ASSUME NEW m \in RuleNumbers(l), m < n PROVE ~Hits(l[m], p)
        OBVIOUS
      <4>1. CASE m = n0
        <5>1. n0 \in Nat /\ n \in Nat
          BY <1>3, <1>4
        <5>2. n0 <= n
          BY <4>1, <5>1
        <5> QED BY <1>2, <2>5, <4>1, <5>2
      <4>2. CASE m # n0
        BY <1>6, <2>3, <4>2
      <4> QED BY <4>1, <4>2
    <3>5. First(l, n, p)
      BY <2>3, <3>3, <3>4 DEF First
    <3>6. Decides(l, p, "permit")
      BY <2>2, <3>3, <3>5 DEF Decides
    <3> QED BY <2>1, <3>6, PermittedIs
  <2> QED BY <2>4, <2>5
<1>9. ASSUME NEW p \in Permitted(l), p \notin Permitted(list), End(p, s.side) \notin s.extra
      PROVE  FALSE
  <2>1. p \in Traffic /\ Decides(l, p, "permit")
    BY <1>9, PermittedIs
  <2>2. ~Decides(list, p, "permit")
    BY <1>9, <2>1, PermittedIs
  <2>3. PICK n \in RuleNumbers(l) : First(l, n, p) /\ l[n].action = "permit"
    BY <2>1 DEF Decides
  <2>4. Hits(l[n], p) /\ \A m \in RuleNumbers(l) : m < n => ~Hits(l[m], p)
    BY <2>3 DEF First
  <2>5. CASE n # n0
    <3>1. n \in R /\ n \notin S /\ l[n] = list[n]
      BY <1>6, <2>5
    <3>2. \A m \in R : m < n => ~Hits(list[m], p)
      <4> SUFFICES ASSUME NEW m \in R, m < n, Hits(list[m], p) PROVE FALSE
        OBVIOUS
      <4>1. CASE m \in S
        <5>1. Hits(l[n0], p)
          BY <1>1, <1>2, <2>1, <4>1
        <5>2. n0 \in Nat /\ m \in Nat /\ n \in Nat /\ n0 <= m
          BY <1>3, <1>4, <3>1, <4>1
        <5>3. n0 < n
          BY <5>2
        <5> QED BY <1>7, <2>4, <5>1, <5>3
      <4>2. CASE m \notin S
        <5>1. m # n0
          BY <1>4, <4>2
        <5>2. m \in RuleNumbers(l) /\ l[m] = list[m]
          BY <1>5, <1>6, <4>2, <5>1
        <5> QED BY <2>4, <5>2
      <4> QED BY <4>1, <4>2
    <3>3. First(list, n, p)
      BY <2>4, <3>1, <3>2 DEF First, R
    <3> QED BY <2>2, <2>3, <3>1, <3>3 DEF Decides, R
  <2>6. CASE n = n0
    <3>1. Hits(s.rule, p)
      BY <1>2, <2>4, <2>6
    <3>2. PICK k \in S : Hits(list[k], p)
      BY <1>1, <1>9, <2>1, <3>1
    <3>3. k \in R
      BY <1>1
    <3>4. PICK m \in R : First(list, m, p) /\ m <= k
      BY <3>2, <3>3, FirstExists DEF R
    <3>5. m \in Nat /\ k \in Nat /\ n0 \in Nat /\ k <= top /\ Hits(list[m], p)
      BY <1>3, <1>4, <3>3, <3>4 DEF First
    <3>6. n0 <= m
      <4> SUFFICES ASSUME m < n0 PROVE FALSE
        BY <3>5
      <4>1. m # n0 /\ m \notin S
        <5>1. m # n0
          BY <3>5
        <5>2. ~(n0 <= m)
          BY <3>5
        <5> QED BY <1>4, <5>1, <5>2
      <4>2. m \in RuleNumbers(l) /\ l[m] = list[m]
        BY <1>5, <1>6, <4>1
      <4> QED BY <2>4, <2>6, <3>5, <4>2
    <3>7. list[m].action = "permit"
      <4>1. CASE m \in S
        BY <1>1, <4>1
      <4>2. CASE m \notin S
        <5>1. m # n0 /\ m # k /\ m # top
          BY <1>4, <1>41, <4>2
        <5>2. n0 < m /\ m < top
          BY <1>41, <3>4, <3>5, <3>6, <5>1
        <5> QED BY <1>42, <5>2
      <4> QED BY <4>1, <4>2
    <3> QED BY <2>2, <3>4, <3>7 DEF Decides, R
  <2> QED BY <2>5, <2>6
<1> QED BY <1>8, <1>9 DEF l

\* That is so for the suggestions.
LEMMA SummaryAddsExtra ==
  ASSUME NEW list, Numbered(list), FormedList(list), PlainList(list), WrittenWhole(list),
         NEW known, NEW s \in SuggestSummaries(Understood(list, known)),
         \A n \in Among(list, s.replaces) : list[n].action = "permit"
  PROVE  /\ Permitted(list) \subseteq Permitted(Summed(list, s))
         /\ \A p \in Permitted(Summed(list, s)) \ Permitted(list) :
              End(p, s.side) \in s.extra
<1>1. FormedRules(Understood(list, known))
  BY UnderstoodFormed
<1>2. Widens(list, s)
  BY SummaryWidens
<1>3. PICK side, key, T, first, block :
        Summarizes(Understood(list, known), s, side, key, T, first, block)
  BY <1>1, SuggestionIs
<1>4. s.n = Min(s.replaces) /\ s.n \in s.replaces
  BY <1>1, <1>3, SuggestionFormed DEF Summarizes
<1> QED BY <1>2, <1>4, SummaryIsMore

-----------------------------------------------------------------------------
(* What the lookup finds *)

\* A group without references stands for its own lines.
LEMMA NoneNested ==
  ASSUME NEW g \in DOMAIN Groups, Nested(g) = {}
  PROVE  Expanded(g) = Own(g)
<1> DEFINE N == Cardinality(DOMAIN Groups)
           step(f, n) == f[n - 1] \cup UNION {Nested(h) : h \in f[n - 1] \cap DOMAIN Groups}
           eq(f) == f = [n \in 0..N |-> IF n = 0 THEN {g} ELSE step(f, n)]
           upTo == CHOOSE f : eq(f)
<1>1. N \in Nat /\ 0 \in 0..N /\ N \in 0..N
  <2>1. IsFiniteSet(DOMAIN Groups)
    BY RulesAssumption
  <2> QED BY <2>1, FS_CardinalityType
<1> HIDE DEF N
<1>2. \E f : eq(f)
  <2> DEFINE f == [n \in 0..N |-> {g}]
  <2>1. \A n \in 0..N : n # 0 => n - 1 \in 0..N /\ step(f, n) = {g}
    BY <1>1
  <2>2. \A n \in 0..N : (IF n = 0 THEN {g} ELSE step(f, n)) = {g}
    BY <2>1
  <2>3. f = [n \in 0..N |-> IF n = 0 THEN {g} ELSE step(f, n)]
    BY <2>2
  <2> HIDE DEF f
  <2> QED BY <2>3
<1>3. eq(upTo)
  BY <1>2
<1>4. upTo[N] = {g}
  <2> DEFINE u == upTo
             S == {n \in 0..N : u[n] = {g}}
  <2>1. \A n \in 0..N : u[n] = IF n = 0 THEN {g} ELSE step(u, n)
    BY <1>3
  <2> HIDE DEF u
  <2>2. 0 \in S
    BY <1>1, <2>1
  <2>3. \A n \in 0..N : n \in S /\ n # N => n + 1 \in S
    <3> SUFFICES ASSUME NEW n \in 0..N, u[n] = {g}, n # N PROVE n + 1 \in S
      OBVIOUS
    <3>1. n + 1 \in 0..N /\ (n + 1) - 1 = n /\ n + 1 # 0
      BY <1>1
    <3>2. u[n + 1] = step(u, n + 1)
      BY <2>1, <3>1
    <3>3. step(u, n + 1) = {g}
      BY <3>1
    <3> QED BY <3>1, <3>2, <3>3
  <2>4. \A n \in 0..N : n \in S
    <3> HIDE DEF S
    <3> QED BY <1>1, <2>2, <2>3, UpFromZero
  <2> QED BY <1>1, <2>4 DEF u
<1>5. Reached(g) = upTo[N] \cap DOMAIN Groups
  BY DEF Reached, N
<1> HIDE DEF upTo
<1>6. Reached(g) = {g}
  BY <1>4, <1>5
<1> QED BY <1>6 DEF Expanded

\* The members the lookup reads of a group that it reads whole are all there are.
LEMMA ReadMembers ==
  ASSUME NEW line, NEW g \in {line.src.group, line.dst.group, line.sport.group,
                              line.dport.group, line.service} \ {""},
         ReadWhole(line), NEW kind \in {"address", "port"},
         KindOf(g, DOMAIN Groups) = kind \/ DOMAIN Groups = {}
  PROVE  /\ Members(Flat(DOMAIN Groups), g) = Expanded(g)
         /\ \A m \in Expanded(g) : IF kind = "address" THEN m.form = "net" /\ m.lo \in Int /\ m.hi \in Int
              ELSE /\ m.op # "" /\ m.proto \in {"", "tcp", "udp", "tcp-udp"}
                   /\ m.pos \in {"", "src", "dst"}
<1>1. CASE DOMAIN Groups = {}
  <2>1. Expanded(g) = {}
    BY <1>1 DEF Expanded, Reached
  <2>2. Members(Flat(DOMAIN Groups), g) = {}
    BY <1>1 DEF Members, Flat
  <2> QED BY <2>1, <2>2
<1>2. CASE KindOf(g, DOMAIN Groups) = kind
  <2>1. g \in DOMAIN Groups /\ Groups[g].kind = kind
    BY <1>2 DEF KindOf
  <2>2. \A m \in Groups[g].members :
           IF kind = "address" THEN m.form = "net" ELSE m.form # "nested" /\ m.op # ""
    BY <2>1 DEF ReadWhole
  <2>3. Nested(g) = {} /\ Own(g) \subseteq Groups[g].members
    BY <2>2 DEF Nested, Own
  <2>4. Expanded(g) = Own(g)
    BY <2>1, <2>3, NoneNested
  <2>5. Members(Flat(DOMAIN Groups), g) = Own(g)
    BY <2>1 DEF Members, Flat
  <2>6. \A m \in Expanded(g) : IF kind = "address" THEN m.lo \in Int /\ m.hi \in Int
            ELSE /\ m.proto \in {"", "tcp", "udp", "tcp-udp"} /\ m.pos \in {"", "src", "dst"}
    BY <2>1, MembersAssumption
  <2> QED BY <2>2, <2>3, <2>4, <2>5, <2>6
<1> QED BY <1>1, <1>2

HoldsAll(a, e) == \A h \in e.lo..e.hi : AddressHolds(a, h)

\* The addresses that are asked about are a range.
LEMMA AskedIs ==
  ASSUME NEW e, IsAddress(e)
  PROVE  /\ e.lo \in Int /\ e.hi \in Int /\ e.lo <= e.hi
         /\ e.lo \in e.lo..e.hi /\ e.hi \in e.lo..e.hi
         /\ e.form = "any" => e.lo = 0 /\ e.hi = MaxAddr
<1>1. e.lo \in Int /\ e.hi \in Int
  BY DEF IsAddress, Operand
<1>2. e.lo <= e.hi
  BY DEF IsAddress
<1>3. e.form = "any" => e.lo = 0 /\ e.hi = MaxAddr
  BY DEF IsAddress, FormedAddress
<1> QED BY <1>1, <1>2, <1>3

\* The lookup finds the addresses it asks about in an operand that holds them all.
LEMMA InListIs ==
  ASSUME NEW line, NEW a \in {line.src, line.dst}, a \in Operand, FormedAddress(a),
         AddressParses(a, nexus, DOMAIN Groups), ReadWhole(line),
         a.form = "any" \/ \E h \in 0..MaxAddr : ~AddressHolds(a, h),
         NEW e, IsAddress(e), Together(a, e)
  PROVE  InList(e, Normal(a), Flat(DOMAIN Groups)) <=> HoldsAll(a, e)
<1> DEFINE b == Normal(a)
           groups == Flat(DOMAIN Groups)
<1>1. /\ b.lo = a.lo /\ b.hi = a.hi /\ b.group = a.group
      /\ b.form = "any" <=> a.form = "any"
  BY DEF Normal, Operand
<1>2. a.form # "odd" /\ a.lo \in Int /\ a.hi \in Int
  BY DEF AddressParses, Operand
<1>3. /\ e.lo \in Int /\ e.hi \in Int /\ e.lo <= e.hi
      /\ e.lo \in e.lo..e.hi /\ e.hi \in e.lo..e.hi
      /\ e.form = "any" => e.lo = 0 /\ e.hi = MaxAddr
  BY AskedIs
<1> HIDE DEF b, groups
<1>4. HoldsAll(a, e) /\ a.form # "any" => e.form # "any"
  BY <1>3 DEF HoldsAll
<1>5. CASE a.group # ""
  <2>1. a.form = "group"
    BY <1>5 DEF FormedAddress
  <2>2. KindOf(a.group, DOMAIN Groups) = "address" \/ DOMAIN Groups = {}
    BY <1>5 DEF AddressParses
  <2>3. a.group \in {line.src.group, line.dst.group, line.sport.group,
                     line.dport.group, line.service} \ {""}
    BY <1>5
  <2>4. /\ Members(groups, a.group) = Expanded(a.group)
        /\ \A m \in Expanded(a.group) : m.form = "net" /\ m.lo \in Int /\ m.hi \in Int
    BY <2>2, <2>3, ReadMembers DEF groups
  <2>5. InList(e, b, groups) <=>
          e.form # "any" /\ \E m \in Expanded(a.group) : m.lo <= e.lo /\ e.hi <= m.hi
    <3>1. InList(e, b, groups) <=> e.form # "any" /\ \E m \in Expanded(a.group) :
            IF m.form = "range" THEN m.lo <= e.lo /\ e.lo <= m.hi
            ELSE Within(<<e.lo, e.hi>>, <<m.lo, m.hi>>)
      BY <1>1, <1>5, <2>4 DEF InList
    <3>2. \A m \in Expanded(a.group) : m.form # "range"
      BY <2>4
    <3> QED BY <3>1, <3>2 DEF Within
  <2>6. ASSUME NEW m \in Expanded(a.group), m.lo <= e.lo, e.hi <= m.hi
        PROVE  HoldsAll(a, e)
    BY <1>3, <2>1, <2>4, <2>6 DEF HoldsAll, AddressHolds
  <2>7. HoldsAll(a, e) => \E m \in Expanded(a.group) : m.lo <= e.lo /\ e.hi <= m.hi
    BY <1>5 DEF Together, HoldsAll, Within
  <2> QED BY <1>4, <2>1, <2>5, <2>6, <2>7 DEF b, groups
<1>6. CASE a.group = ""
  <2>1. a.form # "group"
    BY <1>6 DEF FormedAddress
  <2>2. InList(e, b, groups) <=> a.form = "any" \/ (e.form # "any" /\ a.lo <= e.lo /\ e.hi <= a.hi)
    BY <1>1, <1>6 DEF InList, Within
  <2>3. CASE a.form = "any"
    <3>1. HoldsAll(a, e)
      BY <2>3 DEF HoldsAll, AddressHolds
    <3> QED BY <2>2, <2>3, <3>1 DEF b, groups
  <2>4. CASE a.form # "any"
    <3>1. \A h : AddressHolds(a, h) <=> a.lo <= h /\ h <= a.hi
      BY <1>2, <2>1, <2>4 DEF AddressHolds
    <3>2. HoldsAll(a, e) <=> a.lo <= e.lo /\ e.hi <= a.hi
      BY <1>2, <1>3, <3>1 DEF HoldsAll
    <3> QED BY <1>4, <2>2, <2>4, <3>2 DEF b, groups
  <2> QED BY <2>3, <2>4
<1> QED BY <1>5, <1>6

\* A member with an operator fits a question when it is of the protocol and holds
\* the port.
LEMMA FitsIs ==
  ASSUME NEW port, NEW op, op # "", NEW ports
  PROVE  PortMatches(port, op, ports) <=>
           port # NoPort /\ Inside(port, PortRanges(op, ports))
BY DEF PortMatches, Within, Inside

\* A clause of ports is satisfied by a question for a port that it holds.
LEMMA SatisfiedIs ==
  ASSUME NEW line, NEW c \in {line.sport, line.dport}, c.op # "",
         FormedPorts(c, line.proto), PortsParse(c, nexus, DOMAIN Groups), ReadWhole(line),
         NEW q, q.proto = line.proto
  PROVE  (IF c.group # ""
          THEN \E m \in Members(Flat(DOMAIN Groups), c.group) :
                 q.proto \in MemberProtocols(m, {q.proto}) /\ PortMatches(q.port, m.op, m.ports)
          ELSE c.op # "" /\ PortMatches(q.port, c.op, c.ports))
         <=> q.port # NoPort /\ PortHolds(c, q.port)
<1> DEFINE groups == Flat(DOMAIN Groups)
<1>1. CASE c.group = ""
  BY <1>1, FitsIs, PortHoldsIs
<1>2. CASE c.group # ""
  <2>1. KindOf(c.group, DOMAIN Groups) = "port" \/ DOMAIN Groups = {}
    BY <1>2 DEF PortsParse
  <2>2. c.group \in {line.src.group, line.dst.group, line.sport.group,
                     line.dport.group, line.service} \ {""}
    BY <1>2
  <2>3. /\ Members(groups, c.group) = Expanded(c.group)
        /\ \A m \in Expanded(c.group) : m.op # ""
    BY <2>1, <2>2, ReadMembers
  <2> HIDE DEF groups
  <2>4. ASSUME NEW m \in Expanded(c.group)
        PROVE  q.proto \in MemberProtocols(m, {q.proto})
    <3>1. m.proto \in {""} \cup ({"tcp", "udp"} \cap {line.proto})
      BY <1>2 DEF FormedPorts
    <3>2. m.proto = "" \/ (m.proto \notin {"", "tcp-udp"} /\ m.proto = q.proto)
      BY <3>1
    <3> QED BY <3>2, ProtocolsAre
  <2>5. \A m \in Expanded(c.group) : PortMatches(q.port, m.op, m.ports) <=>
           q.port # NoPort /\ Inside(q.port, PortRanges(m.op, m.ports))
    BY <2>3, FitsIs
  <2>6. PortHolds(c, q.port) <=>
          \E m \in Expanded(c.group) : Inside(q.port, PortRanges(m.op, m.ports))
    BY <1>2, PortHoldsIs
  <2> QED BY <1>2, <2>3, <2>4, <2>5, <2>6 DEF groups
<1> QED BY <1>1, <1>2

\* The protocols of a connection, and the ports it goes to.
Protos(q) == IF q.proto = "ip" THEN {"tcp", "udp", "icmp"} ELSE {q.proto}
Dests(q, proto) == PortsOf(proto, IF q.port = NoPort THEN 0..MaxPort ELSE {q.port})

\* What is asked is a question about packets there are.
Asks(q, reply, active) ==
    /\ Question(q) /\ Between(q) \subseteq PacketEnds
    /\ reply \in BOOLEAN /\ (reply => q.proto = "tcp")
    /\ active \subseteq Running

\* What a question has.
LEMMA QuestionHas ==
  ASSUME NEW q, Question(q)
  PROVE  /\ Protos(q) \subseteq {"tcp", "udp", "icmp"} /\ Protos(q) # {}
         /\ \A proto \in Protos(q) :
              /\ Dests(q, proto) \subseteq PortsOf(proto, 0..MaxPort) /\ Dests(q, proto) # {}
              /\ PortsOf(proto, 0..MaxPort) \subseteq 0..MaxPort
              /\ PortsOf(proto, 0..MaxPort) # {}
              /\ TypesOf(proto, q.icmp) \subseteq (IF proto = "icmp" THEN IcmpTypes ELSE {""})
              /\ TypesOf(proto, q.icmp) # {}
<1>1. q.proto \in {"ip", "tcp", "udp", "icmp"}
  BY DEF Question, Validated
<1>2. Protos(q) \subseteq {"tcp", "udp", "icmp"} /\ Protos(q) # {}
  BY <1>1 DEF Protos
<1>3. 0 \in 0..MaxPort
  BY Highest
<1>4. q.port = NoPort \/ (q.proto \in {"tcp", "udp"} /\ q.port \in 0..MaxPort)
  BY DEF Question
<1>5. ASSUME NEW proto \in Protos(q)
      PROVE  /\ Dests(q, proto) \subseteq PortsOf(proto, 0..MaxPort) /\ Dests(q, proto) # {}
             /\ PortsOf(proto, 0..MaxPort) \subseteq 0..MaxPort
             /\ PortsOf(proto, 0..MaxPort) # {}
  BY <1>3, <1>4 DEF Dests, PortsOf
<1>6. ASSUME NEW proto \in Protos(q)
      PROVE  /\ TypesOf(proto, q.icmp) \subseteq (IF proto = "icmp" THEN IcmpTypes ELSE {""})
             /\ TypesOf(proto, q.icmp) # {}
  <2>1. CASE proto # "icmp"
    BY <2>1 DEF TypesOf
  <2>2. CASE proto = "icmp"
    <3>1. q.icmp \in {""} \cup IcmpTypes
      BY DEF Question, Validated
    <3>2. IcmpTypes # {}
      BY DEF IcmpTypes
    <3> QED BY <2>2, <3>1, <3>2 DEF TypesOf
  <2> QED BY <2>1, <2>2
<1> QED BY <1>2, <1>5, <1>6

Of(q, proto, reply, active) ==
    [proto : {proto}, src : q.src.lo..q.src.hi, dst : q.dst.lo..q.dst.hi,
     sport : PortsOf(proto, 0..MaxPort), dport : Dests(q, proto),
     icmp : TypesOf(proto, q.icmp), reply : {reply}, when : {active}]

\* The packets of a connection, by protocol.
LEMMA ForwardIs ==
  ASSUME NEW q, NEW reply, NEW active, NEW p
  PROVE  p \in Forward(q, reply, active) <=>
           \E proto \in Protos(q) : p \in Of(q, proto, reply, active) /\ <<p.src, p.dst>> \in PacketEnds
<1> DEFINE of(proto) ==
             [proto : {proto}, src : q.src.lo..q.src.hi, dst : q.dst.lo..q.dst.hi,
              sport : PortsOf(proto, 0..MaxPort),
              dport : PortsOf(proto, IF q.port = NoPort THEN 0..MaxPort ELSE {q.port}),
              icmp : TypesOf(proto, q.icmp), reply : {reply}, when : {active}]
<1>1. Connections(q, reply, active) = UNION {of(proto) : proto \in Protos(q)}
  BY DEF Connections, Protos
<1>2. \A proto : of(proto) = Of(q, proto, reply, active)
  BY DEF Of, Dests
<1> HIDE DEF of
<1>3. p \in Connections(q, reply, active) <=>
        \E proto \in Protos(q) : p \in Of(q, proto, reply, active)
  BY <1>1, <1>2
<1> QED BY <1>3 DEF Forward

\* They are packets.
LEMMA ForwardHas ==
  ASSUME NEW q, NEW reply, NEW active, Asks(q, reply, active),
         NEW p \in Forward(q, reply, active)
  PROVE  /\ p \in Traffic
         /\ p.proto \in Protos(q)
         /\ p.src \in q.src.lo..q.src.hi /\ p.dst \in q.dst.lo..q.dst.hi
         /\ p.sport \in PortsOf(p.proto, 0..MaxPort) /\ p.dport \in Dests(q, p.proto)
         /\ p.icmp \in TypesOf(p.proto, q.icmp) /\ p.reply = reply /\ p.when = active
<1>1. PICK proto \in Protos(q) : p \in Of(q, proto, reply, active) /\ <<p.src, p.dst>> \in PacketEnds
  BY ForwardIs
<1>2. /\ p.proto = proto
      /\ p.src \in q.src.lo..q.src.hi /\ p.dst \in q.dst.lo..q.dst.hi
      /\ p.sport \in PortsOf(proto, 0..MaxPort) /\ p.dport \in Dests(q, proto)
      /\ p.icmp \in TypesOf(proto, q.icmp) /\ p.reply = reply /\ p.when = active
  BY <1>1 DEF Of
<1>3. proto \in {"tcp", "udp", "icmp"}
  BY QuestionHas DEF Asks
<1>4. /\ p.sport \in PortsOf(proto, 0..MaxPort) /\ p.dport \in PortsOf(proto, 0..MaxPort)
      /\ p.icmp \in (IF proto = "icmp" THEN IcmpTypes ELSE {""})
  BY <1>2, QuestionHas DEF Asks
<1>5. p.reply \in (IF proto = "tcp" THEN BOOLEAN ELSE {FALSE})
  BY <1>2 DEF Asks, Protos
<1> DEFINE S == {e[1] : e \in PacketEnds}
           D == {e[2] : e \in PacketEnds}
<1>6. p.src \in S /\ p.dst \in D
  <2> DEFINE e == <<p.src, p.dst>>
  <2>1. e \in PacketEnds /\ e[1] = p.src /\ e[2] = p.dst
    BY <1>1
  <2> HIDE DEF e
  <2> QED BY <2>1
<1>7. p.when \in SUBSET Running
  BY <1>2 DEF Asks
<1> HIDE DEF S, D
<1>8. \A ports, icmps, replies :
        p.sport \in ports /\ p.dport \in ports /\ p.icmp \in icmps /\ p.reply \in replies
          => p \in PacketsOf(proto, ports, icmps, replies)
  <2> TAKE ports, icmps, replies
  <2> HAVE p.sport \in ports /\ p.dport \in ports /\ p.icmp \in icmps /\ p.reply \in replies
  <2>1. p \in [proto : {proto}, src : S, dst : D, sport : ports, dport : ports,
               icmp : icmps, reply : replies, when : SUBSET Running]
    BY <1>1, <1>2, <1>6, <1>7 DEF Of
  <2> QED BY <2>1 DEF PacketsOf, S, D
<1>9. \/ p \in PacketsOf("tcp", 0..MaxPort, {""}, BOOLEAN)
      \/ p \in PacketsOf("udp", 0..MaxPort, {""}, {FALSE})
      \/ p \in PacketsOf("icmp", {0}, IcmpTypes, {FALSE})
  <2>1. CASE proto = "tcp"
    <3>1. /\ p.sport \in 0..MaxPort /\ p.dport \in 0..MaxPort
          /\ p.icmp \in {""} /\ p.reply \in BOOLEAN
      BY <1>4, <1>5, <2>1 DEF PortsOf
    <3> QED BY <1>8, <2>1, <3>1
  <2>2. CASE proto = "udp"
    <3>1. /\ p.sport \in 0..MaxPort /\ p.dport \in 0..MaxPort
          /\ p.icmp \in {""} /\ p.reply \in {FALSE}
      BY <1>4, <1>5, <2>2 DEF PortsOf
    <3> QED BY <1>8, <2>2, <3>1
  <2>3. CASE proto = "icmp"
    <3>1. /\ p.sport \in {0} /\ p.dport \in {0}
          /\ p.icmp \in IcmpTypes /\ p.reply \in {FALSE}
      BY <1>4, <1>5, <2>3 DEF PortsOf
    <3> QED BY <1>8, <2>3, <3>1
  <2> QED BY <1>3, <2>1, <2>2, <2>3
<1>10. p \in Traffic
  BY <1>1, <1>9 DEF Traffic
<1> QED BY <1>2, <1>10

Packet(proto, h, g, s, d, i, reply, active) ==
    [proto |-> proto, src |-> h, dst |-> g, sport |-> s, dport |-> d,
     icmp |-> i, reply |-> reply, when |-> active]

\* There is one of each pair of addresses and ports that is asked about.
LEMMA ForwardOf ==
  ASSUME NEW q, NEW reply, NEW active, Asks(q, reply, active),
         NEW proto \in Protos(q), NEW h \in q.src.lo..q.src.hi, NEW g \in q.dst.lo..q.dst.hi,
         NEW s \in PortsOf(proto, 0..MaxPort), NEW d \in Dests(q, proto),
         NEW i \in TypesOf(proto, q.icmp)
  PROVE  Packet(proto, h, g, s, d, i, reply, active) \in Forward(q, reply, active)
<1> DEFINE p == Packet(proto, h, g, s, d, i, reply, active)
<1>1. p \in Of(q, proto, reply, active)
  BY DEF Of, Packet
<1>2. <<h, g>> \in PacketEnds
  BY DEF Asks, Between
<1>3. p.src = h /\ p.dst = g
  BY DEF Packet
<1> HIDE DEF p
<1>4. p \in Forward(q, reply, active)
  BY <1>1, <1>2, <1>3, ForwardIs
<1> QED BY <1>4 DEF p

\* What such a packet is made of.
LEMMA FieldsOf ==
  ASSUME NEW proto, NEW h, NEW g, NEW s, NEW d, NEW i, NEW reply, NEW active
  PROVE  LET p == Packet(proto, h, g, s, d, i, reply, active)
         IN  /\ p.proto = proto /\ p.src = h /\ p.dst = g /\ p.sport = s /\ p.dport = d
             /\ p.icmp = i /\ p.reply = reply /\ p.when = active
BY DEF Packet

\* What a line says of protocol and ports.
PortsTaken(line, proto, s, d) ==
    IF line.service # ""
    THEN \E m \in Expanded(line.service) :
            /\ proto \in MemberProtocols(m, {"tcp", "udp"})
            /\ PortHolds(Ports(m.op, m.ports), IF m.pos = "src" THEN s ELSE d)
    ELSE /\ line.proto \in {"ip", proto}
         /\ PortHolds(line.sport, s) /\ PortHolds(line.dport, d)

\* What a line says apart from addresses and ports.
Open(line, reply, active) ==
    /\ line.time = "" \/ line.time \in active
    /\ line.established => reply

Typed(line, q) == \A proto \in Protos(q) : \A i \in TypesOf(proto, q.icmp) : line.icmp \in {"", i}

PortsThere(line, q) ==
    \A proto \in Protos(q), s \in 0..MaxPort, d \in 0..MaxPort :
        s \in PortsOf(proto, 0..MaxPort) /\ d \in Dests(q, proto) => PortsTaken(line, proto, s, d)

PortsBack(line, q) ==
    \A proto \in Protos(q), s \in 0..MaxPort, d \in 0..MaxPort :
        s \in PortsOf(proto, 0..MaxPort) /\ d \in Dests(q, proto) => PortsTaken(line, proto, d, s)

\* A line hits such a packet when its parts do.
LEMMA HitsOf ==
  ASSUME NEW line, NEW p
  PROVE  Hits(line, p) <=> /\ Open(line, p.reply, p.when)
                           /\ AddressHolds(line.src, p.src) /\ AddressHolds(line.dst, p.dst)
                           /\ PortsTaken(line, p.proto, p.sport, p.dport)
                           /\ line.icmp \in {"", p.icmp}
BY DEF Hits, Open, PortsTaken, MemberHolds

\* A question is about some packet.
LEMMA SomeAsked ==
  ASSUME NEW q, Question(q)
  PROVE  \E proto \in Protos(q), h \in q.src.lo..q.src.hi, g \in q.dst.lo..q.dst.hi :
           \E s \in PortsOf(proto, 0..MaxPort), d \in Dests(q, proto), i \in TypesOf(proto, q.icmp) : TRUE
<1>1. q.src.lo \in q.src.lo..q.src.hi /\ q.dst.lo \in q.dst.lo..q.dst.hi
  BY AskedIs DEF Question
<1>2. /\ Protos(q) # {}
      /\ \A proto \in Protos(q) : /\ PortsOf(proto, 0..MaxPort) # {} /\ Dests(q, proto) # {}
                                  /\ TypesOf(proto, q.icmp) # {}
  BY QuestionHas
<1> QED BY <1>1, <1>2

\* A line takes a connection when each of its parts does.
LEMMA TakesThere ==
  ASSUME NEW line, NEW q, NEW reply, NEW active, Asks(q, reply, active)
  PROVE  Takes(line, Forward(q, reply, active)) <=>
           /\ Open(line, reply, active)
           /\ HoldsAll(line.src, q.src) /\ HoldsAll(line.dst, q.dst)
           /\ Typed(line, q) /\ PortsThere(line, q)
<1>1. Takes(line, Forward(q, reply, active)) <=>
        \A p \in Forward(q, reply, active) : Hits(line, p)
  BY ForwardHas, HitByIs DEF Takes
<1>2. ASSUME \A p \in Forward(q, reply, active) : Hits(line, p)
      PROVE  /\ Open(line, reply, active)
             /\ HoldsAll(line.src, q.src) /\ HoldsAll(line.dst, q.dst)
             /\ Typed(line, q) /\ PortsThere(line, q)
  <2>1. \A proto \in Protos(q), h \in q.src.lo..q.src.hi, g \in q.dst.lo..q.dst.hi :
          \A s \in PortsOf(proto, 0..MaxPort), d \in Dests(q, proto), i \in TypesOf(proto, q.icmp) :
            /\ Open(line, reply, active)
            /\ AddressHolds(line.src, h) /\ AddressHolds(line.dst, g)
            /\ PortsTaken(line, proto, s, d)
            /\ line.icmp \in {"", i}
    <3> TAKE proto \in Protos(q), h \in q.src.lo..q.src.hi, g \in q.dst.lo..q.dst.hi
    <3> TAKE s \in PortsOf(proto, 0..MaxPort), d \in Dests(q, proto), i \in TypesOf(proto, q.icmp)
    <3> DEFINE p == Packet(proto, h, g, s, d, i, reply, active)
    <3>1. p \in Forward(q, reply, active)
      BY ForwardOf
    <3>2. /\ p.proto = proto /\ p.src = h /\ p.dst = g /\ p.sport = s /\ p.dport = d
          /\ p.icmp = i /\ p.reply = reply /\ p.when = active
      BY FieldsOf
    <3> HIDE DEF p
    <3>3. Hits(line, p)
      BY <1>2, <3>1
    <3> QED BY <3>2, <3>3, HitsOf
  <2>2. PICK proto \in Protos(q), h \in q.src.lo..q.src.hi, g \in q.dst.lo..q.dst.hi :
          \E s \in PortsOf(proto, 0..MaxPort), d \in Dests(q, proto), i \in TypesOf(proto, q.icmp) : TRUE
    BY SomeAsked DEF Asks
  <2>3. Open(line, reply, active) /\ HoldsAll(line.src, q.src) /\ HoldsAll(line.dst, q.dst)
    BY <2>1, <2>2 DEF HoldsAll
  <2>4. \A other \in Protos(q) : /\ PortsOf(other, 0..MaxPort) # {} /\ Dests(q, other) # {}
                                 /\ TypesOf(other, q.icmp) # {}
    BY QuestionHas DEF Asks
  <2>5. Typed(line, q)
    BY <2>1, <2>2, <2>4 DEF Typed
  <2>6. PortsThere(line, q)
    BY <2>1, <2>2, <2>4 DEF PortsThere
  <2> QED BY <2>3, <2>5, <2>6
<1>3. ASSUME /\ Open(line, reply, active)
             /\ HoldsAll(line.src, q.src) /\ HoldsAll(line.dst, q.dst)
             /\ Typed(line, q) /\ PortsThere(line, q),
             NEW p \in Forward(q, reply, active)
      PROVE  Hits(line, p)
  <2>1. /\ p \in Traffic
        /\ p.proto \in Protos(q)
        /\ p.src \in q.src.lo..q.src.hi /\ p.dst \in q.dst.lo..q.dst.hi
        /\ p.sport \in PortsOf(p.proto, 0..MaxPort) /\ p.dport \in Dests(q, p.proto)
        /\ p.icmp \in TypesOf(p.proto, q.icmp) /\ p.reply = reply /\ p.when = active
    BY ForwardHas
  <2>2. p.sport \in 0..MaxPort /\ p.dport \in 0..MaxPort
    BY <2>1, PacketHas
  <2>3. AddressHolds(line.src, p.src) /\ AddressHolds(line.dst, p.dst)
    BY <1>3, <2>1 DEF HoldsAll
  <2>4. PortsTaken(line, p.proto, p.sport, p.dport)
    BY <1>3, <2>1, <2>2 DEF PortsThere
  <2>5. line.icmp \in {"", p.icmp}
    BY <1>3, <2>1 DEF Typed
  <2> QED BY <1>3, <2>1, <2>3, <2>4, <2>5, HitsOf
<1> QED BY <1>1, <1>2, <1>3

\* The same for the way back.
LEMMA TakesBack ==
  ASSUME NEW line, NEW q, NEW reply, NEW active, Asks(q, reply, active)
  PROVE  Takes(line, Back(q, reply, active)) <=>
           /\ Open(line, reply, active)
           /\ HoldsAll(line.src, q.dst) /\ HoldsAll(line.dst, q.src)
           /\ Typed(line, q) /\ PortsBack(line, q)
<1>1. Takes(line, Back(q, reply, active)) <=>
        \A p \in Forward(q, reply, active) : Hits(line, Mirror(p))
  <2>1. \A p \in Forward(q, reply, active) : Mirror(p) \in Traffic
    BY ForwardHas, MirrorIs
  <2> QED BY <2>1, HitByIs DEF Takes, Back
<1>2. \A p \in Forward(q, reply, active) : Hits(line, Mirror(p)) <=>
        /\ Open(line, p.reply, p.when)
        /\ AddressHolds(line.src, p.dst) /\ AddressHolds(line.dst, p.src)
        /\ PortsTaken(line, p.proto, p.dport, p.sport)
        /\ line.icmp \in {"", p.icmp}
  <2> TAKE p \in Forward(q, reply, active)
  <2>1. /\ Mirror(p).src = p.dst /\ Mirror(p).dst = p.src
        /\ Mirror(p).sport = p.dport /\ Mirror(p).dport = p.sport
        /\ Mirror(p).proto = p.proto /\ Mirror(p).icmp = p.icmp
        /\ Mirror(p).reply = p.reply /\ Mirror(p).when = p.when
    BY ForwardHas, MirrorIs
  <2> DEFINE r == Mirror(p)
  <2>2. Hits(line, r) <=> /\ Open(line, r.reply, r.when)
                          /\ AddressHolds(line.src, r.src) /\ AddressHolds(line.dst, r.dst)
                          /\ PortsTaken(line, r.proto, r.sport, r.dport)
                          /\ line.icmp \in {"", r.icmp}
    BY HitsOf
  <2> QED BY <2>1, <2>2
<1>3. ASSUME \A p \in Forward(q, reply, active) : Hits(line, Mirror(p))
      PROVE  /\ Open(line, reply, active)
             /\ HoldsAll(line.src, q.dst) /\ HoldsAll(line.dst, q.src)
             /\ Typed(line, q) /\ PortsBack(line, q)
  <2>1. \A proto \in Protos(q), h \in q.src.lo..q.src.hi, g \in q.dst.lo..q.dst.hi :
          \A s \in PortsOf(proto, 0..MaxPort), d \in Dests(q, proto), i \in TypesOf(proto, q.icmp) :
            /\ Open(line, reply, active)
            /\ AddressHolds(line.src, g) /\ AddressHolds(line.dst, h)
            /\ PortsTaken(line, proto, d, s)
            /\ line.icmp \in {"", i}
    <3> TAKE proto \in Protos(q), h \in q.src.lo..q.src.hi, g \in q.dst.lo..q.dst.hi
    <3> TAKE s \in PortsOf(proto, 0..MaxPort), d \in Dests(q, proto), i \in TypesOf(proto, q.icmp)
    <3> DEFINE p == Packet(proto, h, g, s, d, i, reply, active)
    <3>1. p \in Forward(q, reply, active)
      BY ForwardOf
    <3>2. /\ p.proto = proto /\ p.src = h /\ p.dst = g /\ p.sport = s /\ p.dport = d
          /\ p.icmp = i /\ p.reply = reply /\ p.when = active
      BY FieldsOf
    <3> HIDE DEF p
    <3> QED BY <1>2, <1>3, <3>1, <3>2
  <2>2. PICK proto \in Protos(q), h \in q.src.lo..q.src.hi, g \in q.dst.lo..q.dst.hi :
          \E s \in PortsOf(proto, 0..MaxPort), d \in Dests(q, proto), i \in TypesOf(proto, q.icmp) : TRUE
    BY SomeAsked DEF Asks
  <2>3. Open(line, reply, active) /\ HoldsAll(line.src, q.dst) /\ HoldsAll(line.dst, q.src)
    BY <2>1, <2>2 DEF HoldsAll
  <2>4. \A other \in Protos(q) : /\ PortsOf(other, 0..MaxPort) # {} /\ Dests(q, other) # {}
                                 /\ TypesOf(other, q.icmp) # {}
    BY QuestionHas DEF Asks
  <2>5. Typed(line, q)
    BY <2>1, <2>2, <2>4 DEF Typed
  <2>6. PortsBack(line, q)
    BY <2>1, <2>2, <2>4 DEF PortsBack
  <2> QED BY <2>3, <2>5, <2>6
<1>4. ASSUME /\ Open(line, reply, active)
             /\ HoldsAll(line.src, q.dst) /\ HoldsAll(line.dst, q.src)
             /\ Typed(line, q) /\ PortsBack(line, q),
             NEW p \in Forward(q, reply, active)
      PROVE  Hits(line, Mirror(p))
  <2>1. /\ p \in Traffic
        /\ p.proto \in Protos(q)
        /\ p.src \in q.src.lo..q.src.hi /\ p.dst \in q.dst.lo..q.dst.hi
        /\ p.sport \in PortsOf(p.proto, 0..MaxPort) /\ p.dport \in Dests(q, p.proto)
        /\ p.icmp \in TypesOf(p.proto, q.icmp) /\ p.reply = reply /\ p.when = active
    BY ForwardHas
  <2>2. p.sport \in 0..MaxPort /\ p.dport \in 0..MaxPort
    BY <2>1, PacketHas
  <2>3. AddressHolds(line.src, p.dst) /\ AddressHolds(line.dst, p.src)
    BY <1>4, <2>1 DEF HoldsAll
  <2>4. PortsTaken(line, p.proto, p.dport, p.sport)
    BY <1>4, <2>1, <2>2 DEF PortsBack
  <2>5. line.icmp \in {"", p.icmp}
    BY <1>4, <2>1 DEF Typed
  <2> QED BY <1>2, <1>4, <2>1, <2>3, <2>4, <2>5
<1> QED BY <1>1, <1>3, <1>4

Legible(line) == Formed(line) /\ Plain(line) /\ ReadWhole(line) /\ AnyWritten(line)

There(line, q) == HoldsAll(line.src, q.src) /\ HoldsAll(line.dst, q.dst)
BackThere(line, q) == HoldsAll(line.src, q.dst) /\ HoldsAll(line.dst, q.src)

\* A clause of ports, or a member of a service group, has the port asked for.
Satisfied(c, q) == c.op # "" /\ q.port # NoPort /\ PortHolds(c, q.port)

Fitting(m, q) ==
    /\ q.proto \in {"tcp", "udp"} /\ q.proto \in MemberProtocols(m, {"tcp", "udp"})
    /\ q.port # NoPort /\ PortHolds(Ports(m.op, m.ports), q.port)

\* The addresses of a question are in a rule, there or back.
LEMMA DirectionsAre ==
  ASSUME NEW line, Legible(line), NEW q, Question(q), InOneMember(line, q)
  PROVE  LET groups == Flat(DOMAIN Groups)
             rule == Rule(line)
         IN  /\ InList(q.src, rule.src, groups) /\ InList(q.dst, rule.dst, groups) <=> There(line, q)
             /\ InList(q.src, rule.dst, groups) /\ InList(q.dst, rule.src, groups) <=> BackThere(line, q)
<1>1. /\ line.src \in Operand /\ FormedAddress(line.src)
      /\ AddressParses(line.src, nexus, DOMAIN Groups)
      /\ line.dst \in Operand /\ FormedAddress(line.dst)
      /\ AddressParses(line.dst, nexus, DOMAIN Groups)
  BY PartsOf DEF Legible
<1>2. Rule(line).src = Normal(line.src) /\ Rule(line).dst = Normal(line.dst)
  BY RuleOf DEF Legible
<1>3. \A a \in {line.src, line.dst} : a.form = "any" \/ \E h \in 0..MaxAddr : ~AddressHolds(a, h)
  BY DEF Legible, AnyWritten
<1>4. IsAddress(q.src) /\ IsAddress(q.dst) /\ ReadWhole(line)
  BY DEF Question, Legible
<1>5. ASSUME NEW a \in {line.src, line.dst}, NEW e \in {q.src, q.dst}
      PROVE  InList(e, Normal(a), Flat(DOMAIN Groups)) <=> HoldsAll(a, e)
  <2>1. Together(a, e)
    BY DEF InOneMember
  <2>2. /\ a \in Operand /\ FormedAddress(a) /\ AddressParses(a, nexus, DOMAIN Groups)
        /\ IsAddress(e)
    BY <1>1, <1>4
  <2> QED BY <1>3, <1>4, <2>1, <2>2, InListIs
<1> QED BY <1>2, <1>5 DEF There, BackThere

Satisfies(c, q) ==
    IF c.group # ""
    THEN \E m \in Members(Flat(DOMAIN Groups), c.group) :
           q.proto \in MemberProtocols(m, {q.proto}) /\ PortMatches(q.port, m.op, m.ports)
    ELSE c.op # "" /\ PortMatches(q.port, c.op, c.ports)

\* What the lookup finds of a clause of ports is that the clause holds the port.
LEMMA SatisfiesIs ==
  ASSUME NEW line, Legible(line), NEW q, line.proto \in {"ip", q.proto},
         NEW c \in {line.sport, line.dport}
  PROVE  Satisfies(c, q) <=> Satisfied(c, q)
<1>1. FormedPorts(c, line.proto)
  BY PartsOf DEF Legible
<1>2. CASE c.op = ""
  <2>1. c.group = ""
    BY <1>1, <1>2 DEF FormedPorts
  <2> QED BY <1>2, <2>1 DEF Satisfied, Satisfies
<1>3. CASE c.op # ""
  <2>1. q.proto = line.proto
    BY <1>1, <1>3 DEF FormedPorts
  <2>2. PortsParse(c, nexus, DOMAIN Groups) /\ ReadWhole(line)
    BY DEF Legible, Plain, Parses
  <2>3. (IF c.group # ""
          THEN \E m \in Members(Flat(DOMAIN Groups), c.group) :
                 q.proto \in MemberProtocols(m, {q.proto}) /\ PortMatches(q.port, m.op, m.ports)
          ELSE c.op # "" /\ PortMatches(q.port, c.op, c.ports))
         <=> q.port # NoPort /\ PortHolds(c, q.port)
    BY <1>1, <1>3, <2>1, <2>2, SatisfiedIs
  <2> QED BY <1>3, <2>3 DEF Satisfied, Satisfies
<1> QED BY <1>2, <1>3

\* A service group that the lookup reads.
LEMMA ServiceIs ==
  ASSUME NEW line, Legible(line), line.service # ""
  PROVE  /\ Members(Flat(DOMAIN Groups), line.service) = Expanded(line.service)
         /\ \A m \in Expanded(line.service) :
              m.op # "" /\ m.proto \in {"", "tcp", "udp", "tcp-udp"}
         /\ line.proto = "ip" /\ line.icmp = ""
<1>1. KindOf(line.service, DOMAIN Groups) = "port"
  BY DEF Legible, Plain, Parses
<1>2. line.service \in {line.src.group, line.dst.group, line.sport.group,
                        line.dport.group, line.service} \ {""}
  OBVIOUS
<1>3. /\ Members(Flat(DOMAIN Groups), line.service) = Expanded(line.service)
      /\ \A m \in Expanded(line.service) :
           m.op # "" /\ m.proto \in {"", "tcp", "udp", "tcp-udp"}
  BY <1>1, <1>2, ReadMembers DEF Legible
<1>4. line.proto = "ip" /\ line.icmp = ""
  BY DEF Legible, Formed
<1> QED BY <1>3, <1>4

\* What the lookup finds in a service group is a member that fits.
LEMMA FittingIs ==
  ASSUME NEW q, Question(q), NEW m, m.op # "", m.proto \in {"", "tcp", "udp", "tcp-udp"}
  PROVE  q.proto \in MemberProtocols(m, {q.proto}) /\ PortMatches(q.port, m.op, m.ports)
         <=> Fitting(m, q)
<1>1. q.port # NoPort => q.proto \in {"tcp", "udp"}
  BY DEF Question
<1>2. Ports(m.op, m.ports).group = "" /\ Ports(m.op, m.ports).op = m.op
      /\ Ports(m.op, m.ports).ports = m.ports
  BY DEF Ports
<1>3. PortMatches(q.port, m.op, m.ports) <=>
        q.port # NoPort /\ PortHolds(Ports(m.op, m.ports), q.port)
  <2>1. PortMatches(q.port, m.op, m.ports) <=>
          q.port # NoPort /\ Inside(q.port, PortRanges(m.op, m.ports))
    BY FitsIs
  <2>2. PortHolds(Ports(m.op, m.ports), q.port) <=> Inside(q.port, PortRanges(m.op, m.ports))
    BY <1>2, PortHoldsIs
  <2> QED BY <2>1, <2>2
<1>4. q.proto \in {"tcp", "udp"} =>
        (q.proto \in MemberProtocols(m, {q.proto}) <=>
         q.proto \in MemberProtocols(m, {"tcp", "udp"}))
  BY ProtocolsAre
<1> QED BY <1>1, <1>3, <1>4 DEF Fitting

\* The lookup matches when the parts of the line do.
LEMMA MatchesIs ==
  ASSUME NEW line, Legible(line), NEW q, Question(q), InOneMember(line, q)
  PROVE  RuleMatches(Rule(line), q, Flat(DOMAIN Groups)) <=>
           /\ line.proto \in {"ip", q.proto}
           /\ line.proto = "icmp" => line.icmp \in {"", q.icmp}
           /\ IF line.service # ""
              THEN \E m \in Expanded(line.service) :
                     Fitting(m, q) /\ IF m.pos = "src" THEN BackThere(line, q) ELSE There(line, q)
              ELSE IF line.sport.op = "" /\ line.dport.op = ""
              THEN There(line, q) \/ BackThere(line, q)
              ELSE \/ There(line, q) /\ Satisfied(line.dport, q)
                   \/ BackThere(line, q) /\ Satisfied(line.sport, q)
<1> DEFINE groups == Flat(DOMAIN Groups)
           rule == Rule(line)
           forward == InList(q.src, rule.src, groups) /\ InList(q.dst, rule.dst, groups)
           backward == InList(q.src, rule.dst, groups) /\ InList(q.dst, rule.src, groups)
           fits(m) == /\ q.proto \in MemberProtocols(m, {q.proto})
                      /\ PortMatches(q.port, m.op, m.ports)
           satisfies(c) ==
               IF c.group # "" THEN \E m \in Members(groups, c.group) : fits(m)
               ELSE c.op # "" /\ PortMatches(q.port, c.op, c.ports)
<1>1. /\ rule.proto = line.proto /\ rule.service = line.service /\ rule.icmp = line.icmp
      /\ rule.sport = line.sport /\ rule.dport = line.dport
  BY RuleOf DEF Legible
<1>2. (forward <=> There(line, q)) /\ (backward <=> BackThere(line, q))
  BY DirectionsAre
<1>3. RuleMatches(rule, q, groups) <=>
        /\ rule.proto \in {"ip", q.proto}
        /\ rule.proto = "icmp" => rule.icmp \in {"", q.icmp}
        /\ IF rule.service # ""
           THEN \E m \in Members(groups, rule.service) :
                    fits(m) /\ IF m.pos = "src" THEN backward ELSE forward
           ELSE IF rule.sport.op = "" /\ rule.dport.op = ""
           THEN forward \/ backward
           ELSE \/ forward /\ satisfies(rule.dport)
                \/ backward /\ satisfies(rule.sport)
  BY DEF RuleMatches
<1>4. line.proto \in {"ip", q.proto} =>
        (satisfies(line.dport) <=> Satisfied(line.dport, q))
        /\ (satisfies(line.sport) <=> Satisfied(line.sport, q))
  <2>1. \A c : satisfies(c) <=> Satisfies(c, q)
    BY DEF Satisfies
  <2> HIDE DEF satisfies
  <2> QED BY <2>1, SatisfiesIs
<1>5. line.service # "" =>
        /\ Members(groups, line.service) = Expanded(line.service)
        /\ \A m \in Expanded(line.service) : fits(m) <=> Fitting(m, q)
  BY ServiceIs, FittingIs
<1> HIDE DEF groups, rule, forward, backward, fits, satisfies
<1>6. CASE line.service # ""
  BY <1>1, <1>2, <1>3, <1>5, <1>6 DEF groups, rule
<1>7. CASE line.service = ""
  BY <1>1, <1>2, <1>3, <1>4, <1>7 DEF groups, rule
<1> QED BY <1>6, <1>7

\* The types of a connection are those of the line.
LEMMA TypedIs ==
  ASSUME NEW line, Legible(line), NEW q, Question(q), line.proto \in {"ip", q.proto}
  PROVE  Typed(line, q) <=> (line.proto = "icmp" => line.icmp \in {"", q.icmp})
<1>1. line.icmp # "" => line.proto = "icmp"
  BY DEF Legible, Formed
<1>2. CASE line.proto # "icmp"
  BY <1>1, <1>2 DEF Typed
<1>3. CASE line.proto = "icmp"
  <2>1. q.proto = "icmp" /\ Protos(q) = {"icmp"}
    BY <1>3 DEF Protos
  <2>2. Typed(line, q) <=> \A i \in TypesOf("icmp", q.icmp) : line.icmp \in {"", i}
    BY <2>1 DEF Typed
  <2>3. CASE q.icmp = ""
    <3>1. TypesOf("icmp", q.icmp) = {"echo", "echo-reply"}
      BY <2>3 DEF TypesOf, IcmpTypes
    <3>2. (\A i \in {"echo", "echo-reply"} : line.icmp \in {"", i}) <=> line.icmp = ""
      OBVIOUS
    <3> QED BY <1>3, <2>2, <2>3, <3>1, <3>2
  <2>4. CASE q.icmp # ""
    <3>1. TypesOf("icmp", q.icmp) = {q.icmp}
      BY <2>4 DEF TypesOf
    <3> QED BY <1>3, <2>2, <3>1
  <2> QED BY <2>3, <2>4
<1> QED BY <1>2, <1>3

\* The protocols a line may name, and those asked about.
LEMMA ProtosAre ==
  ASSUME NEW q, Question(q), NEW proto
  PROVE  (\A r \in Protos(q) : proto \in {"ip", r}) <=> proto \in {"ip", q.proto}
BY DEF Protos

\* The ports of a question for TCP or UDP.
LEMMA PortsAsked ==
  ASSUME NEW q, Question(q), q.proto \in {"tcp", "udp"}
  PROVE  /\ Protos(q) = {q.proto} /\ PortsOf(q.proto, 0..MaxPort) = 0..MaxPort
         /\ Dests(q, q.proto) = (IF q.port = NoPort THEN 0..MaxPort ELSE {q.port})
         /\ q.port # NoPort => q.port \in 0..MaxPort
         /\ 0 \in 0..MaxPort
BY Highest DEF Protos, PortsOf, Dests, Question

\* An end that a line with ports says nothing of takes every port, the other one the
\* port asked for alone.
LEMMA PlainClauses ==
  ASSUME NEW line, Legible(line), NEW c \in {line.sport, line.dport}
  PROVE  /\ c.op = "" => \A x \in 0..MaxPort : PortHolds(c, x)
         /\ c.op # "" => /\ line.proto \in {"tcp", "udp"}
                         /\ \E x \in 0..MaxPort : ~PortHolds(c, x)
<1>1. FormedPorts(c, line.proto)
  BY PartsOf DEF Legible
<1>2. c.op = "" => \A x \in 0..MaxPort : PortHolds(c, x)
  BY <1>1, NoPosition
<1>3. c.op # "" => line.proto \in {"tcp", "udp"}
  BY <1>1 DEF FormedPorts
<1>4. c.op # "" => \E x \in 0..MaxPort : ~PortHolds(c, x)
  BY DEF Legible, AnyWritten
<1> QED BY <1>2, <1>3, <1>4

\* A line takes the ports of a question there, or back, when its clauses do.
LEMMA PortsThereAre ==
  ASSUME NEW line, Legible(line), line.service = "", NEW q, Question(q)
  PROVE  /\ PortsThere(line, q) <=> /\ line.proto \in {"ip", q.proto} /\ line.sport.op = ""
                                    /\ line.dport.op = "" \/ Satisfied(line.dport, q)
         /\ PortsBack(line, q) <=> /\ line.proto \in {"ip", q.proto} /\ line.dport.op = ""
                                   /\ line.sport.op = "" \/ Satisfied(line.sport, q)
<1> DEFINE S(proto) == {s \in 0..MaxPort : s \in PortsOf(proto, 0..MaxPort)}
           D(proto) == {d \in 0..MaxPort : d \in Dests(q, proto)}
           c == line.sport
           e == line.dport
<1>1. \A proto, s, d : PortsTaken(line, proto, s, d) <=>
        line.proto \in {"ip", proto} /\ PortHolds(c, s) /\ PortHolds(e, d)
  BY DEF PortsTaken
<1>2. \A proto \in Protos(q) : S(proto) # {} /\ D(proto) # {}
  <2> TAKE proto \in Protos(q)
  <2>1. /\ Dests(q, proto) \subseteq PortsOf(proto, 0..MaxPort) /\ Dests(q, proto) # {}
        /\ PortsOf(proto, 0..MaxPort) \subseteq 0..MaxPort
        /\ PortsOf(proto, 0..MaxPort) # {}
    BY QuestionHas
  <2> QED BY <2>1
<1>3. PortsThere(line, q) <=>
        \A proto \in Protos(q) : \A s \in S(proto), d \in D(proto) :
           line.proto \in {"ip", proto} /\ PortHolds(c, s) /\ PortHolds(e, d)
  BY <1>1 DEF PortsThere
<1>4. PortsBack(line, q) <=>
        \A proto \in Protos(q) : \A s \in S(proto), d \in D(proto) :
           line.proto \in {"ip", proto} /\ PortHolds(c, d) /\ PortHolds(e, s)
  BY <1>1 DEF PortsBack
<1>5. \A proto \in Protos(q) : S(proto) \subseteq 0..MaxPort /\ D(proto) \subseteq 0..MaxPort
  OBVIOUS
<1>6. CASE line.proto \notin {"ip", q.proto}
  <2>1. PICK r \in Protos(q) : line.proto \notin {"ip", r}
    BY <1>6, ProtosAre
  <2> HIDE DEF S, D, c, e
  <2>2. ~PortsThere(line, q) /\ ~PortsBack(line, q)
    BY <1>2, <1>3, <1>4, <2>1
  <2> QED BY <1>6, <2>2
<1>7. CASE line.proto \in {"ip", q.proto}
  <2>1. \A proto \in Protos(q) : line.proto \in {"ip", proto}
    BY <1>7, ProtosAre
  <2>2. CASE c.op = "" /\ e.op = ""
    <3>1. \A x \in 0..MaxPort : PortHolds(c, x) /\ PortHolds(e, x)
      BY <2>2, PlainClauses
    <3> HIDE DEF S, D
    <3> QED BY <1>3, <1>4, <1>5, <1>7, <2>1, <2>2, <3>1
  <2>3. CASE c.op # "" \/ e.op # ""
    <3>1. line.proto \in {"tcp", "udp"} /\ q.proto = line.proto
      BY <1>7, <2>3, PlainClauses
    <3>2. /\ Protos(q) = {q.proto} /\ S(q.proto) = 0..MaxPort
          /\ D(q.proto) = (IF q.port = NoPort THEN 0..MaxPort ELSE {q.port})
          /\ 0 \in 0..MaxPort
      BY <3>1, PortsAsked
    <3> HIDE DEF S, D, c, e
    <3>3. PortsThere(line, q) <=> /\ \A s \in 0..MaxPort : PortHolds(c, s)
                                  /\ \A d \in D(q.proto) : PortHolds(e, d)
      BY <1>2, <1>3, <2>1, <3>2
    <3>4. PortsBack(line, q) <=> /\ \A s \in 0..MaxPort : PortHolds(e, s)
                                 /\ \A d \in D(q.proto) : PortHolds(c, d)
      BY <1>2, <1>4, <2>1, <3>2
    <3>5. \A x \in {c, e} : (\A s \in 0..MaxPort : PortHolds(x, s)) <=> x.op = ""
      BY PlainClauses DEF c, e
    <3>6. \A x \in {c, e} : (\A d \in D(q.proto) : PortHolds(x, d)) <=>
                              x.op = "" \/ Satisfied(x, q)
      <4> TAKE x \in {c, e}
      <4>1. CASE q.port = NoPort
        BY <3>2, <3>5, <4>1 DEF Satisfied
      <4>2. CASE q.port # NoPort
        <5>1. D(q.proto) = {q.port} /\ q.port \in 0..MaxPort
          BY <3>1, <3>2, <4>2, PortsAsked
        <5> QED BY <3>5, <4>2, <5>1 DEF Satisfied
      <4> QED BY <4>1, <4>2
    <3> QED BY <1>7, <3>3, <3>4, <3>5, <3>6 DEF c, e
  <2> QED BY <2>2, <2>3
<1> QED BY <1>6, <1>7

\* A service group takes a connection when a member of the right end does.
LEMMA ServicePorts ==
  ASSUME NEW line, Legible(line), line.service # "", NEW q, Question(q)
  PROVE  /\ PortsThere(line, q) <=> \E m \in Expanded(line.service) : Fitting(m, q) /\ m.pos # "src"
         /\ PortsBack(line, q) <=> \E m \in Expanded(line.service) : Fitting(m, q) /\ m.pos = "src"
<1> DEFINE M == Expanded(line.service)
           of(m, proto) == proto \in MemberProtocols(m, {"tcp", "udp"})
           holds(m, x) == PortHolds(Ports(m.op, m.ports), x)
<1>1. \A proto, s, d : PortsTaken(line, proto, s, d) <=>
        \E m \in M : of(m, proto) /\ holds(m, IF m.pos = "src" THEN s ELSE d)
  BY DEF PortsTaken
<1>2. \A m \in M : m.pos \in {"", "src", "dst"}
  <2>1. KindOf(line.service, DOMAIN Groups) = "port"
    BY DEF Legible, Plain, Parses
  <2>2. line.service \in DOMAIN Groups /\ Groups[line.service].kind = "port"
    BY <2>1 DEF KindOf
  <2> QED BY <2>2, MembersAssumption
<1>3. \A proto \in {"tcp", "udp"}, ends \in {{"src"}, {"", "dst"}} :
        \E x \in 0..MaxPort : \A m \in M : m.pos \in ends /\ of(m, proto) => ~holds(m, x)
  BY DEF Legible, AnyWritten
<1> HIDE DEF M
<1>4. CASE q.proto \in {"ip", "icmp"}
  <2>1. "icmp" \in Protos(q)
    BY <1>4 DEF Protos
  <2>2. PICK s \in 0..MaxPort, d \in 0..MaxPort :
          s \in PortsOf("icmp", 0..MaxPort) /\ d \in Dests(q, "icmp")
    BY <2>1, QuestionHas
  <2>3. ~PortsTaken(line, "icmp", s, d) /\ ~PortsTaken(line, "icmp", d, s)
    <3>1. \A m \in M : ~of(m, "icmp")
      <4> SUFFICES ASSUME NEW m \in M, of(m, "icmp") PROVE FALSE
        OBVIOUS
      <4>1. m.proto \in {"", "tcp", "udp", "tcp-udp"}
        BY ServiceIs DEF M
      <4>2. MemberProtocols(m, {"tcp", "udp"}) \subseteq {"tcp", "udp"}
        BY <4>1, ProtocolsAre
      <4> QED BY <4>2
    <3> HIDE DEF of, holds
    <3> QED BY <1>1, <3>1
  <2>4. ~PortsThere(line, q) /\ ~PortsBack(line, q)
    BY <2>1, <2>2, <2>3 DEF PortsThere, PortsBack
  <2>5. \A m : ~Fitting(m, q)
    BY <1>4 DEF Fitting
  <2> QED BY <2>4, <2>5
<1>5. CASE q.proto \in {"tcp", "udp"}
  <2>1. /\ Protos(q) = {q.proto} /\ PortsOf(q.proto, 0..MaxPort) = 0..MaxPort
        /\ Dests(q, q.proto) = (IF q.port = NoPort THEN 0..MaxPort ELSE {q.port})
        /\ q.port # NoPort => q.port \in 0..MaxPort
    BY <1>5, PortsAsked
  <2>2. PICK s0 \in 0..MaxPort : \A m \in M : m.pos = "src" /\ of(m, q.proto) => ~holds(m, s0)
    <3>1. {"src"} \in {{"src"}, {"", "dst"}}
      OBVIOUS
    <3> HIDE DEF of, holds
    <3>2. \E x \in 0..MaxPort : \A m \in M : m.pos \in {"src"} /\ of(m, q.proto) => ~holds(m, x)
      BY <1>3, <1>5, <3>1
    <3> QED BY <3>2
  <2>3. PICK d0 \in 0..MaxPort : \A m \in M : m.pos # "src" /\ of(m, q.proto) => ~holds(m, d0)
    <3>1. {"", "dst"} \in {{"src"}, {"", "dst"}}
      OBVIOUS
    <3> HIDE DEF of, holds
    <3>2. \E x \in 0..MaxPort : \A m \in M : m.pos \in {"", "dst"} /\ of(m, q.proto) => ~holds(m, x)
      BY <1>3, <1>5, <3>1
    <3> QED BY <1>2, <3>2
  <2>4. PortsThere(line, q) <=> \A s \in 0..MaxPort, d \in 0..MaxPort :
          d \in Dests(q, q.proto) => PortsTaken(line, q.proto, s, d)
    BY <2>1 DEF PortsThere
  <2>5. PortsBack(line, q) <=> \A s \in 0..MaxPort, d \in 0..MaxPort :
          d \in Dests(q, q.proto) => PortsTaken(line, q.proto, d, s)
    BY <2>1 DEF PortsBack
  <2>6. \A m : Fitting(m, q) <=> of(m, q.proto) /\ q.port # NoPort /\ holds(m, q.port)
    BY <1>5 DEF Fitting
  <2> HIDE DEF of, holds
  <2>7. CASE q.port = NoPort
    <3>1. ~PortsTaken(line, q.proto, s0, d0)
      BY <1>1, <2>2, <2>3
    <3>2. s0 \in Dests(q, q.proto) /\ d0 \in Dests(q, q.proto)
      BY <2>1, <2>7
    <3>3. ~PortsThere(line, q) /\ ~PortsBack(line, q)
      BY <2>4, <2>5, <3>1, <3>2
    <3> QED BY <2>6, <2>7, <3>3
  <2>8. CASE q.port # NoPort
    <3>1. Dests(q, q.proto) = {q.port} /\ q.port \in 0..MaxPort
      BY <2>1, <2>8
    <3>2. PortsThere(line, q) <=> \A s \in 0..MaxPort : PortsTaken(line, q.proto, s, q.port)
      BY <2>4, <3>1
    <3>3. PortsBack(line, q) <=> \A s \in 0..MaxPort : PortsTaken(line, q.proto, q.port, s)
      BY <2>5, <3>1
    <3>4. PortsTaken(line, q.proto, s0, q.port) =>
            \E m \in M : of(m, q.proto) /\ m.pos # "src" /\ holds(m, q.port)
      BY <1>1, <2>2
    <3>5. PortsTaken(line, q.proto, q.port, d0) =>
            \E m \in M : of(m, q.proto) /\ m.pos = "src" /\ holds(m, q.port)
      BY <1>1, <2>3
    <3>6. \A m \in M : of(m, q.proto) /\ m.pos # "src" /\ holds(m, q.port) =>
            \A s : PortsTaken(line, q.proto, s, q.port)
      BY <1>1
    <3>7. \A m \in M : of(m, q.proto) /\ m.pos = "src" /\ holds(m, q.port) =>
            \A s : PortsTaken(line, q.proto, q.port, s)
      BY <1>1
    <3> QED BY <2>6, <2>8, <3>2, <3>3, <3>4, <3>5, <3>6, <3>7 DEF M
  <2> QED BY <2>7, <2>8
<1>6. q.proto \in {"ip", "tcp", "udp", "icmp"}
  BY DEF Question, Validated
<1> QED BY <1>4, <1>5, <1>6

\* A schedule the switch has is active when it is among those in force.
LEMMA ActiveIs ==
  ASSUME NEW line, Legible(line), NEW reply, NEW active
  PROVE  /\ Open(line, reply, active) => IsActive(Rule(line).time, active)
         /\ IsActive(Rule(line).time, active) /\ Scheduled(line) /\ (line.established => reply)
              => Open(line, reply, active)
<1>1. Rule(line).time = line.time
  BY RuleOf DEF Legible
<1>2. "" \notin DOMAIN Schedules
  BY RulesAssumption
<1> QED BY <1>1, <1>2 DEF IsActive, Open, Scheduled

\* What a line takes of a question, there or back.
LEMMA TakenIs ==
  ASSUME NEW line, Legible(line), NEW q, NEW reply, NEW active, Asks(q, reply, active)
  PROVE  Takes(line, Forward(q, reply, active)) \/ Takes(line, Back(q, reply, active)) <=>
           /\ Open(line, reply, active)
           /\ line.proto \in {"ip", q.proto}
           /\ line.proto = "icmp" => line.icmp \in {"", q.icmp}
           /\ IF line.service # ""
              THEN \E m \in Expanded(line.service) :
                     Fitting(m, q) /\ IF m.pos = "src" THEN BackThere(line, q) ELSE There(line, q)
              ELSE IF line.sport.op = "" /\ line.dport.op = ""
              THEN There(line, q) \/ BackThere(line, q)
              ELSE \/ There(line, q) /\ Satisfied(line.dport, q)
                   \/ BackThere(line, q) /\ Satisfied(line.sport, q)
<1>1. Question(q)
  BY DEF Asks
<1>2. /\ Takes(line, Forward(q, reply, active)) <=>
           Open(line, reply, active) /\ There(line, q) /\ Typed(line, q) /\ PortsThere(line, q)
      /\ Takes(line, Back(q, reply, active)) <=>
           Open(line, reply, active) /\ BackThere(line, q) /\ Typed(line, q) /\ PortsBack(line, q)
  BY TakesThere, TakesBack DEF There, BackThere
<1>3. line.proto \in {"ip", q.proto} =>
        (Typed(line, q) <=> (line.proto = "icmp" => line.icmp \in {"", q.icmp}))
  BY <1>1, TypedIs
<1>4. CASE line.service # ""
  <2>1. /\ PortsThere(line, q) <=> \E m \in Expanded(line.service) : Fitting(m, q) /\ m.pos # "src"
        /\ PortsBack(line, q) <=> \E m \in Expanded(line.service) : Fitting(m, q) /\ m.pos = "src"
    BY <1>1, <1>4, ServicePorts
  <2>2. line.proto = "ip"
    BY <1>4, ServiceIs
  <2> QED BY <1>2, <1>3, <1>4, <2>1, <2>2
<1>5. CASE line.service = ""
  <2>1. /\ PortsThere(line, q) <=> /\ line.proto \in {"ip", q.proto} /\ line.sport.op = ""
                                   /\ line.dport.op = "" \/ Satisfied(line.dport, q)
        /\ PortsBack(line, q) <=> /\ line.proto \in {"ip", q.proto} /\ line.dport.op = ""
                                  /\ line.sport.op = "" \/ Satisfied(line.sport, q)
    BY <1>1, <1>5, PortsThereAre
  <2>2. line.sport.op = "" \/ line.dport.op = ""
    BY DEF Legible, Plain
  <2>3. \A c : Satisfied(c, q) => c.op # ""
    BY DEF Satisfied
  <2> QED BY <1>2, <1>3, <1>5, <2>1, <2>2, <2>3
<1> QED BY <1>4, <1>5

\* The lookup matches a question with a line exactly when the line takes all packets
\* of it, there or back.
LEMMA LookupIsTraffic ==
  ASSUME NEW line, Legible(line), NEW q, NEW reply, NEW active, Asks(q, reply, active),
         InOneMember(line, q)
  PROVE  /\ Takes(line, Forward(q, reply, active)) \/ Takes(line, Back(q, reply, active))
              => Considered(line, q, nexus, DOMAIN Groups, active)
         /\ Considered(line, q, nexus, DOMAIN Groups, active)
              /\ Scheduled(line) /\ (line.established => reply)
              => Takes(line, Forward(q, reply, active)) \/ Takes(line, Back(q, reply, active))
<1> DEFINE taken == Takes(line, Forward(q, reply, active)) \/ Takes(line, Back(q, reply, active))
           matches == RuleMatches(Rule(line), q, Flat(DOMAIN Groups))
           open == Open(line, reply, active)
           isActive == IsActive(Rule(line).time, active)
<1>1. Question(q)
  BY DEF Asks
<1>2. taken <=> open /\ matches
  BY <1>1, TakenIs, MatchesIs
<1>3. Considered(line, q, nexus, DOMAIN Groups, active) <=> isActive /\ matches
  BY DEF Considered, Legible, Plain
<1>4. /\ open => isActive
      /\ isActive /\ Scheduled(line) /\ (line.established => reply) => open
  BY ActiveIs
<1> QED BY <1>2, <1>3, <1>4

-----------------------------------------------------------------------------
(* What a request asks for, and gets *)

\* A request without groups asks for addresses, and for ports of its own.
LEMMA PlainRequest ==
  ASSUME NEW nx \in BOOLEAN, NEW req \in Requests(nx), ~UsesGroups(req)
  PROVE  /\ Request(req, nx) /\ Validated(req)
         /\ IsAddress(req.src) /\ IsAddress(req.dst) /\ Between(req) \subseteq PacketEnds
         /\ req.src.group = "" /\ req.dst.group = "" /\ req.port.group = ""
         /\ req.port.op \in {"", "eq", "range"} /\ Operated(req.port.op, req.port.ports)
         /\ req.port.op # "" =>
              /\ req.proto \in {"tcp", "udp"}
              /\ \A i \in DOMAIN req.port.ports : req.port.ports[i] \in 1..MaxPort
         /\ req.port.op = "range" => req.port.ports[1] < req.port.ports[2]
<1>1. Request(req, nx) /\ Between(req) \subseteq PacketEnds
  BY ListsAssumption
<1>2. req.src.group = "" /\ req.dst.group = "" /\ req.port.group = ""
  BY DEF UsesGroups
<1>3. Validated(req) /\ ValidPort(req.port) /\ (req.port.op = "portgroup" <=> req.port.group # "")
  BY <1>1 DEF Request
<1>4. IsAddress(req.src) /\ IsAddress(req.dst)
  BY <1>1, <1>2 DEF Request, FormedAddress
<1>5. FormedPorts(req.port, req.proto)
  BY <1>1, <1>2 DEF Request
<1>6. req.port.op \in {"", "eq", "range"}
  BY <1>2, <1>3 DEF ValidPort
<1>7. /\ req.port.op # "" => \A i \in DOMAIN req.port.ports : req.port.ports[i] \in 1..MaxPort
      /\ req.port.op = "range" => req.port.ports[1] < req.port.ports[2]
  BY <1>3, <1>6 DEF ValidPort
<1> QED BY <1>1, <1>2, <1>3, <1>4, <1>5, <1>6, <1>7 DEF FormedPorts

\* What a sample of a request has.
LEMMA SampleIs ==
  ASSUME NEW req, NEW q \in Samples(req)
  PROVE  /\ q.proto = req.proto /\ q.icmp = req.icmp
         /\ q.src \in AddressProbes(req.src) /\ q.dst \in AddressProbes(req.dst)
         /\ q.port \in PortProbes(req.port)
BY DEF Samples

\* A probe of addresses is a host of them, or all.
LEMMA ProbeIs ==
  ASSUME NEW a, IsAddress(a), NEW e \in AddressProbes(a)
  PROVE  /\ IsAddress(e) /\ a.lo <= e.lo /\ e.hi <= a.hi /\ HoldsAll(a, e)
         /\ e.lo = e.hi \/ (e.lo = 0 /\ e.hi = MaxAddr)
         /\ e.form = "any" => a.form = "any"
<1>1. /\ a.lo \in Int /\ a.hi \in Int /\ a.lo <= a.hi
      /\ a.form = "any" => a.lo = 0 /\ a.hi = MaxAddr
  BY AskedIs
<1>2. 0 <= a.lo /\ a.hi <= MaxAddr /\ a.form \in {"any", "host", "net"}
  BY DEF IsAddress
<1>3. MaxAddr \in Int
  BY Widest
<1>4. CASE a.form = "any"
  <2>1. e = AnyAddress
    BY <1>4 DEF AddressProbes
  <2>2. /\ e.form = "any" /\ e.lo = 0 /\ e.hi = MaxAddr
        /\ e \in Operand /\ FormedAddress(e)
    BY <2>1, AnyAddressIs
  <2>3. 0 <= e.lo /\ e.lo <= e.hi /\ e.hi <= MaxAddr
    BY <1>1, <1>2, <1>3, <1>4, <2>2
  <2>4. IsAddress(e)
    BY <2>2, <2>3 DEF IsAddress
  <2>5. HoldsAll(a, e)
    BY <1>4 DEF HoldsAll, AddressHolds
  <2>6. a.lo <= e.lo /\ e.hi <= a.hi
    BY <1>1, <1>3, <1>4, <2>2
  <2> QED BY <1>4, <2>2, <2>4, <2>5, <2>6
<1>5. CASE a.form # "any"
  <2>1. PICK h \in a.lo..a.hi : e = Host(h)
    BY <1>5 DEF AddressProbes
  <2>2. h \in Int /\ a.lo <= h /\ h <= a.hi
    BY <1>1, <2>1
  <2>3. /\ e.form = "host" /\ e.lo = h /\ e.hi = h
        /\ e \in Operand /\ FormedAddress(e)
    BY <2>1, <2>2, HostIs
  <2>4. 0 <= e.lo /\ e.lo <= e.hi /\ e.hi <= MaxAddr
    BY <1>1, <1>2, <1>3, <2>2, <2>3
  <2>5. IsAddress(e)
    BY <2>3, <2>4 DEF IsAddress
  <2>6. AddressHolds(a, h)
    BY <1>2, <1>5, <2>2 DEF AddressHolds
  <2>7. HoldsAll(a, e)
    <3>1. \A x \in h..h : x = h
      BY <2>2
    <3> QED BY <2>3, <2>6, <3>1 DEF HoldsAll
  <2> QED BY <2>2, <2>3, <2>5, <2>7
<1> QED BY <1>4, <1>5

\* A sample is a question about packets there are.
LEMMA SamplesAsk ==
  ASSUME NEW nx \in BOOLEAN, NEW req \in Requests(nx), ~UsesGroups(req),
         NEW q \in Samples(req), NEW active, active \subseteq Running,
         NEW swapped \in BOOLEAN
  PROVE  Asks(q, req.established /\ swapped, active)
<1>1. /\ Request(req, nx) /\ Validated(req)
      /\ IsAddress(req.src) /\ IsAddress(req.dst) /\ Between(req) \subseteq PacketEnds
  BY PlainRequest
<1>2. /\ q.proto = req.proto /\ q.icmp = req.icmp
      /\ q.src \in AddressProbes(req.src) /\ q.dst \in AddressProbes(req.dst)
      /\ q.port \in PortProbes(req.port)
  BY SampleIs
<1>3. /\ IsAddress(q.src) /\ req.src.lo <= q.src.lo /\ q.src.hi <= req.src.hi
      /\ IsAddress(q.dst) /\ req.dst.lo <= q.dst.lo /\ q.dst.hi <= req.dst.hi
      /\ q.src.form = "any" => req.src.form = "any"
      /\ q.dst.form = "any" => req.dst.form = "any"
  BY <1>1, <1>2, ProbeIs
<1>4. /\ req.src.lo \in Int /\ req.src.hi \in Int /\ req.dst.lo \in Int /\ req.dst.hi \in Int
      /\ q.src.lo \in Int /\ q.src.hi \in Int /\ q.dst.lo \in Int /\ q.dst.hi \in Int
  BY <1>1, <1>3, AskedIs
<1>5. Between(q) \subseteq PacketEnds
  <2>1. /\ q.src.lo..q.src.hi \subseteq req.src.lo..req.src.hi
        /\ q.dst.lo..q.dst.hi \subseteq req.dst.lo..req.dst.hi
    BY <1>3, <1>4
  <2> QED BY <1>1, <2>1 DEF Between
<1>6. q.port \in {NoPort} \cup (IF q.proto \in {"tcp", "udp"} THEN 1..MaxPort ELSE {})
  <2>1. /\ req.port.op # "" =>
              /\ req.proto \in {"tcp", "udp"}
              /\ \A i \in DOMAIN req.port.ports : req.port.ports[i] \in 1..MaxPort
    BY PlainRequest
  <2> QED BY <1>2, <2>1 DEF PortProbes
<1>7. Validated(q)
  BY <1>1, <1>2, <1>3 DEF Validated
<1>8. req.established \in BOOLEAN /\ (req.established => req.proto = "tcp")
  BY <1>1 DEF Request
<1> QED BY <1>2, <1>3, <1>5, <1>6, <1>7, <1>8 DEF Asks, Question

\* A host is in one member, and no group of a legible line has all addresses.
LEMMA SamplesInOne ==
  ASSUME NEW line, Legible(line), NEW nx \in BOOLEAN, NEW req \in Requests(nx),
         ~UsesGroups(req), NEW q \in Samples(req)
  PROVE  InOneMember(line, q)
<1>1. IsAddress(req.src) /\ IsAddress(req.dst)
  BY PlainRequest
<1>2. q.src \in AddressProbes(req.src) /\ q.dst \in AddressProbes(req.dst)
  BY SampleIs
<1>3. ASSUME NEW a \in {line.src, line.dst}, NEW e \in {q.src, q.dst}, a.group # "",
             \A h \in e.lo..e.hi : AddressHolds(a, h)
      PROVE  \E m \in Expanded(a.group) : Within(<<e.lo, e.hi>>, <<m.lo, m.hi>>)
  <2>1. IsAddress(e) /\ (e.lo = e.hi \/ (e.lo = 0 /\ e.hi = MaxAddr))
    BY <1>1, <1>2, ProbeIs
  <2>2. e.lo \in e.lo..e.hi
    BY <2>1, AskedIs
  <2>3. FormedAddress(a)
    BY PartsOf DEF Legible
  <2>4. a.form = "group"
    BY <1>3, <2>3 DEF FormedAddress
  <2>5. \E h \in 0..MaxAddr : ~AddressHolds(a, h)
    BY <2>4 DEF Legible, AnyWritten
  <2>6. e.lo = e.hi
    BY <1>3, <2>1, <2>5
  <2>7. PICK m \in Expanded(a.group) : m.lo <= e.lo /\ e.lo <= m.hi
    BY <1>3, <2>2, <2>4 DEF AddressHolds
  <2> QED BY <2>6, <2>7 DEF Within
<1> QED BY <1>3 DEF InOneMember, Together

\* The ports of a request hold each of their probes.
LEMMA ProbedPorts ==
  ASSUME NEW nx \in BOOLEAN, NEW req \in Requests(nx), ~UsesGroups(req),
         NEW q \in Samples(req), NEW d \in Dests(q, req.proto), d \in 0..MaxPort
  PROVE  PortHolds(req.port, d)
<1> DEFINE c == req.port
<1>1. /\ c.group = "" /\ c.op \in {"", "eq", "range"} /\ Operated(c.op, c.ports)
      /\ c.op # "" => /\ req.proto \in {"tcp", "udp"}
                      /\ \A i \in DOMAIN c.ports : c.ports[i] \in 1..MaxPort
      /\ c.op = "range" => c.ports[1] < c.ports[2]
  BY PlainRequest
<1>2. q.port \in PortProbes(c) /\ q.proto = req.proto
  BY SampleIs
<1> HIDE DEF c
<1>3. PortHolds(c, d) <=> Inside(d, PortRanges(c.op, c.ports))
  BY <1>1, PortHoldsIs
<1>4. CASE c.op = ""
  BY <1>3, <1>4, EveryPort DEF c
<1>5. CASE c.op # ""
  <2>1. PICK i \in DOMAIN c.ports : q.port = c.ports[i]
    BY <1>2, <1>5 DEF PortProbes
  <2>2. q.port \in 0..MaxPort
    <3>1. q.port \in 1..MaxPort
      BY <1>1, <1>5, <2>1
    <3>2. 1..MaxPort \subseteq 0..MaxPort
      BY Highest
    <3> QED BY <3>1, <3>2
  <2>3. q.port # NoPort
    BY <2>2 DEF NoPort
  <2>4. d = q.port
    BY <1>1, <1>5, <2>3 DEF Dests, PortsOf
  <2>5. c.ports \in Seq(Int)
    BY <1>1 DEF Operated
  <2>6. CASE c.op = "eq"
    <3>1. PortRanges(c.op, c.ports) = {<<p, p>> : p \in ToSet(c.ports)}
      BY <2>6 DEF PortRanges
    <3>2. q.port \in ToSet(c.ports)
      BY <2>1 DEF ToSet
    <3>3. <<d, d>> \in PortRanges(c.op, c.ports)
      BY <2>4, <3>1, <3>2
    <3> QED BY <1>3, <3>3 DEF Inside, c
  <2>7. CASE c.op = "range"
    <3>1. PortRanges(c.op, c.ports) = {<<c.ports[1], c.ports[2]>>}
      BY <2>7 DEF PortRanges
    <3>2. Len(c.ports) = 2
      BY <1>1, <2>7 DEF Operated
    <3>3. i \in {1, 2}
      BY <2>1, <2>5, <3>2
    <3>4. c.ports[1] \in Int /\ c.ports[2] \in Int
      BY <2>5, <3>2
    <3>5. c.ports[1] <= d /\ d <= c.ports[2]
      <4>1. c.ports[1] < c.ports[2]
        BY <1>1, <2>7
      <4>2. d = c.ports[1] \/ d = c.ports[2]
        BY <2>1, <2>4, <3>3
      <4> QED BY <3>4, <4>1, <4>2
    <3> QED BY <1>3, <3>1, <3>5 DEF Inside, c
  <2> QED BY <1>1, <1>5, <2>6, <2>7
<1> QED BY <1>4, <1>5

\* The packets a sample asks for, in the direction the line is for.
Wanted(q, reply, swapped, active) ==
    IF swapped THEN Back(q, reply, active) ELSE Forward(q, reply, active)

\* The line that is generated takes what each sample asks for.
LEMMA GrantTakes ==
  ASSUME NEW nx \in BOOLEAN, NEW req \in Requests(nx), ~UsesGroups(req), req.time = "",
         NEW q \in Samples(req), NEW active, active \subseteq Running,
         NEW swapped \in BOOLEAN, NEW line, Grants(line, req, swapped, nx)
  PROVE  Takes(line, Wanted(q, req.established /\ swapped, swapped, active))
<1> DEFINE reply == req.established /\ swapped
<1>1. /\ Request(req, nx) /\ Validated(req) /\ IsAddress(req.src) /\ IsAddress(req.dst)
      /\ req.port.group = ""
  BY PlainRequest
<1>2. /\ q.proto = req.proto /\ q.icmp = req.icmp
      /\ q.src \in AddressProbes(req.src) /\ q.dst \in AddressProbes(req.dst)
  BY SampleIs
<1>3. Asks(q, reply, active) /\ Question(q)
  BY SamplesAsk DEF Asks
<1>4. /\ line.proto = req.proto /\ line.service = ""
      /\ IF swapped
         THEN /\ line.src = req.dst /\ line.sport = req.port
              /\ line.dst = req.src /\ line.dport = NoPorts
         ELSE /\ line.src = req.src /\ line.sport = NoPorts
              /\ line.dst = req.dst /\ line.dport = req.port
      /\ line.icmp = (IF req.proto = "icmp" THEN req.icmp ELSE "")
      /\ (line.established => reply) /\ line.time = ""
  BY <1>1 DEF Grants
<1> HIDE DEF reply
<1>5. Open(line, reply, active)
  BY <1>4 DEF Open
<1>6. HoldsAll(req.src, q.src) /\ HoldsAll(req.dst, q.dst)
  BY <1>1, <1>2, ProbeIs
<1>7. Typed(line, q)
  <2>1. CASE req.proto # "icmp"
    BY <1>4, <2>1 DEF Typed
  <2>2. CASE req.proto = "icmp"
    <3>1. Protos(q) = {"icmp"} /\ line.icmp = q.icmp
      BY <1>2, <1>4, <2>2 DEF Protos
    <3> QED BY <3>1 DEF Typed, TypesOf
  <2> QED BY <2>1, <2>2
<1>8. ASSUME NEW proto \in Protos(q), NEW s \in 0..MaxPort, NEW d \in 0..MaxPort,
             d \in Dests(q, proto)
      PROVE  /\ line.proto \in {"ip", proto}
             /\ PortHolds(NoPorts, s) /\ PortHolds(req.port, d)
  <2>1. req.proto \in {"ip", proto}
    BY <1>2 DEF Protos
  <2>2. PortHolds(NoPorts, s)
    BY NoPortsFormed, NoPosition DEF NoPorts
  <2>3. PortHolds(req.port, d)
    <3>1. CASE proto = req.proto
      BY <1>8, <3>1, ProbedPorts
    <3>2. CASE proto # req.proto
      <4>1. req.proto = "ip"
        BY <2>1, <3>2
      <4>2. req.port.op = ""
        BY <4>1, PlainRequest
      <4> QED BY <1>1, <4>2, PortHoldsIs, EveryPort
    <3> QED BY <3>1, <3>2
  <2> QED BY <1>4, <2>1, <2>2, <2>3
<1>9. CASE swapped
  <2>1. PortsBack(line, q)
    BY <1>4, <1>8, <1>9 DEF PortsBack, PortsTaken
  <2>2. Takes(line, Back(q, reply, active))
    BY <1>3, <1>4, <1>5, <1>6, <1>7, <1>9, <2>1, TakesBack
  <2> QED BY <1>9, <2>2 DEF Wanted, reply
<1>10. CASE ~swapped
  <2>1. PortsThere(line, q)
    BY <1>4, <1>8, <1>10 DEF PortsThere, PortsTaken
  <2>2. Takes(line, Forward(q, reply, active))
    BY <1>3, <1>4, <1>5, <1>6, <1>7, <1>10, <2>1, TakesThere
  <2> QED BY <1>10, <2>2 DEF Wanted, reply
<1> QED BY <1>9, <1>10

\* The list with a line, and a remark or none, at places no rule has.
LEMMA PlacedIs ==
  ASSUME NEW list, NEW n, n \notin RuleNumbers(list), NEW line, line.action = "permit",
         NEW r, r \notin RuleNumbers(list), r # n, NEW new,
         new = With(list, n, line) \/ new = With(With(list, n, line), r, Remark)
  PROVE  /\ RuleNumbers(new) = RuleNumbers(list) \cup {n} /\ new[n] = line
         /\ \A m \in RuleNumbers(list) : new[m] = list[m]
<1> DEFINE l == With(list, n, line)
<1>1. /\ DOMAIN l = DOMAIN list \cup {n} /\ l[n] = line
      /\ \A m \in DOMAIN list : m # n => l[m] = list[m]
  BY DEF With
<1> HIDE DEF l
<1>2. /\ RuleNumbers(l) = RuleNumbers(list) \cup {n}
      /\ \A m \in RuleNumbers(list) : l[m] = list[m]
  BY <1>1 DEF RuleNumbers, IsRule
<1>3. CASE new = l
  BY <1>1, <1>2, <1>3
<1>4. CASE new = With(l, r, Remark)
  <2>1. /\ DOMAIN new = DOMAIN l \cup {r} /\ new[r] = Remark
        /\ \A m \in DOMAIN l : m # r => new[m] = l[m]
    BY <1>4 DEF With
  <2>2. ~IsRule(Remark)
    BY DEF IsRule, Remark, Line
  <2>3. r \notin RuleNumbers(l)
    BY <1>2
  <2>4. RuleNumbers(new) = RuleNumbers(l)
    BY <2>1, <2>2, <2>3 DEF RuleNumbers
  <2>5. \A m \in RuleNumbers(l) : new[m] = l[m]
    BY <2>1, <2>3 DEF RuleNumbers
  <2> QED BY <1>1, <1>2, <2>4, <2>5
<1> QED BY <1>3, <1>4 DEF l

\* A rule that is considered when a sample is denied is not in front of the rule
\* that blocks.
LEMMA BlockingIs ==
  ASSUME Numbered(acl), NEW S, NEW active,
         NEW found, found = {Lookup(RuleLines(acl), q, nexus, DOMAIN Groups, active) : q \in S},
         \A i \in found : i.verdict = "DENIED",
         NEW q \in S, NEW m \in RuleNumbers(acl),
         Considered(acl[m], q, nexus, DOMAIN Groups, active)
  PROVE  /\ Blocking(found) \in Nat \ {0} /\ Blocking(found) <= m
<1> DEFINE lines == RuleLines(acl)
           deciding(x) == {n \in DOMAIN lines : Considered(lines[n], x, nexus, DOMAIN Groups, active)}
           denying == DenyingNumbers(found)
<1>1. /\ DOMAIN lines = RuleNumbers(acl) /\ \A n \in RuleNumbers(acl) : lines[n] = acl[n]
      /\ RuleNumbers(acl) \subseteq Nat \ {0}
  BY DEF RuleLines, Numbered, RuleNumbers
<1>2. \A x \in S : deciding(x) \subseteq Nat \ {0}
  BY <1>1
<1>3. m \in deciding(q)
  BY <1>1
<1>4. \A x : Lookup(lines, x, nexus, DOMAIN Groups, active) = Decision(lines, deciding(x))
  BY DEF Lookup
<1> HIDE DEF deciding, lines
<1>5. \A x \in S : Decision(lines, deciding(x)).n \in Nat
  <2> TAKE x \in S
  <2>1. deciding(x) # {} => Min(deciding(x)) \in Nat
    BY <1>2, MinOfNat
  <2> QED BY <2>1 DEF Decision
<1>6. denying \subseteq Nat \ {0}
  BY <1>4, <1>5 DEF DenyingNumbers, lines
<1> DEFINE i == Decision(lines, deciding(q))
<1>7. i.n \in Nat \ {0} /\ i.n <= m
  <2>1. i.n = Min(deciding(q))
    BY <1>3 DEF Decision
  <2>2. deciding(q) \subseteq Nat /\ deciding(q) # {} /\ 0 \notin deciding(q)
    BY <1>2, <1>3
  <2>3. Min(deciding(q)) \in deciding(q) /\ \A x \in deciding(q) : Min(deciding(q)) <= x
    BY <2>2, MinOfNat
  <2> QED BY <1>3, <2>1, <2>2, <2>3
<1>8. i.n \in denying
  <2>1. i \in found
    BY <1>4 DEF lines
  <2> HIDE DEF i
  <2> QED BY <1>7, <2>1 DEF DenyingNumbers
<1> HIDE DEF denying, i
<1>9. Min(denying) \in denying /\ Min(denying) <= i.n
  <2>1. denying \subseteq Nat /\ denying # {}
    BY <1>6, <1>8
  <2> QED BY <1>8, <2>1, MinOfNat
<1>10. Blocking(found) = Min(denying)
  BY <1>8 DEF Blocking, denying
<1>11. m \in Nat
  BY DEF Numbered, RuleNumbers
<1>12. Min(denying) \in Nat \ {0} /\ i.n \in Nat
  BY <1>6, <1>7, <1>9
<1> DEFINE least == Min(denying)
           j == i.n
<1>13. least \in Nat \ {0} /\ j \in Nat /\ least <= j /\ j <= m
  BY <1>7, <1>9, <1>12
<1> HIDE DEF least, j
<1>14. least <= m
  BY <1>11, <1>13
<1> QED BY <1>10, <1>13, <1>14 DEF least

-----------------------------------------------------------------------------
(* The list, edit by edit *)

\* What the properties need of a state: the list consists of numbered lines
\* that are of the form of lines, and only an edit leaves word of one.
ListsFormed ==
    /\ nexus \in BOOLEAN
    /\ Numbered(acl) /\ FormedList(acl)
    /\ edits \in Nat
    /\ edits = 0 => last.op = "none"

\* The lines typed on the switch, and those generated, have the form of lines.
LEMMA PoolFormed ==
  ASSUME NEW nx \in BOOLEAN, NEW line \in Pool(nx)
  PROVE  Formed(line)
BY ListsAssumption

LEMMA RequestFormed ==
  ASSUME NEW nx \in BOOLEAN, NEW req \in Requests(nx)
  PROVE  /\ req.number \in Nat /\ req.remark \in Nat
         /\ \A at \in Placements : Formed(GeneratePermit(req, at[1], at[2], nx))
<1>1. Request(req, nx)
  BY ListsAssumption
<1>2. req.number \in Nat /\ req.remark \in Nat
  <2>1. req.number \in 0..MaxNumber /\ req.remark \in 0..MaxNumber
    BY <1>1 DEF Request
  <2> QED BY <2>1, NumberAssumption
<1>3. ASSUME NEW at \in Placements
      PROVE  Formed(GeneratePermit(req, at[1], at[2], nx))
  BY <1>1, GeneratedFormed
<1> QED BY <1>2, <1>3

\* A line typed on the switch.
LEMMA ConfiguredFormed ==
  ASSUME ListsFormed, Configure
  PROVE  ListsFormed'
<1>1. PICK n \in Numbers, line \in Pool(nexus) : acl' = With(acl, n, line)
  BY DEF Configure
<1>2. n \in Nat \ {0} /\ Formed(line)
  <2>1. Numbers \subseteq Nat \ {0}
    BY ListsAssumption
  <2> QED BY <2>1, PoolFormed DEF ListsFormed
<1>3. Numbered(acl') /\ FormedList(acl')
  BY <1>1, <1>2, WithKept DEF ListsFormed
<1> QED BY <1>3 DEF ListsFormed, Configure, Numbered, FormedList

\* An edit leaves word of itself.
LEMMA EditedFormed ==
  ASSUME ListsFormed, NEW list, NEW op, Edit(list, op), Numbered(list), FormedList(list)
  PROVE  ListsFormed'
<1>1. acl' = list /\ nexus' = nexus /\ edits' = edits + 1
  BY DEF Edit
<1>2. edits' \in Nat /\ edits' # 0
  BY <1>1 DEF ListsFormed
<1> QED BY <1>1, <1>2 DEF ListsFormed, Numbered, FormedList

\* Rules taken out.
LEMMA TakenOutFormed ==
  ASSUME ListsFormed, NEW numbers, NEW op, TakeOut(numbers, op)
  PROVE  ListsFormed'
<1>1. Edit(Without(acl, numbers), op)
  BY DEF TakeOut
<1>2. Numbered(Without(acl, numbers)) /\ FormedList(Without(acl, numbers))
  BY WithoutKept DEF ListsFormed
<1> QED BY <1>1, <1>2, EditedFormed

\* A summary applied.
LEMMA SummaryAppliedFormed ==
  ASSUME ListsFormed, NEW known, ApplySummary(known)
  PROVE  ListsFormed'
<1>1. PICK s \in SuggestSummaries(Understood(acl, known)) :
        Edit(With(Without(acl, s.replaces), s.n, s.rule), [op |-> "summary", suggestion |-> s])
  BY DEF ApplySummary
<1>2. Numbered(acl) /\ FormedList(acl)
  BY DEF ListsFormed
<1>3. FormedRules(Understood(acl, known))
  BY <1>2, UnderstoodFormed
<1>4. PICK side, key, T, first, block :
        Summarizes(Understood(acl, known), s, side, key, T, first, block)
  BY <1>3, SuggestionIs
<1>5. Formed(s.rule) /\ s.n \in Nat \ {0}
  BY <1>3, <1>4, SuggestionFormed
<1> DEFINE w == Without(acl, s.replaces)
<1>6. Numbered(w) /\ FormedList(w)
  BY <1>2, WithoutKept
<1> HIDE DEF w
<1>7. Numbered(With(w, s.n, s.rule)) /\ FormedList(With(w, s.n, s.rule))
  BY <1>5, <1>6, WithKept
<1> QED BY <1>1, <1>7, EditedFormed DEF w

\* Rules reversed.
LEMMA PlanFormed ==
  ASSUME NEW list, Numbered(list), FormedList(list), NEW known
  PROVE  \A n \in DOMAIN ReversalPlan(Understood(list, known), nexus) :
            /\ n \in DOMAIN list
            /\ Formed(ReversalPlan(Understood(list, known), nexus)[n])
<1> DEFINE rules == Understood(list, known)
<1>1. \A n \in DOMAIN rules : n \in DOMAIN list /\ Formed(rules[n])
  BY UnderstoodFormed DEF FormedRules
<1> HIDE DEF rules
<1>2. \A n \in DOMAIN ReversalPlan(rules, nexus) :
        n \in DOMAIN rules /\ ReversalPlan(rules, nexus)[n] = Reversed(rules[n])
  BY DEF ReversalPlan
<1> QED BY <1>1, <1>2, ReversedFormed DEF rules

LEMMA ReversedListFormed ==
  ASSUME ListsFormed, NEW known, ReverseDirection(known)
  PROVE  ListsFormed'
<1> DEFINE plan == ReversalPlan(Understood(acl, known), nexus)
<1>1. PICK chosen \in (SUBSET DOMAIN plan) \ {{}} :
        Edit(SendAll(plan, chosen, acl), [op |-> "reverse", chosen |-> chosen])
  BY DEF ReverseDirection, ReverseChosen
<1>2. Numbered(acl) /\ FormedList(acl)
  BY DEF ListsFormed
<1>3. \A n \in DOMAIN plan : n \in DOMAIN acl /\ Formed(plan[n])
  BY <1>2, PlanFormed
<1> HIDE DEF plan
<1>31. chosen \subseteq DOMAIN plan /\ chosen # {}
  OBVIOUS
<1>4. chosen \subseteq DOMAIN acl /\ chosen # {} /\ \A n \in chosen : Formed(plan[n])
  BY <1>3, <1>31
<1>5. Swapped(plan, acl, chosen, SendAll(plan, chosen, acl))
  BY <1>2, <1>4, AllSwapped
<1> QED BY <1>1, <1>5, EditedFormed DEF Swapped

\* A request applied.
LEMMA AppliedFormed ==
  ASSUME ListsFormed, NEW line, Formed(line), NEW place, PlaceFormed(place),
         NEW op, Apply(line, place, op)
  PROVE  ListsFormed'
<1> DEFINE l == With(acl, place.n, line)
<1>1. place.n \in Nat \ {0} /\ place.remark \in Nat
  BY DEF Apply, PlaceFormed
<1>2. Numbered(l) /\ FormedList(l)
  BY <1>1, WithKept DEF ListsFormed
<1>3. CASE place.remark = 0
  <2>1. Edit(l, op)
    BY <1>3 DEF Apply
  <2> HIDE DEF l
  <2> QED BY <1>2, <2>1, EditedFormed
<1>4. CASE place.remark # 0
  <2>1. Edit(With(l, place.remark, Remark), op)
    BY <1>4 DEF Apply
  <2> HIDE DEF l
  <2>2. Numbered(With(l, place.remark, Remark)) /\ FormedList(With(l, place.remark, Remark))
    BY <1>1, <1>2, <1>4, RemarkFormed, WithKept
  <2> QED BY <2>1, <2>2, EditedFormed
<1> QED BY <1>3, <1>4

LEMMA RequestedFormed ==
  ASSUME ListsFormed, NEW req \in Requests(nexus), NEW at \in Placements, NEW known, NEW active,
         AddRequested(req, at[1], at[2], known, active)
  PROVE  ListsFormed'
<1>1. nexus \in BOOLEAN
  BY DEF ListsFormed
<1>2. /\ req.number \in Nat /\ req.remark \in Nat
      /\ Formed(GeneratePermit(req, at[1], at[2], nexus))
  BY <1>1, RequestFormed
<1> DEFINE line == GeneratePermit(req, at[1], at[2], nexus)
           found == Inspections(RuleLines(acl), line, req, nexus, known, active)
           place == Place(req, Blocking(found))
<1>3. PICK op : Apply(line, place, op)
  BY DEF AddRequested, Preview, ApplyFound
<1>4. PlaceFormed(place)
  <2>1. PlaceFree(place, RuleNumbers(acl), Below(Blocking(found)) \ RuleNumbers(acl))
    BY <1>2, PlaceIs DEF ListsFormed
  <2> HIDE DEF place, found
  <2> QED BY <2>1 DEF PlaceFree, PlaceFormed, Below
<1> HIDE DEF line, place
<1> QED BY <1>2, <1>3, <1>4, AppliedFormed DEF line

\* Every step keeps the list a list of lines.
LEMMA ListsKept ==
  ASSUME ListsFormed, [Next]_vars
  PROVE  ListsFormed'
<1>1. CASE Configure
  BY <1>1, ConfiguredFormed
<1>2. CASE edits < MaxEdits /\ \E known \in Reads : Advise(known)
  <2>1. PICK known \in Reads : Advise(known)
    BY <1>2
  <2>2. CASE RemoveRedundant(known)
    BY <2>2, TakenOutFormed DEF RemoveRedundant
  <2>3. CASE RemoveSuperseded(known)
    BY <2>3, TakenOutFormed DEF RemoveSuperseded
  <2>4. CASE \E b \in Bindings : RemoveFlagged(known, b)
    BY <2>4, TakenOutFormed DEF RemoveFlagged
  <2>5. CASE ApplySummary(known)
    BY <2>5, SummaryAppliedFormed
  <2>6. CASE ReverseDirection(known)
    BY <2>6, ReversedListFormed
  <2>7. CASE \E req \in Requests(nexus), at \in Placements, active \in SUBSET Running :
                AddRequested(req, at[1], at[2], known, active)
    BY <2>7, RequestedFormed
  <2> QED BY <2>1, <2>2, <2>3, <2>4, <2>5, <2>6, <2>7 DEF Advise
<1>3. CASE UNCHANGED vars
  BY <1>3 DEF ListsFormed, vars, Numbered, FormedList
<1> QED BY <1>1, <1>2, <1>3 DEF Next

\* The list at the outset is empty.
LEMMA ListsAtFirst ==
  ASSUME Init
  PROVE  ListsFormed /\ last.op = "none"
<1>1. DOMAIN acl = {} /\ nexus \in BOOLEAN /\ last.op = "none" /\ edits = 0
  BY DEF Init, Idle
<1>2. IsFiniteSet(DOMAIN acl)
  BY <1>1, FS_EmptySet
<1> QED BY <1>1, <1>2 DEF ListsFormed, Numbered, FormedList

\* The edit a step was, of which it leaves word, and the list it leaves.
LEMMA StepIs ==
  ASSUME ListsFormed, [Next]_vars
  PROVE  \/ UNCHANGED vars
         \/ last'.op = "none"
         \/ last'.op = "request"
         \/ /\ before' = acl /\ nexus' = nexus
            /\ \E known \in Reads :
                 \/ /\ last' = [op |-> "redundant", known |-> known]
                    /\ \/ acl' = Without(acl, Redundant(Understood(acl, known), Resolved(known)))
                       \/ acl' = Without(acl, Trailing(Understood(acl, known), Resolved(known)))
                 \/ \E b \in Bindings :
                    /\ last' = [op |-> "flagged", known |-> known, bindings |-> b]
                    /\ acl' = Without(acl, Flagged(Understood(acl, known), known, b))
                 \/ \E s \in SuggestSummaries(Understood(acl, known)) :
                    /\ last' = [op |-> "summary", suggestion |-> s]
                    /\ acl' = Summed(acl, s)
                 \/ LET plan == ReversalPlan(Understood(acl, known), nexus)
                    IN  \E chosen \in (SUBSET DOMAIN plan) \ {{}} :
                        /\ last' = [op |-> "reverse", chosen |-> chosen]
                        /\ acl' = SendAll(plan, chosen, acl)
<1>1. CASE Configure
  BY <1>1 DEF Configure, ListsFormed
<1>2. CASE edits < MaxEdits /\ \E known \in Reads : Advise(known)
  <2>1. PICK known \in Reads : Advise(known)
    BY <1>2
  <2>2. CASE RemoveRedundant(known)
    BY <2>2 DEF RemoveRedundant, TakeOut, Edit
  <2>3. CASE RemoveSuperseded(known)
    BY <2>3 DEF RemoveSuperseded, TakeOut, Edit
  <2>4. CASE \E b \in Bindings : RemoveFlagged(known, b)
    BY <2>4 DEF RemoveFlagged, TakeOut, Edit
  <2>5. CASE ApplySummary(known)
    BY <2>5 DEF ApplySummary, Summed, Edit
  <2>6. CASE ReverseDirection(known)
    BY <2>6 DEF ReverseDirection, ReverseChosen, Edit
  <2>7. CASE \E req \in Requests(nexus), at \in Placements, active \in SUBSET Running :
                AddRequested(req, at[1], at[2], known, active)
    <3>1. \E req, line, place, found, swapped, active :
            Apply(line, place, [op |-> "request", n |-> place.n, req |-> req, found |-> found,
                                swapped |-> swapped, known |-> known, active |-> active])
      BY <2>7 DEF AddRequested, Preview, ApplyFound
    <3> QED BY <3>1 DEF Apply, Edit
  <2> QED BY <2>1, <2>2, <2>3, <2>4, <2>5, <2>6, <2>7 DEF Advise
<1>3. CASE UNCHANGED vars
  BY <1>3
<1> QED BY <1>1, <1>2, <1>3 DEF Next

\* The properties of lists are those of the next state, where the platform is
\* the same.
LEMMA PlainNext ==
  ASSUME nexus' = nexus
  PROVE  PlainList(before)' => PlainList(before')
BY DEF PlainList, Plain, RuleSet, RuleNumbers

-----------------------------------------------------------------------------
(* A request that was granted *)

\* A request that was applied: the line, where it went, and what was found before.
Granted(req, line, known, active, swapped, n, r) ==
    LET found == Inspections(RuleLines(acl), line, req, nexus, known, active)
    IN  /\ last' = [op |-> "request", n |-> n, req |-> req, found |-> found,
                    swapped |-> swapped, known |-> known, active |-> active]
        /\ Grants(line, req, swapped, nexus)
        /\ n \in Below(Blocking(found)) \ RuleNumbers(acl)
        /\ r \notin RuleNumbers(acl) /\ r # n
        /\ acl' = With(acl, n, line) \/ acl' = With(With(acl, n, line), r, Remark)

LEMMA RequestIs ==
  ASSUME ListsFormed, Next, last'.op = "request", edits' # edits
  PROVE  /\ before' = acl /\ nexus' = nexus
         /\ \E req \in Requests(nexus), active \in SUBSET Running, swapped \in BOOLEAN,
               n \in Nat \ {0} :
              \E line, known, r : Granted(req, line, known, active, swapped, n, r)
<1>1. nexus \in BOOLEAN /\ Numbered(acl)
  BY DEF ListsFormed
<1>2. PICK known \in Reads, req \in Requests(nexus), at \in Placements, active \in SUBSET Running :
        AddRequested(req, at[1], at[2], known, active)
  <2>1. ~Configure
    BY DEF Configure
  <2>2. PICK known \in Reads : Advise(known)
    BY <2>1 DEF Next
  <2>3. ~RemoveRedundant(known) /\ ~RemoveSuperseded(known)
    BY DEF RemoveRedundant, RemoveSuperseded, TakeOut, Edit
  <2>4. ~\E b \in Bindings : RemoveFlagged(known, b)
    BY DEF RemoveFlagged, TakeOut, Edit
  <2>5. ~ApplySummary(known)
    BY DEF ApplySummary, Edit
  <2>6. ~ReverseDirection(known)
    BY DEF ReverseDirection, ReverseChosen, Edit
  <2> QED BY <2>2, <2>3, <2>4, <2>5, <2>6 DEF Advise
<1> DEFINE line == GeneratePermit(req, at[1], at[2], nexus)
           swapped == DestinationFirst(at[1], at[2])
           found == Inspections(RuleLines(acl), line, req, nexus, known, active)
           place == Place(req, Blocking(found))
           op == [op |-> "request", n |-> place.n, req |-> req, found |-> found,
                  swapped |-> swapped, known |-> known, active |-> active]
<1>3. Apply(line, place, op)
  BY <1>2 DEF AddRequested, Preview, ApplyFound
<1>4. Request(req, nexus) /\ req.remark \in Nat
  BY <1>1, ListsAssumption, RequestFormed
<1>5. Grants(line, req, swapped, nexus)
  BY <1>1, <1>4, GeneratedIs
<1>6. swapped \in BOOLEAN
  BY DEF DestinationFirst
<1> DEFINE blocking == Blocking(found)
<1> HIDE DEF line, swapped, found
<1>7. PlaceFree(place, RuleNumbers(acl), Below(blocking) \ RuleNumbers(acl))
  BY <1>1, <1>4, PlaceIs
<1> HIDE DEF place, op, blocking
<1>8. /\ place.n # 0 /\ last' = op /\ before' = acl /\ nexus' = nexus
      /\ acl' = IF place.remark = 0 THEN With(acl, place.n, line)
                ELSE With(With(acl, place.n, line), place.remark, Remark)
  BY <1>3 DEF Apply, Edit
<1>9. /\ place.n \in Below(blocking) \ RuleNumbers(acl) /\ place.remark \in Nat
      /\ place.remark \notin RuleNumbers(acl) /\ place.remark # place.n
  BY <1>7, <1>8 DEF PlaceFree
<1>10. place.n \in Nat \ {0}
  BY <1>9 DEF Below
<1> DEFINE n == place.n
           r == place.remark
<1>11. /\ last' = [op |-> "request", n |-> n, req |-> req, found |-> found,
                   swapped |-> swapped, known |-> known, active |-> active]
       /\ n \in Below(Blocking(found)) \ RuleNumbers(acl) /\ n \in Nat \ {0}
       /\ r \notin RuleNumbers(acl) /\ r # n /\ r \in Nat
       /\ acl' = With(acl, n, line) \/ acl' = With(With(acl, n, line), r, Remark)
  BY <1>8, <1>9, <1>10 DEF op, blocking
<1> HIDE DEF n, r, place, op
<1>12. Granted(req, line, known, active, swapped, n, r)
  BY <1>5, <1>11 DEF Granted, found
<1> QED BY <1>6, <1>8, <1>11, <1>12

\* What the samples of a request are told, all groups known.
Looked(req, active) ==
    {Lookup(RuleLines(acl), q, nexus, DOMAIN Groups, active) : q \in Samples(req)}

AllDenied(found) == \A i \in found : i.verdict = "DENIED"

\* One more rule in a list, the others as they were.
Added(new, list, n, line) ==
    /\ RuleNumbers(new) = RuleNumbers(list) \cup {n} /\ new[n] = line
    /\ \A m \in RuleNumbers(list) : new[m] = list[m]

\* A rule the preview is right about: it takes each asked set whole or not at all.
Wholly(l, asked) ==
    /\ Plain(l) /\ ReadWhole(l) /\ AnyWritten(l)
    /\ \A ps \in asked : Takes(l, ps) \/ ps \cap HitBy(l) = {}

AllWholly(asked) == \A l \in RuleSet(acl) : Wholly(l, asked)

\* A number below the one that blocks is not behind anything from that one on.
LEMMA BelowIs ==
  ASSUME NEW b \in Nat \ {0}, NEW n \in Below(b)
  PROVE  \A m \in Nat : b <= m => ~(m < n)
<1>1. n \in 1..(b - 1)
  BY DEF Below
<1> QED BY <1>1

\* No number is less than itself.
LEMMA NotLess == \A n \in Nat : ~(n < n)
OBVIOUS

\* A line that is put in front of what blocks it lets through what was asked for.
LEMMA GrantedIs ==
  ASSUME ListsFormed, NEW req \in Requests(nexus), ~UsesGroups(req), req.time = "",
         NEW active \in SUBSET Running, NEW swapped \in BOOLEAN,
         NEW line, Grants(line, req, swapped, nexus),
         NEW found,
         found = Looked(req, active),
         AllDenied(found), AllWholly(Asked(req, swapped, active)),
         NEW n \in Nat \ {0}, n \in Below(Blocking(found)),
         NEW new, Added(new, acl, n, line)
  PROVE  UNION Asked(req, swapped, active) \subseteq Permitted(new)
<1> DEFINE reply == req.established /\ swapped
<1>1. /\ nexus \in BOOLEAN /\ Numbered(acl) /\ FormedList(acl)
      /\ \A i \in found : i.verdict = "DENIED"
      /\ \A l \in RuleSet(acl) : Wholly(l, Asked(req, swapped, active))
      /\ RuleNumbers(new) = RuleNumbers(acl) \cup {n} /\ new[n] = line
      /\ \A m \in RuleNumbers(acl) : new[m] = acl[m]
  BY DEF ListsFormed, AllDenied, AllWholly, Added
<1>2. SUFFICES ASSUME NEW q \in Samples(req), NEW p \in Wanted(q, reply, swapped, active)
               PROVE  p \in Permitted(new)
  BY DEF Asked, Wanted
<1>3. Wanted(q, reply, swapped, active) \in Asked(req, swapped, active)
  BY DEF Asked, Wanted
<1>4. Asks(q, reply, active)
  BY <1>1, SamplesAsk
<1>5. Takes(line, Wanted(q, reply, swapped, active))
  BY <1>1, GrantTakes
<1> HIDE DEF reply
<1>6. p \in Traffic /\ Hits(line, p)
  BY <1>5, HitByIs DEF Takes
<1>7. ASSUME NEW m \in RuleNumbers(acl), m < n, Hits(acl[m], p)
      PROVE  FALSE
  <2> DEFINE l == acl[m]
  <2>1. l \in RuleSet(acl) /\ Formed(l)
    BY <1>1 DEF RuleSet, RuleNumbers, FormedList
  <2>2. Legible(l)
    BY <1>1, <2>1 DEF Legible, Wholly
  <2>3. p \in HitBy(l)
    BY <1>6, <1>7, HitByIs
  <2>4. Takes(l, Wanted(q, reply, swapped, active))
    BY <1>1, <1>3, <2>1, <2>3 DEF Wholly
  <2>5. Takes(l, Forward(q, reply, active)) \/ Takes(l, Back(q, reply, active))
    BY <2>4 DEF Wanted
  <2>6. InOneMember(l, q)
    BY <1>1, <2>2, SamplesInOne
  <2>7. Considered(l, q, nexus, DOMAIN Groups, active)
    BY <1>4, <2>2, <2>5, <2>6, LookupIsTraffic
  <2>8. Blocking(found) \in Nat \ {0} /\ Blocking(found) <= m
    BY <1>1, <2>7, BlockingIs DEF Looked
  <2> DEFINE b == Blocking(found)
  <2>9. b \in Nat \ {0} /\ b <= m /\ n \in Below(b)
    BY <2>8
  <2> HIDE DEF b
  <2>10. m \in Nat
    BY <1>1 DEF Numbered, RuleNumbers
  <2> QED BY <1>7, <2>9, <2>10, BelowIs
<1>8. First(new, n, p)
  <2>1. n \in Nat
    OBVIOUS
  <2>2. ~(n < n)
    BY <2>1, NotLess
  <2> QED BY <1>1, <1>6, <1>7, <2>2 DEF First
<1>9. line.action = "permit"
  BY DEF Grants
<1> QED BY <1>1, <1>6, <1>8, <1>9, PermittedIs DEF Decides, First

-----------------------------------------------------------------------------
(* What the pages say is so *)

\* Rules called redundant, because earlier rules cover them or later ones
\* supersede them, can all be removed: the list lets the same traffic through,
\* whatever the number of rules, the groups and the width of addresses
\* (check_redundant_rules, find_trailing_redundant_rules).
THEOREM RedundancyHolds == Spec => []RedundancyIsInvisible
<1>1. Init => ListsFormed /\ RedundancyIsInvisible
  BY ListsAtFirst DEF RedundancyIsInvisible
<1>2. ASSUME ListsFormed, RedundancyIsInvisible, [Next]_vars
      PROVE  ListsFormed' /\ RedundancyIsInvisible'
  <2>1. ListsFormed'
    BY <1>2, ListsKept
  <2>2. RedundancyIsInvisible'
    <3>1. CASE UNCHANGED vars
      <4>1. before' = before /\ acl' = acl /\ last' = last /\ nexus' = nexus
        BY <3>1 DEF vars
      <4>2. PlainList(before)' => PlainList(before)
        BY <4>1, PlainNext
      <4> QED BY <1>2, <4>1, <4>2 DEF RedundancyIsInvisible
    <3>2. CASE last'.op # "redundant"
      BY <3>2 DEF RedundancyIsInvisible
    <3>3. CASE ~UNCHANGED vars /\ last'.op = "redundant"
      <4> SUFFICES ASSUME last'.known = DOMAIN Groups, PlainList(before)', SameEnds(before')
                   PROVE  Permitted(acl') = Permitted(before')
        BY DEF RedundancyIsInvisible
      <4>1. PICK known \in Reads :
              /\ before' = acl /\ nexus' = nexus
              /\ last' = [op |-> "redundant", known |-> known]
              /\ \/ acl' = Without(acl, Redundant(Understood(acl, known), Resolved(known)))
                 \/ acl' = Without(acl, Trailing(Understood(acl, known), Resolved(known)))
        BY <1>2, <3>3, StepIs
      <4>2. known = DOMAIN Groups
        BY <4>1
      <4>3. PlainList(acl) /\ SameEnds(acl) /\ Numbered(acl) /\ FormedList(acl)
        BY <1>2, <4>1, PlainNext DEF ListsFormed
      <4>4. CASE acl' = Without(acl, Redundant(Understood(acl, known), Resolved(known)))
        BY <4>1, <4>2, <4>3, <4>4, RedundantIsKept DEF Known
      <4>5. CASE acl' = Without(acl, Trailing(Understood(acl, known), Resolved(known)))
        BY <4>1, <4>2, <4>3, <4>5, SupersededIsKept DEF Known
      <4> QED BY <4>1, <4>4, <4>5
    <3> QED BY <3>1, <3>2, <3>3
  <2> QED BY <2>1, <2>2
<1> QED BY <1>1, <1>2, PTL DEF Spec

\* Rules reported as over, or as on the wrong side of every interface the list
\* is on, decide none of the traffic such an interface sees
\* (find_dead_schedule_rules, find_wrong_direction_rules).
THEOREM FlaggedHolds == Spec => []FlaggedNeverFires
<1>1. Init => ListsFormed /\ FlaggedNeverFires
  BY ListsAtFirst DEF FlaggedNeverFires
<1>2. ASSUME ListsFormed, FlaggedNeverFires, [Next]_vars
      PROVE  ListsFormed' /\ FlaggedNeverFires'
  <2>1. ListsFormed'
    BY <1>2, ListsKept
  <2>2. FlaggedNeverFires'
    <3>1. CASE UNCHANGED vars
      BY <1>2, <3>1 DEF FlaggedNeverFires, vars
    <3>2. CASE last'.op # "flagged"
      BY <3>2 DEF FlaggedNeverFires
    <3>3. CASE ~UNCHANGED vars /\ last'.op = "flagged"
      <4> SUFFICES ASSUME last'.known = DOMAIN Groups
                   PROVE  Permitted(acl') \cap Seen(last'.bindings)
                            = Permitted(before') \cap Seen(last'.bindings)
        BY DEF FlaggedNeverFires, Seen
      <4>1. PICK known \in Reads, b \in Bindings :
              /\ before' = acl
              /\ last' = [op |-> "flagged", known |-> known, bindings |-> b]
              /\ acl' = Without(acl, Flagged(Understood(acl, known), known, b))
        BY <1>2, <3>3, StepIs
      <4>2. known = DOMAIN Groups /\ last'.bindings = b
        BY <4>1
      <4>3. Numbered(acl) /\ FormedList(acl)
        BY <1>2 DEF ListsFormed
      <4> QED BY <4>1, <4>2, <4>3, FlaggedIsKept
    <3> QED BY <3>1, <3>2, <3>3
  <2> QED BY <2>1, <2>2
<1> QED BY <1>1, <1>2, PTL DEF Spec

\* A list all of whose rules were reversed, one after the other and each put
\* behind the others, lets through exactly the packets of the other direction
\* (plan_acl_reversal, the reverse-direction pages).
THEOREM ReversalHolds == Spec => []ReversalMirrors
<1>1. Init => ListsFormed /\ ReversalMirrors
  BY ListsAtFirst DEF ReversalMirrors
<1>2. ASSUME ListsFormed, ReversalMirrors, [Next]_vars
      PROVE  ListsFormed' /\ ReversalMirrors'
  <2>1. ListsFormed'
    BY <1>2, ListsKept
  <2>2. ReversalMirrors'
    <3>1. CASE UNCHANGED vars
      BY <1>2, <3>1 DEF ReversalMirrors, vars
    <3>2. CASE last'.op # "reverse"
      BY <3>2 DEF ReversalMirrors
    <3>3. CASE ~UNCHANGED vars /\ last'.op = "reverse"
      <4> SUFFICES ASSUME last'.chosen = RuleNumbers(before'), WrittenWhole(before'),
                          \A line \in RuleSet(before') : ~line.log
                   PROVE  Permitted(acl') = {Mirror(p) : p \in Permitted(before')}
        BY DEF ReversalMirrors
      <4>1. PICK known \in Reads :
              /\ before' = acl
              /\ LET plan == ReversalPlan(Understood(acl, known), nexus)
                 IN  \E chosen \in (SUBSET DOMAIN plan) \ {{}} :
                     /\ last' = [op |-> "reverse", chosen |-> chosen]
                     /\ acl' = SendAll(plan, chosen, acl)
        BY <1>2, <3>3, StepIs
      <4> DEFINE plan == ReversalPlan(Understood(acl, known), nexus)
      <4>2. PICK chosen \in (SUBSET DOMAIN plan) \ {{}} :
              /\ last' = [op |-> "reverse", chosen |-> chosen]
              /\ acl' = SendAll(plan, chosen, acl)
        BY <4>1
      <4>21. chosen \subseteq DOMAIN plan /\ chosen # {}
        OBVIOUS
      <4>22. last'.chosen = chosen
        BY <4>2
      <4>3. chosen = RuleNumbers(acl) /\ RuleNumbers(acl) \subseteq DOMAIN plan
            /\ RuleNumbers(acl) # {}
        BY <4>1, <4>21, <4>22
      <4>4. Numbered(acl) /\ FormedList(acl) /\ WrittenWhole(acl)
            /\ \A line \in RuleSet(acl) : ~line.log
        BY <1>2, <4>1 DEF ListsFormed
      <4>5. Permitted(SendAll(plan, RuleNumbers(acl), acl)) = {Mirror(p) : p \in Permitted(acl)}
        BY <4>3, <4>4, ReversalIsMirror
      <4> QED BY <4>1, <4>2, <4>3, <4>5
    <3> QED BY <3>1, <3>2, <3>3
  <2> QED BY <2>1, <2>2
<1> QED BY <1>1, <1>2, PTL DEF Spec

\* A suggested summary that is applied loses none of the traffic, and adds none
\* but that of the addresses it lists as extra (suggest_summary_rules,
\* summary_apply).
THEOREM SuggestionHolds == Spec => []SummaryAddsOnlyExtra
<1>1. Init => ListsFormed /\ SummaryAddsOnlyExtra
  BY ListsAtFirst DEF SummaryAddsOnlyExtra
<1>2. ASSUME ListsFormed, SummaryAddsOnlyExtra, [Next]_vars
      PROVE  ListsFormed' /\ SummaryAddsOnlyExtra'
  <2>1. ListsFormed'
    BY <1>2, ListsKept
  <2>2. SummaryAddsOnlyExtra'
    <3>1. CASE UNCHANGED vars
      BY <1>2, <3>1 DEF SummaryAddsOnlyExtra, vars, PlainList, Plain, RuleSet, RuleNumbers
    <3>2. CASE last'.op # "summary"
      BY <3>2 DEF SummaryAddsOnlyExtra
    <3>3. CASE ~UNCHANGED vars /\ last'.op = "summary"
      <4> SUFFICES ASSUME PlainList(before)', WrittenWhole(before'),
                          \A n \in Among(before', last'.suggestion.replaces) :
                              before'[n].action = "permit"
                   PROVE  /\ Permitted(before') \subseteq Permitted(acl')
                          /\ \A p \in Permitted(acl') \ Permitted(before') :
                               End(p, last'.suggestion.side) \in last'.suggestion.extra
        BY DEF SummaryAddsOnlyExtra, End
      <4>1. PICK known \in Reads : \E s \in SuggestSummaries(Understood(acl, known)) :
              /\ before' = acl /\ nexus' = nexus
              /\ last' = [op |-> "summary", suggestion |-> s]
              /\ acl' = Summed(acl, s)
        BY <1>2, <3>3, StepIs
      <4>2. PICK s \in SuggestSummaries(Understood(acl, known)) :
              /\ before' = acl /\ nexus' = nexus
              /\ last' = [op |-> "summary", suggestion |-> s]
              /\ acl' = Summed(acl, s)
        BY <4>1
      <4>3. last'.suggestion = s
        BY <4>2
      <4>4. /\ PlainList(acl) /\ WrittenWhole(acl) /\ Numbered(acl) /\ FormedList(acl)
            /\ \A n \in Among(acl, s.replaces) : acl[n].action = "permit"
        BY <1>2, <4>2, <4>3, PlainNext DEF ListsFormed
      <4>5. /\ Permitted(acl) \subseteq Permitted(Summed(acl, s))
            /\ \A p \in Permitted(Summed(acl, s)) \ Permitted(acl) :
                 End(p, s.side) \in s.extra
        BY <4>4, SummaryAddsExtra
      <4> QED BY <4>2, <4>3, <4>5
    <3> QED BY <3>1, <3>2, <3>3
  <2> QED BY <2>1, <2>2
<1> QED BY <1>1, <1>2, PTL DEF Spec

\* What the Access Checker says of one line is what the switch does: it matches
\* a connection exactly when the line takes every packet of it, there or back
\* (evaluate_rule).
THEOREM LookupHolds == Spec => []LookupMeansTraffic
<1>1. Init => ListsFormed
  BY ListsAtFirst
<1>2. ListsFormed /\ [Next]_vars => ListsFormed'
  BY ListsKept
<1>3. ListsFormed => LookupMeansTraffic
  <2> SUFFICES ASSUME ListsFormed,
                      NEW line \in RuleSet(acl), Plain(line), ReadWhole(line), AnyWritten(line),
                      Scheduled(line), NEW q \in Queries, NEW active \in SUBSET Running,
                      InOneMember(line, q), q.proto = "tcp" \/ ~line.established
               PROVE  Considered(line, q, nexus, DOMAIN Groups, active)
                        <=> \/ Takes(line, Forward(q, line.established, active))
                            \/ Takes(line, Back(q, line.established, active))
    BY DEF LookupMeansTraffic
  <2>1. Formed(line)
    BY DEF ListsFormed, FormedList, RuleSet, RuleNumbers
  <2>2. Question(q) /\ Between(q) \subseteq PacketEnds
    BY ListsAssumption
  <2>3. line.established \in BOOLEAN
    BY <2>1, PartsOf
  <2>4. Asks(q, line.established, active)
    BY <2>2, <2>3 DEF Asks
  <2>5. Legible(line)
    BY <2>1 DEF Legible
  <2> QED BY <2>4, <2>5, LookupIsTraffic
<1> QED BY <1>1, <1>2, <1>3, PTL DEF Spec

\* The property looks at four of the variables.
LEMMA PreviewSame ==
  ASSUME before' = before, acl' = acl, last' = last, nexus' = nexus
  PROVE  PreviewGrants' <=> PreviewGrants
BY DEF PreviewGrants, RuleSet, RuleNumbers, Permitted, Reaching, Plain

\* A permit applied where the preview put it lets through all of the access that
\* the preview found denied, and takes a number no rule had (rule_preview,
\* _select_rule_sequence, _select_rule_and_remark_sequence).
THEOREM PreviewHolds == Spec => []PreviewGrants
<1>1. Init => ListsFormed /\ PreviewGrants
  BY ListsAtFirst DEF PreviewGrants
<1>2. ASSUME ListsFormed, PreviewGrants, [Next]_vars
      PROVE  ListsFormed' /\ PreviewGrants'
  <2>1. ListsFormed'
    BY <1>2, ListsKept
  <2>2. PreviewGrants'
    <3>1. CASE UNCHANGED vars
      <4>1. before' = before /\ acl' = acl /\ last' = last /\ nexus' = nexus
        BY <3>1 DEF vars
      <4>2. PreviewGrants' <=> PreviewGrants
        BY <4>1, PreviewSame
      <4> QED BY <1>2, <4>2
    <3>2. CASE last'.op # "request"
      BY <3>2 DEF PreviewGrants
    <3>3. CASE Next /\ last'.op = "request" /\ edits' # edits
      <4>1. before' = acl /\ nexus' = nexus
        BY <1>2, <3>3, RequestIs
      <4>2. PICK req \in Requests(nexus), active \in SUBSET Running, swapped \in BOOLEAN,
                 n \in Nat \ {0} : \E line, known, r :
                     Granted(req, line, known, active, swapped, n, r)
        BY <1>2, <3>3, RequestIs
      <4>3. PICK line, known, r : Granted(req, line, known, active, swapped, n, r)
        BY <4>2
      <4> DEFINE found == Inspections(RuleLines(acl), line, req, nexus, known, active)
      <4>4. /\ last'.op = "request" /\ last'.n = n /\ last'.req = req
            /\ last'.swapped = swapped /\ last'.known = known /\ last'.active = active
            /\ last'.found = found
            /\ Grants(line, req, swapped, nexus)
            /\ n \in Below(Blocking(found)) \ RuleNumbers(acl)
            /\ r \notin RuleNumbers(acl) /\ r # n
            /\ acl' = With(acl, n, line) \/ acl' = With(With(acl, n, line), r, Remark)
        BY <4>3 DEF Granted
      <4>5. ~UsesGroups(req) /\ req.time = "" /\ known = DOMAIN Groups =>
              found = Looked(req, active)
        BY DEF Inspections, Looked
      <4> HIDE DEF found
      <4>6. /\ RuleNumbers(acl') = RuleNumbers(acl) \cup {n} /\ acl'[n] = line
            /\ \A m \in RuleNumbers(acl) : acl'[m] = acl[m]
        <5>1. line.action = "permit" /\ n \notin RuleNumbers(acl)
          BY <4>4 DEF Grants
        <5> DEFINE new == acl'
        <5>2. new = With(acl, n, line) \/ new = With(With(acl, n, line), r, Remark)
          BY <4>4
        <5> HIDE DEF new
        <5>3. /\ RuleNumbers(new) = RuleNumbers(acl) \cup {n} /\ new[n] = line
              /\ \A m \in RuleNumbers(acl) : new[m] = acl[m]
          BY <4>4, <5>1, <5>2, PlacedIs
        <5> QED BY <5>3 DEF new
      <4>7. ASSUME ~UsesGroups(req), req.time = "", known = DOMAIN Groups,
                   \A i \in found : i.verdict = "DENIED",
                   \A l \in RuleSet(acl) : Wholly(l, Asked(req, swapped, active))
            PROVE  UNION Asked(req, swapped, active) \subseteq Permitted(acl')
        <5> DEFINE new == acl'
        <5>1. Added(new, acl, n, line)
          BY <4>6 DEF Added
        <5> HIDE DEF new
        <5>2. found = Looked(req, active)
          BY <4>5, <4>7
        <5>3. AllDenied(found) /\ AllWholly(Asked(req, swapped, active))
          BY <4>7 DEF AllDenied, AllWholly
        <5>4. ListsFormed /\ Grants(line, req, swapped, nexus) /\ n \in Below(Blocking(found))
          BY <1>2, <4>4
        <5>5. UNION Asked(req, swapped, active) \subseteq Permitted(new)
          BY <4>7, <5>1, <5>2, <5>3, <5>4, GrantedIs
        <5> QED BY <5>5 DEF new
      <4>8. \A l : Plain(l)' <=> Plain(l)
        BY <4>1 DEF Plain
      <4> DEFINE asked == Asked(req, swapped, active)
      <4>9. last'.n \notin RuleNumbers(before')
        BY <4>1, <4>4
      <4>10. ASSUME ~UsesGroups(last'.req), last'.req.time = "", last'.known = DOMAIN Groups,
                    \A i \in last'.found : i.verdict = "DENIED",
                    \A l \in RuleSet(before') :
                       /\ Plain(l)' /\ ReadWhole(l) /\ AnyWritten(l)
                       /\ \A ps \in Asked(last'.req, last'.swapped, last'.active) :
                             Takes(l, ps) \/ ps \cap HitBy(l) = {}
             PROVE  UNION Asked(last'.req, last'.swapped, last'.active) \subseteq Permitted(acl')
        <5>1. Asked(last'.req, last'.swapped, last'.active) = asked
          BY <4>4
        <5>2. RuleSet(before') = RuleSet(acl)
          BY <4>1
        <5> HIDE DEF asked
        <5>3. \A l \in RuleSet(acl) : Wholly(l, asked)
          BY <4>8, <4>10, <5>1, <5>2 DEF Wholly
        <5>4. /\ ~UsesGroups(req) /\ req.time = "" /\ known = DOMAIN Groups
              /\ \A i \in found : i.verdict = "DENIED"
          BY <4>4, <4>10
        <5>5. UNION asked \subseteq Permitted(acl')
          BY <4>7, <5>3, <5>4 DEF asked
        <5> QED BY <5>1, <5>5
      <4> QED BY <4>9, <4>10 DEF PreviewGrants, RuleSet, RuleNumbers
    <3>4. CASE Next /\ edits' = edits /\ ~UNCHANGED vars
      <4>1. Configure
        <5>1. \A known : ~Advise(known)
          <6> SUFFICES ASSUME NEW known, Advise(known) PROVE FALSE
            OBVIOUS
          <6>1. edits' = edits + 1
            BY DEF Advise, RemoveRedundant, RemoveSuperseded, RemoveFlagged, TakeOut, ApplySummary,
                   ReverseDirection, ReverseChosen, AddRequested, Preview, ApplyFound, Apply, Edit
          <6> QED BY <1>2, <3>4, <6>1 DEF ListsFormed
        <5> QED BY <3>4, <5>1 DEF Next
      <4>2. last'.op = "none"
        BY <1>2, <4>1 DEF Configure, ListsFormed
      <4> QED BY <4>2 DEF PreviewGrants
    <3> QED BY <1>2, <3>1, <3>2, <3>3, <3>4
  <2> QED BY <2>1, <2>2
<1> QED BY <1>1, <1>2, PTL DEF Spec
=============================================================================
