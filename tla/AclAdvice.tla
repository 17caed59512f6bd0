------------------------------ MODULE AclAdvice ------------------------------
(***************************************************************************)
(* One access list, edited on the advice of the analysis pages and of the  *)
(* rule preview.  The switch decides packets; the advice is worked out     *)
(* from the lines alone (AclAnalysis, AclPlacement).  The properties       *)
(* compare the traffic the list lets through before and after each edit    *)
(* with what the page said of it.                                          *)
(***************************************************************************)
EXTENDS AclAnalysis, AclPlacement

CONSTANTS
    Pool(_),        \* lines the switch may be configured with, by platform
    Requests(_),    \* access asked for with the preview
    Placements,     \* <<direction, side>> of the interfaces it is for
    Bindings,       \* where the list is applied: sets of interfaces
    PacketEnds,     \* <<source, destination>> of the packets, both ways
    Queries,        \* connections that are looked up
    Now,            \* the time of the analysis
    Numbers,        \* bound: numbers of the lines configured by hand
    MaxEdits        \* bound: edits that follow advice

\* Addresses are of the width, packets go both ways and between all the
\* addresses that are asked about, lines are of the form lines have, and
\* questions and requests of the one that is accepted.
Between(x) == (x.src.lo..x.src.hi) \X (x.dst.lo..x.dst.hi)

ASSUME ListsAssumption ==
    /\ \A e \in PacketEnds : /\ e \in (0..MaxAddr) \X (0..MaxAddr)
                            /\ <<e[2], e[1]>> \in PacketEnds
    /\ \A bs \in Bindings : \A b \in bs : b.subnet # <<>> => b.subnet \in Int \X Int
    /\ Now \in Int /\ Numbers \subseteq Nat \ {0} /\ MaxEdits \in Nat
    /\ \A q \in Queries : Question(q) /\ Between(q) \subseteq PacketEnds
    /\ \A nx \in BOOLEAN :
        /\ \A line \in Pool(nx) : Formed(line)
        /\ \A req \in Requests(nx) :
            Request(req, nx) /\ (~UsesGroups(req) => Between(req) \subseteq PacketEnds)

VARIABLES
    nexus,      \* the platform: NX-OS, or IOS
    acl,        \* the list on the switch: number -> line
    before,     \* the list before the last edit
    last,       \* what the last edit was
    edits       \* how many there were

vars == <<nexus, acl, before, last, edits>>

-----------------------------------------------------------------------------
(* What the switch does with a packet *)

\* The schedules that may be in force from now on.
Running == {s \in DOMAIN Schedules : \E e \in Schedules[s] :
                e.kind = "periodic" \/ e.end = 0 \/ e.end > Now}

PacketsOf(proto, ports, icmps, replies) ==
    [proto : {proto}, src : {e[1] : e \in PacketEnds},
     dst : {e[2] : e \in PacketEnds}, sport : ports, dport : ports,
     icmp : icmps, reply : replies, when : SUBSET Running]

Traffic ==
    {p \in PacketsOf("tcp", 0..MaxPort, {""}, BOOLEAN)
            \cup PacketsOf("udp", 0..MaxPort, {""}, {FALSE})
            \cup PacketsOf("icmp", {0}, IcmpTypes, {FALSE}) :
        <<p.src, p.dst>> \in PacketEnds}

AddressHolds(operand, h) ==
    CASE operand.form = "any" -> TRUE
      [] operand.form = "odd" -> h \in {operand.lo, operand.hi}
      [] operand.form = "group" -> \E m \in Expanded(operand.group) :
                                        m.lo <= h /\ h <= m.hi
      [] OTHER -> operand.lo <= h /\ h <= operand.hi

PortHolds(c, port) ==
    LET holds(op, ports) == \E r \in PortRanges(op, ports) :
                                r[1] <= port /\ port <= r[2]
    IN  IF c.group # "" THEN \E m \in Expanded(c.group) : holds(m.op, m.ports)
        ELSE holds(c.op, c.ports)

MemberHolds(m, p) ==
    /\ p.proto \in MemberProtocols(m, {"tcp", "udp"})
    /\ PortHolds(Ports(m.op, m.ports), IF m.pos = "src" THEN p.sport ELSE p.dport)

Hits(line, p) ==
    /\ line.time = "" \/ line.time \in p.when
    /\ AddressHolds(line.src, p.src) /\ AddressHolds(line.dst, p.dst)
    /\ IF line.service # ""
       THEN \E m \in Expanded(line.service) : MemberHolds(m, p)
       ELSE /\ line.proto \in {"ip", p.proto}
            /\ PortHolds(line.sport, p.sport) /\ PortHolds(line.dport, p.dport)
    /\ line.icmp \in {"", p.icmp}
    /\ line.established => p.reply

\* The packets a line takes, worked out once for the lines there mostly are.
CommonLines ==
    LET pool == Pool(TRUE) \cup Pool(FALSE)
    IN  pool \cup {Reversed(Rule(line)) : line \in pool} \cup
        UNION {{GeneratePermit(req, at[1], at[2], nx) :
                    req \in Requests(nx), at \in Placements} : nx \in BOOLEAN}

TakenBy == [line \in CommonLines |-> {p \in Traffic : Hits(line, p)}]

HitBy(line) == IF line \in CommonLines THEN TakenBy[line]
               ELSE {p \in Traffic : Hits(line, p)}

IsRule(line) == line.action \in {"permit", "deny"}

RuleNumbers(list) == {n \in DOMAIN list : IsRule(list[n])}

\* What a list lets through: the first rule that a packet hits decides.
Reaching(list, n) ==
    HitBy(list[n]) \ UNION {HitBy(list[m]) : m \in {k \in RuleNumbers(list) : k < n}}

Permitted(list) ==
    UNION {Reaching(list, n) :
              n \in {m \in RuleNumbers(list) : list[m].action = "permit"}}

-----------------------------------------------------------------------------
(* What the program makes of the list *)

\* Object groups as read: a read that fails gives no groups.
Reads == {{}, DOMAIN Groups}

RuleLines(list) == [n \in RuleNumbers(list) |-> list[n]]

Understood(list, known) ==
    [n \in {m \in DOMAIN list : Parses(list[m], nexus, known, "extended")} |->
        Rule(list[n])]

Without(list, numbers) == [n \in DOMAIN list \ numbers |-> list[n]]
With(list, n, line) ==
    [m \in DOMAIN list \cup {n} |-> IF m = n THEN line ELSE list[m]]

\* A line sent without a number is put behind the last one.
Appended(list, line) ==
    With(list, IF DOMAIN list = {} THEN 10 ELSE Max(DOMAIN list) + 10, line)

Idle == [op |-> "none"]

Init ==
    /\ nexus \in BOOLEAN
    /\ acl = <<>> /\ before = <<>>
    /\ last = Idle /\ edits = 0

\* Somebody configures a line on the switch, behind the others.
Configure ==
    /\ edits = 0
    /\ \E n \in Numbers, line \in Pool(nexus) :
        /\ \A m \in DOMAIN acl : m < n
        /\ acl' = With(acl, n, line)
    /\ UNCHANGED <<nexus, before, last, edits>>

Edit(list, op) ==
    /\ acl' = list /\ before' = acl
    /\ last' = op /\ edits' = edits + 1
    /\ UNCHANGED nexus

\* The rules the report names are removed.
TakeOut(numbers, op) == numbers # {} /\ Edit(Without(acl, numbers), op)

RemoveRedundant(known) ==
    TakeOut(Redundant(Understood(acl, known), Resolved(known)),
           [op |-> "redundant", known |-> known])

RemoveSuperseded(known) ==
    TakeOut(Trailing(Understood(acl, known), Resolved(known)),
           [op |-> "redundant", known |-> known])

Flagged(rules, known, bindings) ==
    DeadSchedule(rules, Now) \cup WrongDirection(rules, bindings, Resolved(known))

RemoveFlagged(known, bindings) ==
    TakeOut(Flagged(Understood(acl, known), known, bindings),
           [op |-> "flagged", known |-> known, bindings |-> bindings])

\* A suggestion is applied: its rules out, the summary in.
ApplySummary(known) ==
    \E s \in SuggestSummaries(Understood(acl, known)) :
        Edit(With(Without(acl, s.replaces), s.n, s.rule),
             [op |-> "summary", suggestion |-> s])

\* Rules are reversed one after the other, each removed by its number and
\* its reverse sent without one.
SendReversed(plan, n, list) == Appended(Without(list, {n}), plan[n])

Earlier(chosen, n) == {m \in chosen : m < n}

SendAll(plan, chosen, list) ==
    LET upTo[n \in chosen] ==
            SendReversed(plan, n, IF Earlier(chosen, n) = {} THEN list
                                  ELSE upTo[Max(Earlier(chosen, n))])
    IN  upTo[Max(chosen)]

ReverseChosen(plan) ==
    \E chosen \in (SUBSET DOMAIN plan) \ {{}} :
        Edit(SendAll(plan, chosen, acl), [op |-> "reverse", chosen |-> chosen])

ReverseDirection(known) == ReverseChosen(ReversalPlan(Understood(acl, known), nexus))

\* A request is previewed on an interface and the line applied, with the
\* remark in front of it where there is room.
Remark == Line("remark", "ip", AnyAddress, NoPorts, AnyAddress, NoPorts)

Place(req, blocking) ==
    IF req.remarked
    THEN WithRemark(RuleNumbers(acl), DOMAIN acl, blocking, req.number, req.remark)
    ELSE SelectNumber(RuleNumbers(acl), blocking, req.number)

Apply(line, place, op) ==
    /\ place.n # 0
    /\ Edit(IF place.remark = 0 THEN With(acl, place.n, line)
            ELSE With(With(acl, place.n, line), place.remark, Remark), op)

ApplyFound(req, line, found, swapped, known, active) ==
    LET place == Place(req, Blocking(found))
    IN  Apply(line, place,
              [op |-> "request", n |-> place.n, req |-> req, found |-> found,
               swapped |-> swapped, known |-> known, active |-> active])

RequestGroups(req) == {req.src.group, req.dst.group, req.port.group} \ {""}

Preview(req, line, swapped, known, active) ==
    /\ RequestGroups(req) \subseteq known
    /\ Parses(line, nexus, known, "extended")
    /\ ApplyFound(req, line,
            Inspections(RuleLines(acl), line, req, nexus, known, active),
            swapped, known, active)

AddRequested(req, direction, side, known, active) ==
    Preview(req, GeneratePermit(req, direction, side, nexus),
            DestinationFirst(direction, side), known, active)

Advise(known) ==
    \/ RemoveRedundant(known)
    \/ RemoveSuperseded(known)
    \/ \E b \in Bindings : RemoveFlagged(known, b)
    \/ ApplySummary(known)
    \/ ReverseDirection(known)
    \/ \E req \in Requests(nexus), at \in Placements, active \in SUBSET Running :
            AddRequested(req, at[1], at[2], known, active)

Next ==
    \/ Configure
    \/ edits < MaxEdits /\ \E known \in Reads : Advise(known)

Spec == Init /\ [][Next]_vars

-----------------------------------------------------------------------------
(* Properties *)

RuleSet(list) == {list[n] : n \in RuleNumbers(list)}

\* Lists the comparisons are meant for: every rule is understood with all
\* groups known, has one port clause at most, no group of ports that is empty,
\* and shows its time range.
Plain(line) ==
    /\ Parses(line, nexus, DOMAIN Groups, "extended")
    /\ line.time = "" \/ ~line.log
    /\ "" \in {line.sport.op, line.dport.op}
    /\ \A c \in {line.sport, line.dport} : c.group # "" => Expanded(c.group) # {}

PlainList(list) == \A line \in RuleSet(list) : Plain(line)

\* Ports that survive being written back.
WrittenWhole(list) == \A line \in RuleSet(list) :
    \A c \in {line.sport, line.dport} : WrittenPorts(c) = c

\* A permit and a deny that name ports of different ends are said to share no
\* traffic, which packets with both ports refute.
PortsAt(line) ==
    IF line.service # ""
    THEN {IF m.pos = "src" THEN "src" ELSE "dst" : m \in Expanded(line.service)}
    ELSE {end \in {"src", "dst"} :
            (IF end = "src" THEN line.sport ELSE line.dport).op # ""}

SameEnds(list) ==
    \A x \in RuleSet(list), y \in RuleSet(list) :
        x.action # y.action => PortsAt(x) \cup PortsAt(y) # {"src", "dst"}

\* Removing all the rules that earlier rules cover, or all that later ones
\* supersede, changes nothing of what the list lets through: the page calls
\* them redundant (check_redundant_rules, find_trailing_redundant_rules),
\* whatever groups, schedules and rules of the other action are in between.
RedundancyIsInvisible ==
    last.op = "redundant" /\ last.known = DOMAIN Groups /\ PlainList(before)
    /\ SameEnds(before) => Permitted(acl) = Permitted(before)

\* A suggested summary loses nothing, and lets through in addition only what
\* comes from, or goes to, an address it lists as extra, when no deny stands
\* among the rules it replaces (suggest_summary_rules, summary_apply).
Among(list, numbers) ==
    {n \in RuleNumbers(list) : Min(numbers) < n /\ n < Max(numbers)}

SummaryAddsOnlyExtra ==
    last.op = "summary" /\ PlainList(before) /\ WrittenWhole(before)
    /\ (\A n \in Among(before, last.suggestion.replaces) :
            before[n].action = "permit")
        => /\ Permitted(before) \subseteq Permitted(acl)
           /\ \A p \in Permitted(acl) \ Permitted(before) :
                (IF last.suggestion.side = "src" THEN p.src ELSE p.dst)
                    \in last.suggestion.extra

\* A list all of whose rules were reversed lets through the packets of the
\* other direction: the same pairs of hosts and ports, swapped
\* (plan_acl_reversal, the reverse-direction pages).
Mirror(p) == [p EXCEPT !.src = p.dst, !.dst = p.src,
                       !.sport = p.dport, !.dport = p.sport]

ReversalMirrors ==
    last.op = "reverse" /\ last.chosen = RuleNumbers(before)
    /\ WrittenWhole(before) /\ (\A line \in RuleSet(before) : ~line.log)
        => Permitted(acl) = {Mirror(p) : p \in Permitted(before)}

\* What the Access Checker says of one line is what the switch does: it
\* matches a connection exactly when the line takes every packet of it, there
\* or back (evaluate_rule, ip_matches_rule_addr).
PortsOf(proto, all) == IF proto = "icmp" THEN {0} ELSE all
TypesOf(proto, type) ==
    IF proto # "icmp" THEN {""} ELSE IF type = "" THEN IcmpTypes ELSE {type}

Connections(q, reply, active) ==
    UNION {[proto : {proto}, src : q.src.lo..q.src.hi, dst : q.dst.lo..q.dst.hi,
            sport : PortsOf(proto, 0..MaxPort),
            dport : PortsOf(proto, IF q.port = NoPort THEN 0..MaxPort ELSE {q.port}),
            icmp : TypesOf(proto, q.icmp), reply : {reply}, when : {active}] :
           proto \in IF q.proto = "ip" THEN {"tcp", "udp", "icmp"} ELSE {q.proto}}

Forward(q, reply, active) ==
    {p \in Connections(q, reply, active) : <<p.src, p.dst>> \in PacketEnds}

Back(q, reply, active) == {Mirror(p) : p \in Forward(q, reply, active)}

\* Groups the lookup reads whole: no group within, no member that is a range
\* or has no port.
ReadWhole(line) ==
    \A g \in {line.src.group, line.dst.group, line.sport.group,
              line.dport.group, line.service} \ {""} :
        \A m \in Groups[g].members :
            IF Groups[g].kind = "address" THEN m.form = "net"
            ELSE m.form # "nested" /\ m.op # ""

\* What the lookup tells by the form of the line: an operand for all addresses
\* is written "any", one for all ports not at all.
AnyWritten(line) ==
    /\ \A a \in {line.src, line.dst} :
        a.form = "any" \/ \E h \in 0..MaxAddr : ~AddressHolds(a, h)
    /\ \A c \in {line.sport, line.dport} :
        c.op = "" \/ \E port \in 0..MaxPort : ~PortHolds(c, port)
    /\ line.service # "" =>
        \A proto \in {"tcp", "udp"}, ends \in {{"src"}, {"", "dst"}} :
            \E port \in 0..MaxPort : \A m \in Expanded(line.service) :
                m.pos \in ends /\ proto \in MemberProtocols(m, {"tcp", "udp"})
                    => ~PortHolds(Ports(m.op, m.ports), port)

\* The lookup does not put members together: a network it asks about is in one.
Together(operand, a) ==
    operand.group # "" /\ (\A h \in a.lo..a.hi : AddressHolds(operand, h)) =>
        \E m \in Expanded(operand.group) : Within(<<a.lo, a.hi>>, <<m.lo, m.hi>>)

InOneMember(line, q) ==
    \A operand \in {line.src, line.dst}, a \in {q.src, q.dst} : Together(operand, a)

\* A schedule that the switch does not have is taken for one in force.
Scheduled(line) == line.time \in {""} \cup DOMAIN Schedules

Takes(line, packets) == packets \subseteq HitBy(line)

LookupMeansTraffic ==
    edits = 0 =>
        \A line \in {l \in RuleSet(acl) : /\ Plain(l) /\ ReadWhole(l)
                                         /\ AnyWritten(l) /\ Scheduled(l)},
           q \in Queries, active \in SUBSET Running :
            InOneMember(line, q) /\ (q.proto = "tcp" \/ ~line.established) =>
                (Considered(line, q, nexus, DOMAIN Groups, active)
                    <=> \/ Takes(line, Forward(q, line.established, active))
                        \/ Takes(line, Back(q, line.established, active)))

\* A permit applied where the preview put it lets the access through that the
\* preview found denied, in the direction the line is for: no deny is left
\* in front of it, for lines that take each probed connection whole or not at
\* all (rule_preview, _select_rule_sequence).  And its number was free.
Asked(req, swapped, active) ==
    LET reply == req.established /\ swapped
    IN  {IF swapped THEN Back(q, reply, active) ELSE Forward(q, reply, active) :
            q \in Samples(req)}

PreviewGrants ==
    last.op = "request" =>
        LET wanted == Asked(last.req, last.swapped, last.active)
            whole(line) == /\ Plain(line) /\ ReadWhole(line) /\ AnyWritten(line)
                           /\ \A ps \in wanted : \/ Takes(line, ps)
                                                 \/ ps \cap HitBy(line) = {}
        IN  /\ last.n \notin RuleNumbers(before)
            /\ ~UsesGroups(last.req) /\ last.req.time = ""
               /\ last.known = DOMAIN Groups
               /\ (\A i \in last.found : i.verdict = "DENIED")
               /\ (\A line \in RuleSet(before) : whole(line))
                    => UNION wanted \subseteq Permitted(acl)

\* Rules reported as over, or as on the wrong side of every interface the
\* list is on, decide no packet that crosses such an interface from now on
\* (find_dead_schedule_rules, find_wrong_direction_rules).
Crossing(bindings) ==
    {p \in Traffic : \E b \in {c \in bindings : c.subnet # <<>>} :
        LET end == IF b.direction = "in" THEN p.src ELSE p.dst
        IN  b.subnet[1] <= end /\ end <= b.subnet[2]}

FlaggedNeverFires ==
    last.op = "flagged" /\ last.known = DOMAIN Groups =>
        LET seen == IF \A b \in last.bindings : b.subnet = <<>>
                    THEN Traffic ELSE Crossing(last.bindings)
        IN  Permitted(acl) \cap seen = Permitted(before) \cap seen
=============================================================================
