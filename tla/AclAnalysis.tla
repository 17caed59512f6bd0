---------------------------- MODULE AclAnalysis ----------------------------
(***************************************************************************)
(* What the analysis pages say of a list: rules covered by an earlier or a *)
(* later one, schedules that are over, rules on the wrong side of their    *)
(* interface, summaries, and the list with its direction reversed          *)
(* (acl_parser.py).  The operators take the rules of the list as a         *)
(* function of their sequence numbers, which are their order.              *)
(***************************************************************************)
EXTENDS AclRules

-----------------------------------------------------------------------------
(* Redundant rules *)

\* check_redundant_rules: some earlier rule covers rule i.
CoveredEarlier(rules, groups, i) ==
    \E j \in DOMAIN rules : j < i /\ Covers(rules[j], rules[i], groups, TRUE)

\* find_trailing_redundant_rules: the scan behind rule i stops at the first
\* rule of the other action that shares traffic with it.
\* Mutant: only rules that rule i lies inside of stop the scan.
Conflicts_Containing(rules, groups, i, k) ==
    /\ rules[k].action # rules[i].action
    /\ Covers(rules[k], rules[i], groups, FALSE)

Conflicts(rules, groups, i, k) ==
    /\ rules[k].action # rules[i].action
    /\ TrafficOverlaps(rules[i], rules[k], groups)

SupersededBy(rules, groups, i, k) ==
    /\ i < k
    /\ Covers(rules[k], rules[i], groups, TRUE)
    /\ \A m \in DOMAIN rules : i < m /\ m < k => ~Conflicts(rules, groups, i, m)

Redundant(rules, groups) ==
    {i \in DOMAIN rules : CoveredEarlier(rules, groups, i)}

Trailing(rules, groups) ==
    {i \in DOMAIN rules : \E k \in DOMAIN rules : SupersededBy(rules, groups, i, k)}

-----------------------------------------------------------------------------
(* Schedules that are over, rules on the wrong side *)

\* time_range_is_expired: every entry has an end, and it has passed.
\* Mutant: one entry that is over is enough.
Expired_Any(entries, now) ==
    \E e \in entries : e.kind = "absolute" /\ e.end # 0 /\ e.end <= now

Expired(entries, now) ==
    /\ entries # {}
    /\ \A e \in entries : e.kind = "absolute" /\ e.end # 0 /\ e.end <= now

DeadSchedule(rules, now) ==
    {n \in DOMAIN rules :
        /\ rules[n].time \in DOMAIN Schedules
        /\ Expired(Schedules[rules[n].time], now)}

\* find_wrong_direction_rules: "in" is judged by the source, "out" by the
\* destination; one interface whose subnet the rule may meet is enough.
\* Bindings without a known subnet say nothing.
Fires(rule, binding, groups) ==
    RangesOverlap(AddrRanges(IF binding.direction = "in" THEN rule.src
                                                         ELSE rule.dst, groups),
                  {binding.subnet})

WrongDirection(rules, bindings, groups) ==
    LET usable == {b \in bindings : b.subnet # <<>>}
    IN  {n \in DOMAIN rules :
            usable # {} /\ \A b \in usable : ~Fires(rules[n], b, groups)}

-----------------------------------------------------------------------------
(* Summaries *)

Size(net) == net[2] - net[1] + 1

\* _best_summary_network: the smallest block around the networks, unless it
\* holds far more than they do; where their last address would be the last
\* of the block the next larger is tried, if the block is not exactly them.
PowerOf2[k \in 0..AddrBits] == IF k = 0 THEN 1 ELSE 2 * PowerOf2[k - 1]

Block(k, lo) ==
    <<lo - (lo % PowerOf2[k]), lo - (lo % PowerOf2[k]) + PowerOf2[k] - 1>>

Held(k, nets, lo, hi, total) ==
    LET exact == PowerOf2[k] = total /\ hi - lo + 1 = total
    IN  /\ Within(<<lo, hi>>, Block(k, lo))
        /\ PowerOf2[k] <= Max({8, 4 * total})
        /\ exact \/ k = 0 \/ Block(k, lo)[2] # hi

Around(nets, lo, hi, total) ==
    LET fits == {k \in 0..AddrBits : Held(k, nets, lo, hi, total)}
    IN  IF Len(nets) < 2 \/ fits = {} THEN {} ELSE {Block(Min(fits), lo)}

BestSummary(nets) ==
    Around(nets, Min({nets[i][1] : i \in DOMAIN nets}),
           Max({nets[i][2] : i \in DOMAIN nets}),
           FoldFunction(LAMBDA net, sum : sum + Size(net), 0, nets))

\* _cluster_summary_networks: each cluster takes the networks behind its
\* first as long as they still have a summary together.
Clusters(nets) ==
    LET grows(i, j) == \A m \in (i + 1)..j : BestSummary(SubSeq(nets, i, m)) # {}
        last == [i \in DOMAIN nets |-> Max({j \in i..Len(nets) : grows(i, j)})]
        starts[i \in 1..(Len(nets) + 1)] ==
            IF i > Len(nets) THEN {} ELSE {i} \cup starts[last[i] + 1]
    IN  {<<i, last[i]>> : i \in {j \in DOMAIN nets : j \in starts[1] /\ last[j] > j}}

\* The address operand of one side, and the rule with it replaced.
SideOf(rule, side) == IF side = "src" THEN rule.src ELSE rule.dst
WithSide(rule, side, a) ==
    IF side = "src" THEN [rule EXCEPT !.src = a] ELSE [rule EXCEPT !.dst = a]

\* _widen_group_key: rules that differ in the widened address only.
\* Mutant: the destination port is not compared.
WidenKey_AnyPort(rule, side) ==
    WithSide([rule EXCEPT !.dport = NoPorts], side, AnyAddress)

WidenKey(rule, side) == WithSide(rule, side, AnyAddress)

\* The operands as they are written back: of the ports of "eq" and "neq"
\* only the first is.
WrittenPorts(c) ==
    IF c.op \in {"eq", "neq"} THEN [c EXCEPT !.ports = <<@[1]>>] ELSE c

WrittenNet(net) == IF net[1] = net[2] THEN Host(net[1]) ELSE Net(net[1], net[2])

Written(rule) == [rule EXCEPT !.sport = WrittenPorts(@),
                              !.dport = WrittenPorts(@)]

\* One group of _suggest_widening, networks inside another of the group left
\* out, in the order of their first address.
Entry(rules, n, side) ==
    [net |-> <<SideOf(rules[n], side).lo, SideOf(rules[n], side).hi>>,
     n |-> n, rule |-> rules[n]]

Outer(entries) ==
    {e \in entries : \A o \in entries : o.net # e.net => ~Within(e.net, o.net)}

InOrder(x, y) ==
    \/ x.net[1] < y.net[1]
    \/ x.net[1] = y.net[1] /\ x.n < y.n

Ordered(entries) ==
    CHOOSE s \in [1..Cardinality(entries) -> entries] :
        \A i, j \in DOMAIN s : i < j => InOrder(s[i], s[j])

\* The rules of one group that may be widened on this side.
Widened(rules, side, key) ==
    {n \in DOMAIN rules :
        /\ rules[n].action = "permit"
        /\ SideOf(rules[n], side).form \notin {"any", "group"}
        /\ WidenKey(rules[n], side) = key}

GroupEntries(rules, side, key) ==
    Ordered(Outer({Entry(rules, n, side) : n \in Widened(rules, side, key)}))

Nets(entries) == [i \in DOMAIN entries |-> entries[i].net]

Suggestion(cluster, block, side) ==
    LET numbers == {e.n : e \in ToSet(cluster)}
    IN  [n |-> Min(numbers), replaces |-> numbers, side |-> side,
         rule |-> WithSide(Written(cluster[1].rule), side, WrittenNet(block)),
         extra |-> {a \in block[1]..block[2] :
                        \A e \in ToSet(cluster) : ~Within(<<a, a>>, e.net)}]

\* A cluster that already has its summary among its networks is left out.
OfGroup(entries, side) ==
    UNION {LET cluster == SubSeq(entries, c[1], c[2])
           IN  {Suggestion(cluster, block, side) :
                    block \in BestSummary(Nets(cluster)) \ ToSet(Nets(cluster))} :
           c \in Clusters(Nets(entries))}

SuggestWidening(rules, side) ==
    UNION {OfGroup(GroupEntries(rules, side, key), side) :
               key \in {WidenKey(rules[n], side) : n \in DOMAIN rules}}

SuggestSummaries(rules) ==
    SuggestWidening(rules, "src") \cup SuggestWidening(rules, "dst")

-----------------------------------------------------------------------------
(* Reversing the direction *)

HasGroup(rule) ==
    \E g \in {rule.src.group, rule.dst.group, rule.sport.group,
              rule.dport.group, rule.service} : g # ""

Reversible(rule, nexus) == nexus \/ ~HasGroup(rule)

\* reverse_rule_direction: address and port change sides together.
\* Mutant: the ports stay where they are.
Reversed_AddressesOnly(rule) ==
    Written([rule EXCEPT !.src = rule.dst, !.dst = rule.src])

Reversed(rule) ==
    Written([rule EXCEPT !.src = rule.dst, !.sport = rule.dport,
                         !.dst = rule.src, !.dport = rule.sport])

\* plan_acl_reversal: by number, what each rule becomes; a standard list
\* has nothing to reverse.
ReversalPlan(rules, nexus) ==
    [n \in {m \in DOMAIN rules : ~rules[m].standard /\ Reversible(rules[m], nexus)} |->
        Reversed(rules[n])]
=============================================================================
