---------------------------- MODULE ConfigObjects ----------------------------
(***************************************************************************)
(* The write path of the other things GIGACL configures (backend/main.py): *)
(* an access list on an interface (attach, detach, flip), whole lists      *)
(* (create, delete, a template's lines), time ranges and object groups.    *)
(* Each handler reads, plans a set of lines and the set that undoes it,    *)
(* sends the set, and some then read back and roll back.                   *)
(*                                                                         *)
(* An object of the configuration is a function from numbers to texts: the *)
(* lines of a list, the members of a group, the entries of a range, the    *)
(* lists on an interface by direction.  IOS shows no numbers of members    *)
(* and entries; nothing here but NX-OS members relies on them.             *)
(***************************************************************************)
EXTENDS Integers, Sequences, FiniteSets, FiniteSetsExt, SequencesExt, Functions

CONSTANTS
    Requests,       \* HTTP write requests
    Groups,         \* names of object groups
    Ranges,         \* names of time ranges
    Lists,          \* names of access lists
    Interfaces,     \* VLAN interfaces
    Text,           \* texts: rules, members, entries, names of lists
    Remarks,        \* those of them that are remarks
    Asks,           \* request -> the jobs it may ask for
    Outset,         \* configurations of the switch at the start
    Heard,          \* FALSE \in Heard: a refusal may go unnoticed
    LastNumber      \* number of the last line of a new list (999)

VARIABLES
    nexus,      \* the platform: NX-OS, or IOS
    conf,       \* the running-config: object -> its entries
    pc,         \* request -> the await it is at
    job,        \* request -> what it was asked
    was,        \* request -> the configuration when it read
    plan,       \* request -> the set it sends and the set that undoes it
    todo,       \* request -> lines of the current set not yet sent
    err,        \* request -> an error was detected in the current set
    reply,      \* request -> what the response says
    blind,      \* requests that read a group or range list that failed
    silent,     \* requests one of whose lines was refused unnoticed
    disturbed   \* requests since whose read another one changed conf

vars == <<nexus, conf, pc, job, was, plan, todo, err, reply,
          blind, silent, disturbed>>

Objects == Groups \cup Ranges \cup Lists \cup Interfaces

In == 1
Out == 2
Opposite(d) == IF d = In THEN Out ELSE In

\* The entries of an object, and the configurations of a switch.
Entries(f) ==
    f \in [DOMAIN f -> Text] /\ DOMAIN f \subseteq Nat \ {0} /\ IsFiniteSet(DOMAIN f)

Configuration(c) ==
    /\ c = [o \in DOMAIN c |-> c[o]] /\ DOMAIN c \subseteq Objects
    /\ \A o \in DOMAIN c : Entries(c[o])

\* What the endpoints take: an object of the right type, a direction for a
\* binding, lines and members that are not empty.
BindingOps == {"attach", "detach", "flip"}
ListOps == {"template", "createList", "deleteList"}
RangeOps == {"range", "deleteRange"}
GroupOps == {"createGroup", "addMember", "deleteMember", "editMember", "deleteGroup"}

Endpoints ==
    [op : BindingOps \cup ListOps \cup RangeOps \cup GroupOps, o : Objects, k : Nat,
     v : Text \cup {""}, w : Text \cup {""}, lines : Seq(Text),
     refs : SUBSET (Groups \cup Ranges)]

Accepted(j) ==
    /\ j \in Endpoints
    /\ j.op \in BindingOps => /\ j.o \in Interfaces /\ j.k \in {In, Out}
                              /\ j.v \in Text /\ j.refs = {}
    /\ j.op \in ListOps => j.o \in Lists
    /\ j.op = "createList" => j.v \in Text
    /\ j.op \in RangeOps => j.o \in Ranges
    /\ j.op \in GroupOps => j.o \in Groups
    /\ j.op \in {"addMember", "deleteMember", "editMember"} => j.v \in Text
    /\ j.op = "editMember" => j.w \in Text

ASSUME NamesAssumption ==
    /\ Interfaces \cap (Groups \cup Ranges \cup Lists) = {}
    /\ Lists \cap (Groups \cup Ranges) = {} /\ Groups \cap Ranges = {}
    /\ "" \notin Text

ASSUME AsksAssumption ==
    /\ \A r \in Requests : \A j \in Asks[r] : Accepted(j)
    /\ LastNumber \in Nat \ {0} /\ Heard \subseteq BOOLEAN

ASSUME OutsetAssumption == \A c \in Outset : Configuration(c)

-----------------------------------------------------------------------------
(* The switch *)

Contents(c, o) == IF o \in DOMAIN c THEN c[o] ELSE <<>>
Texts(c, o) == Range(Contents(c, o))

Holding(c, o, entries) ==
    [p \in DOMAIN c \cup {o} |-> IF p = o THEN entries ELSE c[p]]
WithEntry(f, k, v) == [n \in DOMAIN f \cup {k} |-> IF n = k THEN v ELSE f[n]]

\* The number a member sent without one gets.
NextNumber(f) == IF DOMAIN f = {} THEN 1 ELSE Max(DOMAIN f) + 1

\* Lines: 0 and "" stand for no number and no text.
Command(op, o, k, v) == [op |-> op, o |-> o, k |-> k, v |-> v]
Enter(o) == Command("enter", o, 0, "")
Put(o, k, v) == Command("put", o, k, v)
Add(o, v) == Command("add", o, 0, v)
Strip(o, k, v) == Command("remove", o, k, v)
Delete(o) == Command("delete", o, 0, "")

Named(c, f) ==
    {k \in DOMAIN f : (c.k = 0 \/ c.k = k) /\ (c.v = "" \/ c.v = f[k])}

\* What the switch does with a line it accepts: entering creates, adding what
\* is there already changes nothing.
Obeyed(c, f) ==
    CASE c.op = "put" -> WithEntry(f, c.k, c.v)
      [] c.op = "add" /\ c.v \notin Range(f) -> WithEntry(f, NextNumber(f), c.v)
      [] c.op = "remove" -> Restrict(f, DOMAIN f \ Named(c, f))
      [] OTHER -> f

Obey(config, c) ==
    IF c.op = "delete" THEN Restrict(config, DOMAIN config \ {c.o})
    ELSE Holding(config, c.o, Obeyed(c, Contents(config, c.o)))

ObeyAll(config, set) ==
    LET after[i \in 1..Len(set)] == Obey(IF i = 1 THEN config ELSE after[i - 1], set[i])
    IN  IF set = <<>> THEN config ELSE after[Len(set)]

-----------------------------------------------------------------------------
(* The sets the handlers build *)

Puts(o, numbers, lines) == [i \in DOMAIN lines |-> Put(o, numbers[i], lines[i])]
Adds(o, lines) == [i \in DOMAIN lines |-> Add(o, lines[i])]
Removes(o, numbers) == [i \in DOMAIN numbers |-> Strip(o, numbers[i], "")]

\* In ascending order: before the i-th one there are i - 1.
Sorted(numbers) ==
    [i \in 1..Cardinality(numbers) |->
        CHOOSE k \in numbers : Cardinality({m \in numbers : m < k}) = i - 1]

\* What a deletion captured is entered again: lists with their numbers, groups
\* and ranges without.
Lines(f) == [i \in DOMAIN Sorted(DOMAIN f) |-> f[Sorted(DOMAIN f)[i]]]

\* Mutant: the lines of a list are numbered anew.
Captured_Renumbered(s, o) ==
    <<Enter(o)>> \o IF o \in Lists THEN Puts(o, [i \in 1..99 |-> i], Lines(s[o]))
                                   ELSE Adds(o, Lines(s[o]))

Captured(s, o) ==
    <<Enter(o)>> \o IF o \in Lists THEN Puts(o, Sorted(DOMAIN s[o]), Lines(s[o]))
                                   ELSE Adds(o, Lines(s[o]))

\* first_empty_sequences: the first numbers no rule has, from 1 on.
FirstEmpty(used, count) ==
    SubSeq(Sorted((1..(Cardinality(used) + count)) \ used), 1, count)

\* A member is deleted by its number where the switch shows one: on NX-OS (nx).
DeleteTarget(nx, j) == IF nx THEN Strip(j.o, j.k, "") ELSE Strip(j.o, 0, j.v)

Send(set, undo) == [answer |-> "", set |-> set, undo |-> undo]
Answer(text) == [answer |-> text, set |-> <<>>, undo |-> <<>>]
If(condition, sends) == IF condition THEN sends ELSE Answer("refused")

At(s, o, k, v) == k \in DOMAIN Contents(s, o) /\ s[o][k] = v

-----------------------------------------------------------------------------
(* Plans: what a handler does, given the platform, its job j and the      *)
(* configuration s it read                                                 *)

AttachPlan(j, s) ==
    IF At(s, j.o, j.k, j.v) /\ j.v \in DOMAIN s THEN Answer("unchanged")
    ELSE If(j.v \in DOMAIN s /\ j.o \in DOMAIN s /\ j.k \notin DOMAIN s[j.o],
            Send(<<Enter(j.o), Put(j.o, j.k, j.v)>>,
                 <<Enter(j.o), Strip(j.o, j.k, j.v)>>))

DetachPlan(j, s) ==
    If(j.v \in DOMAIN s /\ At(s, j.o, j.k, j.v),
       Send(<<Enter(j.o), Strip(j.o, j.k, j.v)>>,
            <<Enter(j.o), Put(j.o, j.k, j.v)>>))

FlipPlan(j, s) ==
    If(/\ At(s, j.o, j.k, j.v)
       /\ Opposite(j.k) \in DOMAIN s[j.o] => At(s, j.o, Opposite(j.k), j.v),
       Send(<<Enter(j.o), Strip(j.o, j.k, j.v), Put(j.o, Opposite(j.k), j.v)>>,
            <<Enter(j.o), Strip(j.o, Opposite(j.k), j.v), Put(j.o, j.k, j.v)>>))

\* The list need not exist; remarks do not count as occupied numbers.
RuleNumbers(f) == {k \in DOMAIN f : f[k] \notin Remarks}

TemplatePlan(j, s) ==
    LET numbers == FirstEmpty(RuleNumbers(Contents(s, j.o)),
                              Len(j.lines))
    IN  If(j.lines # <<>> /\ j.refs \subseteq DOMAIN s,
           Send(<<Enter(j.o)>> \o Puts(j.o, numbers, j.lines),
                <<Enter(j.o)>> \o Removes(j.o, numbers)))

CreateListPlan(j, s) ==
    If(/\ j.o \notin DOMAIN s /\ j.refs \subseteq DOMAIN s
       /\ Len(j.lines) < LastNumber,
       Send(<<Enter(j.o)>> \o Puts(j.o, FirstEmpty({}, Len(j.lines)), j.lines)
                           \o <<Put(j.o, LastNumber, j.v)>>,
            <<Delete(j.o)>>))

\* The undo of a deletion is what was read before it.
Deletion(o, s) == If(o \in DOMAIN s, Send(<<Delete(o)>>, Captured(s, o)))

DeleteListPlan(j, s) == Deletion(j.o, s)
DeleteRangePlan(j, s) == Deletion(j.o, s)
DeleteGroupPlan(j, s) == Deletion(j.o, s)

\* An existing range is deleted and made again; its undo enters the old
\* entries and does not take the new ones out.
RangePlan(j, s) ==
    IF j.o \in DOMAIN s
    THEN Send(<<Delete(j.o), Enter(j.o)>> \o Adds(j.o, j.lines), Captured(s, j.o))
    ELSE Send(<<Enter(j.o)>> \o Adds(j.o, j.lines), <<Delete(j.o)>>)

CreateGroupPlan(j, s) ==
    If(j.o \notin DOMAIN s,
       Send(<<Enter(j.o)>> \o Adds(j.o, j.lines), <<Delete(j.o)>>))

AddMemberPlan(j, s) ==
    If(j.o \in DOMAIN s /\ j.refs \subseteq DOMAIN s,
       Send(<<Enter(j.o), Add(j.o, j.v)>>, <<Enter(j.o), Strip(j.o, 0, j.v)>>))

DeleteMemberPlan(nx, j, s) ==
    If(At(s, j.o, j.k, j.v),
       Send(<<Enter(j.o), DeleteTarget(nx, j)>>, <<Enter(j.o), Add(j.o, j.v)>>))

EditMemberPlan(nx, j, s) ==
    IF At(s, j.o, j.k, j.v) /\ j.v = j.w THEN Answer("unchanged")
    ELSE If(At(s, j.o, j.k, j.v),
            Send(<<Enter(j.o), DeleteTarget(nx, j), Add(j.o, j.w)>>,
                 <<Enter(j.o), Strip(j.o, 0, j.w), Add(j.o, j.v)>>))

PlanFor(nx, j, s) ==
    CASE j.op = "attach" -> AttachPlan(j, s)
      [] j.op = "detach" -> DetachPlan(j, s)
      [] j.op = "flip" -> FlipPlan(j, s)
      [] j.op = "template" -> TemplatePlan(j, s)
      [] j.op = "createList" -> CreateListPlan(j, s)
      [] j.op = "deleteList" -> DeleteListPlan(j, s)
      [] j.op = "deleteRange" -> DeleteRangePlan(j, s)
      [] j.op = "deleteGroup" -> DeleteGroupPlan(j, s)
      [] j.op = "range" -> RangePlan(j, s)
      [] j.op = "createGroup" -> CreateGroupPlan(j, s)
      [] j.op = "addMember" -> AddMemberPlan(j, s)
      [] j.op = "deleteMember" -> DeleteMemberPlan(nx, j, s)
      [] j.op = "editMember" -> EditMemberPlan(nx, j, s)

-----------------------------------------------------------------------------
(* How a request goes on after its set was sent *)

ReadsBack(j) == j.op \in {"attach", "detach", "flip", "createGroup",
                          "addMember", "editMember"}
UndoesErrors(j) == j.op \in {"attach", "detach", "flip", "editMember"}

\* The read back shows what was asked for.
Shows(j, s) ==
    CASE j.op = "attach" -> At(s, j.o, j.k, j.v)
      [] j.op = "detach" -> ~At(s, j.o, j.k, j.v)
      [] j.op = "flip" -> At(s, j.o, Opposite(j.k), j.v)
      [] j.op = "createGroup" -> j.o \in DOMAIN s
      [] j.op = "addMember" -> j.v \in Texts(s, j.o)
      [] j.op = "editMember" -> j.w \in Texts(s, j.o)

\* Mutant: an edited member is looked for, the old one is not.
Confirms_NewOnly(j, s) == Shows(j, s)

Confirms(j, s) ==
    /\ Shows(j, s)
    /\ j.op = "editMember" => j.v \notin Texts(s, j.o)

\* A member that was added is undone by the number it was read back with.
UndoOf(nx, j, s, undo) ==
    IF j.op = "addMember" /\ nx
    THEN <<Enter(j.o), Strip(j.o, CHOOSE k \in DOMAIN s[j.o] : s[j.o][k] = j.v, "")>>
    ELSE undo

\* Which answers to a rollback depend on a further read.
LooksAgain(j, why) ==
    \/ j.op = "editMember"
    \/ j.op \in {"attach", "detach"} /\ why = "unconfirmed"

\* What is said of a rollback that is not looked at.
RolledBack(j, ok) ==
    CASE j.op = "flip" -> IF ok THEN "restored" ELSE "failed"
      [] j.op = "createGroup" -> "rolledback"
      [] OTHER -> "failed"

\* Mutant: the read after the rollback is not looked at.
Restored_Unread(j, s, ok) == ok

Restored(j, s, ok) ==
    /\ ok
    /\ CASE j.op = "attach" -> ~At(s, j.o, j.k, j.v)
         [] j.op = "detach" -> At(s, j.o, j.k, j.v)
         [] j.op = "editMember" -> j.v \in Texts(s, j.o)

-----------------------------------------------------------------------------
(* Reads: a list of groups or ranges that cannot be read is empty, and     *)
(* ranges may be read by name only. The reads of lists and bindings are    *)
(* taken to work: their handlers do not look for an error in the output    *)
(* (list_acl_names, get_acl_rules).                                        *)

Hidden(s, names) == Restrict(s, DOMAIN s \ names)
NamesOnly(s) ==
    [o \in DOMAIN s |-> IF o \in Ranges THEN <<>> ELSE s[o]]

ReadsGroups(j) == j.o \in Groups \/ j.refs # {}
ReadsRanges(j) == j.o \in Ranges \/ j.refs # {}

Reads(j) ==
    {conf} \cup (IF ReadsGroups(j) THEN {Hidden(conf, Groups)} ELSE {})
           \cup (IF ReadsRanges(j) THEN {Hidden(conf, Ranges), NamesOnly(conf)}
                                   ELSE {})

-----------------------------------------------------------------------------
(* Actions *)

NoJob == [op |-> "none"]

Init ==
    /\ nexus \in BOOLEAN
    /\ conf \in Outset
    /\ pc = [r \in Requests |-> "idle"]
    /\ job = [r \in Requests |-> NoJob]
    /\ was = [r \in Requests |-> <<>>]
    /\ plan = [r \in Requests |-> Answer("")]
    /\ todo = [r \in Requests |-> <<>>]
    /\ err = [r \in Requests |-> FALSE]
    /\ reply = [r \in Requests |-> ""]
    /\ blind = {} /\ silent = {} /\ disturbed = {}

Finish(r, answer) ==
    /\ pc' = [pc EXCEPT ![r] = "done"]
    /\ reply' = [reply EXCEPT ![r] = answer]

StartSet(r, set, at) ==
    /\ pc' = [pc EXCEPT ![r] = at]
    /\ todo' = [todo EXCEPT ![r] = set]
    /\ err' = [err EXCEPT ![r] = FALSE]

\* The request reads, refuses or goes on.
Planned(r, j, s, p) ==
    /\ job' = [job EXCEPT ![r] = j]
    /\ was' = [was EXCEPT ![r] = conf]
    /\ plan' = [plan EXCEPT ![r] = p]
    /\ blind' = IF s = conf THEN blind ELSE blind \cup {r}
    /\ IF p.answer # ""
       THEN Finish(r, p.answer) /\ UNCHANGED <<todo, err>>
       ELSE StartSet(r, p.set, "config") /\ UNCHANGED reply
    /\ UNCHANGED <<nexus, conf, silent, disturbed>>

Read(r) ==
    /\ pc[r] = "idle"
    /\ \E j \in Asks[r] : \E s \in Reads(j) : Planned(r, j, s, PlanFor(nexus, j, s))

\* Any other read that loses the switch ends the request.
Unreachable(r) ==
    /\ pc[r] = "idle"
    /\ Finish(r, "unreachable")
    /\ UNCHANGED <<nexus, conf, job, was, plan, todo, err, blind, silent, disturbed>>

\* The set is over; "ok" is what configure returned.
AfterConfig(r, ok) ==
    CASE ok /\ ReadsBack(job[r]) ->
            pc' = [pc EXCEPT ![r] = "verify"] /\ UNCHANGED reply
      [] ok /\ ~ReadsBack(job[r]) -> Finish(r, "success")
      [] ~ok /\ UndoesErrors(job[r]) ->
            /\ pc' = [pc EXCEPT ![r] = "undoing"]
            /\ reply' = [reply EXCEPT ![r] = "rejected"]
      [] OTHER -> Finish(r, "failed")

AfterRollback(r, ok) ==
    IF LooksAgain(job[r], reply[r])
    THEN pc' = [pc EXCEPT ![r] = "restoreVerify"] /\ UNCHANGED reply
    ELSE Finish(r, RolledBack(job[r], ok))

After(r, ok) ==
    CASE pc[r] = "config" -> AfterConfig(r, ok)
      [] pc[r] = "rollback" -> AfterRollback(r, ok)

Sending == {"config", "rollback"}

\* Lines still to be sent, and whether an error was seen so far.
Sent(r, rest, seen) ==
    /\ todo' = [todo EXCEPT ![r] = rest]
    /\ err' = [err EXCEPT ![r] = seen]
    /\ IF rest # <<>> THEN UNCHANGED <<pc, reply>> ELSE After(r, ~seen)
    /\ UNCHANGED <<nexus, job, was, plan, blind>>

Others(r) == {q \in Requests \ {r} : pc[q] # "idle"}

SendLine(r) ==
    /\ pc[r] \in Sending
    /\ conf' = Obey(conf, Head(todo[r]))
    /\ disturbed' = IF conf' = conf THEN disturbed ELSE disturbed \cup Others(r)
    /\ Sent(r, Tail(todo[r]), err[r])
    /\ UNCHANGED silent

\* A refused line changes nothing; behind a refused header the rest of its
\* object is refused as well.
Skipped(set) ==
    IF Head(set).op = "enter" THEN <<>> ELSE Tail(set)

RefuseLine(r, heard) ==
    /\ pc[r] \in Sending
    /\ Sent(r, Skipped(todo[r]), err[r] \/ heard)
    /\ silent' = IF heard THEN silent ELSE silent \cup {r}
    /\ UNCHANGED <<conf, disturbed>>

\* The session is lost, or times out, before or after the line took effect;
\* nothing more is sent.
LinkLost(r, arrived) ==
    /\ pc[r] \in Sending
    /\ conf' = IF arrived THEN Obey(conf, Head(todo[r])) ELSE conf
    /\ disturbed' = IF conf' = conf THEN disturbed ELSE disturbed \cup Others(r)
    /\ Sent(r, <<>>, TRUE)
    /\ UNCHANGED silent

StartRollback(r) ==
    /\ pc[r] = "undoing"
    /\ StartSet(r, plan[r].undo, "rollback")
    /\ UNCHANGED <<nexus, conf, job, was, plan, reply, blind, silent, disturbed>>

\* What a read back shows: a read that fails shows nothing, and with it that
\* a detached list is gone.
ShownBack == {conf, <<>>}

Verify(r) ==
    /\ pc[r] = "verify"
    /\ \E s \in ShownBack :
        /\ blind' = IF s = conf THEN blind ELSE blind \cup {r}
        /\ IF Confirms(job[r], s)
           THEN /\ Finish(r, "success")
                /\ plan' = [plan EXCEPT ![r].undo = UndoOf(nexus, job[r], s, @)]
           ELSE /\ pc' = [pc EXCEPT ![r] = "undoing"]
                /\ reply' = [reply EXCEPT ![r] = "unconfirmed"]
                /\ UNCHANGED plan
    /\ UNCHANGED <<nexus, conf, job, was, todo, err, silent, disturbed>>

\* A read that fails here confirms nothing.
RestoreVerify(r) ==
    /\ pc[r] = "restoreVerify"
    /\ \/ Finish(r, IF Restored(job[r], conf, ~err[r]) THEN "restored" ELSE "failed")
       \/ Finish(r, "failed")
    /\ UNCHANGED <<nexus, conf, job, was, plan, todo, err, blind, silent, disturbed>>

Next == \E r \in Requests :
    \/ Read(r) \/ Unreachable(r)
    \/ SendLine(r)
    \/ \E heard \in Heard : RefuseLine(r, heard)
    \/ \E arrived \in BOOLEAN : LinkLost(r, arrived)
    \/ StartRollback(r)
    \/ Verify(r) \/ RestoreVerify(r)

Spec == Init /\ [][Next]_vars

-----------------------------------------------------------------------------
(* Properties *)

\* Objects are compared by what they mean: members and entries by text, lines
\* and bindings by number; an empty object is as good as none.
View(c, o) == IF o \in Groups \cup Ranges THEN Texts(c, o) ELSE Contents(c, o)
Same(c, d) == \A o \in Objects : View(c, o) = View(d, o)

Done(r, answer) == pc[r] = "done" /\ reply[r] = answer
Alone(r) == r \notin disturbed
Aware(r) == r \notin blind /\ r \notin silent

\* What the set writes was there already: the duplicate of a member, a list
\* bound both ways, a template's line on the number of a remark.
Rewrites(r) ==
    \E c \in ToSet(plan[r].set) :
        \/ c.op = "put" /\ c.k \in DOMAIN Contents(was[r], c.o)
        \/ c.op = "add" /\ c.v \in Texts(was[r], c.o)

\* A range that existed: its undo is known to leave the new entries.
EditsRange(r) == job[r].op = "range" /\ job[r].o \in DOMAIN was[r]

\* After a success the undo commands bring the configuration back, for every
\* kind of change and on both platforms, when nobody else wrote, no read
\* failed, no refusal went unnoticed and the change wrote nothing that was
\* there already.
UndoReturns ==
    \A r \in Requests :
        Done(r, "success") /\ Alone(r) /\ Aware(r)
        /\ ~Rewrites(r) /\ ~EditsRange(r)
            => Same(ObeyAll(conf, plan[r].undo), was[r])

\* An answer that says the original was restored is true (attach and detach
\* even when refusals go unnoticed: they look).
RestoredIsBack ==
    \A r \in Requests :
        Done(r, "restored") /\ Alone(r) /\ ~Rewrites(r)
        /\ (Aware(r) \/ job[r].op \in {"attach", "detach"})
            => Same(conf, was[r])

\* A success means exactly the change asked for; for the changes that are
\* read back entry by entry even when the switch refused a line unnoticed.
\* (A detach is believed when the read back fails: blind.)
SuccessIsExact ==
    \A r \in Requests :
        Done(r, "success") /\ Alone(r)
        /\ (r \notin silent \/ job[r].op \in {"attach", "detach",
                                             "addMember", "editMember"})
        /\ (job[r].op = "detach" => r \notin blind)
            => Same(conf, ObeyAll(was[r], plan[r].set))
=============================================================================
