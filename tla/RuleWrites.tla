------------------------------ MODULE RuleWrites ------------------------------
(***************************************************************************)
(* The write path of GIGACL: the handlers that change the lines of one     *)
(* access list of one switch (rule-apply, rule-delete, rule-edit and       *)
(* acl-sync in backend/main.py), running concurrently, over SSH sessions   *)
(* that can fail and a switch that can refuse a command.                   *)
(*                                                                         *)
(* Every handler reads the list, checks what it read, sends a set of       *)
(* configuration lines, reads back, and rolls back what it cannot confirm. *)
(* Each SSH exchange is an await, so other requests run in between; the    *)
(* lines of one set go to the switch one at a time, so two accounts (two   *)
(* SSH sessions) can interleave inside a set.                              *)
(*                                                                         *)
(* A list maps sequence numbers to lines, rules and remarks alike; Free is *)
(* an unused number. The text of a line is a model value.                  *)
(***************************************************************************)
EXTENDS Naturals, Sequences, FiniteSets

CONSTANTS
  Accounts,   \* administrators, each with one cached SSH session to the switch
  Requests,   \* HTTP write requests
  Seqs,       \* sequence numbers of the list
  Rules,      \* permit and deny lines
  Remarks,    \* remark lines
  Free,       \* no line
  Nobody,     \* no request
  Asks,       \* request -> the jobs it may ask for
  Outset,     \* the lists the switch may hold at the start
  Heard       \* FALSE \in Heard: detect_switch_error can miss a refusal

Line == Rules \cup Remarks
Slot == Line \cup {Free}
Acl  == [Seqs -> Slot]

(***************************************************************************)
(* A job is a validated request body. `old' is the number a delete or an   *)
(* edit removes, `new' the number an apply or an edit writes, `was' the    *)
(* rule the ACL Viewer showed, `remark' = Free when no remark is wanted,   *)
(* `source' the list of the VPC peer a sync copies from.                   *)
(***************************************************************************)
Job == [kind : {"apply", "delete", "edit", "sync"}, acct : Accounts,
        old : Seqs, new : Seqs, was : Slot, line : Slot,
        rseq : Seqs, remark : Remarks \cup {Free}, source : Acl]

Command == [op : {"put", "no", "noremark"}, seq : Seqs, line : Slot]

ASSUME ConstantsOK ==
  /\ Seqs \subseteq Nat /\ IsFiniteSet(Seqs)
  /\ Free \notin Line
  /\ Rules \cap Remarks = {}
  /\ Nobody \notin Requests
  /\ Outset \subseteq Acl
  /\ Heard \subseteq BOOLEAN
  /\ Asks \in [Requests -> SUBSET Job]
  /\ \A r \in Requests : \A j \in Asks[r] :
                     /\ j.kind \in {"apply", "edit"} => j.line \in Rules
                     /\ j.kind = "edit" => j.was \in Rules
                     /\ j.kind = "apply" /\ j.remark # Free => j.rseq < j.new

VARIABLES
  acl,        \* the running-config of the list
  holder,     \* account -> the request holding its session's _cmd_lock, or Nobody
  job,        \* request -> what it was asked
  pc,         \* request -> the await it is at
  seen,       \* request -> the rules and remarks it read before writing
  bare,       \* request -> the peers whose remarks its sync could not read
  prev,       \* request -> previous_remark (Free: none)
  todo,       \* request -> lines of the current set not yet sent
  err,        \* request -> an error was detected in the current set
  undo,       \* request -> the command set that reverses it
  reply,      \* request -> what the response says
  logged,     \* requests that wrote an audit entry about their outcome
  midSet,     \* requests between the first and the last line of a set
  disturbed,  \* requests during or after which another request changed acl
  silent,     \* requests one of whose lines was refused unnoticed
  confirmed   \* requests whose rule was read back

vars == <<acl, holder, job, pc, seen, bare, prev, todo, err, undo, reply, logged,
          midSet, disturbed, silent, confirmed>>

Sending == {"config", "remark", "rollback"}
Phases  == {"idle", "read", "remarks", "verify", "remarkVerify",
            "restoreVerify", "done"} \cup Sending

\* The two ends of a VPC sync.
Peers == {"source", "target"}

Replies == {"none", "unreachable", "refused", "unchanged", "success",
            "verified", "failed", "rolledback", "restored", "error"}

Succeeded == {"success", "verified"}
Failed    == {"failed", "rolledback", "restored"}

TypeOK ==
  /\ acl \in Acl
  /\ holder \in [Accounts -> Requests \cup {Nobody}]
  /\ job \in [Requests -> Job]
  /\ pc \in [Requests -> Phases]
  /\ seen \in [Requests -> Acl]
  /\ bare \in [Requests -> SUBSET Peers]
  /\ prev \in [Requests -> Remarks \cup {Free}]
  /\ todo \in [Requests -> Seq(Command)]
  /\ err \in [Requests -> BOOLEAN]
  /\ undo \in [Requests -> Seq(Command)]
  /\ reply \in [Requests -> Replies]
  /\ logged \subseteq Requests
  /\ midSet \subseteq Requests
  /\ disturbed \subseteq Requests
  /\ silent \subseteq Requests
  /\ confirmed \subseteq Requests

-------------------------------------------------------------------------------
(* The switch *)

Put(s, l)    == [op |-> "put", seq |-> s, line |-> l]
No(s)        == [op |-> "no", seq |-> s, line |-> Free]
NoRemark(s)  == [op |-> "noremark", seq |-> s, line |-> Free]

\* What one configuration line does to the list when the switch obeys it. A
\* put on an occupied number replaces its line.
Obey(a, c) ==
  [a EXCEPT ![c.seq] = CASE c.op = "put" -> c.line
                         [] c.op = "no" -> Free
                         [] c.op = "noremark" -> IF @ \in Rules THEN @ ELSE Free]

\* What sending c may leave. A switch may refuse any line (syntax, platform,
\* authorisation, a number in use); detect_switch_error hears the refusal when
\* its text matches one of ERROR_PATTERNS.
Effects(a, c) ==
  {[list |-> Obey(a, c), error |-> FALSE, unheard |-> FALSE]} \cup
  {[list |-> a, error |-> h, unheard |-> ~h] : h \in Heard}

-------------------------------------------------------------------------------
(* Command sets the handlers build *)

If(p, s) == IF p THEN s ELSE <<>>

\* The permit goes first and alone.
ApplySet_WithRemark(j) == <<Put(j.new, j.line)>> \o If(j.remark # Free, <<Put(j.rseq, j.remark)>>)
ApplySet(j) == <<Put(j.new, j.line)>>

\* rule_apply: remove the rule, then the remark, then put the old remark back.
\* The same lines are its rollback and its undo.
ApplyUndo_NoOldRemark(j, previous) == <<No(j.new)>> \o If(j.remark # Free, <<No(j.rseq)>>)
ApplyUndo(j, previous) ==
  <<No(j.new)>> \o If(j.remark # Free, <<No(j.rseq)>>)
                \o If(previous # Free, <<Put(j.rseq, previous)>>)

ApplyRemark(j, previous) ==
  If(previous # Free /\ previous # j.remark, <<NoRemark(j.rseq)>>)
    \o <<Put(j.rseq, j.remark)>>

EditSet(j) == <<No(j.old), Put(j.new, j.line)>>
EditUndo_Swapped(j, before) == <<Put(j.old, before[j.old]), No(j.new)>>
EditUndo(j, before) == <<No(j.new), Put(j.old, before[j.old])>>

\* _diff_acl_seqs: the numbers whose lines differ between the two peers.
Differing(source, target) == {s \in Seqs : source[s] # target[s]}
ToRemove_SharedOnly(source, target) ==
  {s \in Differing(source, target) : target[s] # Free /\ source[s] # Free}
ToRemove(source, target) == {s \in Differing(source, target) : target[s] # Free}
ToAdd(source, target)    == {s \in Differing(source, target) : source[s] # Free}

\* The ascending listings of a set of sequence numbers (there is exactly one).
Ascending(S) == {f \in [1..Cardinality(S) -> S] :
                   \A i, k \in 1..Cardinality(S) : i < k => f[i] < f[k]}

Nos(f)          == [i \in DOMAIN f |-> No(f[i])]
Puts(f, lines)  == [i \in DOMAIN f |-> Put(f[i], lines[f[i]])]

-------------------------------------------------------------------------------
Init ==
  /\ acl \in Outset
  /\ holder = [a \in Accounts |-> Nobody]
  /\ job \in {f \in [Requests -> UNION {Asks[r] : r \in Requests}] :
                \A r \in Requests : f[r] \in Asks[r]}
  /\ pc = [r \in Requests |-> "idle"]
  /\ seen = [r \in Requests |-> acl]
  /\ bare = [r \in Requests |-> {}]
  /\ prev = [r \in Requests |-> Free]
  /\ todo = [r \in Requests |-> <<>>]
  /\ err = [r \in Requests |-> FALSE]
  /\ undo = [r \in Requests |-> <<>>]
  /\ reply = [r \in Requests |-> "none"]
  /\ logged = {} /\ midSet = {} /\ disturbed = {} /\ silent = {}
  /\ confirmed = {}

Kind(r) == job[r].kind
Acct(r) == job[r].acct

ghosts == <<midSet, disturbed, silent, confirmed>>
ether  == <<acl, holder>>

\* The handler returns a response and ends; `audit' tells whether it wrote an
\* audit entry first.
Respond(r, what, audit) ==
  /\ pc' = [pc EXCEPT ![r] = "done"]
  /\ reply' = [reply EXCEPT ![r] = what]
  /\ logged' = IF audit THEN logged \cup {r} ELSE logged

\* The handler calls svc.configure with the lines cs.
Configure(r, phase, cs) ==
  /\ pc' = [pc EXCEPT ![r] = phase]
  /\ todo' = [todo EXCEPT ![r] = cs]
  /\ err' = [err EXCEPT ![r] = FALSE]

\* A show command waits for the session like a configuration set does.
CanRead(r) == holder[Acct(r)] = Nobody

Start(r) ==
  /\ pc[r] = "idle"
  /\ pc' = [pc EXCEPT ![r] = "read"]
  /\ UNCHANGED <<acl, holder, job, seen, bare, prev, todo, err, undo, reply,
                 logged, ghosts>>

\* A read before the write raises SSHError: 502, and nothing was sent.
Unreachable(r) ==
  /\ pc[r] \in {"read", "remarks"} /\ CanRead(r)
  /\ Respond(r, "unreachable", FALSE)
  /\ UNCHANGED <<acl, holder, job, seen, bare, prev, todo, err, undo, ghosts>>

-------------------------------------------------------------------------------
(* rule_apply *)

\* The collision checks: the numbers must hold no rule. Remarks are not rule
\* lines, so a number held by a remark passes.
ApplyCollides(j, before) ==
  \/ before[j.new] \in Rules
  \/ j.remark # Free /\ before[j.rseq] \in Rules

ComposeApply(r, before, previous) ==
  IF ApplyCollides(job[r], before)
  THEN /\ Respond(r, "refused", FALSE)
       /\ UNCHANGED <<todo, err, undo>>
  ELSE /\ Configure(r, "config", ApplySet(job[r]))
       /\ undo' = [undo EXCEPT ![r] = ApplyUndo(job[r], previous)]
       /\ UNCHANGED <<reply, logged>>

ReadForApply(r) ==
  /\ pc[r] = "read" /\ Kind(r) = "apply" /\ CanRead(r)
  /\ seen' = [seen EXCEPT ![r] = acl]
  /\ IF job[r].remark # Free
     THEN /\ pc' = [pc EXCEPT ![r] = "remarks"]
          /\ UNCHANGED <<todo, err, undo, reply, logged>>
     ELSE ComposeApply(r, acl, Free)
  /\ UNCHANGED <<acl, holder, job, bare, prev, ghosts>>

\* _find_acl_remark: the remark in a slot.
RemarkIn_AnyLine(slot) == slot
RemarkIn(slot) == IF slot \in Remarks THEN slot ELSE Free

\* The remark in the chosen slot is read by a second command, later than the
\* rules; the checks still look at the rules read first.
ReadRemarks(r) ==
  /\ pc[r] = "remarks" /\ CanRead(r)
  /\ LET previous == RemarkIn(acl[job[r].rseq])
     IN  /\ prev' = [prev EXCEPT ![r] = previous]
         /\ ComposeApply(r, seen[r], previous)
  /\ UNCHANGED <<acl, holder, job, seen, bare, ghosts>>

-------------------------------------------------------------------------------
(* rule_delete, rule_edit and acl_sync: the read and the checks *)

ReadForDelete(r) ==
  /\ pc[r] = "read" /\ Kind(r) = "delete" /\ CanRead(r)
  /\ seen' = [seen EXCEPT ![r] = acl]
  /\ IF acl[job[r].old] \notin Rules
     THEN Respond(r, "refused", FALSE) /\ UNCHANGED <<todo, err, undo>>
     ELSE /\ Configure(r, "config", <<No(job[r].old)>>)
          /\ undo' = [undo EXCEPT ![r] = <<Put(job[r].old, acl[job[r].old])>>]
          /\ UNCHANGED <<reply, logged>>
  /\ UNCHANGED <<acl, holder, job, bare, prev, ghosts>>

\* The rule changed since the viewer loaded it, or the new number is taken.
EditRefused(j, before) ==
  \/ before[j.old] # j.was
  \/ j.new # j.old /\ before[j.new] \in Rules

ReadForEdit(r) ==
  /\ pc[r] = "read" /\ Kind(r) = "edit" /\ CanRead(r)
  /\ seen' = [seen EXCEPT ![r] = acl]
  /\ LET j == job[r] IN
     CASE EditRefused(j, acl) ->
            Respond(r, "refused", FALSE) /\ UNCHANGED <<todo, err, undo>>
       [] ~EditRefused(j, acl) /\ j.new = j.old /\ j.line = acl[j.old] ->
            Respond(r, "unchanged", FALSE) /\ UNCHANGED <<todo, err, undo>>
       [] OTHER -> /\ Configure(r, "config", EditSet(j))
                   /\ undo' = [undo EXCEPT ![r] = EditUndo(j, acl)]
                   /\ UNCHANGED <<reply, logged>>
  /\ UNCHANGED <<acl, holder, job, bare, prev, ghosts>>

\* _acl_seq_map_for_sync: where `| section' does not match the list, it is read
\* with `show ip access-lists', and parse_acl_lines keeps the rules only.
RulesOf(list) == [s \in Seqs |-> IF list[s] \in Rules THEN list[s] ELSE Free]
MapOf(list, fallback) == IF fallback THEN RulesOf(list) ELSE list

\* Each list of r's sync as it was read.
Wanted(r) == MapOf(job[r].source, "source" \in bare[r])
Found(r)  == MapOf(seen[r], "target" \in bare[r])

\* The source list is read on the peer; an empty one is "does not exist". A
\* group or time-range missing on the target refuses the sync as well. Whether
\* `| section' matches depends on the build of each switch.
ReadForSync(r) ==
  /\ pc[r] = "read" /\ Kind(r) = "sync" /\ CanRead(r)
  /\ seen' = [seen EXCEPT ![r] = acl]
  /\ \E unmatched \in SUBSET Peers :
     LET source == MapOf(job[r].source, "source" \in unmatched)
         target == MapOf(acl, "target" \in unmatched) IN
     /\ bare' = [bare EXCEPT ![r] = unmatched]
     /\ \/ /\ \/ \A s \in Seqs : source[s] = Free
              \/ ToAdd(source, target) # {}
           /\ Respond(r, "refused", FALSE) /\ UNCHANGED <<todo, err, undo>>
        \/ /\ Differing(source, target) = {} /\ \E s \in Seqs : source[s] # Free
           /\ Respond(r, "unchanged", FALSE) /\ UNCHANGED <<todo, err, undo>>
        \/ /\ Differing(source, target) # {} /\ \E s \in Seqs : source[s] # Free
           /\ \E out \in Ascending(ToRemove(source, target)),
                 in \in Ascending(ToAdd(source, target)) :
                /\ Configure(r, "config", Nos(out) \o Puts(in, source))
                /\ undo' = [undo EXCEPT ![r] = Nos(in) \o Puts(out, target)]
           /\ UNCHANGED <<reply, logged>>
  /\ UNCHANGED <<acl, holder, job, prev, ghosts>>

-------------------------------------------------------------------------------
(* svc.configure: one set of lines over the account's session *)

SessionFree_NoLock(r) == TRUE
SessionFree(r) == holder[Acct(r)] \in {Nobody, r}

\* Who holds _cmd_lock with the lines `rest' of r's set still to send.
HeldBy_Leaked(r, rest) == r
HeldBy(r, rest) == IF rest = <<>> THEN Nobody ELSE r

\* The line just sent left the list as `list', and `rest' remains. Every other
\* request that has read the list is disturbed when the list changed.
AfterLine(r, list, rest) ==
  /\ acl' = list
  /\ todo' = [todo EXCEPT ![r] = rest]
  /\ holder' = [holder EXCEPT ![Acct(r)] = HeldBy(r, rest)]
  /\ midSet' = IF rest = <<>> THEN midSet \ {r} ELSE midSet \cup {r}
  /\ disturbed' = IF list = acl THEN disturbed
                  ELSE disturbed \cup {q \in Requests \ {r} : pc[q] \notin {"idle", "read"}}

\* send_config_set goes on to the next line after a refused one.
SendLine(r) ==
  /\ pc[r] \in Sending /\ todo[r] # <<>> /\ SessionFree(r)
  /\ \E e \in Effects(acl, Head(todo[r])) :
       /\ AfterLine(r, e.list, Tail(todo[r]))
       /\ err' = [err EXCEPT ![r] = @ \/ e.error]
       /\ silent' = IF e.unheard THEN silent \cup {r} ELSE silent
  /\ UNCHANGED <<job, pc, seen, bare, prev, undo, reply, logged, confirmed>>

\* A timeout or a lost connection: the line in flight may have been obeyed, the
\* lines after it are not sent, and configure returns an error.
LinkLost(r) ==
  /\ pc[r] \in Sending /\ todo[r] # <<>> /\ SessionFree(r)
  /\ \E list \in {acl, Obey(acl, Head(todo[r]))} : AfterLine(r, list, <<>>)
  /\ err' = [err EXCEPT ![r] = TRUE]
  /\ UNCHANGED <<job, pc, seen, bare, prev, undo, reply, logged, silent, confirmed>>

SetDone(r, phase) == pc[r] = phase /\ todo[r] = <<>>

\* The handler starts its rollback with the answer it will give afterwards.
Rollback(r, answer) ==
  /\ Configure(r, "rollback", undo[r])
  /\ reply' = [reply EXCEPT ![r] = answer]
  /\ UNCHANGED logged

\* The handler resumes with configure's error. Nothing is rolled back after a
\* failed delete.
ConfigFailed(r) ==
  /\ SetDone(r, "config") /\ err[r]
  /\ IF Kind(r) = "delete"
     THEN Respond(r, "failed", TRUE) /\ UNCHANGED <<todo, err>>
     ELSE Rollback(r, "failed")
  /\ UNCHANGED <<ether, job, seen, bare, prev, undo, ghosts>>

RemarkFailed(r) ==
  /\ SetDone(r, "remark") /\ err[r]
  /\ Rollback(r, "rolledback")
  /\ UNCHANGED <<ether, job, seen, bare, prev, undo, ghosts>>

\* rule_delete reports success here; the others read the list back first.
ConfigTaken(r) ==
  /\ SetDone(r, "config") /\ ~err[r]
  /\ IF Kind(r) = "delete"
     THEN Respond(r, "success", TRUE)
     ELSE /\ pc' = [pc EXCEPT ![r] = "verify"]
          /\ UNCHANGED <<reply, logged>>
  /\ UNCHANGED <<ether, job, seen, bare, prev, todo, err, undo, ghosts>>

RemarkTaken(r) ==
  /\ SetDone(r, "remark") /\ ~err[r]
  /\ pc' = [pc EXCEPT ![r] = "remarkVerify"]
  /\ UNCHANGED <<ether, job, seen, bare, prev, todo, err, undo, reply, logged, ghosts>>

\* Only rule_edit reads back what its rollback left. The others answer as they
\* would have anyway: whether the rollback worked does not matter.
RolledBack(r) ==
  /\ SetDone(r, "rollback")
  /\ IF Kind(r) = "edit"
     THEN /\ pc' = [pc EXCEPT ![r] = "restoreVerify"]
          /\ UNCHANGED <<reply, logged>>
     ELSE Respond(r, reply[r], TRUE)
  /\ UNCHANGED <<ether, job, seen, bare, prev, todo, err, undo, ghosts>>

-------------------------------------------------------------------------------
(* Reading back *)

\* What a read-back returns: the list, or no lines when it raises SSHError and
\* the handler catches it.
NoLines == [s \in Seqs |-> Free]
ReadBack == {acl, NoLines}

\* The rule is in its place, and an edited rule is not also in its old one.
RuleConfirmed_NewOnly(r, view) == view[job[r].new] = job[r].line
RuleConfirmed(r, view) ==
  LET j == job[r] IN
  /\ view[j.new] = j.line
  /\ Kind(r) = "edit" /\ j.old # j.new => view[j.old] # seen[r][j.old]

VerifyRule(r) ==
  /\ pc[r] = "verify" /\ Kind(r) \in {"apply", "edit"} /\ CanRead(r)
  /\ \E view \in ReadBack :
       CASE ~RuleConfirmed(r, view) ->
              Rollback(r, "rolledback") /\ UNCHANGED confirmed
         [] RuleConfirmed(r, view) /\ Kind(r) = "apply" /\ job[r].remark # Free ->
              /\ Configure(r, "remark", ApplyRemark(job[r], prev[r]))
              /\ confirmed' = confirmed \cup {r}
              /\ UNCHANGED <<reply, logged>>
         [] OTHER -> /\ Respond(r, "success", TRUE)
                     /\ confirmed' = confirmed \cup {r}
                     /\ UNCHANGED <<todo, err>>
  /\ UNCHANGED <<ether, job, seen, bare, prev, undo, midSet, disturbed, silent>>

VerifyRemark(r) ==
  /\ pc[r] = "remarkVerify" /\ CanRead(r)
  /\ \E view \in ReadBack :
       IF view[job[r].rseq] = job[r].remark /\ view[job[r].new] = job[r].line
       THEN Respond(r, "success", TRUE) /\ UNCHANGED <<todo, err>>
       ELSE Rollback(r, "rolledback")
  /\ UNCHANGED <<ether, job, seen, bare, prev, undo, ghosts>>

\* A sync succeeds whatever it reads back; this read has no fallback, so it
\* returns no lines where `| section' matches nothing. `verified' is a field of
\* its answer. Unlike the others it does not
\* catch SSHError here: the response is a 502 and no audit entry is written.
VerifySync(r) ==
  /\ pc[r] = "verify" /\ Kind(r) = "sync" /\ CanRead(r)
  /\ \/ Respond(r, "error", FALSE)
     \/ \E view \in ReadBack :
          Respond(r, IF \A s \in Seqs : Wanted(r)[s] # Free => view[s] = Wanted(r)[s]
                     THEN "verified" ELSE "success", TRUE)
  /\ UNCHANGED <<ether, job, seen, bare, prev, todo, err, undo, ghosts>>

\* The rollback had no error and the original rule is back.
Restored_Trusting(r, view) == ~err[r]
Restored(r, view) == ~err[r] /\ view[job[r].old] = seen[r][job[r].old]

RestoreVerify(r) ==
  /\ pc[r] = "restoreVerify" /\ CanRead(r)
  /\ \E view \in ReadBack :
       Respond(r, IF Restored(r, view) THEN "restored" ELSE "failed", TRUE)
  /\ UNCHANGED <<ether, job, seen, bare, prev, todo, err, undo, ghosts>>

-------------------------------------------------------------------------------
Handler(r) ==
  \/ Start(r) \/ Unreachable(r)
  \/ ReadForApply(r) \/ ReadRemarks(r)
  \/ ReadForDelete(r) \/ ReadForEdit(r) \/ ReadForSync(r)
  \/ SendLine(r) \/ LinkLost(r)
  \/ ConfigFailed(r) \/ ConfigTaken(r)
  \/ RemarkFailed(r) \/ RemarkTaken(r) \/ RolledBack(r)
  \/ VerifyRule(r) \/ VerifyRemark(r) \/ VerifySync(r) \/ RestoreVerify(r)

Finished == /\ \A r \in Requests : pc[r] = "done"
            /\ UNCHANGED vars

Next == Finished \/ \E r \in Requests : Handler(r)

Spec == Init /\ [][Next]_vars

\* Every SSH exchange ends: Netmiko bounds connecting, authenticating and each
\* command by a timeout, and the event loop resumes a handler whose thread is
\* done. A request need not be made.
Running(r) == Handler(r) /\ pc[r] # "idle"
FairSpec == Spec /\ \A r \in Requests : WF_vars(Running(r))

-------------------------------------------------------------------------------
(* Properties *)

Done(r) == pc[r] = "done"
Undisturbed(r) == r \notin disturbed

\* Cisco never lets the lines of two sets of one session interleave; GIGACL must
\* not either: between the first and the last line of a set (_cmd_lock) no other
\* request of the same account is inside one.
OneSetPerSession ==
  \A r, q \in midSet : Acct(r) = Acct(q) => r = q

\* What a successful apply, edit or delete owes the operator.
Promised(r) ==
  LET j == job[r] IN
  CASE j.kind = "apply" /\ j.remark = Free -> [seen[r] EXCEPT ![j.new] = j.line]
    [] j.kind = "apply" /\ j.remark # Free ->
         [seen[r] EXCEPT ![j.new] = j.line, ![j.rseq] = j.remark]
    [] j.kind = "edit" -> [seen[r] EXCEPT ![j.old] = Free, ![j.new] = j.line]
    [] j.kind = "delete" -> [seen[r] EXCEPT ![j.old] = Free]

\* "Success is reported only when the exact rule is present": when rule-apply or
\* rule-edit answers success and nobody else changed the list since it was read,
\* the list is what it was plus exactly the change asked for, whatever the
\* switch refused, unnoticed or not, on the way.
SuccessIsExact ==
  \A r \in Requests :
    Done(r) /\ reply[r] = "success" /\ Kind(r) \in {"apply", "edit"} /\ Undisturbed(r)
      => acl = Promised(r)

\* rule-delete and a verified acl-sync do the change asked for unless the switch
\* refused a line in words detect_switch_error does not know: after such a sync
\* the peers have the same rules, and the same remarks too when both lists were
\* read with theirs.
UnverifiedSuccessIsExact ==
  \A r \in Requests :
    Done(r) /\ Undisturbed(r) /\ r \notin silent =>
      /\ reply[r] = "success" /\ Kind(r) = "delete" => acl = Promised(r)
      /\ reply[r] = "verified" =>
           /\ RulesOf(acl) = RulesOf(job[r].source)
           /\ bare[r] = {} => acl = job[r].source

\* The list after the lines cs, all obeyed.
Run(a, cs) ==
  LET after[i \in 1..Len(cs)] == Obey(IF i = 1 THEN a ELSE after[i - 1], cs[i])
  IN  IF cs = <<>> THEN a ELSE after[Len(cs)]

\* The numbers that held a remark which r did not see when it wrote another line
\* there: the collision checks of apply and edit look at rules only, and a sync
\* may have read the target without its remarks.
Overwritten(r) ==
  {s \in Seqs : /\ seen[r][s] \in Remarks
                /\ \/ Kind(r) \in {"apply", "edit"} /\ s = job[r].new
                   \/ Kind(r) = "sync" /\ "target" \in bare[r] /\ Wanted(r)[s] # Free}

\* The list r read without those remarks, which no command of r brings back.
Before(r) == [s \in Seqs |-> IF s \in Overwritten(r) THEN Free ELSE seen[r][s]]

\* "Everything is undoable": right after a success, the undo set the response
\* carries puts back every rule and every remark the handler read, but for the
\* remarks it did not see.
UndoInverts ==
  \A r \in Requests :
    Done(r) /\ reply[r] \in Succeeded /\ Undisturbed(r) /\ r \notin silent
      => Run(acl, undo[r]) = Before(r)

\* An apply, edit or sync that ends in failure leaves the list as it found it if
\* every line of its rollback was obeyed, again but for the remarks it did not
\* see; in particular after an edit that says "The original rule was restored".
FailureRestores ==
  \A r \in Requests :
    /\ Done(r) /\ reply[r] \in Failed /\ Undisturbed(r)
    /\ ~err[r] /\ r \notin silent
    => acl = Before(r)

\* An edit says "restored" only with the original rule back in its place, even
\* when refusals went unnoticed.
RestoredIsBack ==
  \A r \in Requests :
    Done(r) /\ reply[r] = "restored" /\ Undisturbed(r)
      => acl[job[r].old] = seen[r][job[r].old]

\* "Only a confirmed permit is allowed to create or replace its remark": a line
\* that writes the requested remark is sent only after the rule was read back.
RemarkAfterPermit ==
  [][\A r \in Requests :
       /\ todo'[r] # todo[r] /\ todo[r] # <<>>
       /\ Kind(r) = "apply" /\ job[r].remark # Free
       /\ Head(todo[r]) = Put(job[r].rseq, job[r].remark)
       => r \in confirmed \/ prev[r] = job[r].remark]_vars

\* Every request that reached the switch with a line is answered in the end.
EveryRequestAnswered ==
  \A r \in Requests : pc[r] = "read" ~> pc[r] = "done"

\* "Everything is logged, success and failure": a handler that sent a line to the
\* switch has written an audit entry by the time it answers.
EveryWriteIsLogged ==
  \A r \in Requests :
    Done(r) /\ undo[r] # <<>> => r \in logged
==============================================================================
