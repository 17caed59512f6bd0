--------------------------- MODULE RuleWritesProofs ---------------------------
(***************************************************************************)
(* Proofs about RuleWrites, for any number of administrators, requests and *)
(* sequence numbers, and for any refusals and lost links.                  *)
(*                                                                         *)
(* The inductive invariant IInv is about one request at a time: Local(r)   *)
(* relates the list to what r read. A step of another request either       *)
(* leaves the list alone or puts r among the disturbed (OtherLocal), so    *)
(* each action has to be looked at for its own request only.               *)
(***************************************************************************)
EXTENDS RuleWrites, SequenceTheorems, FiniteSetTheorems, WellFoundedInduction, TLAPS

\* The lines of a command set.
Lines(cs) == {cs[i] : i \in 1..Len(cs)}

\* Apply and edit read back what they wrote.
Checked(r) == Kind(r) \in {"apply", "edit"}

\* The numbers such a request may write to.
Footprint(r) ==
  IF Kind(r) = "apply" THEN {job[r].new} \cup {s \in {job[r].rseq} : job[r].remark # Free}
                       ELSE {job[r].old, job[r].new}

\* Nothing is composed before the reads are over.
Fresh(r) == pc[r] \in {"idle", "read", "remarks"} => todo[r] = <<>> /\ undo[r] = <<>>

\* An answer given before the end is that of a failure.
Pending(r) == pc[r] # "done" => reply[r] \in {"none", "failed", "rolledback"}

Bounded(r) ==
  Checked(r) => \A c \in Lines(todo[r]) \cup Lines(undo[r]) : c.seq \in Footprint(r)

\* Outside the numbers of r, an undisturbed list is the one r read.
Framed(r) ==
  Checked(r) /\ pc[r] \notin {"idle", "read", "done"} /\ Undisturbed(r)
    => \A s \in Seqs \ Footprint(r) : acl[s] = seen[r][s]

\* While it writes, an edit only removes the old rule and puts the new one, so
\* the old number holds the old rule or nothing.
EditLines(r) ==
  Kind(r) = "edit" /\ pc[r] = "config"
    => Lines(todo[r]) \subseteq {No(job[r].old), Put(job[r].new, job[r].line)}

OldGoes(r) ==
  Kind(r) = "edit" /\ pc[r] \in {"config", "verify"} /\ Undisturbed(r)
    /\ job[r].old # job[r].new
    => acl[job[r].old] \in {seen[r][job[r].old], Free}

\* What an edit may have to restore is a rule.
Original(r) ==
  Kind(r) = "edit" /\ pc[r] \in {"config", "verify", "rollback", "restoreVerify"}
    => seen[r][job[r].old] \in Rules

Phased(r) ==
  /\ pc[r] = "restoreVerify" => Kind(r) = "edit"
  /\ pc[r] \in {"remarks", "remark", "remarkVerify"} =>
       Kind(r) = "apply" /\ job[r].remark # Free

\* The line that writes the remark r asked for.
RemarkLine(r) == Put(job[r].rseq, job[r].remark)

RemarkWaits(r) ==
  Kind(r) = "apply" /\ job[r].remark # Free
    => /\ RemarkLine(r) \in Lines(todo[r]) => r \in confirmed \/ prev[r] = job[r].remark
       /\ RemarkLine(r) \in Lines(undo[r]) => prev[r] = job[r].remark

Exact(r) ==
  Done(r) /\ reply[r] = "success" /\ Checked(r) /\ Undisturbed(r) => acl = Promised(r)

Back(r) ==
  Done(r) /\ reply[r] = "restored" /\ Undisturbed(r)
    => acl[job[r].old] = seen[r][job[r].old]

Local(r) ==
  /\ Fresh(r) /\ Pending(r) /\ Bounded(r) /\ Framed(r) /\ EditLines(r) /\ OldGoes(r)
  /\ Original(r) /\ Phased(r) /\ RemarkWaits(r) /\ Exact(r) /\ Back(r)

\* A request inside a set holds its session.
Holding == \A r \in midSet : holder[Acct(r)] = r

\* A job is one of those the request may ask for.
Asked == \A r \in Requests : job[r] \in Asks[r]

IInv == TypeOK /\ Asked /\ Holding /\ \A r \in Requests : Local(r)

-------------------------------------------------------------------------------
(* Command sets *)

\* The three kinds of line, and what they do to the list: a list, which differs
\* at the number of the line at most.
LEMMA Commands ==
  ASSUME NEW s \in Seqs, NEW l \in Slot
  PROVE  Put(s, l) \in Command /\ No(s) \in Command /\ NoRemark(s) \in Command
BY DEF Put, No, NoRemark, Command, Slot

LEMMA Obeying ==
  ASSUME NEW a \in Acl, NEW c \in Command
  PROVE  /\ Obey(a, c) \in Acl
         /\ \A s \in Seqs : s # c.seq => Obey(a, c)[s] = a[s]
BY DEF Obey, Acl, Command, Slot

\* The sets built of a few lines.
LEMMA ShortSets ==
  ASSUME NEW S, NEW a \in S, NEW b \in S
  PROVE  /\ <<>> \in Seq(S) /\ Lines(<<>>) = {}
         /\ <<a>> \in Seq(S) /\ Lines(<<a>>) = {a}
         /\ <<a, b>> \in Seq(S) /\ Lines(<<a, b>>) = {a, b}
BY DEF Lines

LEMMA JoinedSets ==
  ASSUME NEW S, NEW s \in Seq(S), NEW t \in Seq(S)
  PROVE  s \o t \in Seq(S) /\ Lines(s \o t) = Lines(s) \cup Lines(t)
<1>1. s \o t \in Seq(S) /\ Len(s \o t) = Len(s) + Len(t)
  BY ConcatProperties
<1>2. Lines(s \o t) \subseteq Lines(s) \cup Lines(t)
  <2> SUFFICES ASSUME NEW i \in 1..Len(s \o t)
               PROVE  (s \o t)[i] \in Lines(s) \cup Lines(t)
    BY DEF Lines
  <2>1. CASE i <= Len(s)
    BY <1>1, <2>1, ConcatProperties DEF Lines
  <2>2. CASE ~(i <= Len(s))
    <3>1. i - Len(s) \in 1..Len(t) /\ (s \o t)[i] = t[i - Len(s)]
      BY <1>1, <2>2, ConcatProperties
    <3> QED BY <3>1 DEF Lines
  <2> QED BY <2>1, <2>2
<1>3. Lines(s) \cup Lines(t) \subseteq Lines(s \o t)
  <2>1. ASSUME NEW i \in 1..Len(s) PROVE s[i] \in Lines(s \o t)
    BY <1>1, ConcatProperties DEF Lines
  <2>2. ASSUME NEW i \in 1..Len(t) PROVE t[i] \in Lines(s \o t)
    <3>1. i + Len(s) \in 1..Len(s \o t) /\ (s \o t)[i + Len(s)] = t[i]
      BY <1>1, ConcatProperties
    <3> QED BY <3>1 DEF Lines
  <2> QED BY <2>1, <2>2 DEF Lines
<1> QED BY <1>1, <1>2, <1>3

\* The line sent next, and the lines after it.
LEMMA NextLine ==
  ASSUME NEW S, NEW s \in Seq(S), s # <<>>
  PROVE  /\ Head(s) \in S /\ Tail(s) \in Seq(S)
         /\ Head(s) \in Lines(s) /\ Lines(Tail(s)) \subseteq Lines(s)
<1>1. /\ Len(s) \in Nat /\ Len(s) >= 1 /\ Head(s) = s[1] /\ Head(s) \in S
      /\ Tail(s) \in Seq(S) /\ Len(Tail(s)) = Len(s) - 1
      /\ \A i \in 1..Len(Tail(s)) : Tail(s)[i] = s[i + 1]
  BY HeadTailProperties, EmptySeq
<1>2. Head(s) \in Lines(s)
  BY <1>1 DEF Lines
<1>3. ASSUME NEW i \in 1..Len(Tail(s)) PROVE Tail(s)[i] \in Lines(s)
  <2>1. i + 1 \in 1..Len(s)
    BY <1>1
  <2> QED BY <1>1, <2>1 DEF Lines
<1> QED BY <1>1, <1>2, <1>3 DEF Lines

-------------------------------------------------------------------------------
(* The command sets of the handlers *)

LEMMA JobFields ==
  ASSUME NEW j \in Job
  PROVE  /\ j.kind \in {"apply", "delete", "edit", "sync"} /\ j.acct \in Accounts
         /\ j.old \in Seqs /\ j.new \in Seqs /\ j.rseq \in Seqs
         /\ j.was \in Slot /\ j.line \in Slot
         /\ j.remark \in Remarks \cup {Free} /\ j.remark \in Slot /\ j.source \in Acl
BY DEF Job, Slot, Line

LEMMA Conditional ==
  ASSUME NEW S, NEW p \in BOOLEAN, NEW s \in Seq(S)
  PROVE  If(p, s) \in Seq(S) /\ (p => Lines(If(p, s)) = Lines(s))
         /\ (~p => Lines(If(p, s)) = {})
BY ShortSets DEF If, Lines

LEMMA ApplySetLines ==
  ASSUME NEW j \in Job
  PROVE  ApplySet(j) \in Seq(Command) /\ Lines(ApplySet(j)) = {Put(j.new, j.line)}
<1>1. Put(j.new, j.line) \in Command
  BY JobFields, Commands
<1>2. <<Put(j.new, j.line)>> \in Seq(Command) /\ Lines(<<Put(j.new, j.line)>>) = {Put(j.new, j.line)}
  BY <1>1, ShortSets
<1> QED BY <1>2 DEF ApplySet

LEMMA ApplyUndoLines ==
  ASSUME NEW j \in Job, NEW previous \in Remarks \cup {Free}
  PROVE  /\ ApplyUndo(j, previous) \in Seq(Command)
         /\ \A c \in Lines(ApplyUndo(j, previous)) :
              \/ c = No(j.new)
              \/ j.remark # Free /\ c = No(j.rseq)
              \/ previous # Free /\ c = Put(j.rseq, previous)
<1> DEFINE A == <<No(j.new)>>
           B == If(j.remark # Free, <<No(j.rseq)>>)
           C == If(previous # Free, <<Put(j.rseq, previous)>>)
<1>1. previous \in Slot
  BY DEF Slot, Line
<1>2. No(j.new) \in Command /\ No(j.rseq) \in Command /\ Put(j.rseq, previous) \in Command
  BY <1>1, JobFields, Commands
<1>3. A \in Seq(Command) /\ Lines(A) = {No(j.new)}
  BY <1>2, ShortSets
<1>4. B \in Seq(Command) /\ (\A c \in Lines(B) : j.remark # Free /\ c = No(j.rseq))
  <2>1. <<No(j.rseq)>> \in Seq(Command) /\ Lines(<<No(j.rseq)>>) = {No(j.rseq)}
    BY <1>2, ShortSets
  <2> QED BY <2>1, Conditional
<1>5. C \in Seq(Command) /\ (\A c \in Lines(C) : previous # Free /\ c = Put(j.rseq, previous))
  <2>1. <<Put(j.rseq, previous)>> \in Seq(Command)
        /\ Lines(<<Put(j.rseq, previous)>>) = {Put(j.rseq, previous)}
    BY <1>2, ShortSets
  <2> QED BY <2>1, Conditional
<1> HIDE DEF A, B, C
<1>6. (A \o B) \o C \in Seq(Command) /\ Lines((A \o B) \o C) = (Lines(A) \cup Lines(B)) \cup Lines(C)
  <2> DEFINE D == A \o B
  <2>1. D \in Seq(Command) /\ Lines(D) = Lines(A) \cup Lines(B)
    BY <1>3, <1>4, JoinedSets
  <2> HIDE DEF D
  <2>2. D \o C \in Seq(Command) /\ Lines(D \o C) = Lines(D) \cup Lines(C)
    BY <1>5, <2>1, JoinedSets
  <2> QED BY <2>1, <2>2 DEF D
<1>7. ApplyUndo(j, previous) = (A \o B) \o C
  BY DEF ApplyUndo, A, B, C
<1> QED BY <1>3, <1>4, <1>5, <1>6, <1>7

LEMMA ApplyRemarkLines ==
  ASSUME NEW j \in Job, NEW previous \in Remarks \cup {Free}, j.remark # Free
  PROVE  /\ ApplyRemark(j, previous) \in Seq(Command)
         /\ \A c \in Lines(ApplyRemark(j, previous)) :
              c \in {NoRemark(j.rseq), Put(j.rseq, j.remark)}
<1> DEFINE A == If(previous # Free /\ previous # j.remark, <<NoRemark(j.rseq)>>)
           B == <<Put(j.rseq, j.remark)>>
<1>1. NoRemark(j.rseq) \in Command /\ Put(j.rseq, j.remark) \in Command
  BY JobFields, Commands
<1>2. A \in Seq(Command) /\ Lines(A) \subseteq {NoRemark(j.rseq)}
  <2>1. <<NoRemark(j.rseq)>> \in Seq(Command) /\ Lines(<<NoRemark(j.rseq)>>) = {NoRemark(j.rseq)}
    BY <1>1, ShortSets
  <2> QED BY <2>1, Conditional
<1>3. B \in Seq(Command) /\ Lines(B) = {Put(j.rseq, j.remark)}
  BY <1>1, ShortSets
<1> HIDE DEF A, B
<1>4. A \o B \in Seq(Command) /\ Lines(A \o B) = Lines(A) \cup Lines(B)
  BY <1>2, <1>3, JoinedSets
<1>5. ApplyRemark(j, previous) = A \o B
  BY DEF ApplyRemark, A, B
<1> QED BY <1>2, <1>3, <1>4, <1>5

LEMMA DeleteLines ==
  ASSUME NEW j \in Job, NEW before \in Acl
  PROVE  <<No(j.old)>> \in Seq(Command) /\ <<Put(j.old, before[j.old])>> \in Seq(Command)
<1>1. No(j.old) \in Command /\ Put(j.old, before[j.old]) \in Command
  BY JobFields, Commands DEF Acl, Slot
<1> QED BY <1>1, ShortSets

LEMMA EditSetLines ==
  ASSUME NEW j \in Job, NEW before \in Acl
  PROVE  /\ EditSet(j) \in Seq(Command)
         /\ Lines(EditSet(j)) = {No(j.old), Put(j.new, j.line)}
         /\ EditUndo(j, before) \in Seq(Command)
         /\ Lines(EditUndo(j, before)) = {No(j.new), Put(j.old, before[j.old])}
<1>1. /\ No(j.old) \in Command /\ Put(j.new, j.line) \in Command
      /\ No(j.new) \in Command /\ Put(j.old, before[j.old]) \in Command
  BY JobFields, Commands DEF Acl, Slot
<1>2. /\ <<No(j.old), Put(j.new, j.line)>> \in Seq(Command)
      /\ Lines(<<No(j.old), Put(j.new, j.line)>>) = {No(j.old), Put(j.new, j.line)}
  BY <1>1, ShortSets
<1>3. /\ <<No(j.new), Put(j.old, before[j.old])>> \in Seq(Command)
      /\ Lines(<<No(j.new), Put(j.old, before[j.old])>>) = {No(j.new), Put(j.old, before[j.old])}
  BY <1>1, ShortSets
<1> QED BY <1>2, <1>3 DEF EditSet, EditUndo

LEMMA SyncLines ==
  ASSUME NEW source \in Acl, NEW target \in Acl,
         NEW out \in Ascending(ToRemove(source, target)),
         NEW in \in Ascending(ToAdd(source, target))
  PROVE  /\ Nos(out) \o Puts(in, source) \in Seq(Command)
         /\ Nos(in) \o Puts(out, target) \in Seq(Command)
<1>1. ASSUME NEW S \in SUBSET Seqs, NEW f \in Ascending(S), NEW lines \in Acl
      PROVE  Nos(f) \in Seq(Command) /\ Puts(f, lines) \in Seq(Command)
  <2>1. Cardinality(S) \in Nat
    BY ConstantsOK, FS_Subset, FS_CardinalityType
  <2>2. DOMAIN f = 1..Cardinality(S) /\ \A i \in DOMAIN f : f[i] \in Seqs
    BY DEF Ascending
  <2>3. \A i \in DOMAIN f : No(f[i]) \in Command /\ Put(f[i], lines[f[i]]) \in Command
    BY <2>2, Commands DEF Acl, Slot
  <2>4. Nos(f) \in [1..Cardinality(S) -> Command] /\ Puts(f, lines) \in [1..Cardinality(S) -> Command]
    BY <2>2, <2>3 DEF Nos, Puts
  <2> QED BY <2>1, <2>4, IsASeq
<1>2. ToRemove(source, target) \subseteq Seqs /\ ToAdd(source, target) \subseteq Seqs
  BY DEF ToRemove, ToAdd, Differing
<1>3. /\ Nos(out) \in Seq(Command) /\ Puts(out, target) \in Seq(Command)
      /\ Nos(in) \in Seq(Command) /\ Puts(in, source) \in Seq(Command)
  BY <1>1, <1>2
<1> QED BY <1>3, JoinedSets

-------------------------------------------------------------------------------
(* Types *)

LEMMA TypedInit == Init => TypeOK /\ Asked
<1> SUFFICES ASSUME Init PROVE TypeOK /\ Asked
  OBVIOUS
<1>1. Asked /\ job \in [Requests -> Job]
  BY ConstantsOK DEF Init, Asked
<1>2. <<>> \in Seq(Command)
  BY EmptySeq
<1>3. acl \in Acl
  BY ConstantsOK DEF Init
<1> QED BY <1>1, <1>2, <1>3 DEF Init, TypeOK, Phases, Sending, Replies

\* What the job of a request is made of.
LEMMA RequestFields ==
  ASSUME TypeOK, NEW r \in Requests
  PROVE  /\ job[r] \in Job /\ Acct(r) \in Accounts
         /\ Kind(r) \in {"apply", "delete", "edit", "sync"}
         /\ job[r].old \in Seqs /\ job[r].new \in Seqs /\ job[r].rseq \in Seqs
         /\ job[r].line \in Slot /\ job[r].remark \in Remarks \cup {Free}
         /\ job[r].source \in Acl
BY JobFields DEF TypeOK, Acct, Kind

\* Sending a line, heard or lost, keeps the types.
LEMMA TypedLine ==
  ASSUME TypeOK, NEW r \in Requests, NEW list \in Acl, NEW rest \in Seq(Command),
         AfterLine(r, list, rest)
  PROVE  /\ acl' \in Acl /\ holder' \in [Accounts -> Requests \cup {Nobody}]
         /\ todo' \in [Requests -> Seq(Command)]
         /\ midSet' \subseteq Requests /\ disturbed' \subseteq Requests
<1>1. HeldBy(r, rest) \in Requests \cup {Nobody}
  BY DEF HeldBy
<1> QED BY <1>1, RequestFields DEF TypeOK, AfterLine

LEMMA TypedSend ==
  ASSUME TypeOK, NEW r \in Requests, SendLine(r) \/ LinkLost(r)
  PROVE  TypeOK'
<1>1. /\ todo[r] \in Seq(Command) /\ todo[r] # <<>>
  BY DEF TypeOK, SendLine, LinkLost
<1>2. Head(todo[r]) \in Command /\ Tail(todo[r]) \in Seq(Command) /\ <<>> \in Seq(Command)
  BY <1>1, NextLine, EmptySeq
<1>3. Obey(acl, Head(todo[r])) \in Acl /\ acl \in Acl
  BY <1>2, Obeying DEF TypeOK
<1>4. CASE SendLine(r)
  <2>1. PICK e \in Effects(acl, Head(todo[r])) :
          /\ AfterLine(r, e.list, Tail(todo[r]))
          /\ err' = [err EXCEPT ![r] = @ \/ e.error]
          /\ silent' = IF e.unheard THEN silent \cup {r} ELSE silent
    BY <1>4 DEF SendLine
  <2>2. e.list \in Acl /\ e.error \in BOOLEAN
    <3>1. CASE e = [list |-> Obey(acl, Head(todo[r])), error |-> FALSE, unheard |-> FALSE]
      BY <1>3, <3>1
    <3>2. CASE \E h \in Heard : e = [list |-> acl, error |-> h, unheard |-> ~h]
      <4>1. PICK h \in Heard : e = [list |-> acl, error |-> h, unheard |-> ~h]
        BY <3>2
      <4>2. h \in BOOLEAN
        BY ConstantsOK
      <4> QED BY <1>3, <4>1, <4>2
    <3> QED BY <2>1, <3>1, <3>2 DEF Effects
  <2>3. /\ acl' \in Acl /\ holder' \in [Accounts -> Requests \cup {Nobody}]
        /\ todo' \in [Requests -> Seq(Command)]
        /\ midSet' \subseteq Requests /\ disturbed' \subseteq Requests
    BY <1>2, <2>1, <2>2, TypedLine
  <2>4. err' \in [Requests -> BOOLEAN] /\ silent' \subseteq Requests
    BY <2>1, <2>2 DEF TypeOK
  <2> QED BY <1>4, <2>3, <2>4 DEF SendLine, TypeOK
<1>5. CASE LinkLost(r)
  <2>1. PICK list \in {acl, Obey(acl, Head(todo[r]))} : AfterLine(r, list, <<>>)
    BY <1>5 DEF LinkLost
  <2>2. list \in Acl
    BY <1>3, <2>1
  <2>3. /\ acl' \in Acl /\ holder' \in [Accounts -> Requests \cup {Nobody}]
        /\ todo' \in [Requests -> Seq(Command)]
        /\ midSet' \subseteq Requests /\ disturbed' \subseteq Requests
    BY <1>2, <2>1, <2>2, TypedLine
  <2> QED BY <1>5, <2>3 DEF LinkLost, TypeOK
<1> QED BY <1>4, <1>5

\* What a handler sets when it answers, and when it goes on to a command set.
LEMMA TypedRespond ==
  ASSUME TypeOK, NEW r \in Requests, NEW what \in Replies, NEW audit \in BOOLEAN,
         Respond(r, what, audit)
  PROVE  /\ pc' \in [Requests -> Phases] /\ reply' \in [Requests -> Replies]
         /\ logged' \subseteq Requests
BY DEF TypeOK, Respond, Phases

LEMMA TypedConfigure ==
  ASSUME TypeOK, NEW r \in Requests, NEW phase \in Phases, NEW cs \in Seq(Command),
         Configure(r, phase, cs)
  PROVE  /\ pc' \in [Requests -> Phases] /\ todo' \in [Requests -> Seq(Command)]
         /\ err' \in [Requests -> BOOLEAN]
BY DEF TypeOK, Configure

\* How the checks of a handler come out.
Refusing(r, what) == Respond(r, what, FALSE) /\ UNCHANGED <<todo, err, undo>>

Composing(r, cs, back) ==
  /\ Configure(r, "config", cs)
  /\ undo' = [undo EXCEPT ![r] = back]
  /\ UNCHANGED <<reply, logged>>

Composed(r) == \E cs, back \in Seq(Command) : Composing(r, cs, back)

LEMMA TypedChecks ==
  ASSUME TypeOK, NEW r \in Requests,
         Refusing(r, "refused") \/ Refusing(r, "unchanged") \/ Composed(r)
  PROVE  /\ pc' \in [Requests -> Phases] /\ reply' \in [Requests -> Replies]
         /\ logged' \subseteq Requests /\ todo' \in [Requests -> Seq(Command)]
         /\ err' \in [Requests -> BOOLEAN] /\ undo' \in [Requests -> Seq(Command)]
<1>1. ASSUME NEW what \in Replies, Refusing(r, what)
      PROVE  /\ pc' \in [Requests -> Phases] /\ reply' \in [Requests -> Replies]
             /\ logged' \subseteq Requests /\ todo' \in [Requests -> Seq(Command)]
             /\ err' \in [Requests -> BOOLEAN] /\ undo' \in [Requests -> Seq(Command)]
  <2>1. Respond(r, what, FALSE) /\ UNCHANGED <<todo, err, undo>>
    BY <1>1 DEF Refusing
  <2> QED BY <2>1, TypedRespond DEF TypeOK
<1>2. CASE Composed(r)
  <2>1. PICK cs, back \in Seq(Command) : Composing(r, cs, back)
    BY <1>2 DEF Composed
  <2>2. "config" \in Phases
    BY DEF Phases, Sending
  <2> QED BY <2>1, <2>2, TypedConfigure DEF Composing, TypeOK
<1>3. "refused" \in Replies /\ "unchanged" \in Replies
  BY DEF Replies
<1> QED BY <1>1, <1>2, <1>3

\* A list as a sync reads it.
LEMMA MapTyped ==
  ASSUME NEW list \in Acl, NEW fallback \in BOOLEAN
  PROVE  MapOf(list, fallback) \in Acl
BY DEF MapOf, RulesOf, Acl, Slot

\* What ReadForSync comes down to, for the two lists as they were read.
LEMMA SyncPlan ==
  ASSUME TypeOK, NEW r \in Requests, ReadForSync(r)
  PROVE  \E source, target \in Acl :
           /\ source = Wanted(r)' /\ target = Found(r)'
           /\ \/ Refusing(r, "refused") \/ Refusing(r, "unchanged")
              \/ \E out \in Ascending(ToRemove(source, target)),
                    in \in Ascending(ToAdd(source, target)) :
                   Composing(r, Nos(out) \o Puts(in, source), Nos(in) \o Puts(out, target))
<1>1. PICK unmatched \in SUBSET Peers :
        LET source == MapOf(job[r].source, "source" \in unmatched)
            target == MapOf(acl, "target" \in unmatched) IN
        /\ bare' = [bare EXCEPT ![r] = unmatched]
        /\ \/ Refusing(r, "refused") \/ Refusing(r, "unchanged")
           \/ \E out \in Ascending(ToRemove(source, target)),
                 in \in Ascending(ToAdd(source, target)) :
                Composing(r, Nos(out) \o Puts(in, source), Nos(in) \o Puts(out, target))
  BY Zenon DEF ReadForSync, Refusing, Composing
<1> DEFINE source == MapOf(job[r].source, "source" \in unmatched)
           target == MapOf(acl, "target" \in unmatched)
<1>2. source \in Acl /\ target \in Acl
  <2>1. ("source" \in unmatched) \in BOOLEAN /\ ("target" \in unmatched) \in BOOLEAN
    OBVIOUS
  <2>2. job[r].source \in Acl /\ acl \in Acl
    BY RequestFields DEF TypeOK
  <2> QED BY <2>1, <2>2, MapTyped
<1>3. bare'[r] = unmatched /\ seen'[r] = acl /\ job' = job
  BY <1>1 DEF ReadForSync, TypeOK
<1>4. source = Wanted(r)' /\ target = Found(r)'
  BY <1>3 DEF Wanted, Found
<1>5. \/ Refusing(r, "refused") \/ Refusing(r, "unchanged")
      \/ \E out \in Ascending(ToRemove(source, target)), in \in Ascending(ToAdd(source, target)) :
           Composing(r, Nos(out) \o Puts(in, source), Nos(in) \o Puts(out, target))
  BY <1>1
<1> HIDE DEF source, target
<1> QED BY <1>2, <1>4, <1>5

\* The reads that end in a check of the list.
LEMMA ReadChecks ==
  ASSUME TypeOK, NEW r \in Requests,
         \/ ReadForApply(r) /\ job[r].remark = Free
         \/ ReadForDelete(r) \/ ReadForEdit(r) \/ ReadForSync(r)
  PROVE  /\ Refusing(r, "refused") \/ Refusing(r, "unchanged") \/ Composed(r)
         /\ seen' = [seen EXCEPT ![r] = acl]
         /\ \E unmatched \in SUBSET Peers : bare' = [bare EXCEPT ![r] = unmatched]
         /\ UNCHANGED <<acl, holder, job, prev, ghosts>>
<1>1. acl \in Acl /\ job[r] \in Job /\ job[r].source \in Acl
  BY RequestFields DEF TypeOK
<1> DEFINE Reading == \E unmatched \in SUBSET Peers : bare' = [bare EXCEPT ![r] = unmatched]
<1>6. UNCHANGED bare => Reading
  <2>1. bare = [bare EXCEPT ![r] = bare[r]] /\ bare[r] \in SUBSET Peers
    BY DEF TypeOK
  <2> QED BY <2>1
<1> HIDE DEF Reading
<1>2. CASE ReadForApply(r) /\ job[r].remark = Free
  <2>1. ApplySet(job[r]) \in Seq(Command) /\ ApplyUndo(job[r], Free) \in Seq(Command)
    BY <1>1, ApplySetLines, ApplyUndoLines
  <2>2. ComposeApply(r, acl, Free)
    BY <1>2 DEF ReadForApply
  <2>3. Refusing(r, "refused") \/ Composing(r, ApplySet(job[r]), ApplyUndo(job[r], Free))
    BY <2>2 DEF ComposeApply, Refusing, Composing
  <2> QED BY <1>2, <1>6, <2>1, <2>3 DEF ReadForApply, Composed, Reading
<1>3. CASE ReadForDelete(r)
  <2>1. /\ <<No(job[r].old)>> \in Seq(Command)
        /\ <<Put(job[r].old, acl[job[r].old])>> \in Seq(Command)
    BY <1>1, DeleteLines
  <2>2. \/ Refusing(r, "refused")
        \/ Composing(r, <<No(job[r].old)>>, <<Put(job[r].old, acl[job[r].old])>>)
    BY <1>3 DEF ReadForDelete, Refusing, Composing
  <2> QED BY <1>3, <1>6, <2>1, <2>2 DEF ReadForDelete, Composed, Reading
<1>4. CASE ReadForEdit(r)
  <2>1. EditSet(job[r]) \in Seq(Command) /\ EditUndo(job[r], acl) \in Seq(Command)
    BY <1>1, EditSetLines
  <2>2. \/ Refusing(r, "refused") \/ Refusing(r, "unchanged")
        \/ Composing(r, EditSet(job[r]), EditUndo(job[r], acl))
    BY <1>4, Zenon DEF ReadForEdit, Refusing, Composing
  <2> QED BY <1>4, <1>6, <2>1, <2>2 DEF ReadForEdit, Composed, Reading
<1>5. CASE ReadForSync(r)
  <2>1. PICK source, target \in Acl :
          \/ Refusing(r, "refused") \/ Refusing(r, "unchanged")
          \/ \E out \in Ascending(ToRemove(source, target)), in \in Ascending(ToAdd(source, target)) :
               Composing(r, Nos(out) \o Puts(in, source), Nos(in) \o Puts(out, target))
    BY <1>1, <1>5, SyncPlan
  <2>2. Refusing(r, "refused") \/ Refusing(r, "unchanged") \/ Composed(r)
    BY <2>1, SyncLines DEF Composed
  <2>3. /\ seen' = [seen EXCEPT ![r] = acl] /\ Reading
        /\ UNCHANGED <<acl, holder, job, prev, ghosts>>
    BY <1>5 DEF ReadForSync, Reading
  <2> QED BY <2>2, <2>3 DEF Reading
<1> QED BY <1>2, <1>3, <1>4, <1>5

LEMMA TypedReads ==
  ASSUME TypeOK, NEW r \in Requests,
         ReadForApply(r) \/ ReadRemarks(r) \/ ReadForDelete(r) \/ ReadForEdit(r) \/ ReadForSync(r)
  PROVE  TypeOK'
<1>1. CASE \/ ReadForApply(r) /\ job[r].remark = Free
           \/ ReadForDelete(r) \/ ReadForEdit(r) \/ ReadForSync(r)
  <2>1. /\ Refusing(r, "refused") \/ Refusing(r, "unchanged") \/ Composed(r)
        /\ seen' = [seen EXCEPT ![r] = acl]
        /\ \E unmatched \in SUBSET Peers : bare' = [bare EXCEPT ![r] = unmatched]
        /\ UNCHANGED <<acl, holder, job, prev, ghosts>>
    BY <1>1, ReadChecks
  <2> QED BY <2>1, TypedChecks DEF TypeOK, ghosts
<1>2. CASE ReadForApply(r) /\ job[r].remark # Free
  BY <1>2 DEF TypeOK, ReadForApply, ghosts, Phases
<1>3. CASE ReadRemarks(r)
  <2> DEFINE previous == RemarkIn(acl[job[r].rseq])
  <2>1. previous \in Remarks \cup {Free}
    BY DEF RemarkIn
  <2>2. prev' = [prev EXCEPT ![r] = previous] /\ ComposeApply(r, seen[r], previous)
    BY <1>3 DEF ReadRemarks
  <2> HIDE DEF previous
  <2>3. ApplySet(job[r]) \in Seq(Command) /\ ApplyUndo(job[r], previous) \in Seq(Command)
    BY <2>1, RequestFields, ApplySetLines, ApplyUndoLines
  <2>4. Refusing(r, "refused") \/ Composing(r, ApplySet(job[r]), ApplyUndo(job[r], previous))
    BY <2>2 DEF ComposeApply, Refusing, Composing
  <2>5. Refusing(r, "refused") \/ Composed(r)
    BY <2>3, <2>4 DEF Composed
  <2>6. UNCHANGED <<acl, holder, job, seen, bare, ghosts>>
    BY <1>3 DEF ReadRemarks
  <2> QED BY <2>1, <2>2, <2>5, <2>6, TypedChecks DEF TypeOK, ghosts
<1> QED BY <1>1, <1>2, <1>3

LEMMA TypedRollback ==
  ASSUME TypeOK, NEW r \in Requests, NEW answer \in Replies, Rollback(r, answer)
  PROVE  /\ pc' \in [Requests -> Phases] /\ todo' \in [Requests -> Seq(Command)]
         /\ err' \in [Requests -> BOOLEAN] /\ reply' \in [Requests -> Replies]
         /\ logged' \subseteq Requests
<1>1. Configure(r, "rollback", undo[r]) /\ "rollback" \in Phases /\ undo[r] \in Seq(Command)
  BY DEF Rollback, Phases, Sending, TypeOK
<1> QED BY <1>1, TypedConfigure DEF Rollback, TypeOK

\* What VerifyRule comes down to.
LEMMA VerifyOutcome ==
  ASSUME TypeOK, NEW r \in Requests, VerifyRule(r)
  PROVE  \/ Rollback(r, "rolledback") /\ UNCHANGED confirmed
         \/ /\ job[r].remark # Free /\ Kind(r) = "apply"
            /\ Configure(r, "remark", ApplyRemark(job[r], prev[r]))
            /\ confirmed' = confirmed \cup {r}
            /\ UNCHANGED <<reply, logged>>
         \/ /\ \E view \in ReadBack : RuleConfirmed(r, view)
            /\ Kind(r) = "edit" \/ job[r].remark = Free
            /\ Respond(r, "success", TRUE)
            /\ confirmed' = confirmed \cup {r}
            /\ UNCHANGED <<todo, err>>
<1>1. PICK view \in ReadBack :
         CASE ~RuleConfirmed(r, view) ->
                Rollback(r, "rolledback") /\ UNCHANGED confirmed
           [] RuleConfirmed(r, view) /\ Kind(r) = "apply" /\ job[r].remark # Free ->
                /\ Configure(r, "remark", ApplyRemark(job[r], prev[r]))
                /\ confirmed' = confirmed \cup {r}
                /\ UNCHANGED <<reply, logged>>
           [] OTHER -> /\ Respond(r, "success", TRUE)
                       /\ confirmed' = confirmed \cup {r}
                       /\ UNCHANGED <<todo, err>>
  BY DEF VerifyRule
<1>2. Kind(r) \in {"apply", "edit"}
  BY DEF VerifyRule
<1>3. CASE ~RuleConfirmed(r, view)
  BY <1>1, <1>3, Zenon
<1>4. CASE RuleConfirmed(r, view) /\ Kind(r) = "apply" /\ job[r].remark # Free
  BY <1>1, <1>4, Zenon
<1>5. CASE RuleConfirmed(r, view) /\ ~(Kind(r) = "apply" /\ job[r].remark # Free)
  <2>1. /\ Respond(r, "success", TRUE)
        /\ confirmed' = confirmed \cup {r}
        /\ UNCHANGED <<todo, err>>
    BY <1>1, <1>5, Zenon
  <2> QED BY <1>2, <1>5, <2>1
<1> QED BY <1>3, <1>4, <1>5

LEMMA TypedAfterwards ==
  ASSUME TypeOK, NEW r \in Requests,
         \/ Start(r) \/ Unreachable(r) \/ ConfigFailed(r) \/ ConfigTaken(r)
         \/ RemarkFailed(r) \/ RemarkTaken(r) \/ RolledBack(r)
         \/ VerifyRule(r) \/ VerifyRemark(r) \/ VerifySync(r) \/ RestoreVerify(r)
  PROVE  TypeOK'
<1> DEFINE Answering == \E what \in Replies, audit \in BOOLEAN :
                           Respond(r, what, audit) /\ UNCHANGED <<todo, err>>
           Undoing == \E answer \in Replies : Rollback(r, answer)
           Moving == \E phase \in Phases : /\ pc' = [pc EXCEPT ![r] = phase]
                                           /\ UNCHANGED <<todo, err, reply, logged>>
<1>1. ASSUME Answering \/ Undoing \/ Moving
      PROVE  /\ pc' \in [Requests -> Phases] /\ todo' \in [Requests -> Seq(Command)]
             /\ err' \in [Requests -> BOOLEAN] /\ reply' \in [Requests -> Replies]
             /\ logged' \subseteq Requests
  <2>1. CASE Answering
    BY <2>1, TypedRespond DEF TypeOK
  <2>2. CASE Undoing
    BY <2>2, TypedRollback
  <2>3. CASE Moving
    BY <2>3 DEF TypeOK
  <2> QED BY <1>1, <2>1, <2>2, <2>3
<1>2. CASE ~VerifyRule(r)
  <2>1. Answering \/ Undoing \/ Moving
    <3>1. CASE \/ Start(r) \/ RemarkTaken(r)
               \/ ConfigTaken(r) /\ Kind(r) # "delete"
               \/ RolledBack(r) /\ Kind(r) = "edit"
      BY <3>1 DEF Start, ConfigTaken, RemarkTaken, RolledBack, Phases
    <3>2. CASE Unreachable(r)
      BY <3>2 DEF Unreachable, Replies
    <3>3. CASE ConfigFailed(r)
      BY <3>3 DEF ConfigFailed, Replies
    <3>4. CASE ConfigTaken(r) /\ Kind(r) = "delete"
      BY <3>4 DEF ConfigTaken, Replies
    <3>5. CASE RemarkFailed(r)
      BY <3>5 DEF RemarkFailed, Replies
    <3>6. CASE RolledBack(r) /\ Kind(r) # "edit"
      <4>1. reply[r] \in Replies
        BY DEF TypeOK
      <4> QED BY <3>6, <4>1 DEF RolledBack
    <3>7. CASE VerifyRemark(r)
      <4>1. \/ Rollback(r, "rolledback")
            \/ Respond(r, "success", TRUE) /\ UNCHANGED <<todo, err>>
        BY <3>7 DEF VerifyRemark
      <4> QED BY <4>1 DEF Replies
    <3>8. CASE VerifySync(r)
      <4>1. /\ UNCHANGED <<todo, err>>
            /\ \/ Respond(r, "error", FALSE)
               \/ Respond(r, "verified", TRUE) \/ Respond(r, "success", TRUE)
        BY <3>8 DEF VerifySync
      <4> QED BY <4>1 DEF Replies
    <3>9. CASE RestoreVerify(r)
      <4>1. /\ UNCHANGED <<todo, err>>
            /\ Respond(r, "restored", TRUE) \/ Respond(r, "failed", TRUE)
        BY <3>9 DEF RestoreVerify
      <4> QED BY <4>1 DEF Replies
    <3> QED BY <1>2, <3>1, <3>2, <3>3, <3>4, <3>5, <3>6, <3>7, <3>8, <3>9
  <2>2. UNCHANGED <<acl, holder, job, seen, bare, prev, undo, ghosts>>
    BY <1>2 DEF Start, Unreachable, ConfigFailed, ConfigTaken, RemarkFailed, RemarkTaken,
                RolledBack, VerifyRemark, VerifySync, RestoreVerify, ghosts, ether
  <2> HIDE DEF Answering, Undoing, Moving
  <2> QED BY <1>1, <2>1, <2>2 DEF TypeOK, ghosts
<1>3. CASE VerifyRule(r)
  <2>1. UNCHANGED <<acl, holder, job, seen, bare, prev, undo, midSet, disturbed, silent>>
    BY <1>3 DEF VerifyRule, ether
  <2>2. CASE Rollback(r, "rolledback") /\ UNCHANGED confirmed
    <3>1. Undoing
      BY <2>2 DEF Replies
    <3> HIDE DEF Answering, Undoing, Moving
    <3> QED BY <1>1, <2>1, <2>2, <3>1 DEF TypeOK
  <2>3. CASE /\ job[r].remark # Free
             /\ Configure(r, "remark", ApplyRemark(job[r], prev[r]))
             /\ confirmed' = confirmed \cup {r}
             /\ UNCHANGED <<reply, logged>>
    <3>1. ApplyRemark(job[r], prev[r]) \in Seq(Command)
      BY <2>3, RequestFields, ApplyRemarkLines DEF TypeOK
    <3>2. "remark" \in Phases
      BY DEF Phases, Sending
    <3> QED BY <2>1, <2>3, <3>1, <3>2, TypedConfigure DEF TypeOK
  <2>4. CASE /\ Respond(r, "success", TRUE)
             /\ confirmed' = confirmed \cup {r}
             /\ UNCHANGED <<todo, err>>
    <3>1. Answering
      BY <2>4 DEF Replies
    <3> HIDE DEF Answering, Undoing, Moving
    <3> QED BY <1>1, <2>1, <2>4, <3>1 DEF TypeOK
  <2> QED BY <1>3, <2>2, <2>3, <2>4, VerifyOutcome
<1> QED BY <1>2, <1>3

LEMMA TypedStep ==
  ASSUME TypeOK, [Next]_vars
  PROVE  TypeOK'
<1>1. CASE UNCHANGED vars
  BY <1>1 DEF TypeOK, vars
<1>2. CASE \E r \in Requests : Handler(r)
  <2>1. PICK r \in Requests : Handler(r)
    BY <1>2
  <2> QED BY <2>1, TypedSend, TypedReads, TypedAfterwards DEF Handler
<1> QED BY <1>1, <1>2 DEF Next, Finished

-------------------------------------------------------------------------------
(* Sessions *)

LEMMA AfterLineHolds ==
  ASSUME TypeOK, Holding, NEW r \in Requests, SessionFree(r),
         NEW list, NEW rest, AfterLine(r, list, rest), UNCHANGED job
  PROVE  Holding'
<1> SUFFICES ASSUME NEW q \in midSet' PROVE holder'[job[q].acct] = q
  BY DEF Holding, Acct
<1>1. job[r].acct \in Accounts /\ holder' = [holder EXCEPT ![job[r].acct] = HeldBy(r, rest)]
  BY RequestFields DEF AfterLine, Acct
<1>2. CASE q = r
  BY <1>1, <1>2 DEF AfterLine, HeldBy, TypeOK
<1>3. CASE q # r
  <2>1. q \in midSet /\ holder[job[q].acct] = q /\ q # Nobody
    BY <1>3, ConstantsOK DEF AfterLine, Holding, Acct, TypeOK
  <2>2. holder[job[r].acct] \in {Nobody, r}
    BY DEF SessionFree, Acct
  <2> QED BY <1>1, <1>3, <2>1, <2>2 DEF TypeOK
<1> QED BY <1>2, <1>3

-------------------------------------------------------------------------------
(* The steps of other requests *)

\* What a step of another request leaves to r, and what it may do to the list.
Alone(r) ==
  /\ pc'[r] = pc[r] /\ seen'[r] = seen[r] /\ bare'[r] = bare[r] /\ prev'[r] = prev[r]
  /\ todo'[r] = todo[r] /\ undo'[r] = undo[r] /\ reply'[r] = reply[r]
  /\ acl' = acl \/ r \in disturbed' \/ pc[r] \in {"idle", "read"}

\* Facts about others are never taken back.
Onward == job' = job /\ disturbed \subseteq disturbed' /\ confirmed \subseteq confirmed'

LEMMA OtherLocal ==
  ASSUME NEW r \in Requests, Local(r), Alone(r), Onward
  PROVE  Local(r)'
<1>1. /\ Kind(r)' = Kind(r) /\ Checked(r)' = Checked(r) /\ Footprint(r)' = Footprint(r)
      /\ RemarkLine(r)' = RemarkLine(r) /\ Promised(r)' = Promised(r)
  BY DEF Alone, Onward, Kind, Checked, Footprint, RemarkLine, Promised
<1> USE <1>1 DEF Alone, Onward, Local
<1>2. Fresh(r)' /\ Pending(r)'
  BY DEF Fresh, Pending
<1>3. Bounded(r)'
  BY DEF Bounded
<1>4. Framed(r)' /\ OldGoes(r)'
  BY DEF Framed, OldGoes, Undisturbed
<1>5. EditLines(r)' /\ Original(r)' /\ Phased(r)'
  BY DEF EditLines, Original, Phased
<1>6. RemarkWaits(r)'
  BY DEF RemarkWaits
<1>7. Exact(r)' /\ Back(r)'
  BY DEF Exact, Back, Done, Undisturbed
<1> QED BY <1>2, <1>3, <1>4, <1>5, <1>6, <1>7

\* A line of r: the others keep what is theirs, and those the list changed under
\* are disturbed.
LEMMA LineApart ==
  ASSUME TypeOK, NEW r \in Requests, NEW q \in Requests \ {r}, NEW list, NEW rest,
         AfterLine(r, list, rest), UNCHANGED <<pc, seen, bare, prev, undo, reply>>
  PROVE  Alone(q)
BY DEF AfterLine, Alone, TypeOK

LEMMA StepApart ==
  ASSUME TypeOK, Holding, NEW r \in Requests, Handler(r)
  PROVE  /\ Onward /\ Holding'
         /\ \A q \in Requests \ {r} : Alone(q)
<1>1. CASE SendLine(r)
  <2>1. PICK e \in Effects(acl, Head(todo[r])) : AfterLine(r, e.list, Tail(todo[r]))
    BY <1>1 DEF SendLine
  <2>2. SessionFree(r) /\ UNCHANGED <<job, pc, seen, bare, prev, undo, reply, confirmed>>
    BY <1>1 DEF SendLine
  <2>3. Onward
    BY <2>1, <2>2 DEF Onward, AfterLine
  <2> QED BY <2>1, <2>2, <2>3, LineApart, AfterLineHolds
<1>2. CASE LinkLost(r)
  <2>1. PICK list \in {acl, Obey(acl, Head(todo[r]))} : AfterLine(r, list, <<>>)
    BY <1>2 DEF LinkLost
  <2>2. SessionFree(r) /\ UNCHANGED <<job, pc, seen, bare, prev, undo, reply, confirmed>>
    BY <1>2 DEF LinkLost
  <2>3. Onward
    BY <2>1, <2>2 DEF Onward, AfterLine
  <2> QED BY <2>1, <2>2, <2>3, LineApart, AfterLineHolds
<1> DEFINE Steady == UNCHANGED <<acl, holder, job, midSet, disturbed>>
<1>3. ASSUME Steady, confirmed \subseteq confirmed' PROVE Onward /\ Holding'
  BY <1>3 DEF Onward, Holding, Acct
<1>4. CASE \/ ReadForApply(r) /\ job[r].remark = Free
           \/ ReadForDelete(r) \/ ReadForEdit(r) \/ ReadForSync(r)
  <2>1. /\ Refusing(r, "refused") \/ Refusing(r, "unchanged") \/ Composed(r)
        /\ seen' = [seen EXCEPT ![r] = acl]
        /\ \E unmatched \in SUBSET Peers : bare' = [bare EXCEPT ![r] = unmatched]
        /\ UNCHANGED <<acl, holder, job, prev, ghosts>>
    BY <1>4, ReadChecks
  <2>2. \A q \in Requests \ {r} : Alone(q)
    <3>1. CASE Refusing(r, "refused") \/ Refusing(r, "unchanged")
      BY <2>1, <3>1 DEF Refusing, Respond, Alone, TypeOK
    <3>2. CASE Composed(r)
      BY <2>1, <3>2 DEF Composed, Composing, Configure, Alone, TypeOK
    <3> QED BY <2>1, <3>1, <3>2
  <2> QED BY <1>3, <2>1, <2>2 DEF ghosts
<1>5. CASE ReadForApply(r) /\ job[r].remark # Free
  BY <1>3, <1>5 DEF ReadForApply, Alone, TypeOK, ghosts
<1>6. CASE ReadRemarks(r)
  <2>1. /\ prev' = [prev EXCEPT ![r] = RemarkIn(acl[job[r].rseq])]
        /\ ComposeApply(r, seen[r], RemarkIn(acl[job[r].rseq]))
        /\ UNCHANGED <<acl, holder, job, seen, bare, ghosts>>
    BY <1>6 DEF ReadRemarks
  <2>2. \A q \in Requests \ {r} : Alone(q)
    BY <2>1 DEF ComposeApply, Respond, Configure, Alone, TypeOK
  <2> QED BY <1>3, <2>1, <2>2 DEF ghosts
<1>7. CASE VerifyRule(r)
  <2>1. UNCHANGED <<acl, holder, job, seen, bare, prev, undo, midSet, disturbed, silent>>
    BY <1>7 DEF VerifyRule, ether
  <2>2. confirmed \subseteq confirmed' /\ \A q \in Requests \ {r} : Alone(q)
    <3>1. CASE Rollback(r, "rolledback") /\ UNCHANGED confirmed
      BY <2>1, <3>1 DEF Rollback, Configure, Alone, TypeOK
    <3>2. CASE /\ Configure(r, "remark", ApplyRemark(job[r], prev[r]))
               /\ confirmed' = confirmed \cup {r} /\ UNCHANGED <<reply, logged>>
      BY <2>1, <3>2 DEF Configure, Alone, TypeOK
    <3>3. CASE /\ Respond(r, "success", TRUE)
               /\ confirmed' = confirmed \cup {r} /\ UNCHANGED <<todo, err>>
      BY <2>1, <3>3 DEF Respond, Alone, TypeOK
    <3> QED BY <1>7, <3>1, <3>2, <3>3, VerifyOutcome
  <2> QED BY <1>3, <2>1, <2>2
<1>8. CASE Start(r) \/ Unreachable(r) \/ RemarkFailed(r) \/ RemarkTaken(r)
  BY <1>3, <1>8 DEF Start, Unreachable, RemarkFailed, RemarkTaken, Rollback, Respond, Configure,
                    Alone, TypeOK, ghosts, ether
<1>9. CASE ConfigFailed(r) \/ ConfigTaken(r) \/ RolledBack(r)
  BY <1>3, <1>9 DEF ConfigFailed, ConfigTaken, RolledBack, Rollback, Respond, Configure,
                    Alone, TypeOK, ghosts, ether
<1>10. CASE VerifyRemark(r) \/ VerifySync(r) \/ RestoreVerify(r)
  BY <1>3, <1>10 DEF VerifyRemark, VerifySync, RestoreVerify, Rollback, Respond, Configure,
                     Alone, TypeOK, ghosts, ether
<1> QED BY <1>1, <1>2, <1>4, <1>5, <1>6, <1>7, <1>8, <1>9, <1>10 DEF Handler

-------------------------------------------------------------------------------
(* The steps of the request itself *)

\* What no step but the reads changes.
Kept == UNCHANGED <<acl, job, seen, bare, prev, undo, disturbed>>

\* r answers; a success or a restoration has to be true.
LEMMA AnswerLocal ==
  ASSUME TypeOK, NEW r \in Requests, NEW what, NEW audit, Local(r),
         Respond(r, what, audit), Kept, UNCHANGED todo, confirmed \subseteq confirmed',
         what = "success" /\ Checked(r) /\ Undisturbed(r) => acl = Promised(r),
         what = "restored" /\ Undisturbed(r) => acl[job[r].old] = seen[r][job[r].old]
  PROVE  Local(r)'
<1>1. /\ Kind(r)' = Kind(r) /\ Checked(r)' = Checked(r) /\ Footprint(r)' = Footprint(r)
      /\ RemarkLine(r)' = RemarkLine(r) /\ Promised(r)' = Promised(r)
      /\ Undisturbed(r)' = Undisturbed(r)
  BY DEF Kept, Kind, Checked, Footprint, RemarkLine, Promised, Undisturbed
<1>2. pc'[r] = "done" /\ reply'[r] = what
  BY DEF Respond, TypeOK
<1> USE <1>1, <1>2 DEF Local
<1>3. Fresh(r)' /\ Pending(r)' /\ Framed(r)' /\ EditLines(r)' /\ OldGoes(r)' /\ Original(r)' /\ Phased(r)'
  BY DEF Fresh, Pending, Framed, EditLines, OldGoes, Original, Phased
<1>4. Bounded(r)' /\ RemarkWaits(r)'
  BY DEF Kept, Bounded, RemarkWaits
<1>5. Exact(r)' /\ Back(r)'
  BY DEF Kept, Exact, Back
<1> QED BY <1>3, <1>4, <1>5

\* r starts its rollback.
LEMMA RollbackLocal ==
  ASSUME TypeOK, NEW r \in Requests, NEW answer \in {"failed", "rolledback"}, Local(r),
         Rollback(r, answer), Kept, confirmed \subseteq confirmed',
         pc[r] \in {"config", "verify", "remark", "remarkVerify"},
         pc[r] \in {"remark", "remarkVerify"} => Kind(r) # "edit"
  PROVE  Local(r)'
<1>1. /\ Kind(r)' = Kind(r) /\ Checked(r)' = Checked(r) /\ Footprint(r)' = Footprint(r)
      /\ RemarkLine(r)' = RemarkLine(r) /\ Undisturbed(r)' = Undisturbed(r)
  BY DEF Kept, Kind, Checked, Footprint, RemarkLine, Undisturbed
<1>2. pc'[r] = "rollback" /\ reply'[r] = answer /\ todo'[r] = undo[r] /\ undo'[r] = undo[r]
  BY DEF Kept, Rollback, Configure, TypeOK
<1> USE <1>1, <1>2 DEF Local
<1>3. Fresh(r)' /\ Pending(r)' /\ EditLines(r)' /\ OldGoes(r)' /\ Phased(r)' /\ Exact(r)' /\ Back(r)'
  BY DEF Fresh, Pending, EditLines, OldGoes, Phased, Exact, Back, Done
<1>4. Framed(r)' /\ Original(r)'
  BY DEF Kept, Framed, Original
<1>5. Bounded(r)' /\ RemarkWaits(r)'
  BY DEF Kept, Bounded, RemarkWaits
<1> QED BY <1>3, <1>4, <1>5

\* r only goes on to its next await.
LEMMA MoveLocal ==
  ASSUME TypeOK, NEW r \in Requests, NEW phase, Local(r),
         pc' = [pc EXCEPT ![r] = phase], Kept, UNCHANGED <<todo, reply, confirmed>>,
         \/ pc[r] = "idle" /\ phase = "read"
         \/ pc[r] = "config" /\ phase = "verify"
         \/ pc[r] = "remark" /\ phase = "remarkVerify"
         \/ pc[r] = "rollback" /\ phase = "restoreVerify" /\ Kind(r) = "edit"
  PROVE  Local(r)'
<1>1. /\ Kind(r)' = Kind(r) /\ Checked(r)' = Checked(r) /\ Footprint(r)' = Footprint(r)
      /\ RemarkLine(r)' = RemarkLine(r) /\ Undisturbed(r)' = Undisturbed(r)
  BY DEF Kept, Kind, Checked, Footprint, RemarkLine, Undisturbed
<1>2. pc'[r] = phase
  BY DEF TypeOK
<1> USE <1>1, <1>2 DEF Local, Kept
<1>3. Fresh(r)' /\ Pending(r)' /\ EditLines(r)' /\ Exact(r)' /\ Back(r)'
  BY DEF Fresh, Pending, EditLines, Exact, Back, Done
<1>4. Framed(r)' /\ OldGoes(r)'
  BY DEF Framed, OldGoes
<1>5. Original(r)' /\ Phased(r)'
  BY DEF Original, Phased
<1>6. Bounded(r)' /\ RemarkWaits(r)'
  BY DEF Bounded, RemarkWaits
<1> QED BY <1>3, <1>4, <1>5, <1>6

\* A line of r itself stays within its numbers.
LEMMA LineLocal ==
  ASSUME TypeOK, NEW r \in Requests, Local(r), pc[r] \in Sending, todo[r] # <<>>,
         NEW list \in {acl, Obey(acl, Head(todo[r]))}, NEW rest \in {Tail(todo[r]), <<>>},
         AfterLine(r, list, rest), UNCHANGED <<job, pc, seen, bare, prev, undo, reply, confirmed>>
  PROVE  Local(r)'
<1> DEFINE c == Head(todo[r])
<1>1. /\ Kind(r)' = Kind(r) /\ Checked(r)' = Checked(r) /\ Footprint(r)' = Footprint(r)
      /\ RemarkLine(r)' = RemarkLine(r)
  BY DEF Kind, Checked, Footprint, RemarkLine
<1>2. /\ c \in Command /\ c \in Lines(todo[r]) /\ Lines(rest) \subseteq Lines(todo[r])
  <2>1. todo[r] \in Seq(Command)
    BY DEF TypeOK
  <2>2. /\ c \in Command /\ c \in Lines(todo[r]) /\ Lines(Tail(todo[r])) \subseteq Lines(todo[r])
    BY <2>1, NextLine
  <2>3. Lines(<<>>) = {}
    BY DEF Lines
  <2> QED BY <2>2, <2>3
<1>3. /\ acl' = list /\ todo'[r] = rest /\ (Undisturbed(r)' <=> Undisturbed(r))
  BY DEF AfterLine, TypeOK, Undisturbed
<1>4. \A s \in Seqs : s # c.seq => acl'[s] = acl[s]
  BY <1>2, <1>3, Obeying DEF TypeOK
<1> HIDE DEF c
<1> USE <1>1, <1>3 DEF Local
<1>5. Fresh(r)' /\ Pending(r)' /\ Original(r)' /\ Phased(r)' /\ Exact(r)' /\ Back(r)'
  BY DEF Fresh, Pending, Original, Phased, Exact, Back, Done, Sending
<1>6. Bounded(r)' /\ RemarkWaits(r)' /\ EditLines(r)'
  BY <1>2 DEF Bounded, RemarkWaits, EditLines
<1>7. Framed(r)'
  BY <1>2, <1>4 DEF Framed, Bounded, Sending
<1>8. OldGoes(r)'
  <2> SUFFICES ASSUME Kind(r) = "edit", pc[r] = "config", Undisturbed(r), job[r].old # job[r].new
               PROVE  acl'[job[r].old] \in {seen[r][job[r].old], Free}
    BY DEF OldGoes, Sending
  <2>1. acl[job[r].old] \in {seen[r][job[r].old], Free} /\ job[r].old \in Seqs
    BY RequestFields DEF OldGoes
  <2>2. c = No(job[r].old) \/ c = Put(job[r].new, job[r].line)
    BY <1>2 DEF EditLines
  <2>3. CASE c = No(job[r].old)
    <3>1. Obey(acl, c)[job[r].old] = Free
      BY <2>1, <2>3 DEF Obey, No, TypeOK, Acl
    <3> QED BY <2>1, <3>1 DEF c
  <2>4. CASE c = Put(job[r].new, job[r].line)
    <3>1. c.seq = job[r].new
      BY <2>4 DEF Put
    <3> QED BY <1>4, <2>1, <3>1
  <2> QED BY <2>2, <2>3, <2>4
<1> QED BY <1>5, <1>6, <1>7, <1>8

\* The checks of r refuse: nothing was composed.
LEMMA RefuseLocal ==
  ASSUME TypeOK, NEW r \in Requests, Local(r), pc[r] \in {"read", "remarks"},
         NEW what \in {"refused", "unchanged"}, Refusing(r, what),
         UNCHANGED <<acl, job, disturbed, confirmed>>
  PROVE  Local(r)'
<1>1. /\ pc'[r] = "done" /\ reply'[r] = what /\ todo'[r] = <<>> /\ undo'[r] = <<>>
  BY DEF Refusing, Respond, TypeOK, Local, Fresh
<1>2. Lines(<<>>) = {}
  BY DEF Lines
<1>3. Fresh(r)' /\ Pending(r)' /\ Framed(r)' /\ EditLines(r)' /\ OldGoes(r)' /\ Original(r)' /\ Phased(r)'
  BY <1>1 DEF Fresh, Pending, Framed, EditLines, OldGoes, Original, Phased
<1>4. Bounded(r)' /\ RemarkWaits(r)'
  BY <1>1, <1>2 DEF Bounded, RemarkWaits
<1>5. Exact(r)' /\ Back(r)'
  BY <1>1 DEF Exact, Back
<1> QED BY <1>3, <1>4, <1>5 DEF Local

\* The checks of r pass and it composes its set and its undo.
LEMMA ComposeLocal ==
  ASSUME TypeOK, NEW r \in Requests, Local(r), pc[r] \in {"read", "remarks"},
         NEW cs, NEW back, Composing(r, cs, back), UNCHANGED <<acl, job, disturbed, confirmed>>,
         Checked(r) => /\ \A c \in Lines(cs) \cup Lines(back) : c.seq \in Footprint(r)
                       /\ Undisturbed(r) => \A s \in Seqs \ Footprint(r) : acl[s] = seen'[r][s],
         Kind(r) = "edit" => /\ Lines(cs) \subseteq {No(job[r].old), Put(job[r].new, job[r].line)}
                             /\ seen'[r] = acl /\ acl[job[r].old] \in Rules,
         Kind(r) = "apply" /\ job[r].remark # Free =>
            /\ RemarkLine(r) \notin Lines(cs)
            /\ RemarkLine(r) \in Lines(back) => prev'[r] = job[r].remark
  PROVE  Local(r)'
<1>1. /\ Kind(r)' = Kind(r) /\ Checked(r)' = Checked(r) /\ Footprint(r)' = Footprint(r)
      /\ RemarkLine(r)' = RemarkLine(r) /\ Undisturbed(r)' = Undisturbed(r)
  BY DEF Kind, Checked, Footprint, RemarkLine, Undisturbed
<1>2. /\ pc'[r] = "config" /\ todo'[r] = cs /\ undo'[r] = back /\ reply'[r] = reply[r]
  BY DEF Composing, Configure, TypeOK
<1> USE <1>1, <1>2 DEF Local
<1>3. Fresh(r)' /\ Pending(r)' /\ Phased(r)' /\ Exact(r)' /\ Back(r)'
  BY DEF Fresh, Pending, Phased, Exact, Back, Done
<1>4. Bounded(r)' /\ Framed(r)'
  BY DEF Bounded, Framed
<1>5. EditLines(r)' /\ OldGoes(r)' /\ Original(r)'
  BY DEF EditLines, OldGoes, Original
<1>6. RemarkWaits(r)'
  BY DEF RemarkWaits
<1> QED BY <1>3, <1>4, <1>5, <1>6

LEMMA ReadLocal ==
  ASSUME TypeOK, Asked, NEW r \in Requests, Local(r),
         \/ ReadForApply(r) \/ ReadRemarks(r)
         \/ ReadForDelete(r) \/ ReadForEdit(r) \/ ReadForSync(r)
  PROVE  Local(r)'
<1> DEFINE j == job[r]
<1>1. /\ j \in Job /\ acl \in Acl /\ j \in Asks[r]
      /\ Kind(r) = j.kind
  BY RequestFields DEF TypeOK, Asked, Kind
<1>2. /\ j.kind \in {"apply", "edit"} => j.line \in Rules
      /\ j.kind = "edit" => j.was \in Rules
      /\ j.remark \in Remarks \cup {Free} /\ Rules \cap Remarks = {} /\ Free \notin Remarks
  BY <1>1, ConstantsOK, JobFields DEF Line
<1>3. /\ UNCHANGED <<acl, job, disturbed, confirmed>>
      /\ pc[r] \in {"read", "remarks"}
  BY DEF ReadForApply, ReadRemarks, ReadForDelete, ReadForEdit, ReadForSync, ghosts
<1> HIDE DEF j
<1>4. CASE ReadForApply(r) /\ j.remark = Free
  <2>1. /\ Refusing(r, "refused") \/ Composing(r, ApplySet(j), ApplyUndo(j, Free))
        /\ seen' = [seen EXCEPT ![r] = acl] /\ j.kind = "apply"
    BY <1>1, <1>4 DEF ReadForApply, ComposeApply, Refusing, Composing, j
  <2>2. Lines(ApplySet(j)) = {Put(j.new, j.line)} /\ \A c \in Lines(ApplyUndo(j, Free)) : c = No(j.new)
    BY <1>1, <1>4, ApplySetLines, ApplyUndoLines
  <2>3. \A c \in Lines(ApplySet(j)) \cup Lines(ApplyUndo(j, Free)) : c.seq \in Footprint(r)
    BY <1>1, <2>1, <2>2 DEF Footprint, Put, No, j
  <2>4. seen'[r] = acl
    BY <2>1 DEF TypeOK
  <2> QED BY <1>1, <1>3, <1>4, <2>1, <2>3, <2>4, RefuseLocal, ComposeLocal DEF j
<1>5. CASE ReadForApply(r) /\ j.remark # Free
  <2>1. /\ pc'[r] = "remarks" /\ seen'[r] = acl /\ Kind(r) = "apply"
        /\ UNCHANGED <<acl, job, prev, disturbed, confirmed, todo, undo, reply>>
    BY <1>5 DEF ReadForApply, TypeOK, ghosts, j
  <2>2. /\ Kind(r)' = Kind(r) /\ Checked(r)' = Checked(r) /\ Footprint(r)' = Footprint(r)
        /\ RemarkLine(r)' = RemarkLine(r)
    BY <2>1 DEF Kind, Checked, Footprint, RemarkLine
  <2> USE <2>1, <2>2 DEF Local
  <2>3. Fresh(r)' /\ Pending(r)' /\ Phased(r)'
    BY <1>3, <1>5 DEF Fresh, Pending, Phased, j
  <2>4. Framed(r)' /\ EditLines(r)' /\ OldGoes(r)' /\ Original(r)' /\ Exact(r)' /\ Back(r)'
    BY DEF Framed, EditLines, OldGoes, Original, Exact, Back, Done
  <2>5. Bounded(r)' /\ RemarkWaits(r)'
    BY DEF Bounded, RemarkWaits
  <2> QED BY <2>3, <2>4, <2>5
<1>6. CASE ReadRemarks(r)
  <2> DEFINE previous == RemarkIn(acl[j.rseq])
  <2>1. /\ prev' = [prev EXCEPT ![r] = previous] /\ ComposeApply(r, seen[r], previous)
        /\ pc[r] = "remarks" /\ UNCHANGED seen
    BY <1>6 DEF ReadRemarks, j
  <2>2. previous \in Remarks \cup {Free} /\ j.kind = "apply" /\ j.remark # Free
    BY <1>1, <2>1 DEF RemarkIn, Local, Phased, j
  <2> HIDE DEF previous
  <2>3. Refusing(r, "refused") \/ Composing(r, ApplySet(j), ApplyUndo(j, previous))
    BY <2>1 DEF ComposeApply, Refusing, Composing, j
  <2>4. /\ Lines(ApplySet(j)) = {Put(j.new, j.line)}
        /\ \A c \in Lines(ApplyUndo(j, previous)) :
             c \in {No(j.new), No(j.rseq), Put(j.rseq, previous)}
    BY <1>1, <2>2, ApplySetLines, ApplyUndoLines
  <2>5. \A c \in Lines(ApplySet(j)) \cup Lines(ApplyUndo(j, previous)) : c.seq \in Footprint(r)
    BY <1>1, <2>2, <2>4 DEF Footprint, Put, No, j
  <2>6. Undisturbed(r) => \A s \in Seqs \ Footprint(r) : acl[s] = seen'[r][s]
    BY <1>1, <2>1, <2>2 DEF Local, Framed, Checked
  <2>7. prev'[r] = previous
    BY <2>1 DEF TypeOK
  <2>8. RemarkLine(r) \notin Lines(ApplySet(j))
    BY <1>2, <2>2, <2>4 DEF RemarkLine, Put, j
  <2>9. RemarkLine(r) \in Lines(ApplyUndo(j, previous)) => previous = j.remark
    BY <2>4 DEF RemarkLine, Put, No, j
  <2>10. Kind(r) = "apply"
    BY <1>1, <2>2
  <2> QED BY <1>3, <2>3, <2>5, <2>6, <2>7, <2>8, <2>9, <2>10, RefuseLocal, ComposeLocal DEF j
<1>7. CASE ReadForDelete(r) \/ ReadForSync(r)
  <2>1. \/ Refusing(r, "refused") \/ Refusing(r, "unchanged")
        \/ \E cs, back \in Seq(Command) : Composing(r, cs, back)
    BY <1>7, ReadChecks DEF Composed
  <2>2. Kind(r) \in {"delete", "sync"}
    BY <1>7 DEF ReadForDelete, ReadForSync
  <2>3. ~Checked(r)
    BY <2>2 DEF Checked
  <2> QED BY <1>3, <2>1, <2>2, <2>3, RefuseLocal, ComposeLocal
<1>8. CASE ReadForEdit(r)
  <2>1. /\ \/ Refusing(r, "refused") \/ Refusing(r, "unchanged")
           \/ ~EditRefused(j, acl) /\ Composing(r, EditSet(j), EditUndo(j, acl))
        /\ seen' = [seen EXCEPT ![r] = acl] /\ j.kind = "edit"
    <3>1. CASE EditRefused(j, acl)
      BY <1>1, <1>8, <3>1, Zenon DEF ReadForEdit, Refusing, j
    <3>2. CASE ~EditRefused(j, acl)
      BY <1>1, <1>8, <3>2, Zenon DEF ReadForEdit, Refusing, Composing, j
    <3> QED BY <3>1, <3>2
  <2>2. /\ Lines(EditSet(j)) = {No(j.old), Put(j.new, j.line)}
        /\ Lines(EditUndo(j, acl)) = {No(j.new), Put(j.old, acl[j.old])}
    BY <1>1, EditSetLines
  <2>3. \A c \in Lines(EditSet(j)) \cup Lines(EditUndo(j, acl)) : c.seq \in Footprint(r)
    BY <1>1, <2>1, <2>2 DEF Footprint, Put, No, j
  <2>4. seen'[r] = acl
    BY <2>1 DEF TypeOK
  <2>5. ~EditRefused(j, acl) => acl[j.old] \in Rules
    BY <1>2, <2>1 DEF EditRefused
  <2> QED BY <1>1, <1>3, <2>1, <2>2, <2>3, <2>4, <2>5, RefuseLocal, ComposeLocal DEF j
<1> QED BY <1>4, <1>5, <1>6, <1>7, <1>8

\* A read-back that shows a rule is the list itself.
LEMMA SeenIsTrue ==
  ASSUME NEW view \in ReadBack, NEW s \in Seqs, view[s] # Free
  PROVE  view = acl
BY DEF ReadBack, NoLines

\* The heart of SuccessIsExact: where the read-back of VerifyRule is confirmed,
\* the frame does the rest.
LEMMA ConfirmedIsExact ==
  ASSUME TypeOK, Asked, NEW r \in Requests, Local(r), VerifyRule(r), Undisturbed(r),
         NEW view \in ReadBack, RuleConfirmed(r, view),
         Kind(r) = "edit" \/ job[r].remark = Free
  PROVE  acl = Promised(r)
<1> DEFINE j == job[r]
<1>1. /\ pc[r] = "verify" /\ j.kind \in {"apply", "edit"} /\ Kind(r) = j.kind /\ Checked(r)
  BY DEF VerifyRule, Kind, Checked
<1>2. /\ j.new \in Seqs /\ j.old \in Seqs /\ acl \in Acl /\ seen[r] \in Acl
      /\ j.line \in Rules /\ Free \notin Rules
  BY <1>1, RequestFields, ConstantsOK DEF TypeOK, Asked, Line
<1>3. view = acl /\ acl[j.new] = j.line
  BY <1>2, SeenIsTrue DEF RuleConfirmed
<1>4. \A s \in Seqs \ Footprint(r) : acl[s] = seen[r][s]
  BY <1>1 DEF Local, Framed
<1>5. CASE j.kind = "apply"
  <2>1. Promised(r) = [seen[r] EXCEPT ![j.new] = j.line]
    BY <1>1, <1>5 DEF Promised
  <2>2. Footprint(r) = {j.new}
    BY <1>1, <1>5 DEF Footprint
  <2> QED BY <1>2, <1>3, <1>4, <2>1, <2>2 DEF Acl
<1>6. CASE j.kind = "edit"
  <2>1. Promised(r) = [seen[r] EXCEPT ![j.old] = Free, ![j.new] = j.line]
    BY <1>6 DEF Promised
  <2>2. Footprint(r) = {j.old, j.new}
    BY <1>1, <1>6 DEF Footprint
  <2>3. j.old # j.new => acl[j.old] = Free
    BY <1>1, <1>3, <1>6 DEF RuleConfirmed, Local, OldGoes
  <2> QED BY <1>2, <1>3, <1>4, <2>1, <2>2, <2>3 DEF Acl
<1> QED BY <1>1, <1>5, <1>6

LEMMA VerifyLocal ==
  ASSUME TypeOK, Asked, NEW r \in Requests, Local(r), VerifyRule(r)
  PROVE  Local(r)'
<1>1. /\ Kept /\ pc[r] = "verify" /\ confirmed \subseteq confirmed'
  BY VerifyOutcome DEF VerifyRule, ether, Kept
<1>2. CASE Rollback(r, "rolledback")
  BY <1>1, <1>2, RollbackLocal
<1>3. CASE /\ \E view \in ReadBack : RuleConfirmed(r, view)
           /\ Kind(r) = "edit" \/ job[r].remark = Free
           /\ Respond(r, "success", TRUE)
           /\ UNCHANGED <<todo, err>>
  <2>1. Undisturbed(r) => acl = Promised(r)
    BY <1>3, ConfirmedIsExact
  <2> QED BY <1>1, <1>3, <2>1, AnswerLocal
<1>4. CASE /\ job[r].remark # Free /\ Kind(r) = "apply"
           /\ Configure(r, "remark", ApplyRemark(job[r], prev[r]))
           /\ confirmed' = confirmed \cup {r}
           /\ UNCHANGED <<reply, logged>>
  <2> DEFINE cs == ApplyRemark(job[r], prev[r])
  <2>1. /\ Kind(r)' = Kind(r) /\ Checked(r)' = Checked(r) /\ Footprint(r)' = Footprint(r)
        /\ RemarkLine(r)' = RemarkLine(r) /\ Undisturbed(r)' = Undisturbed(r)
    BY <1>1 DEF Kept, Kind, Checked, Footprint, RemarkLine, Undisturbed
  <2>2. pc'[r] = "remark" /\ todo'[r] = cs /\ r \in confirmed'
    BY <1>4 DEF Configure, TypeOK
  <2>3. \A c \in Lines(cs) : c.seq \in Footprint(r)
    <3>1. \A c \in Lines(cs) : c \in {NoRemark(job[r].rseq), Put(job[r].rseq, job[r].remark)}
      BY <1>4, RequestFields, ApplyRemarkLines DEF TypeOK
    <3> QED BY <1>4, <3>1 DEF Footprint, NoRemark, Put
  <2> HIDE DEF cs
  <2> USE <1>1, <2>1, <2>2 DEF Local, Kept
  <2>4. Fresh(r)' /\ EditLines(r)' /\ OldGoes(r)' /\ Original(r)' /\ Exact(r)' /\ Back(r)'
    BY DEF Fresh, EditLines, OldGoes, Original, Exact, Back, Done
  <2>5. Pending(r)' /\ Phased(r)'
    BY <1>4 DEF Pending, Phased
  <2>6. Bounded(r)' /\ Framed(r)' /\ RemarkWaits(r)'
    BY <2>3 DEF Bounded, Framed, RemarkWaits
  <2> QED BY <2>4, <2>5, <2>6
<1> QED BY <1>2, <1>3, <1>4, VerifyOutcome

LEMMA VerifyRemarkLocal ==
  ASSUME TypeOK, Asked, NEW r \in Requests, Local(r), VerifyRemark(r)
  PROVE  Local(r)'
<1> DEFINE j == job[r]
<1>1. /\ Kept /\ pc[r] = "remarkVerify" /\ UNCHANGED confirmed
      /\ Kind(r) = "apply" /\ Kind(r) = j.kind /\ Checked(r) /\ j.remark # Free
  BY DEF VerifyRemark, ether, ghosts, Kept, Local, Phased, Checked, Kind
<1>2. PICK view \in ReadBack :
         IF view[j.rseq] = j.remark /\ view[j.new] = j.line
         THEN Respond(r, "success", TRUE) /\ UNCHANGED <<todo, err>>
         ELSE Rollback(r, "rolledback")
  BY DEF VerifyRemark
<1>3. CASE view[j.rseq] = j.remark /\ view[j.new] = j.line
  <2>1. /\ j.new \in Seqs /\ j.rseq \in Seqs /\ j.rseq < j.new /\ Seqs \subseteq Nat
        /\ acl \in Acl /\ seen[r] \in Acl
    BY <1>1, RequestFields, ConstantsOK DEF TypeOK, Asked
  <2>2. view = acl
    BY <1>1, <1>3, <2>1, SeenIsTrue
  <2>3. Undisturbed(r) => \A s \in Seqs \ {j.new, j.rseq} : acl[s] = seen[r][s]
    BY <1>1 DEF Local, Framed, Footprint
  <2>4. Promised(r) = [seen[r] EXCEPT ![j.new] = j.line, ![j.rseq] = j.remark]
    BY <1>1 DEF Promised
  <2>5. Undisturbed(r) => acl = Promised(r)
    BY <1>3, <2>1, <2>2, <2>3, <2>4 DEF Acl
  <2>6. Respond(r, "success", TRUE) /\ UNCHANGED todo
    BY <1>2, <1>3
  <2> QED BY <1>1, <2>5, <2>6, AnswerLocal
<1>4. CASE ~(view[j.rseq] = j.remark /\ view[j.new] = j.line)
  <2>1. Rollback(r, "rolledback")
    BY <1>2, <1>4
  <2> QED BY <1>1, <2>1, RollbackLocal
<1> QED BY <1>3, <1>4

LEMMA RestoreLocal ==
  ASSUME TypeOK, NEW r \in Requests, Local(r), RestoreVerify(r)
  PROVE  Local(r)'
<1>1. /\ Kept /\ pc[r] = "restoreVerify" /\ UNCHANGED <<todo, confirmed>>
  BY DEF RestoreVerify, ether, ghosts, Kept
<1>2. PICK view \in ReadBack :
         Respond(r, IF Restored(r, view) THEN "restored" ELSE "failed", TRUE)
  BY DEF RestoreVerify
<1>3. CASE Restored(r, view)
  <2>1. seen[r][job[r].old] \in Rules /\ Free \notin Rules /\ job[r].old \in Seqs
    BY <1>1, RequestFields, ConstantsOK DEF Local, Phased, Original, Line
  <2>2. acl[job[r].old] = seen[r][job[r].old]
    BY <1>3, <2>1, SeenIsTrue DEF Restored
  <2>3. Respond(r, "restored", TRUE)
    BY <1>2, <1>3
  <2> QED BY <1>1, <2>2, <2>3, AnswerLocal
<1>4. CASE ~Restored(r, view)
  <2>1. Respond(r, "failed", TRUE)
    BY <1>2, <1>4
  <2> QED BY <1>1, <2>1, AnswerLocal
<1> QED BY <1>3, <1>4

LEMMA SendLocal ==
  ASSUME TypeOK, NEW r \in Requests, Local(r), SendLine(r) \/ LinkLost(r)
  PROVE  Local(r)'
<1>1. CASE SendLine(r)
  <2>1. PICK e \in Effects(acl, Head(todo[r])) : AfterLine(r, e.list, Tail(todo[r]))
    BY <1>1 DEF SendLine
  <2>2. e.list \in {acl, Obey(acl, Head(todo[r]))}
    BY <2>1 DEF Effects
  <2> QED BY <1>1, <2>1, <2>2, LineLocal DEF SendLine
<1>2. CASE LinkLost(r)
  BY <1>2, LineLocal DEF LinkLost
<1> QED BY <1>1, <1>2

LEMMA ConfigLocal ==
  ASSUME TypeOK, NEW r \in Requests, Local(r),
         \/ Start(r) \/ Unreachable(r) \/ ConfigFailed(r) \/ ConfigTaken(r)
         \/ RemarkFailed(r) \/ RemarkTaken(r) \/ RolledBack(r) \/ VerifySync(r)
  PROVE  Local(r)'
<1>1. Kept /\ UNCHANGED confirmed
  BY DEF Kept, Start, Unreachable, ConfigFailed, ConfigTaken, RemarkFailed, RemarkTaken,
         RolledBack, VerifySync, ghosts, ether
<1>2. CASE Start(r)
  BY <1>1, <1>2, MoveLocal DEF Start
<1>3. CASE Unreachable(r)
  BY <1>1, <1>3, AnswerLocal DEF Unreachable
<1>4. CASE ConfigFailed(r)
  <2>1. CASE Kind(r) = "delete"
    BY <1>1, <1>4, <2>1, AnswerLocal DEF ConfigFailed
  <2>2. CASE Kind(r) # "delete"
    BY <1>1, <1>4, <2>2, RollbackLocal DEF ConfigFailed, SetDone
  <2> QED BY <2>1, <2>2
<1>5. CASE ConfigTaken(r)
  <2>1. CASE Kind(r) = "delete"
    BY <1>1, <1>5, <2>1, AnswerLocal DEF ConfigTaken, Checked
  <2>2. CASE Kind(r) # "delete"
    BY <1>1, <1>5, <2>2, MoveLocal DEF ConfigTaken, SetDone
  <2> QED BY <2>1, <2>2
<1>6. CASE RemarkFailed(r)
  BY <1>1, <1>6, RollbackLocal DEF RemarkFailed, SetDone, Local, Phased
<1>7. CASE RemarkTaken(r)
  BY <1>1, <1>7, MoveLocal DEF RemarkTaken, SetDone
<1>8. CASE RolledBack(r)
  <2>1. CASE Kind(r) = "edit"
    BY <1>1, <1>8, <2>1, MoveLocal DEF RolledBack, SetDone
  <2>2. CASE Kind(r) # "edit"
    <3>1. reply[r] \notin {"success", "restored"}
      BY <1>8 DEF RolledBack, SetDone, Local, Pending
    <3> QED BY <1>1, <1>8, <2>2, <3>1, AnswerLocal DEF RolledBack
  <2> QED BY <2>1, <2>2
<1>9. CASE VerifySync(r)
  <2>1. ~Checked(r)
    BY <1>9 DEF VerifySync, Checked
  <2>2. /\ UNCHANGED todo
        /\ \E what \in {"error", "verified", "success"}, audit \in BOOLEAN :
             Respond(r, what, audit)
    BY <1>9 DEF VerifySync
  <2> QED BY <1>1, <2>1, <2>2, AnswerLocal
<1> QED BY <1>2, <1>3, <1>4, <1>5, <1>6, <1>7, <1>8, <1>9

-------------------------------------------------------------------------------
(* The inductive invariant *)

LEMMA InitIInv == Init => IInv
<1> SUFFICES ASSUME Init PROVE IInv
  OBVIOUS
<1>1. TypeOK /\ Asked
  BY TypedInit
<1>2. Holding
  BY DEF Init, Holding
<1>3. ASSUME NEW r \in Requests PROVE Local(r)
  <2>1. /\ pc[r] = "idle" /\ reply[r] = "none" /\ todo[r] = <<>> /\ undo[r] = <<>>
    BY DEF Init
  <2>2. Lines(<<>>) = {}
    BY DEF Lines
  <2>3. Fresh(r) /\ Pending(r) /\ Bounded(r) /\ Framed(r) /\ EditLines(r) /\ OldGoes(r)
    BY <2>1, <2>2 DEF Fresh, Pending, Bounded, Framed, EditLines, OldGoes
  <2>4. Original(r) /\ Phased(r) /\ RemarkWaits(r) /\ Exact(r) /\ Back(r)
    BY <2>1, <2>2 DEF Original, Phased, RemarkWaits, Exact, Back, Done
  <2> QED BY <2>3, <2>4 DEF Local
<1> QED BY <1>1, <1>2, <1>3 DEF IInv

LEMMA StepIInv ==
  ASSUME IInv, [Next]_vars
  PROVE  IInv'
<1> USE DEF IInv
<1>1. TypeOK'
  BY TypedStep
<1>2. CASE UNCHANGED vars
  <2>1. UNCHANGED <<acl, holder, job, pc, seen, bare, prev, todo, undo, reply, midSet, disturbed, confirmed>>
    BY <1>2 DEF vars
  <2>2. Asked' /\ Holding'
    BY <2>1 DEF Asked, Holding, Acct
  <2>3. \A r \in Requests : Local(r)'
    BY <2>1, OtherLocal DEF Alone, Onward
  <2> QED BY <1>1, <2>2, <2>3
<1>3. CASE \E r \in Requests : Handler(r)
  <2>1. PICK r \in Requests : Handler(r)
    BY <1>3
  <2>2. Onward /\ Holding' /\ \A q \in Requests \ {r} : Alone(q)
    BY <2>1, StepApart
  <2>3. Asked'
    BY <2>2 DEF Asked, Onward
  <2>4. \A q \in Requests \ {r} : Local(q)'
    BY <2>2, OtherLocal
  <2>5. Local(r)'
    BY <2>1, ConfigLocal, ReadLocal, SendLocal, VerifyLocal, VerifyRemarkLocal, RestoreLocal
       DEF Handler
  <2> QED BY <1>1, <2>2, <2>3, <2>4, <2>5
<1> QED BY <1>2, <1>3 DEF Next, Finished

\* IInv holds in every behaviour of the handlers.
THEOREM Invariance == Spec => []IInv
BY InitIInv, StepIInv, PTL DEF Spec

\* Every variable has its type.
THEOREM TypeCorrect == Spec => []TypeOK
<1>1. IInv => TypeOK
  BY DEF IInv
<1> QED BY <1>1, Invariance, PTL

\* The lines of two sets of one SSH session never interleave (_cmd_lock).
THEOREM SessionsSerial == Spec => []OneSetPerSession
<1>1. IInv => OneSetPerSession
  BY DEF IInv, Holding, OneSetPerSession
<1> QED BY <1>1, Invariance, PTL

\* rule-apply and rule-edit answer success only when the list is exactly what
\* they were asked to make of it, if nobody else changed it since they read it.
THEOREM ExactSuccess == Spec => []SuccessIsExact
<1>1. IInv => SuccessIsExact
  <2> SUFFICES ASSUME IInv, NEW r \in Requests,
                      Done(r), reply[r] = "success", Kind(r) \in {"apply", "edit"}, Undisturbed(r)
               PROVE  acl = Promised(r)
    BY DEF SuccessIsExact
  <2> QED BY DEF IInv, Local, Exact, Checked
<1> QED BY <1>1, Invariance, PTL

\* rule-edit says "The original rule was restored" only when it is.
THEOREM RestoredTrue == Spec => []RestoredIsBack
<1>1. IInv => RestoredIsBack
  BY DEF IInv, Local, Back, RestoredIsBack
<1> QED BY <1>1, Invariance, PTL

\* The requested remark is written only after its rule was read back.
THEOREM PermitFirst == Spec => RemarkAfterPermit
<1>1. ASSUME IInv, NEW r \in Requests, todo[r] # <<>>, Kind(r) = "apply", job[r].remark # Free,
             Head(todo[r]) = RemarkLine(r)
      PROVE  r \in confirmed \/ prev[r] = job[r].remark
  <2>1. todo[r] \in Seq(Command)
    BY <1>1 DEF IInv, TypeOK
  <2>2. RemarkLine(r) \in Lines(todo[r])
    BY <1>1, <2>1, NextLine
  <2> QED BY <1>1, <2>2 DEF IInv, Local, RemarkWaits
<1>2. IInv /\ [Next]_vars =>
        [\A r \in Requests :
           /\ todo'[r] # todo[r] /\ todo[r] # <<>>
           /\ Kind(r) = "apply" /\ job[r].remark # Free
           /\ Head(todo[r]) = Put(job[r].rseq, job[r].remark)
           => r \in confirmed \/ prev[r] = job[r].remark]_vars
  BY <1>1 DEF RemarkLine
<1> QED BY <1>2, Invariance, PTL DEF Spec, RemarkAfterPermit

-------------------------------------------------------------------------------
(***************************************************************************)
(* What the undo of a request, its rollback and an unverified success      *)
(* leave in the list.                                                      *)
(*                                                                         *)
(* The argument runs on Reaches(a, cs, T): the last word of the lines cs   *)
(* about a number is the line T has there, and numbers they do not name    *)
(* are as in T already. Sending the head of cs keeps it, and when nothing  *)
(* is left the list is T. The undo of a request reaches Before(r) from     *)
(* wherever its own lines have brought the list, refused or not, because   *)
(* they only write numbers which the undo names.                           *)
(***************************************************************************)

\* c leaves v at its number, whatever was there.
Sets(c, v) ==
  \/ c.op = "put" /\ c.line = v
  \/ c.op = "no" /\ v = Free

Untouched(cs, s) == \A i \in 1..Len(cs) : cs[i].seq # s

\* From some line about s on, every line about s leaves v there.
Leaves(cs, s, v) ==
  \E i \in 1..Len(cs) :
    cs[i].seq = s /\ \A k \in i..Len(cs) : cs[k].seq = s => Sets(cs[k], v)

Reaches(a, cs, T) ==
  \A s \in Seqs : Leaves(cs, s, T[s]) \/ (Untouched(cs, s) /\ a[s] = T[s])

\* r has composed its lines and its undo.
Wrote(r) ==
  /\ pc[r] \notin {"idle", "read", "remarks"}
  /\ reply[r] \notin {"unreachable", "refused", "unchanged"}

\* Between its two reads, an apply has what it read before it.
Waiting(r) == pc[r] = "remarks" /\ Undisturbed(r) => acl = seen[r]

\* No line of the set in progress was refused, as far as r knows or not.
Clean(r) == r \notin silent /\ ~err[r]

\* The undo leads back from wherever r is.
Undoable(r) ==
  Wrote(r) /\ Undisturbed(r) => Reaches(acl, undo[r], Before(r))

\* r writes only the numbers its undo names.
Scoped(r) ==
  pc[r] \in Sending => \A c \in Lines(todo[r]) : ~Untouched(undo[r], c.seq)

CoversRemark(r) ==
  Kind(r) = "apply" /\ job[r].remark # Free
  /\ pc[r] \notin {"idle", "read", "remarks", "done"}
    => ~Untouched(undo[r], job[r].rseq)

Rolling(r) ==
  pc[r] = "rollback" /\ Undisturbed(r) /\ Clean(r) => Reaches(acl, todo[r], Before(r))

Restoring(r) ==
  /\ pc[r] = "restoreVerify" \/ (Done(r) /\ reply[r] \in Failed)
  /\ Undisturbed(r) /\ Clean(r)
  => acl = Before(r)

\* What a sync leads to: the source as it was read; where neither list as read has
\* a line, what the target holds stays.
Synced(r) ==
  [s \in Seqs |-> IF Wanted(r)[s] = Free /\ Found(r)[s] = Free THEN seen[r][s]
                                                              ELSE Wanted(r)[s]]

\* A delete and a sync, which check nothing or not enough.
Owed(r) == IF Kind(r) = "sync" THEN Synced(r) ELSE Promised(r)

Going(r) ==
  Kind(r) \in {"delete", "sync"} /\ pc[r] = "config" /\ Undisturbed(r) /\ Clean(r)
    => Reaches(acl, todo[r], Owed(r))

Gone(r) ==
  /\ \/ Kind(r) = "sync" /\ pc[r] = "verify"
     \/ Done(r) /\ reply[r] = "success" /\ Kind(r) = "delete"
     \/ Done(r) /\ reply[r] = "verified"
  /\ Undisturbed(r) /\ r \notin silent
  => acl = Owed(r)

Verifies(r) == reply[r] = "verified" => Kind(r) = "sync"

Reverses(r) ==
  /\ Waiting(r) /\ Undoable(r) /\ Scoped(r) /\ CoversRemark(r)
  /\ Rolling(r) /\ Restoring(r) /\ Going(r) /\ Gone(r) /\ Verifies(r)

UInv == IInv /\ \A r \in Requests : Reverses(r)

-------------------------------------------------------------------------------
(* What a list of lines reaches *)

\* What one line leaves at its number.
LEMMA SetLine ==
  ASSUME NEW a \in Acl, NEW c \in Command, NEW v, Sets(c, v)
  PROVE  Obey(a, c)[c.seq] = v
<1>1. c.seq \in Seqs /\ a \in [Seqs -> Slot]
  BY DEF Command, Acl
<1>2. CASE c.op = "put" /\ c.line = v
  BY <1>1, <1>2 DEF Obey
<1>3. CASE c.op = "no" /\ v = Free
  BY <1>1, <1>3 DEF Obey
<1> QED BY <1>2, <1>3 DEF Sets

\* When the head of cs is obeyed the rest still leads to T.
LEMMA StepReaches ==
  ASSUME NEW a \in Acl, NEW T \in Acl, NEW cs \in Seq(Command), cs # <<>>, Reaches(a, cs, T)
  PROVE  Reaches(Obey(a, Head(cs)), Tail(cs), T)
<1> DEFINE b == Obey(a, Head(cs))
<1>1. /\ Len(cs) \in Nat /\ Len(cs) >= 1 /\ Head(cs) = cs[1] /\ Head(cs) \in Command
      /\ Tail(cs) \in Seq(Command) /\ Len(Tail(cs)) = Len(cs) - 1
      /\ \A i \in 1..Len(Tail(cs)) : Tail(cs)[i] = cs[i + 1]
  BY HeadTailProperties, EmptySeq
<1>2. \A s \in Seqs : s # cs[1].seq => b[s] = a[s]
  BY <1>1, Obeying
<1>3. \A v : Sets(cs[1], v) => b[cs[1].seq] = v
  BY <1>1, SetLine
<1> HIDE DEF b
<1> DEFINE rest == Tail(cs)
<1> SUFFICES ASSUME NEW s \in Seqs
             PROVE  Leaves(rest, s, T[s]) \/ (Untouched(rest, s) /\ b[s] = T[s])
  BY DEF Reaches, b
<1>4. Len(rest) = Len(cs) - 1 /\ \A i \in 1..Len(rest) : rest[i] = cs[i + 1]
  BY <1>1
<1> HIDE DEF rest
<1>5. CASE Untouched(cs, s) /\ a[s] = T[s]
  <2>1. Untouched(rest, s)
    <3> SUFFICES ASSUME NEW i \in 1..Len(rest) PROVE rest[i].seq # s
      BY DEF Untouched
    <3>1. i + 1 \in 1..Len(cs)
      BY <1>1, <1>4
    <3> QED BY <1>4, <1>5, <3>1 DEF Untouched
  <2>2. cs[1].seq # s
    BY <1>1, <1>5 DEF Untouched
  <2> QED BY <1>2, <1>5, <2>1, <2>2
<1>6. CASE Leaves(cs, s, T[s])
  <2>1. PICK i \in 1..Len(cs) :
           cs[i].seq = s /\ \A k \in i..Len(cs) : cs[k].seq = s => Sets(cs[k], T[s])
    BY <1>6 DEF Leaves
  <2>2. ASSUME NEW m \in 1..Len(rest), m + 1 >= i, rest[m].seq = s
        PROVE  Leaves(rest, s, T[s])
    <3>1. ASSUME NEW k \in m..Len(rest), rest[k].seq = s PROVE Sets(rest[k], T[s])
      <4>1. k + 1 \in i..Len(cs) /\ k \in 1..Len(rest)
        BY <1>1, <1>4, <2>2
      <4> QED BY <1>4, <2>1, <3>1, <4>1
    <3> QED BY <2>2, <3>1 DEF Leaves
  <2>3. CASE i # 1
    <3>1. i - 1 \in 1..Len(rest) /\ (i - 1) + 1 = i
      BY <1>1, <1>4, <2>3
    <3>2. rest[i - 1].seq = s
      BY <1>4, <2>1, <3>1
    <3> QED BY <2>2, <3>1, <3>2
  <2>4. CASE i = 1
    <3>1. CASE Untouched(rest, s)
      <4>1. Sets(cs[1], T[s]) /\ cs[1].seq = s
        BY <1>1, <2>1, <2>4
      <4> QED BY <1>3, <3>1, <4>1
    <3>2. CASE ~Untouched(rest, s)
      <4>1. PICK m \in 1..Len(rest) : rest[m].seq = s
        BY <3>2 DEF Untouched
      <4>2. m + 1 >= i
        BY <2>4, <4>1
      <4> QED BY <2>2, <4>1, <4>2
    <3> QED BY <3>1, <3>2
  <2> QED BY <2>3, <2>4
<1> QED BY <1>5, <1>6 DEF Reaches

\* With no line left the list is T.
LEMMA NothingLeft ==
  ASSUME NEW a \in Acl, NEW T \in Acl
  PROVE  Reaches(a, <<>>, T) <=> a = T
<1>1. Len(<<>>) = 0
  OBVIOUS
<1>2. \A s : Untouched(<<>>, s) /\ ~Leaves(<<>>, s, T[s])
  BY <1>1 DEF Untouched, Leaves
<1>3. Reaches(a, <<>>, T) <=> \A s \in Seqs : a[s] = T[s]
  BY <1>2 DEF Reaches
<1> QED BY <1>3 DEF Acl

\* What cs reaches does not depend on the numbers it names.
LEMMA WritesWithin ==
  ASSUME NEW a \in Acl, NEW T \in Acl, NEW cs, NEW c \in Command,
         Reaches(a, cs, T), ~Untouched(cs, c.seq)
  PROVE  Reaches(Obey(a, c), cs, T)
<1> SUFFICES ASSUME NEW s \in Seqs
             PROVE  Leaves(cs, s, T[s]) \/ (Untouched(cs, s) /\ Obey(a, c)[s] = T[s])
  BY DEF Reaches
<1>1. Leaves(cs, s, T[s]) \/ (Untouched(cs, s) /\ a[s] = T[s])
  BY DEF Reaches
<1>2. s # c.seq => Obey(a, c)[s] = a[s]
  BY Obeying
<1> QED BY <1>1, <1>2

-------------------------------------------------------------------------------
(* Run *)

\* The lists after the first lines of cs, one for each line.
Onto(a, cs, g, i) == Obey(IF i = 1 THEN a ELSE g[i - 1], cs[i])

After(a, cs) == CHOOSE g : g = [i \in 1..Len(cs) |-> Obey(IF i = 1 THEN a ELSE g[i - 1], cs[i])]

LEMMA RunIsAfter ==
  ASSUME NEW a, NEW cs
  PROVE  Run(a, cs) = IF cs = <<>> THEN a ELSE After(a, cs)[Len(cs)]
BY DEF Run, After

\* The first n of these lists exist, by induction on n.
LEMMA AfterExists ==
  ASSUME NEW a \in Acl, NEW cs \in Seq(Command)
  PROVE  \A n \in 0..Len(cs) :
           \E g \in [1..n -> Acl] : \A i \in 1..n : g[i] = Onto(a, cs, g, i)
<1> DEFINE P(n) == \E g \in [1..n -> Acl] : \A i \in 1..n : g[i] = Onto(a, cs, g, i)
           T == {n \in 0..Len(cs) : ~P(n)}
<1>1. Len(cs) \in Nat
  OBVIOUS
<1> SUFFICES ASSUME T # {} PROVE FALSE
  OBVIOUS
<1>2. T \subseteq Nat
  BY <1>1
<1> HIDE DEF P
<1>3. PICK n \in T : \A y \in T : ~(<<y, n>> \in OpToRel(<, Nat))
  <2> HIDE DEF T
  <2> QED BY <1>2, WFMin, NatLessThanWellFounded
<1>4. \A y \in T : ~(y < n)
  BY <1>2, <1>3 DEF OpToRel
<1>5. n \in 0..Len(cs) /\ ~P(n)
  OBVIOUS
<1>6. CASE n = 0
  <2>1. \A i \in 1..0 : FALSE
    OBVIOUS
  <2>2. [i \in 1..0 |-> a] \in [1..0 -> Acl]
    OBVIOUS
  <2>3. P(0)
    BY <2>1, <2>2 DEF P
  <2> QED BY <1>5, <1>6, <2>3
<1>7. CASE n # 0
  <2>1. n - 1 \in 0..Len(cs) /\ n \in 1..Len(cs) /\ n - 1 < n /\ n \in 1..n
    BY <1>1, <1>5, <1>7
  <2>2. P(n - 1)
    BY <1>4, <2>1
  <2>3. PICK g \in [1..(n - 1) -> Acl] : \A i \in 1..(n - 1) : g[i] = Onto(a, cs, g, i)
    BY <2>2 DEF P
  <2> DEFINE h == [i \in 1..n |-> IF i = n THEN Onto(a, cs, g, n) ELSE g[i]]
  <2>4. Onto(a, cs, g, n) \in Acl
    <3>1. n # 1 => n - 1 \in 1..(n - 1)
      BY <2>1
    <3>2. (IF n = 1 THEN a ELSE g[n - 1]) \in Acl /\ cs[n] \in Command
      BY <2>1, <3>1
    <3> QED BY <3>2, Obeying DEF Onto
  <2>5. \A i \in 1..n : i # n => i \in 1..(n - 1)
    BY <2>1
  <2>6. h \in [1..n -> Acl]
    BY <2>4, <2>5
  <2>7. ASSUME NEW i \in 1..n PROVE h[i] = Onto(a, cs, h, i)
    <3>1. h[i] = Onto(a, cs, g, i)
      BY <2>3, <2>5
    <3>2. i # 1 => i - 1 \in 1..n /\ i - 1 # n
      BY <2>1
    <3>3. i # 1 => h[i - 1] = g[i - 1]
      BY <3>2
    <3> QED BY <3>1, <3>3 DEF Onto
  <2> HIDE DEF h
  <2>8. P(n)
    BY <2>6, <2>7 DEF P
  <2> QED BY <1>5, <2>8
<1> QED BY <1>6, <1>7

LEMMA AfterSteps ==
  ASSUME NEW a \in Acl, NEW cs \in Seq(Command)
  PROVE  /\ After(a, cs) \in [1..Len(cs) -> Acl]
         /\ \A i \in 1..Len(cs) : After(a, cs)[i] = Onto(a, cs, After(a, cs), i)
<1>1. Len(cs) \in Nat /\ Len(cs) \in 0..Len(cs)
  OBVIOUS
<1>2. PICK g \in [1..Len(cs) -> Acl] : \A i \in 1..Len(cs) : g[i] = Onto(a, cs, g, i)
  BY <1>1, AfterExists
<1>3. g = [i \in 1..Len(cs) |-> Obey(IF i = 1 THEN a ELSE g[i - 1], cs[i])]
  BY <1>2 DEF Onto
<1>4. After(a, cs) = [i \in 1..Len(cs) |->
                        Obey(IF i = 1 THEN a ELSE After(a, cs)[i - 1], cs[i])]
  BY <1>3 DEF After
<1> DEFINE f == After(a, cs)
<1>5. DOMAIN f = 1..Len(cs) /\ \A i \in 1..Len(cs) : f[i] = Onto(a, cs, f, i)
  BY <1>4 DEF Onto
<1> HIDE DEF f
<1>6. \A i \in 1..Len(cs) : f[i] \in Acl
  <2> DEFINE T == {i \in 1..Len(cs) : f[i] \notin Acl}
  <2> SUFFICES ASSUME T # {} PROVE FALSE
    OBVIOUS
  <2>1. T \subseteq Nat
    BY <1>1
  <2>2. PICK n \in T : \A y \in T : ~(<<y, n>> \in OpToRel(<, Nat))
    <3> HIDE DEF T
    <3> QED BY <2>1, WFMin, NatLessThanWellFounded
  <2>3. n \in 1..Len(cs) /\ f[n] \notin Acl /\ cs[n] \in Command
    OBVIOUS
  <2>4. n # 1 => n - 1 \in 1..Len(cs) /\ n - 1 < n
    BY <1>1, <2>3
  <2>5. n # 1 => f[n - 1] \in Acl
    <3>1. \A y \in T : ~(y < n)
      BY <2>1, <2>2 DEF OpToRel
    <3> QED BY <2>4, <3>1
  <2>6. Onto(a, cs, f, n) \in Acl
    BY <2>3, <2>5, Obeying DEF Onto
  <2> QED BY <1>5, <2>3, <2>6
<1>7. f \in [1..Len(cs) -> Acl]
  <2>1. f = [i \in 1..Len(cs) |-> f[i]]
    BY <1>4 DEF f
  <2> QED BY <1>6, <2>1
<1> QED BY <1>5, <1>7 DEF f

\* Reaches means what it says: the lines of cs, all obeyed, lead to T.
LEMMA RunReaches ==
  ASSUME NEW a \in Acl, NEW T \in Acl, NEW cs \in Seq(Command), Reaches(a, cs, T)
  PROVE  Run(a, cs) = T
<1>1. CASE cs = <<>>
  BY <1>1, RunIsAfter, NothingLeft
<1>2. CASE cs # <<>>
  <2> DEFINE f == After(a, cs)
  <2>1. Run(a, cs) = f[Len(cs)]
    BY <1>2, RunIsAfter
  <2>2. /\ \A i \in 1..Len(cs) : f[i] \in Acl
        /\ \A i \in 1..Len(cs) : f[i] = Obey(IF i = 1 THEN a ELSE f[i - 1], cs[i])
    BY AfterSteps DEF Onto
  <2> HIDE DEF f
  <2>3. Len(cs) \in Nat /\ Len(cs) >= 1 /\ Len(cs) \in 1..Len(cs)
    BY <1>2, EmptySeq
  <2> DEFINE Prior(i) == IF i = 1 THEN a ELSE f[i - 1]
  <2>4. ASSUME NEW i \in 1..Len(cs)
        PROVE  /\ Prior(i) \in Acl /\ cs[i] \in Command /\ f[i] = Obey(Prior(i), cs[i])
               /\ \A s \in Seqs : s # cs[i].seq => f[i][s] = Prior(i)[s]
               /\ \A v : Sets(cs[i], v) => f[i][cs[i].seq] = v
    <3>1. i # 1 => i - 1 \in 1..Len(cs)
      BY <2>3
    <3>2. Prior(i) \in Acl /\ cs[i] \in Command /\ f[i] = Obey(Prior(i), cs[i])
      BY <2>2, <3>1
    <3> HIDE DEF Prior
    <3> QED BY <3>2, Obeying, SetLine
  <2>5. ASSUME NEW s \in Seqs, Untouched(cs, s), NEW i \in 1..Len(cs)
        PROVE  f[i][s] = a[s]
    <3> DEFINE B == {k \in 1..Len(cs) : f[k][s] # a[s]}
    <3> SUFFICES ASSUME B # {} PROVE FALSE
      OBVIOUS
    <3>1. B \subseteq Nat
      BY <2>3
    <3>2. PICK n \in B : \A y \in B : ~(<<y, n>> \in OpToRel(<, Nat))
      <4> HIDE DEF B
      <4> QED BY <3>1, WFMin, NatLessThanWellFounded
    <3>3. \A y \in B : ~(y < n)
      BY <3>1, <3>2 DEF OpToRel
    <3>4. n \in 1..Len(cs) /\ f[n][s] # a[s]
      OBVIOUS
    <3>5. f[n][s] = Prior(n)[s]
      BY <2>4, <2>5, <3>4 DEF Untouched
    <3>6. n # 1 => n - 1 \in 1..Len(cs) /\ n - 1 < n
      BY <2>3, <3>4
    <3>7. n # 1 => f[n - 1][s] = a[s]
      BY <3>3, <3>6
    <3> QED BY <3>4, <3>5, <3>7
  <2>6. ASSUME NEW s \in Seqs, NEW i \in 1..Len(cs), cs[i].seq = s,
               \A k \in i..Len(cs) : cs[k].seq = s => Sets(cs[k], T[s])
        PROVE  f[Len(cs)][s] = T[s]
    <3> DEFINE B == {k \in i..Len(cs) : f[k][s] # T[s]}
    <3>0. B = {} => f[Len(cs)][s] = T[s]
      BY <2>3
    <3> SUFFICES ASSUME B # {} PROVE FALSE
      BY <3>0
    <3>1. B \subseteq Nat
      BY <2>3
    <3>2. PICK n \in B : \A y \in B : ~(<<y, n>> \in OpToRel(<, Nat))
      <4> HIDE DEF B
      <4> QED BY <3>1, WFMin, NatLessThanWellFounded
    <3>3. \A y \in B : ~(y < n)
      BY <3>1, <3>2 DEF OpToRel
    <3>4. n \in i..Len(cs) /\ n \in 1..Len(cs) /\ f[n][s] # T[s]
      BY <2>3
    <3>5. cs[n].seq # s
      <4> SUFFICES ASSUME cs[n].seq = s PROVE FALSE
        OBVIOUS
      <4>1. Sets(cs[n], T[s])
        BY <2>6, <3>4
      <4> QED BY <2>4, <3>4, <4>1
    <3>6. n # i /\ f[n][s] = Prior(n)[s]
      BY <2>4, <2>6, <3>4, <3>5
    <3>7. n - 1 \in i..Len(cs) /\ n - 1 < n /\ n # 1
      BY <2>3, <3>4, <3>6
    <3>8. f[n - 1][s] = T[s]
      BY <3>3, <3>7
    <3> QED BY <3>4, <3>6, <3>7, <3>8
  <2>7. \A s \in Seqs : f[Len(cs)][s] = T[s]
    BY <2>3, <2>5, <2>6 DEF Reaches, Leaves
  <2> QED BY <2>1, <2>2, <2>3, <2>7 DEF Acl
<1> QED BY <1>1, <1>2

-------------------------------------------------------------------------------
(* What the sets of the handlers reach *)

LEMMA AllSet ==
  ASSUME NEW cs \in Seq(Command), NEW s, NEW v, ~Untouched(cs, s),
         \A i \in 1..Len(cs) : cs[i].seq = s => Sets(cs[i], v)
  PROVE  Leaves(cs, s, v)
<1>1. PICK i \in 1..Len(cs) : cs[i].seq = s
  BY DEF Untouched
<1>2. Len(cs) \in Nat /\ \A k \in i..Len(cs) : k \in 1..Len(cs)
  BY <1>1
<1> QED BY <1>1, <1>2 DEF Leaves

LEMMA OneLine ==
  ASSUME NEW c \in Command, NEW s
  PROVE  /\ Untouched(<<c>>, s) <=> c.seq # s
         /\ \A v : c.seq = s /\ Sets(c, v) => Leaves(<<c>>, s, v)
         /\ Untouched(<<>>, s)
<1>1. <<c>> \in Seq(Command) /\ Len(<<c>>) = 1 /\ <<c>>[1] = c /\ Len(<<>>) = 0
  OBVIOUS
<1>2. \A i \in 1..Len(<<c>>) : i = 1
  BY <1>1
<1>3. 1 \in 1..Len(<<c>>)
  BY <1>1
<1>4. Untouched(<<c>>, s) <=> c.seq # s
  BY <1>1, <1>2, <1>3 DEF Untouched
<1>5. ASSUME NEW v, c.seq = s, Sets(c, v) PROVE Leaves(<<c>>, s, v)
  BY <1>1, <1>2, <1>4, <1>5, AllSet
<1>6. Untouched(<<>>, s)
  BY <1>1 DEF Untouched
<1> QED BY <1>4, <1>5, <1>6

LEMMA JoinedLines ==
  ASSUME NEW c \in Seq(Command), NEW d \in Seq(Command), NEW s
  PROVE  /\ Untouched(c \o d, s) <=> Untouched(c, s) /\ Untouched(d, s)
         /\ \A v : Leaves(d, s, v) => Leaves(c \o d, s, v)
         /\ \A v : Leaves(c, s, v) /\ Untouched(d, s) => Leaves(c \o d, s, v)
<1> DEFINE e == c \o d
<1>1. /\ Len(c) \in Nat /\ Len(d) \in Nat /\ Len(e) = Len(c) + Len(d)
      /\ \A i \in 1..Len(c) : e[i] = c[i]
      /\ \A i \in 1..Len(e) : i > Len(c) => e[i] = d[i - Len(c)]
  BY ConcatProperties
<1> HIDE DEF e
<1>2. ASSUME NEW i \in 1..Len(d) PROVE i + Len(c) \in 1..Len(e) /\ e[i + Len(c)] = d[i]
  BY <1>1
<1>3. \A i \in 1..Len(c) : i \in 1..Len(e)
  BY <1>1
<1>4. ASSUME NEW i \in 1..Len(e), i > Len(c) PROVE i - Len(c) \in 1..Len(d)
  BY <1>1, <1>4
<1>5. ASSUME NEW i \in 1..Len(e), ~(i > Len(c)) PROVE i \in 1..Len(c)
  BY <1>1, <1>5
<1>6. Untouched(e, s) <=> Untouched(c, s) /\ Untouched(d, s)
  <2>1. ASSUME Untouched(e, s) PROVE Untouched(c, s) /\ Untouched(d, s)
    BY <1>1, <1>2, <1>3, <2>1 DEF Untouched
  <2>2. ASSUME Untouched(c, s), Untouched(d, s), NEW i \in 1..Len(e) PROVE e[i].seq # s
    BY <1>1, <1>4, <1>5, <2>2 DEF Untouched
  <2> QED BY <2>1, <2>2 DEF Untouched
<1>7. ASSUME NEW v, Leaves(d, s, v) PROVE Leaves(e, s, v)
  <2>1. PICK i \in 1..Len(d) :
           d[i].seq = s /\ \A k \in i..Len(d) : d[k].seq = s => Sets(d[k], v)
    BY <1>7 DEF Leaves
  <2>2. i + Len(c) \in 1..Len(e) /\ e[i + Len(c)].seq = s
    BY <1>2, <2>1
  <2>3. ASSUME NEW k \in (i + Len(c))..Len(e), e[k].seq = s PROVE Sets(e[k], v)
    <3>1. k \in 1..Len(e) /\ k > Len(c) /\ k - Len(c) \in i..Len(d)
      BY <1>1, <2>1
    <3>2. e[k] = d[k - Len(c)]
      BY <1>1, <3>1
    <3> QED BY <2>1, <2>3, <3>1, <3>2
  <2> QED BY <2>2, <2>3 DEF Leaves
<1>8. ASSUME NEW v, Leaves(c, s, v), Untouched(d, s) PROVE Leaves(e, s, v)
  <2>1. PICK i \in 1..Len(c) :
           c[i].seq = s /\ \A k \in i..Len(c) : c[k].seq = s => Sets(c[k], v)
    BY <1>8 DEF Leaves
  <2>2. i \in 1..Len(e) /\ e[i].seq = s
    BY <1>1, <1>3, <2>1
  <2>3. ASSUME NEW k \in i..Len(e), e[k].seq = s PROVE Sets(e[k], v)
    <3>1. k \in 1..Len(e)
      BY <1>1, <2>1
    <3>2. CASE k > Len(c)
      <4>1. k - Len(c) \in 1..Len(d) /\ e[k] = d[k - Len(c)]
        BY <1>1, <1>4, <3>1, <3>2
      <4> QED BY <1>8, <2>3, <4>1 DEF Untouched
    <3>3. CASE ~(k > Len(c))
      <4>1. k \in i..Len(c) /\ e[k] = c[k]
        BY <1>1, <2>1, <3>1, <3>3
      <4> QED BY <2>1, <2>3, <4>1
    <3> QED BY <3>2, <3>3
  <2> QED BY <2>2, <2>3 DEF Leaves
<1> QED BY <1>6, <1>7, <1>8 DEF e

\* What a line built by a handler leaves.
LEMMA BuiltLines ==
  ASSUME NEW s, NEW l
  PROVE  /\ Put(s, l).seq = s /\ Sets(Put(s, l), l)
         /\ No(s).seq = s /\ Sets(No(s), Free)
         /\ NoRemark(s).seq = s
BY DEF Put, No, NoRemark, Sets

LEMMA DeleteReaches ==
  ASSUME NEW j \in Job, NEW before \in Acl
  PROVE  /\ Reaches(before, <<No(j.old)>>, [before EXCEPT ![j.old] = Free])
         /\ Reaches(before, <<Put(j.old, before[j.old])>>, before)
         /\ ~Untouched(<<Put(j.old, before[j.old])>>, j.old)
<1>1. j.old \in Seqs /\ No(j.old) \in Command /\ Put(j.old, before[j.old]) \in Command
  BY JobFields, Commands DEF Acl, Slot
<1> DEFINE gone == [before EXCEPT ![j.old] = Free]
<1>2. gone[j.old] = Free /\ \A s \in Seqs : s # j.old => gone[s] = before[s]
  BY <1>1 DEF Acl
<1> HIDE DEF gone
<1>3. ASSUME NEW s \in Seqs
      PROVE  \/ Leaves(<<No(j.old)>>, s, gone[s])
             \/ Untouched(<<No(j.old)>>, s) /\ before[s] = gone[s]
  BY <1>1, <1>2, OneLine, BuiltLines
<1>4. ASSUME NEW s \in Seqs
      PROVE  \/ Leaves(<<Put(j.old, before[j.old])>>, s, before[s])
             \/ Untouched(<<Put(j.old, before[j.old])>>, s)
  BY <1>1, OneLine, BuiltLines
<1>5. ~Untouched(<<Put(j.old, before[j.old])>>, j.old)
  BY <1>1, OneLine, BuiltLines
<1> QED BY <1>3, <1>4, <1>5 DEF Reaches, gone

LEMMA EditReaches ==
  ASSUME NEW j \in Job, NEW before \in Acl, NEW T \in Acl
  PROVE  /\ /\ j.new # j.old => T[j.new] = Free
            /\ T[j.old] = before[j.old]
            /\ \A s \in Seqs \ {j.old, j.new} : T[s] = before[s]
            => Reaches(before, EditUndo(j, before), T)
         /\ ~Untouched(EditUndo(j, before), j.old) /\ ~Untouched(EditUndo(j, before), j.new)
<1> DEFINE c == No(j.new)
           d == Put(j.old, before[j.old])
<1>1. c \in Command /\ d \in Command
  BY JobFields, Commands DEF Acl, Slot
<1>2. /\ c.seq = j.new /\ Sets(c, Free)
      /\ d.seq = j.old /\ Sets(d, before[j.old])
  BY BuiltLines
<1>3. EditUndo(j, before) = <<c>> \o <<d>> /\ <<c>> \in Seq(Command) /\ <<d>> \in Seq(Command)
  BY <1>1 DEF EditUndo
<1> HIDE DEF c, d
<1>4. ASSUME NEW s
      PROVE  /\ Untouched(<<c>>, s) <=> s # j.new
             /\ Untouched(<<d>>, s) <=> s # j.old
             /\ s = j.new => Leaves(<<c>>, s, Free)
             /\ s = j.old => Leaves(<<d>>, s, before[j.old])
  BY <1>1, <1>2, OneLine
<1>5. ASSUME j.new # j.old => T[j.new] = Free, T[j.old] = before[j.old],
             \A s \in Seqs \ {j.old, j.new} : T[s] = before[s],
             NEW s \in Seqs
      PROVE  \/ Leaves(<<c>> \o <<d>>, s, T[s])
             \/ Untouched(<<c>> \o <<d>>, s) /\ before[s] = T[s]
  <2>1. CASE s = j.old
    BY <1>3, <1>4, <1>5, <2>1, JoinedLines
  <2>2. CASE s # j.old /\ s = j.new
    <3>1. Leaves(<<c>>, s, T[s]) /\ Untouched(<<d>>, s)
      BY <1>4, <1>5, <2>2
    <3> QED BY <1>3, <3>1, JoinedLines
  <2>3. CASE s # j.old /\ s # j.new
    BY <1>3, <1>4, <1>5, <2>3, JoinedLines
  <2> QED BY <2>1, <2>2, <2>3
<1>6. ~Untouched(<<c>> \o <<d>>, j.old) /\ ~Untouched(<<c>> \o <<d>>, j.new)
  BY <1>3, <1>4, JoinedLines
<1> QED BY <1>3, <1>5, <1>6 DEF Reaches

\* T is `before' with the number of the rule free and `previous' in the place of
\* the remark.
Restorable(j, before, previous, T) ==
  /\ T[j.new] = Free
  /\ j.remark # Free => j.rseq # j.new /\ T[j.rseq] = previous
  /\ j.remark = Free => previous = Free
  /\ \A s \in Seqs \ {j.new} : T[s] = before[s]

LEMMA ApplyReaches ==
  ASSUME NEW j \in Job, NEW before \in Acl, NEW T \in Acl, NEW previous \in Remarks \cup {Free}
  PROVE  /\ Restorable(j, before, previous, T) => Reaches(before, ApplyUndo(j, previous), T)
         /\ ~Untouched(ApplyUndo(j, previous), j.new)
         /\ j.remark # Free => ~Untouched(ApplyUndo(j, previous), j.rseq)
<1> DEFINE A == <<No(j.new)>>
           B == If(j.remark # Free, <<No(j.rseq)>>)
           C == If(previous # Free, <<Put(j.rseq, previous)>>)
<1>1. No(j.new) \in Command /\ No(j.rseq) \in Command /\ Put(j.rseq, previous) \in Command
  <2>1. previous \in Slot
    BY DEF Slot, Line
  <2> QED BY <2>1, JobFields, Commands
<1>2. /\ <<No(j.new)>> \in Seq(Command) /\ <<No(j.rseq)>> \in Seq(Command)
      /\ <<Put(j.rseq, previous)>> \in Seq(Command)
  BY <1>1
<1>3. A \in Seq(Command) /\ B \in Seq(Command) /\ C \in Seq(Command)
  BY <1>2, Conditional
<1>4. ApplyUndo(j, previous) = (A \o B) \o C
  BY DEF ApplyUndo
<1>5. ASSUME NEW s
      PROVE  /\ Untouched(A, s) <=> s # j.new
             /\ s = j.new => Leaves(A, s, Free)
  BY <1>1, OneLine, BuiltLines
<1>6. ASSUME NEW s
      PROVE  /\ Untouched(B, s) <=> j.remark = Free \/ s # j.rseq
             /\ j.remark # Free /\ s = j.rseq => Leaves(B, s, Free)
  BY <1>1, OneLine, BuiltLines DEF If
<1>7. ASSUME NEW s
      PROVE  /\ Untouched(C, s) <=> previous = Free \/ s # j.rseq
             /\ previous # Free /\ s = j.rseq => Leaves(C, s, previous)
  BY <1>1, OneLine, BuiltLines DEF If
<1> HIDE DEF A, B, C
<1> DEFINE D == A \o B
<1>8. D \in Seq(Command)
  BY <1>3
<1>9. ASSUME NEW s
      PROVE  /\ Untouched(D, s) <=> Untouched(A, s) /\ Untouched(B, s)
             /\ \A v : Leaves(B, s, v) => Leaves(D, s, v)
             /\ \A v : Leaves(A, s, v) /\ Untouched(B, s) => Leaves(D, s, v)
  BY <1>3, JoinedLines
<1> HIDE DEF D
<1>10. ASSUME NEW s
       PROVE  /\ Untouched(D \o C, s) <=> Untouched(D, s) /\ Untouched(C, s)
              /\ \A v : Leaves(C, s, v) => Leaves(D \o C, s, v)
              /\ \A v : Leaves(D, s, v) /\ Untouched(C, s) => Leaves(D \o C, s, v)
  BY <1>3, <1>8, JoinedLines
<1>11. ASSUME Restorable(j, before, previous, T), NEW s \in Seqs
       PROVE  Leaves(D \o C, s, T[s]) \/ (Untouched(D \o C, s) /\ before[s] = T[s])
  <2>1. CASE s = j.new
    <3>1. Untouched(B, s) /\ Untouched(C, s) /\ Leaves(A, s, T[s])
      BY <1>5, <1>6, <1>7, <1>11, <2>1 DEF Restorable
    <3> QED BY <1>9, <1>10, <3>1
  <2>2. CASE s # j.new /\ j.remark # Free /\ s = j.rseq /\ previous # Free
    <3>1. Leaves(C, s, T[s])
      BY <1>7, <1>11, <2>2 DEF Restorable
    <3> QED BY <1>10, <3>1
  <2>3. CASE s # j.new /\ j.remark # Free /\ s = j.rseq /\ previous = Free
    <3>1. Leaves(B, s, T[s]) /\ Untouched(C, s)
      BY <1>6, <1>7, <1>11, <2>3 DEF Restorable
    <3> QED BY <1>9, <1>10, <3>1
  <2>4. CASE s # j.new /\ ~(j.remark # Free /\ s = j.rseq)
    <3>1. Untouched(A, s) /\ Untouched(B, s) /\ Untouched(C, s) /\ before[s] = T[s]
      BY <1>5, <1>6, <1>7, <1>11, <2>4 DEF Restorable
    <3> QED BY <1>9, <1>10, <3>1
  <2> QED BY <2>1, <2>2, <2>3, <2>4
<1>12. ~Untouched(D \o C, j.new) /\ (j.remark # Free => ~Untouched(D \o C, j.rseq))
  BY <1>5, <1>6, <1>9, <1>10
<1> QED BY <1>4, <1>11, <1>12 DEF Reaches, D

\* An ascending listing of a set of numbers lists each of them, and no others.
LEMMA Listing ==
  ASSUME NEW S \in SUBSET Seqs, NEW f \in Ascending(S)
  PROVE  /\ Cardinality(S) \in Nat /\ f \in [1..Cardinality(S) -> S]
         /\ \A s \in S : \E i \in 1..Cardinality(S) : f[i] = s
<1>1. IsFiniteSet(S) /\ Cardinality(S) \in Nat
  BY ConstantsOK, FS_Subset, FS_CardinalityType
<1> DEFINE n == Cardinality(S)
<1>2. f \in [1..n -> S] /\ \A i, k \in 1..n : i < k => f[i] < f[k]
  BY DEF Ascending
<1>3. IsFiniteSet(1..n) /\ Cardinality(1..n) = n
  <2>1. 1 \in Int /\ n \in Int /\ (1 > n => n = 0)
    BY <1>1
  <2>2. Cardinality(1..n) = IF 1 > n THEN 0 ELSE n - 1 + 1
    BY <2>1, FS_Interval
  <2> QED BY <1>1, <2>1, <2>2, FS_Interval
<1>4. f \in Injection(1..n, S)
  <2>1. ASSUME NEW i \in 1..n, NEW k \in 1..n, f[i] = f[k] PROVE i = k
    <3>1. f[i] \in Nat /\ f[k] \in Nat
      BY <1>2, ConstantsOK
    <3>2. ~(i < k) /\ ~(k < i)
      BY <1>2, <2>1, <3>1
    <3> QED BY <1>1, <3>2
  <2> QED BY <1>2, <2>1 DEF Injection, IsInjective
<1>5. f \in Surjection(1..n, S)
  BY <1>1, <1>3, <1>4, FS_Injection
<1> QED BY <1>1, <1>2, <1>5 DEF Surjection

LEMMA ListedLines ==
  ASSUME NEW S \in SUBSET Seqs, NEW f \in Ascending(S), NEW lines \in Acl
  PROVE  /\ Nos(f) \in Seq(Command) /\ Puts(f, lines) \in Seq(Command)
         /\ \A s \in S : Leaves(Nos(f), s, Free) /\ Leaves(Puts(f, lines), s, lines[s])
         /\ \A s : s \notin S => Untouched(Nos(f), s) /\ Untouched(Puts(f, lines), s)
         /\ \A s \in S : ~Untouched(Nos(f), s) /\ ~Untouched(Puts(f, lines), s)
<1> DEFINE n == Cardinality(S)
           c == Nos(f)
           d == Puts(f, lines)
<1>1. n \in Nat /\ f \in [1..n -> S] /\ \A s \in S : \E i \in 1..n : f[i] = s
  BY Listing
<1> HIDE DEF n
<1>2. \A i \in 1..n : f[i] \in S /\ No(f[i]) \in Command /\ Put(f[i], lines[f[i]]) \in Command
  BY <1>1, Commands DEF Acl, Slot
<1>3. c \in [1..n -> Command] /\ d \in [1..n -> Command]
  BY <1>1, <1>2 DEF Nos, Puts
<1>4. c \in Seq(Command) /\ d \in Seq(Command) /\ Len(c) = n /\ Len(d) = n
  <2> HIDE DEF c, d
  <2> QED BY <1>1, <1>3, IsASeq, LenProperties
<1>5. \A i \in 1..n : c[i] = No(f[i]) /\ d[i] = Put(f[i], lines[f[i]])
  BY <1>1 DEF Nos, Puts
<1> HIDE DEF c, d
<1>6. ASSUME NEW i \in 1..n
      PROVE  /\ c[i].seq = f[i] /\ Sets(c[i], Free)
             /\ d[i].seq = f[i] /\ Sets(d[i], lines[f[i]])
  BY <1>5, BuiltLines
<1>7. ASSUME NEW s, s \notin S PROVE Untouched(c, s) /\ Untouched(d, s)
  BY <1>2, <1>4, <1>6, <1>7 DEF Untouched
<1>8. ASSUME NEW s \in S PROVE ~Untouched(c, s) /\ ~Untouched(d, s)
  BY <1>1, <1>4, <1>6 DEF Untouched
<1>9. ASSUME NEW s \in S PROVE Leaves(c, s, Free) /\ Leaves(d, s, lines[s])
  <2>1. Leaves(c, s, Free)
    BY <1>4, <1>6, <1>8, AllSet
  <2>2. \A i \in 1..n : d[i].seq = s => Sets(d[i], lines[s])
    BY <1>6
  <2>3. Leaves(d, s, lines[s])
    BY <1>4, <1>8, <2>2, AllSet
  <2> QED BY <2>1, <2>3
<1> QED BY <1>4, <1>7, <1>8, <1>9 DEF c, d

\* The sets of a sync: the numbers of F are freed, those of S written.
LEMMA ListingsReach ==
  ASSUME NEW a \in Acl, NEW T \in Acl, NEW F \in SUBSET Seqs, NEW S \in SUBSET Seqs,
         NEW f \in Ascending(F), NEW g \in Ascending(S),
         NEW lines \in Acl, \A s \in S : lines[s] = T[s],
         \A s \in F \ S : T[s] = Free,
         \A s \in Seqs \ (F \cup S) : a[s] = T[s]
  PROVE  /\ Reaches(a, Nos(f) \o Puts(g, lines), T)
         /\ \A s \in F \cup S : ~Untouched(Nos(f) \o Puts(g, lines), s)
         /\ \A s : s \notin F \cup S => Untouched(Nos(f) \o Puts(g, lines), s)
<1> DEFINE c == Nos(f)
           d == Puts(g, lines)
<1>1. /\ c \in Seq(Command) /\ d \in Seq(Command)
      /\ \A s \in F : Leaves(c, s, Free) /\ ~Untouched(c, s)
      /\ \A s \in S : Leaves(d, s, T[s]) /\ ~Untouched(d, s)
      /\ \A s : s \notin F => Untouched(c, s)
      /\ \A s : s \notin S => Untouched(d, s)
  BY ListedLines
<1> HIDE DEF c, d
<1>2. ASSUME NEW s
      PROVE  /\ Untouched(c \o d, s) <=> Untouched(c, s) /\ Untouched(d, s)
             /\ \A v : Leaves(d, s, v) => Leaves(c \o d, s, v)
             /\ \A v : Leaves(c, s, v) /\ Untouched(d, s) => Leaves(c \o d, s, v)
  BY <1>1, JoinedLines
<1>3. ASSUME NEW s \in Seqs
      PROVE  Leaves(c \o d, s, T[s]) \/ (Untouched(c \o d, s) /\ a[s] = T[s])
  <2>1. CASE s \in S
    BY <1>1, <1>2, <2>1
  <2>2. CASE s \in F \ S
    <3>1. Leaves(c, s, T[s]) /\ Untouched(d, s)
      BY <1>1, <2>2
    <3> QED BY <1>2, <3>1
  <2>3. CASE s \notin F \cup S
    BY <1>1, <1>2, <2>3
  <2> QED BY <2>1, <2>2, <2>3
<1>4. \A s \in F \cup S : ~Untouched(c \o d, s)
  BY <1>1, <1>2
<1>5. \A s : s \notin F \cup S => Untouched(c \o d, s)
  BY <1>1, <1>2
<1> QED BY <1>3, <1>4, <1>5 DEF Reaches, c, d

LEMMA SyncReaches ==
  ASSUME NEW source \in Acl, NEW target \in Acl, NEW a \in Acl, NEW O \in Acl, NEW B \in Acl,
         NEW out \in Ascending(ToRemove(source, target)),
         NEW in \in Ascending(ToAdd(source, target)),
         \A s \in Seqs :
            /\ target[s] # Free => target[s] = a[s]
            /\ O[s] = IF source[s] = Free /\ target[s] = Free THEN a[s] ELSE source[s]
            /\ B[s] = IF source[s] # Free /\ target[s] = Free THEN Free ELSE a[s]
  PROVE  /\ Reaches(a, Nos(out) \o Puts(in, source), O)
         /\ Reaches(a, Nos(in) \o Puts(out, target), B)
         /\ \A s : ~Untouched(Nos(out) \o Puts(in, source), s)
                     => ~Untouched(Nos(in) \o Puts(out, target), s)
<1> DEFINE F == ToRemove(source, target)
           S == ToAdd(source, target)
<1>1. /\ F \in SUBSET Seqs /\ S \in SUBSET Seqs
      /\ \A s \in S : source[s] = O[s]
      /\ \A s \in F \ S : O[s] = Free
      /\ \A s \in F : target[s] = B[s]
      /\ \A s \in S \ F : B[s] = Free
      /\ \A s \in Seqs \ (F \cup S) : a[s] = O[s] /\ a[s] = B[s]
  BY DEF ToRemove, ToAdd, Differing
<1> HIDE DEF F, S
<1>2. out \in Ascending(F) /\ in \in Ascending(S)
  BY DEF F, S
<1>3. /\ Reaches(a, Nos(out) \o Puts(in, source), O)
      /\ \A s : s \notin F \cup S => Untouched(Nos(out) \o Puts(in, source), s)
  BY <1>1, <1>2, ListingsReach
<1>4. /\ Reaches(a, Nos(in) \o Puts(out, target), B)
      /\ \A s \in S \cup F : ~Untouched(Nos(in) \o Puts(out, target), s)
  BY <1>1, <1>2, ListingsReach
<1> QED BY <1>3, <1>4

-------------------------------------------------------------------------------
(* The steps of other requests *)

\* What r was told of its set, and what it was not, is its own.
Unheard(r) == err'[r] = err[r] /\ (r \in silent' <=> r \in silent)

LEMMA OtherReverses ==
  ASSUME NEW r \in Requests, Reverses(r), Alone(r), Onward, Unheard(r)
  PROVE  Reverses(r)'
<1>1. /\ Kind(r)' = Kind(r) /\ Owed(r)' = Owed(r) /\ Before(r)' = Before(r)
      /\ Clean(r)' = Clean(r) /\ Wrote(r)' = Wrote(r)
  <2>1. Kind(r)' = Kind(r) /\ Wanted(r)' = Wanted(r) /\ Found(r)' = Found(r)
    BY DEF Alone, Onward, Kind, Wanted, Found
  <2>2. Overwritten(r)' = Overwritten(r) /\ Promised(r)' = Promised(r) /\ Synced(r)' = Synced(r)
    BY <2>1 DEF Alone, Onward, Overwritten, Promised, Synced
  <2> QED BY <2>1, <2>2 DEF Alone, Onward, Unheard, Owed, Before, Clean, Wrote
<1>2. acl' = acl \/ ~Undisturbed(r)' \/ pc[r] \in {"idle", "read"}
  BY DEF Alone, Undisturbed
<1>3. Undisturbed(r)' => Undisturbed(r)
  BY DEF Onward, Undisturbed
<1>4. UNCHANGED <<pc[r], seen[r], todo[r], undo[r], reply[r], job>>
  BY DEF Alone, Onward
<1> USE <1>1, <1>2, <1>3, <1>4 DEF Reverses
<1>5. Waiting(r)' /\ Undoable(r)' /\ Verifies(r)'
  BY DEF Waiting, Undoable, Wrote, Verifies
<1>6. Scoped(r)' /\ CoversRemark(r)'
  BY DEF Scoped, CoversRemark
<1>7. Rolling(r)' /\ Restoring(r)'
  BY DEF Rolling, Restoring, Done
<1>8. Going(r)' /\ Gone(r)'
  BY DEF Going, Gone, Done, Unheard
<1> QED BY <1>5, <1>6, <1>7, <1>8

LEMMA StepUnheard ==
  ASSUME TypeOK, NEW r \in Requests, Handler(r), NEW q \in Requests \ {r}
  PROVE  Unheard(q)
<1>1. CASE SendLine(r)
  BY <1>1 DEF SendLine, Unheard, TypeOK
<1>2. CASE LinkLost(r)
  BY <1>2 DEF LinkLost, Unheard, TypeOK
<1>3. CASE ReadForApply(r) \/ ReadRemarks(r)
  BY <1>3 DEF ReadForApply, ReadRemarks, ComposeApply, Configure, Unheard, TypeOK, ghosts
<1>4. CASE ReadForDelete(r) \/ ReadForEdit(r) \/ ReadForSync(r)
  <2>1. UNCHANGED ghosts /\ (Refusing(r, "refused") \/ Refusing(r, "unchanged") \/ Composed(r))
    BY <1>4, ReadChecks
  <2> QED BY <2>1 DEF Refusing, Composed, Composing, Configure, Unheard, TypeOK, ghosts
<1>5. CASE VerifyRule(r)
  <2>1. UNCHANGED silent
    BY <1>5 DEF VerifyRule
  <2> QED BY <1>5, <2>1, VerifyOutcome DEF Rollback, Configure, Unheard, TypeOK
<1>6. CASE Start(r) \/ Unreachable(r) \/ RemarkFailed(r) \/ RemarkTaken(r) \/ RolledBack(r)
  BY <1>6 DEF Start, Unreachable, RemarkFailed, RemarkTaken, RolledBack, Rollback, Configure,
              Unheard, TypeOK, ghosts
<1>7. CASE ConfigFailed(r) \/ ConfigTaken(r)
  BY <1>7 DEF ConfigFailed, ConfigTaken, Rollback, Configure, Unheard, TypeOK, ghosts
<1>8. CASE VerifyRemark(r) \/ VerifySync(r) \/ RestoreVerify(r)
  BY <1>8 DEF VerifyRemark, VerifySync, RestoreVerify, Rollback, Configure, Unheard, TypeOK, ghosts
<1> QED BY <1>1, <1>2, <1>3, <1>4, <1>5, <1>6, <1>7, <1>8 DEF Handler

-------------------------------------------------------------------------------
(* The steps of the request itself *)

\* The names that depend on the job of r and on what it read.
LEMMA Named ==
  ASSUME NEW r, UNCHANGED <<job, seen, bare>>
  PROVE  /\ Kind(r)' = Kind(r) /\ Owed(r)' = Owed(r) /\ Before(r)' = Before(r)
<1>1. Kind(r)' = Kind(r) /\ Wanted(r)' = Wanted(r) /\ Found(r)' = Found(r)
  BY DEF Kind, Wanted, Found
<1>2. Overwritten(r)' = Overwritten(r) /\ Promised(r)' = Promised(r) /\ Synced(r)' = Synced(r)
  BY <1>1 DEF Overwritten, Promised, Synced
<1> QED BY <1>1, <1>2 DEF Owed, Before

\* The lists of a sync as it read them hold lines of the lists themselves.
LEMMA AsRead ==
  ASSUME TypeOK, NEW r \in Requests
  PROVE  /\ Wanted(r) \in Acl /\ Found(r) \in Acl
         /\ \A s \in Seqs : /\ Found(r)[s] # Free => Found(r)[s] = seen[r][s]
                            /\ Wanted(r)[s] # Free => Wanted(r)[s] = job[r].source[s]
<1>1. seen[r] \in Acl /\ job[r].source \in Acl
  BY RequestFields DEF TypeOK
<1> QED BY <1>1, MapTyped DEF Wanted, Found, MapOf, RulesOf

\* What r has to leave behind is a list.
LEMMA BeforeTyped ==
  ASSUME TypeOK, NEW r \in Requests
  PROVE  /\ Before(r) \in Acl
         /\ Overwritten(r) = {} => Before(r) = seen[r]
BY DEF TypeOK, Before, Acl, Slot

LEMMA OwedTyped ==
  ASSUME TypeOK, NEW r \in Requests, Kind(r) \in {"delete", "sync"}
  PROVE  Owed(r) \in Acl
<1>1. Kind(r) = job[r].kind /\ seen[r] \in Acl /\ Free \in Slot
  BY DEF Kind, TypeOK, Slot
<1>2. CASE Kind(r) = "delete"
  <2>1. Owed(r) = [seen[r] EXCEPT ![job[r].old] = Free]
    BY <1>1, <1>2 DEF Owed, Promised
  <2> QED BY <1>1, <2>1 DEF Acl
<1>3. CASE Kind(r) = "sync"
  <2>1. Owed(r) = Synced(r) /\ Wanted(r) \in Acl
    BY <1>3, AsRead DEF Owed
  <2> QED BY <1>1, <2>1 DEF Synced, Acl
<1> QED BY <1>2, <1>3

\* A set names its own numbers.
LEMMA NamesItself ==
  ASSUME NEW cs, NEW c \in Lines(cs)
  PROVE  ~Untouched(cs, c.seq)
BY DEF Lines, Untouched

\* A line of r, obeyed or not.
LEMMA LineReverses ==
  ASSUME TypeOK, NEW r \in Requests, Reverses(r), pc[r] \in Sending, todo[r] # <<>>,
         NEW list \in {acl, Obey(acl, Head(todo[r]))}, NEW rest \in {Tail(todo[r]), <<>>},
         AfterLine(r, list, rest), UNCHANGED <<job, pc, seen, bare, undo, reply>>,
         Clean(r)' => /\ Clean(r) /\ list = Obey(acl, Head(todo[r])) /\ rest = Tail(todo[r])
  PROVE  Reverses(r)'
<1> DEFINE c == Head(todo[r])
           after == Obey(acl, Head(todo[r]))
<1>1. /\ acl' = list /\ todo'[r] = rest /\ (Undisturbed(r)' <=> Undisturbed(r))
  BY DEF AfterLine, TypeOK, Undisturbed
<1>2. /\ todo[r] \in Seq(Command) /\ acl \in Acl /\ Before(r) \in Acl /\ undo[r] \in Seq(Command)
  BY BeforeTyped DEF TypeOK
<1>3. /\ c \in Command /\ c \in Lines(todo[r]) /\ Lines(rest) \subseteq Lines(todo[r])
  <2>1. Lines(<<>>) = {}
    BY DEF Lines
  <2> QED BY <1>2, <2>1, NextLine
<1>4. ~Untouched(undo[r], c.seq)
  BY <1>3 DEF Reverses, Scoped
<1>5. ASSUME NEW T \in Acl, Reaches(acl, todo[r], T) PROVE Reaches(after, Tail(todo[r]), T)
  BY <1>2, <1>5, StepReaches
<1>6. ASSUME Reaches(acl, undo[r], Before(r)) PROVE Reaches(after, undo[r], Before(r))
  BY <1>2, <1>3, <1>4, <1>6, WritesWithin
<1>7. Kind(r)' = Kind(r) /\ Owed(r)' = Owed(r) /\ Before(r)' = Before(r)
  BY Named
<1> HIDE DEF c, after
<1>8. Waiting(r)' /\ Undoable(r)' /\ Verifies(r)'
  BY <1>1, <1>6, <1>7 DEF Reverses, Waiting, Undoable, Wrote, Verifies, Sending, after
<1>9. Scoped(r)' /\ CoversRemark(r)'
  BY <1>1, <1>3, <1>7 DEF Reverses, Scoped, CoversRemark
<1>10. Rolling(r)'
  BY <1>1, <1>2, <1>5, <1>7 DEF Reverses, Rolling, after
<1>11. Kind(r) \in {"delete", "sync"} => Owed(r) \in Acl
  BY OwedTyped
<1>12. Going(r)'
  BY <1>1, <1>5, <1>7, <1>11 DEF Reverses, Going, after
<1>13. Restoring(r)' /\ Gone(r)'
  BY DEF Restoring, Gone, Done, Sending
<1> QED BY <1>8, <1>9, <1>10, <1>12, <1>13 DEF Reverses

\* What the reads and the lines leave for the other steps to keep.
Steady == UNCHANGED <<acl, job, seen, bare, undo, disturbed, silent>>

LEMMA SteadyNames ==
  ASSUME NEW r, Steady
  PROVE  /\ Kind(r)' = Kind(r) /\ Owed(r)' = Owed(r) /\ Before(r)' = Before(r)
         /\ Undisturbed(r)' = Undisturbed(r)
         /\ UNCHANGED <<acl, seen[r], undo[r], job>> /\ (r \in silent' <=> r \in silent)
BY Named DEF Steady, Undisturbed

\* r answers: a failure has to have restored the list, a success without a check
\* to have done its work.
LEMMA AnswerReverses ==
  ASSUME TypeOK, NEW r \in Requests, NEW what, NEW audit, Local(r), Reverses(r),
         Respond(r, what, audit), Steady, UNCHANGED <<todo, err>>, pc[r] # "done",
         pc[r] \in {"idle", "read", "remarks"} => what = "unreachable",
         what \in Failed /\ Undisturbed(r) /\ Clean(r) => acl = Before(r),
         what = "verified" => Kind(r) = "sync",
         (what = "success" /\ Kind(r) = "delete") \/ what = "verified" =>
            (Undisturbed(r) /\ r \notin silent => acl = Owed(r))
  PROVE  Reverses(r)'
<1>1. pc'[r] = "done" /\ reply'[r] = what /\ todo'[r] = todo[r] /\ err'[r] = err[r]
  BY DEF Respond, TypeOK
<1>2. reply[r] \notin {"unreachable", "refused", "unchanged"}
  BY DEF Local, Pending
<1> USE <1>1, SteadyNames DEF Reverses
<1>3. Waiting(r)' /\ Undoable(r)' /\ Verifies(r)'
  BY <1>2 DEF Waiting, Undoable, Wrote, Verifies
<1>4. Scoped(r)' /\ CoversRemark(r)' /\ Rolling(r)' /\ Going(r)'
  BY DEF Scoped, CoversRemark, Rolling, Going, Sending
<1>5. Restoring(r)' /\ Gone(r)'
  BY DEF Restoring, Gone, Clean, Done
<1> QED BY <1>3, <1>4, <1>5

\* r starts its rollback: nothing has been refused in it yet.
LEMMA RollbackReverses ==
  ASSUME TypeOK, NEW r \in Requests, NEW answer, Local(r), Reverses(r),
         Rollback(r, answer), Steady, answer \in {"failed", "rolledback"},
         pc[r] \in {"config", "verify", "remark", "remarkVerify"}
  PROVE  Reverses(r)'
<1>1. pc'[r] = "rollback" /\ reply'[r] = answer /\ todo'[r] = undo[r]
  BY DEF Rollback, Configure, TypeOK
<1>2. reply[r] \notin {"unreachable", "refused", "unchanged"}
  BY DEF Local, Pending
<1> USE <1>1, SteadyNames DEF Reverses
<1>3. Waiting(r)' /\ Undoable(r)' /\ Rolling(r)' /\ Verifies(r)'
  BY <1>2 DEF Waiting, Undoable, Rolling, Wrote, Verifies
<1>4. Scoped(r)' /\ CoversRemark(r)'
  BY NamesItself DEF Scoped, CoversRemark
<1>5. Restoring(r)' /\ Going(r)' /\ Gone(r)'
  BY DEF Restoring, Going, Gone, Done
<1> QED BY <1>3, <1>4, <1>5

\* r goes on to its next await, with nothing left to send.
LEMMA MoveReverses ==
  ASSUME TypeOK, NEW r \in Requests, NEW phase, Local(r), Reverses(r),
         pc' = [pc EXCEPT ![r] = phase], Steady, UNCHANGED <<todo, reply, err>>,
         \/ pc[r] = "idle" /\ phase = "read"
         \/ pc[r] = "config" /\ phase = "verify" /\ todo[r] = <<>> /\ ~err[r]
         \/ pc[r] = "remark" /\ phase = "remarkVerify"
         \/ pc[r] = "rollback" /\ phase = "restoreVerify" /\ todo[r] = <<>>
  PROVE  Reverses(r)'
<1>1. pc'[r] = phase /\ reply'[r] = reply[r] /\ todo'[r] = todo[r] /\ err'[r] = err[r]
  BY DEF TypeOK
<1>2. acl \in Acl /\ Before(r) \in Acl /\ (Kind(r) \in {"delete", "sync"} => Owed(r) \in Acl)
  BY BeforeTyped, OwedTyped DEF TypeOK
<1> USE <1>1, SteadyNames DEF Reverses
<1>3. Waiting(r)' /\ Undoable(r)' /\ Verifies(r)'
  BY DEF Waiting, Undoable, Wrote, Verifies
<1>4. Scoped(r)' /\ CoversRemark(r)' /\ Rolling(r)' /\ Going(r)'
  BY DEF Scoped, CoversRemark, Rolling, Going, Sending
<1>5. Restoring(r)'
  <2>1. phase = "restoreVerify" /\ Undisturbed(r) /\ Clean(r) => acl = Before(r)
    BY <1>2, NothingLeft DEF Rolling
  <2> QED BY <2>1 DEF Restoring, Clean, Done
<1>6. Gone(r)'
  <2>1. phase = "verify" /\ Kind(r) = "sync" /\ Undisturbed(r) /\ r \notin silent
          => acl = Owed(r)
    BY <1>2, NothingLeft DEF Going, Clean
  <2> QED BY <2>1 DEF Gone, Done
<1> QED BY <1>3, <1>4, <1>5, <1>6

\* The checks of r refuse, and nothing was composed.
LEMMA RefuseReverses ==
  ASSUME TypeOK, NEW r \in Requests, NEW what \in {"refused", "unchanged"}, Refusing(r, what)
  PROVE  Reverses(r)'
<1>1. pc'[r] = "done" /\ reply'[r] = what
  BY DEF Refusing, Respond, TypeOK
<1>2. Waiting(r)' /\ Undoable(r)' /\ Verifies(r)'
  BY <1>1 DEF Waiting, Undoable, Wrote, Verifies
<1>3. Scoped(r)' /\ CoversRemark(r)' /\ Rolling(r)' /\ Going(r)'
  BY <1>1 DEF Scoped, CoversRemark, Rolling, Going, Sending
<1>4. Restoring(r)' /\ Gone(r)'
  BY <1>1 DEF Restoring, Gone, Done, Failed
<1> QED BY <1>2, <1>3, <1>4 DEF Reverses

\* The checks of r pass: what it composed reaches what it should.
LEMMA ComposeReverses ==
  ASSUME TypeOK, NEW r \in Requests, Local(r), pc[r] \in {"read", "remarks"},
         NEW cs, NEW back, Composing(r, cs, back),
         UNCHANGED <<acl, job, disturbed, silent>>,
         Undisturbed(r) => Reaches(acl, back, Before(r)'),
         \A c \in Lines(cs) : ~Untouched(back, c.seq),
         Kind(r) = "apply" /\ job[r].remark # Free => ~Untouched(back, job[r].rseq),
         Kind(r) \in {"delete", "sync"} => Reaches(acl, cs, Owed(r)')
  PROVE  Reverses(r)'
<1>1. /\ pc'[r] = "config" /\ todo'[r] = cs /\ undo'[r] = back
      /\ Kind(r)' = Kind(r) /\ (Undisturbed(r)' <=> Undisturbed(r))
  BY DEF Composing, Configure, TypeOK, Kind, Undisturbed
<1>2. Waiting(r)' /\ Undoable(r)' /\ Verifies(r)'
  <2>1. reply'[r] # "verified"
    BY DEF Composing, Local, Pending
  <2> QED BY <1>1, <2>1 DEF Waiting, Undoable, Verifies
<1>3. Scoped(r)' /\ CoversRemark(r)' /\ Going(r)'
  BY <1>1 DEF Scoped, CoversRemark, Going
<1>4. Rolling(r)' /\ Restoring(r)' /\ Gone(r)'
  BY <1>1 DEF Rolling, Restoring, Gone, Done
<1> QED BY <1>2, <1>3, <1>4 DEF Reverses

\* What r has to leave behind when it has just read the list.
LEMMA JustRead ==
  ASSUME NEW r \in Requests, NEW s \in Seqs, UNCHANGED job
  PROVE  /\ Kind(r)' = Kind(r)
         /\ Before(r)'[s] = IF /\ seen'[r][s] \in Remarks
                               /\ \/ Kind(r) \in {"apply", "edit"} /\ s = job[r].new
                                  \/ /\ Kind(r) = "sync" /\ "target" \in bare'[r]
                                     /\ Wanted(r)'[s] # Free
                            THEN Free ELSE seen'[r][s]
<1>1. Kind(r)' = Kind(r)
  BY DEF Kind
<1> QED BY <1>1 DEF Before, Overwritten

LEMMA ReadReverses ==
  ASSUME TypeOK, TypeOK', Asked, NEW r \in Requests, Local(r), Reverses(r),
         \/ ReadForApply(r) \/ ReadRemarks(r)
         \/ ReadForDelete(r) \/ ReadForEdit(r) \/ ReadForSync(r)
  PROVE  Reverses(r)'
<1> DEFINE j == job[r]
           T == Before(r)'
<1>1. /\ j \in Job /\ acl \in Acl /\ seen[r] \in Acl /\ Kind(r) = j.kind /\ j.source \in Acl
      /\ j.old \in Seqs /\ j.new \in Seqs /\ j.rseq \in Seqs /\ j.remark \in Remarks \cup {Free}
  BY RequestFields DEF TypeOK, Kind
<1>2. /\ j.kind = "apply" /\ j.remark # Free => j.rseq < j.new /\ j.rseq # j.new
      /\ j.kind = "edit" => j.was \in Rules
      /\ Rules \cap Remarks = {}
      /\ \A a \in Acl : \A s \in Seqs : a[s] \in Rules \cup Remarks \cup {Free}
  BY <1>1, ConstantsOK DEF Asked, Acl, Slot, Line
<1>3. UNCHANGED <<acl, job, disturbed, silent>> /\ pc[r] \in {"read", "remarks"}
  BY DEF ReadForApply, ReadRemarks, ReadForDelete, ReadForEdit, ReadForSync, ghosts
<1>4. T \in Acl
  BY DEF TypeOK, Before, Acl, Slot
<1>5. \A s \in Seqs :
         T[s] = IF /\ seen'[r][s] \in Remarks
                   /\ \/ Kind(r) \in {"apply", "edit"} /\ s = j.new
                      \/ Kind(r) = "sync" /\ "target" \in bare'[r] /\ Wanted(r)'[s] # Free
                THEN Free ELSE seen'[r][s]
  BY <1>3, JustRead
<1> HIDE DEF j, T
<1>6. CASE ReadForApply(r) /\ j.remark # Free
  <2>1. pc'[r] = "remarks" /\ seen'[r] = acl /\ reply'[r] = reply[r]
    BY <1>6 DEF ReadForApply, TypeOK, j
  <2>2. Waiting(r)' /\ Undoable(r)' /\ Verifies(r)'
    BY <1>3, <2>1 DEF Waiting, Undoable, Wrote, Verifies, Local, Pending
  <2> QED BY <2>1, <2>2 DEF Reverses, Scoped, CoversRemark, Rolling, Restoring, Going, Gone,
                            Sending, Done
<1>7. CASE ReadForApply(r) /\ j.remark = Free
  <2>1. /\ \/ Refusing(r, "refused")
           \/ ~ApplyCollides(j, acl) /\ Composing(r, ApplySet(j), ApplyUndo(j, Free))
        /\ seen'[r] = acl /\ j.kind = "apply"
    BY <1>1, <1>7 DEF ReadForApply, ComposeApply, Refusing, Composing, TypeOK, Kind, j
  <2>2. CASE Refusing(r, "refused")
    BY <2>2, RefuseReverses
  <2>3. CASE ~ApplyCollides(j, acl) /\ Composing(r, ApplySet(j), ApplyUndo(j, Free))
    <3>1. T[j.new] = Free /\ \A s \in Seqs \ {j.new} : T[s] = acl[s]
      BY <1>1, <1>2, <1>5, <2>1, <2>3 DEF ApplyCollides
    <3>2. /\ Reaches(acl, ApplyUndo(j, Free), T)
          /\ ~Untouched(ApplyUndo(j, Free), j.new)
      BY <1>1, <1>4, <1>7, <3>1, ApplyReaches DEF Restorable
    <3>3. \A c \in Lines(ApplySet(j)) : ~Untouched(ApplyUndo(j, Free), c.seq)
      BY <1>1, <3>2, ApplySetLines, BuiltLines
    <3> QED BY <1>1, <1>3, <1>7, <2>1, <2>3, <3>2, <3>3, ComposeReverses DEF j, T
  <2> QED BY <2>1, <2>2, <2>3
<1>8. CASE ReadRemarks(r)
  <2> DEFINE previous == RemarkIn(acl[j.rseq])
  <2>1. /\ \/ Refusing(r, "refused")
           \/ ~ApplyCollides(j, seen[r]) /\ Composing(r, ApplySet(j), ApplyUndo(j, previous))
        /\ seen'[r] = seen[r] /\ pc[r] = "remarks"
    BY <1>8 DEF ReadRemarks, ComposeApply, Refusing, Composing, j
  <2>2. previous \in Remarks \cup {Free} /\ j.kind = "apply" /\ j.remark # Free
    BY <1>1, <2>1 DEF RemarkIn, Local, Phased, j
  <2>3. CASE Refusing(r, "refused")
    BY <2>3, RefuseReverses
  <2>4. CASE ~ApplyCollides(j, seen[r]) /\ Composing(r, ApplySet(j), ApplyUndo(j, previous))
    <3>1. Undisturbed(r) => acl = seen[r]
      BY <2>1 DEF Reverses, Waiting
    <3>2. T[j.new] = Free /\ \A s \in Seqs \ {j.new} : T[s] = seen[r][s]
      BY <1>1, <1>2, <1>5, <2>1, <2>2, <2>4 DEF ApplyCollides
    <3>3. acl = seen[r] => seen[r][j.rseq] = previous
      BY <1>1, <1>2, <2>2, <2>4 DEF ApplyCollides, RemarkIn
    <3> HIDE DEF previous
    <3>4. Undisturbed(r) => Restorable(j, acl, previous, T)
      BY <1>1, <1>2, <2>2, <3>1, <3>2, <3>3 DEF Restorable
    <3>5. /\ Undisturbed(r) => Reaches(acl, ApplyUndo(j, previous), T)
          /\ ~Untouched(ApplyUndo(j, previous), j.new)
          /\ ~Untouched(ApplyUndo(j, previous), j.rseq)
      BY <1>1, <1>4, <2>2, <3>4, ApplyReaches
    <3>6. \A c \in Lines(ApplySet(j)) : ~Untouched(ApplyUndo(j, previous), c.seq)
      BY <1>1, <3>5, ApplySetLines, BuiltLines
    <3> QED BY <1>1, <1>3, <2>2, <2>4, <3>5, <3>6, ComposeReverses DEF j, T
  <2> QED BY <2>1, <2>3, <2>4
<1>9. CASE ReadForDelete(r)
  <2> DEFINE cs == <<No(j.old)>>
             back == <<Put(j.old, acl[j.old])>>
  <2>1. /\ Refusing(r, "refused") \/ Composing(r, cs, back)
        /\ seen'[r] = acl /\ Kind(r) = "delete" /\ Kind(r)' = "delete"
    BY <1>9 DEF ReadForDelete, Refusing, Composing, TypeOK, Kind, j
  <2>2. CASE Refusing(r, "refused")
    BY <2>2, RefuseReverses
  <2>3. CASE Composing(r, cs, back)
    <3>1. Owed(r)' = [acl EXCEPT ![j.old] = Free]
      BY <1>1, <1>3, <2>1 DEF Owed, Promised, Kind, j
    <3>2. T = acl
      BY <1>1, <1>4, <1>5, <2>1 DEF Acl
    <3>3. Reaches(acl, cs, Owed(r)') /\ Reaches(acl, back, acl) /\ ~Untouched(back, j.old)
      BY <1>1, <3>1, DeleteReaches
    <3>4. \A c \in Lines(cs) : c.seq = j.old
      <4>1. Lines(cs) = {No(j.old)}
        BY <1>1, Commands, ShortSets
      <4> QED BY <4>1, BuiltLines
    <3> HIDE DEF cs, back
    <3> QED BY <1>3, <2>1, <2>3, <3>2, <3>3, <3>4, ComposeReverses DEF T
  <2> QED BY <2>1, <2>2, <2>3
<1>10. CASE ReadForEdit(r)
  <2>1. /\ \/ Refusing(r, "refused") \/ Refusing(r, "unchanged")
           \/ ~EditRefused(j, acl) /\ Composing(r, EditSet(j), EditUndo(j, acl))
        /\ j.kind = "edit"
    <3>1. CASE EditRefused(j, acl)
      BY <1>1, <1>10, <3>1, Zenon DEF ReadForEdit, Refusing, Kind, j
    <3>2. CASE ~EditRefused(j, acl)
      BY <1>1, <1>10, <3>2, Zenon DEF ReadForEdit, Refusing, Composing, Kind, j
    <3> QED BY <3>1, <3>2
  <2>2. seen'[r] = acl
    BY <1>10 DEF ReadForEdit, TypeOK
  <2>3. CASE Refusing(r, "refused") \/ Refusing(r, "unchanged")
    BY <2>3, RefuseReverses
  <2>4. CASE ~EditRefused(j, acl) /\ Composing(r, EditSet(j), EditUndo(j, acl))
    <3>1. acl[j.old] \in Rules /\ (j.new # j.old => acl[j.new] \notin Rules)
      BY <1>2, <2>1, <2>4 DEF EditRefused
    <3>2. /\ j.new # j.old => T[j.new] = Free
          /\ T[j.old] = acl[j.old]
          /\ \A s \in Seqs \ {j.old, j.new} : T[s] = acl[s]
      BY <1>1, <1>2, <1>5, <2>1, <2>2, <3>1
    <3>3. /\ Reaches(acl, EditUndo(j, acl), T)
          /\ ~Untouched(EditUndo(j, acl), j.old) /\ ~Untouched(EditUndo(j, acl), j.new)
      BY <1>1, <1>4, <3>2, EditReaches
    <3>4. \A c \in Lines(EditSet(j)) : ~Untouched(EditUndo(j, acl), c.seq)
      <4>1. Lines(EditSet(j)) = {No(j.old), Put(j.new, j.line)}
        BY <1>1, EditSetLines
      <4> QED BY <3>3, <4>1, BuiltLines
    <3>5. Kind(r) = "edit"
      BY <1>1, <2>1
    <3> QED BY <1>3, <2>4, <3>3, <3>4, <3>5, ComposeReverses DEF T
  <2> QED BY <2>1, <2>3, <2>4
<1>11. CASE ReadForSync(r)
  <2>1. PICK source, target \in Acl :
          /\ source = Wanted(r)' /\ target = Found(r)'
          /\ \/ Refusing(r, "refused") \/ Refusing(r, "unchanged")
             \/ \E out \in Ascending(ToRemove(source, target)), in \in Ascending(ToAdd(source, target)) :
                  Composing(r, Nos(out) \o Puts(in, source), Nos(in) \o Puts(out, target))
    BY <1>11, SyncPlan
  <2>2. seen'[r] = acl /\ Kind(r) = "sync" /\ Kind(r)' = "sync"
    BY <1>3, <1>11 DEF ReadForSync, TypeOK, Kind
  <2>3. CASE Refusing(r, "refused") \/ Refusing(r, "unchanged")
    BY <2>3, RefuseReverses
  <2>4. ASSUME NEW out \in Ascending(ToRemove(source, target)),
               NEW in \in Ascending(ToAdd(source, target)),
               Composing(r, Nos(out) \o Puts(in, source), Nos(in) \o Puts(out, target))
        PROVE  Reverses(r)'
    <3> DEFINE O == Owed(r)'
               cs == Nos(out) \o Puts(in, source)
               back == Nos(in) \o Puts(out, target)
    <3>1. O \in Acl
      BY <1>1, <2>1, <2>2 DEF Owed, Synced, Acl
    <3>2. \A s \in Seqs : O[s] = IF source[s] = Free /\ target[s] = Free THEN acl[s] ELSE source[s]
      BY <2>1, <2>2 DEF Owed, Synced
    <3>3. ASSUME NEW s \in Seqs
          PROVE  /\ target[s] # Free => target[s] = acl[s]
                 /\ T[s] = IF source[s] # Free /\ target[s] = Free THEN Free ELSE acl[s]
      <4>1. target[s] = IF "target" \in bare'[r] /\ acl[s] \notin Rules THEN Free ELSE acl[s]
        BY <2>1, <2>2 DEF Found, MapOf, RulesOf
      <4>2. T[s] = IF /\ acl[s] \in Remarks
                      /\ "target" \in bare'[r] /\ source[s] # Free THEN Free ELSE acl[s]
        BY <1>5, <2>1, <2>2
      <4> QED BY <1>1, <1>2, <4>1, <4>2
    <3> HIDE DEF O
    <3>4. /\ Reaches(acl, cs, O) /\ Reaches(acl, back, T)
          /\ \A s : ~Untouched(cs, s) => ~Untouched(back, s)
      <4>1. \A s \in Seqs :
               /\ target[s] # Free => target[s] = acl[s]
               /\ O[s] = IF source[s] = Free /\ target[s] = Free THEN acl[s] ELSE source[s]
               /\ T[s] = IF source[s] # Free /\ target[s] = Free THEN Free ELSE acl[s]
        BY <3>2, <3>3
      <4>2. acl \in Acl /\ T \in Acl /\ O \in Acl
        BY <1>1, <1>4, <3>1
      <4> QED BY <4>1, <4>2, SyncReaches
    <3>5. Composing(r, cs, back)
      BY <2>4
    <3> HIDE DEF cs, back
    <3>6. \A c \in Lines(cs) : ~Untouched(back, c.seq)
      BY <3>4, NamesItself
    <3> QED BY <1>3, <2>2, <3>4, <3>5, <3>6, ComposeReverses DEF T, O
  <2> QED BY <2>1, <2>3, <2>4
<1> QED BY <1>6, <1>7, <1>8, <1>9, <1>10, <1>11

LEMMA SendReverses ==
  ASSUME TypeOK, NEW r \in Requests, Reverses(r), SendLine(r) \/ LinkLost(r)
  PROVE  Reverses(r)'
<1>1. CASE SendLine(r)
  <2>1. PICK e \in Effects(acl, Head(todo[r])) :
          /\ AfterLine(r, e.list, Tail(todo[r]))
          /\ err' = [err EXCEPT ![r] = @ \/ e.error]
          /\ silent' = IF e.unheard THEN silent \cup {r} ELSE silent
    BY <1>1 DEF SendLine
  <2>2. /\ e.list \in {acl, Obey(acl, Head(todo[r]))}
        /\ ~e.error /\ ~e.unheard => e.list = Obey(acl, Head(todo[r]))
    <3>1. CASE e = [list |-> Obey(acl, Head(todo[r])), error |-> FALSE, unheard |-> FALSE]
      BY <3>1
    <3>2. CASE \E h \in Heard : e = [list |-> acl, error |-> h, unheard |-> ~h]
      <4>1. PICK h \in Heard : e = [list |-> acl, error |-> h, unheard |-> ~h]
        BY <3>2
      <4>2. e.list = acl /\ (h => e.error) /\ (~h => e.unheard)
        BY <4>1, ConstantsOK
      <4> QED BY <4>2
    <3> QED BY <2>1, <3>1, <3>2 DEF Effects
  <2>3. Clean(r)' => Clean(r) /\ ~e.error /\ ~e.unheard
    BY <2>1 DEF Clean, TypeOK
  <2> QED BY <1>1, <2>1, <2>2, <2>3, LineReverses DEF SendLine
<1>2. CASE LinkLost(r)
  <2>1. PICK list \in {acl, Obey(acl, Head(todo[r]))} : AfterLine(r, list, <<>>)
    BY <1>2 DEF LinkLost
  <2>2. ~Clean(r)'
    BY <1>2 DEF LinkLost, Clean, TypeOK
  <2> QED BY <1>2, <2>1, <2>2, LineReverses DEF LinkLost
<1> QED BY <1>1, <1>2

LEMMA VerifyReverses ==
  ASSUME TypeOK, NEW r \in Requests, Local(r), Reverses(r), VerifyRule(r)
  PROVE  Reverses(r)'
<1>1. Steady /\ pc[r] = "verify" /\ Kind(r) \in {"apply", "edit"}
  BY DEF VerifyRule, ether, Steady
<1>2. CASE Rollback(r, "rolledback")
  BY <1>1, <1>2, RollbackReverses
<1>3. CASE Respond(r, "success", TRUE) /\ UNCHANGED <<todo, err>>
  BY <1>1, <1>3, AnswerReverses DEF Failed
<1>4. CASE /\ job[r].remark # Free /\ Kind(r) = "apply"
           /\ Configure(r, "remark", ApplyRemark(job[r], prev[r]))
           /\ UNCHANGED <<reply, logged>>
  <2>1. /\ pc'[r] = "remark" /\ todo'[r] = ApplyRemark(job[r], prev[r]) /\ reply'[r] = reply[r]
        /\ reply[r] \notin {"unreachable", "refused", "unchanged"}
    BY <1>1, <1>4 DEF Configure, TypeOK, Local, Pending
  <2>2. \A c \in Lines(ApplyRemark(job[r], prev[r])) : c.seq = job[r].rseq
    <3>1. \A c \in Lines(ApplyRemark(job[r], prev[r])) :
             c \in {NoRemark(job[r].rseq), Put(job[r].rseq, job[r].remark)}
      BY <1>4, RequestFields, ApplyRemarkLines DEF TypeOK
    <3> QED BY <3>1, BuiltLines
  <2>3. ~Untouched(undo[r], job[r].rseq)
    BY <1>1, <1>4 DEF Reverses, CoversRemark
  <2> USE <1>1, <2>1, SteadyNames DEF Reverses
  <2>4. Waiting(r)' /\ Undoable(r)' /\ Scoped(r)' /\ CoversRemark(r)' /\ Verifies(r)'
    BY <2>2, <2>3 DEF Waiting, Undoable, Scoped, CoversRemark, Wrote, Verifies
  <2>5. Rolling(r)' /\ Restoring(r)' /\ Going(r)' /\ Gone(r)'
    BY DEF Rolling, Restoring, Going, Gone, Done
  <2> QED BY <2>4, <2>5
<1> QED BY <1>2, <1>3, <1>4, VerifyOutcome

LEMMA ConfigReverses ==
  ASSUME TypeOK, NEW r \in Requests, Local(r), Reverses(r),
         \/ Start(r) \/ Unreachable(r) \/ ConfigFailed(r) \/ ConfigTaken(r)
         \/ RemarkFailed(r) \/ RemarkTaken(r) \/ RolledBack(r)
         \/ VerifyRemark(r) \/ VerifySync(r) \/ RestoreVerify(r)
  PROVE  Reverses(r)'
<1>1. Steady
  BY DEF Steady, Start, Unreachable, ConfigFailed, ConfigTaken, RemarkFailed, RemarkTaken,
         RolledBack, VerifyRemark, VerifySync, RestoreVerify, ghosts, ether
<1>2. CASE Start(r)
  BY <1>1, <1>2, MoveReverses DEF Start
<1>3. CASE Unreachable(r)
  BY <1>1, <1>3, AnswerReverses DEF Unreachable, Failed
<1>4. CASE ConfigFailed(r)
  <2>1. pc[r] = "config" /\ err[r]
    BY <1>4 DEF ConfigFailed, SetDone
  <2>2. CASE Kind(r) = "delete"
    BY <1>1, <1>4, <2>1, <2>2, AnswerReverses DEF ConfigFailed, Clean
  <2>3. CASE Kind(r) # "delete"
    BY <1>1, <1>4, <2>1, <2>3, RollbackReverses DEF ConfigFailed
  <2> QED BY <2>2, <2>3
<1>5. CASE ConfigTaken(r)
  <2>1. pc[r] = "config" /\ ~err[r] /\ todo[r] = <<>>
    BY <1>5 DEF ConfigTaken, SetDone
  <2>2. CASE Kind(r) = "delete"
    <3>1. acl \in Acl /\ Owed(r) \in Acl
      BY <2>2, OwedTyped DEF TypeOK
    <3>2. Undisturbed(r) /\ r \notin silent => acl = Owed(r)
      BY <2>1, <2>2, <3>1, NothingLeft DEF Reverses, Going, Clean
    <3> QED BY <1>1, <1>5, <2>1, <2>2, <3>2, AnswerReverses DEF ConfigTaken, Failed
  <2>3. CASE Kind(r) # "delete"
    BY <1>1, <1>5, <2>1, <2>3, MoveReverses DEF ConfigTaken
  <2> QED BY <2>2, <2>3
<1>6. CASE RemarkFailed(r)
  BY <1>1, <1>6, RollbackReverses DEF RemarkFailed, SetDone
<1>7. CASE RemarkTaken(r)
  BY <1>1, <1>7, MoveReverses DEF RemarkTaken, SetDone
<1>8. CASE RolledBack(r)
  <2>1. pc[r] = "rollback" /\ todo[r] = <<>>
    BY <1>8 DEF RolledBack, SetDone
  <2>2. CASE Kind(r) = "edit"
    BY <1>1, <1>8, <2>1, <2>2, MoveReverses DEF RolledBack
  <2>3. CASE Kind(r) # "edit"
    <3>1. reply[r] \notin {"success", "verified"}
      BY <2>1 DEF Local, Pending
    <3>2. acl \in Acl /\ Before(r) \in Acl
      BY BeforeTyped DEF TypeOK
    <3>3. Undisturbed(r) /\ Clean(r) => acl = Before(r)
      BY <2>1, <3>2, NothingLeft DEF Reverses, Rolling
    <3>4. Respond(r, reply[r], TRUE) /\ UNCHANGED <<todo, err>>
      BY <1>8, <2>3 DEF RolledBack
    <3> QED BY <1>1, <2>1, <3>1, <3>3, <3>4, AnswerReverses
  <2> QED BY <2>2, <2>3
<1>9. CASE VerifyRemark(r)
  <2>1. /\ pc[r] = "remarkVerify" /\ Kind(r) = "apply"
        /\ \/ Rollback(r, "rolledback")
           \/ Respond(r, "success", TRUE) /\ UNCHANGED <<todo, err>>
    BY <1>9 DEF VerifyRemark, Local, Phased
  <2>2. CASE Rollback(r, "rolledback")
    BY <1>1, <2>1, <2>2, RollbackReverses
  <2>3. CASE Respond(r, "success", TRUE) /\ UNCHANGED <<todo, err>>
    BY <1>1, <2>1, <2>3, AnswerReverses DEF Failed
  <2> QED BY <2>1, <2>2, <2>3
<1>10. CASE VerifySync(r)
  <2>1. /\ pc[r] = "verify" /\ Kind(r) = "sync" /\ UNCHANGED <<todo, err>>
        /\ \E what \in {"error", "verified", "success"}, audit \in BOOLEAN :
             Respond(r, what, audit)
    BY <1>10 DEF VerifySync
  <2>2. Undisturbed(r) /\ r \notin silent => acl = Owed(r)
    BY <2>1 DEF Reverses, Gone
  <2> QED BY <1>1, <2>1, <2>2, AnswerReverses DEF Failed
<1>11. CASE RestoreVerify(r)
  <2>1. /\ pc[r] = "restoreVerify" /\ UNCHANGED <<todo, err>>
        /\ \E what \in {"restored", "failed"} : Respond(r, what, TRUE)
    BY <1>11 DEF RestoreVerify
  <2>2. Undisturbed(r) /\ Clean(r) => acl = Before(r)
    BY <2>1 DEF Reverses, Restoring
  <2> QED BY <1>1, <2>1, <2>2, AnswerReverses
<1> QED BY <1>2, <1>3, <1>4, <1>5, <1>6, <1>7, <1>8, <1>9, <1>10, <1>11

-------------------------------------------------------------------------------
(* The inductive invariant and what follows *)

LEMMA InitUInv == Init => UInv
<1> SUFFICES ASSUME Init PROVE UInv
  OBVIOUS
<1>1. \A r \in Requests : pc[r] = "idle" /\ reply[r] = "none"
  BY DEF Init
<1>2. ASSUME NEW r \in Requests PROVE Reverses(r)
  BY <1>1 DEF Reverses, Waiting, Undoable, Wrote, Scoped, CoversRemark, Rolling, Restoring, Going,
              Gone, Verifies, Sending, Done
<1> QED BY <1>2, InitIInv DEF UInv

LEMMA StepUInv ==
  ASSUME UInv, [Next]_vars
  PROVE  UInv'
<1>1. IInv /\ IInv' /\ TypeOK /\ TypeOK' /\ Holding /\ Asked /\ \A r \in Requests : Local(r) /\ Reverses(r)
  BY StepIInv DEF UInv, IInv
<1>2. CASE UNCHANGED vars
  <2>1. \A r \in Requests : Alone(r) /\ Onward /\ Unheard(r)
    BY <1>2 DEF vars, Alone, Onward, Unheard
  <2>2. \A r \in Requests : Reverses(r)'
    BY <1>1, <2>1, OtherReverses
  <2> QED BY <1>1, <2>2 DEF UInv
<1>3. CASE \E r \in Requests : Handler(r)
  <2>1. PICK r \in Requests : Handler(r)
    BY <1>3
  <2>2. Onward /\ \A q \in Requests \ {r} : Alone(q) /\ Unheard(q)
    BY <1>1, <2>1, StepApart, StepUnheard
  <2>3. \A q \in Requests \ {r} : Reverses(q)'
    BY <1>1, <2>2, OtherReverses
  <2>4. Reverses(r)'
    BY <1>1, <2>1, ReadReverses, SendReverses, VerifyReverses, ConfigReverses DEF Handler
  <2> QED BY <1>1, <2>3, <2>4 DEF UInv
<1> QED BY <1>2, <1>3 DEF Next, Finished

\* UInv holds in every behaviour of the handlers.
THEOREM UndoInvariance == Spec => []UInv
BY InitUInv, StepUInv, PTL DEF Spec

\* "Everything is undoable": after a success the undo set, all obeyed, leads back
\* to the list the request read, but for the remarks it did not see.
THEOREM UndoLeadsBack == Spec => []UndoInverts
<1>1. UInv => UndoInverts
  <2> SUFFICES ASSUME UInv, NEW r \in Requests, Done(r), reply[r] \in Succeeded, Undisturbed(r)
               PROVE  Run(acl, undo[r]) = Before(r)
    BY DEF UndoInverts
  <2>1. acl \in Acl /\ Before(r) \in Acl /\ undo[r] \in Seq(Command)
    BY BeforeTyped DEF UInv, IInv, TypeOK
  <2>2. Reaches(acl, undo[r], Before(r))
    BY DEF UInv, Reverses, Undoable, Wrote, Done, Succeeded
  <2> QED BY <2>1, <2>2, RunReaches
<1> QED BY <1>1, UndoInvariance, PTL

\* A request that ends in failure leaves the list as it found it, but for the
\* remarks it did not see, when every line of its rollback was obeyed.
THEOREM RollbackRestores == Spec => []FailureRestores
<1>1. UInv => FailureRestores
  BY DEF UInv, Reverses, Restoring, Clean, FailureRestores
<1> QED BY <1>1, UndoInvariance, PTL

\* The rules after a sync are the source's, and so are the remarks when both
\* lists were read with theirs.
LEMMA SyncedIsSource ==
  ASSUME TypeOK, NEW r \in Requests
  PROVE  /\ RulesOf(Synced(r)) = RulesOf(job[r].source)
         /\ bare[r] = {} => Synced(r) = job[r].source
<1>1. seen[r] \in Acl /\ job[r].source \in Acl /\ Free \notin Rules
  BY RequestFields, ConstantsOK DEF TypeOK, Line
<1>2. ASSUME NEW s \in Seqs
      PROVE  Synced(r)[s] \in Rules \/ job[r].source[s] \in Rules
               => Synced(r)[s] = job[r].source[s]
  <2>1. /\ Wanted(r)[s] = job[r].source[s] \/ (job[r].source[s] \notin Rules /\ Wanted(r)[s] = Free)
        /\ Found(r)[s] = seen[r][s] \/ (seen[r][s] \notin Rules /\ Found(r)[s] = Free)
    BY DEF Wanted, Found, MapOf, RulesOf
  <2>2. Synced(r)[s] = IF Wanted(r)[s] = Free /\ Found(r)[s] = Free THEN seen[r][s]
                                                                     ELSE Wanted(r)[s]
    BY DEF Synced
  <2> QED BY <1>1, <2>1, <2>2
<1>3. RulesOf(Synced(r)) = RulesOf(job[r].source)
  BY <1>1, <1>2 DEF RulesOf
<1>4. ASSUME bare[r] = {} PROVE Synced(r) = job[r].source
  <2>1. Wanted(r) = job[r].source /\ Found(r) = seen[r]
    BY <1>4 DEF Wanted, Found, MapOf
  <2>2. \A s \in Seqs : Synced(r)[s] = job[r].source[s]
    BY <2>1 DEF Synced
  <2>3. Synced(r) = [s \in Seqs |-> Synced(r)[s]] /\ job[r].source = [s \in Seqs |-> job[r].source[s]]
    BY <1>1 DEF Synced, Acl
  <2> QED BY <2>2, <2>3
<1> QED BY <1>3, <1>4

\* rule-delete and a verified acl-sync did what was asked unless a refusal went
\* unnoticed.
THEOREM UnverifiedExact == Spec => []UnverifiedSuccessIsExact
<1>1. UInv => UnverifiedSuccessIsExact
  <2> SUFFICES ASSUME UInv, NEW r \in Requests, Done(r), Undisturbed(r), r \notin silent
               PROVE  /\ reply[r] = "success" /\ Kind(r) = "delete" => acl = Promised(r)
                      /\ reply[r] = "verified" =>
                           /\ RulesOf(acl) = RulesOf(job[r].source)
                           /\ bare[r] = {} => acl = job[r].source
    BY DEF UnverifiedSuccessIsExact
  <2>1. TypeOK /\ Gone(r) /\ Verifies(r)
    BY DEF UInv, IInv, Reverses
  <2>2. reply[r] = "success" /\ Kind(r) = "delete" => acl = Promised(r)
    BY <2>1 DEF Gone, Owed
  <2>3. reply[r] = "verified" => acl = Synced(r)
    BY <2>1 DEF Gone, Owed, Verifies
  <2> QED BY <2>1, <2>2, <2>3, SyncedIsSource
<1> QED BY <1>1, UndoInvariance, PTL
==============================================================================
