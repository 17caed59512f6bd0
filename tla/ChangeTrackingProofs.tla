------------------------- MODULE ChangeTrackingProofs -------------------------
(***************************************************************************)
(* The UNSAVED signal and the offered undos, for every number of requests  *)
(* and every loss and deletion of log entries. The signal compares entries *)
(* by their place in the log, so the proof follows where the entry of each *)
(* change stands against the newest save, and what the requests that have  *)
(* not logged yet will do to that.                                         *)
(***************************************************************************)
EXTENDS ChangeTracking, FiniteSetTheorems, SequenceTheorems, WellFoundedInduction, TLAPS

Entries == [kind : Kinds, of : Changes \cup {NoChange}, undoable : BOOLEAN]

Excused(reasons) == excuses \cap reasons # {}

SaveRuns     == \E s \in Saves : Running(s)
UndoRuns(c)  == \E u \in Undos : Running(u) /\ target[u] = c

\* A change that is in a configuration was sent; it is still in running-config while
\* it is not logged, because only changes that were logged are undone.
Begun ==
  /\ \A c \in running \cup startup : pc[c] # "idle"
  /\ \A c \in Changes : Running(c) => c \in running
  /\ \A u \in Undos : pc[u] \in {"sending", "sent"} =>
       target[u] \in Changes /\ pc[target[u]] = "done"
  /\ \A u \in Undos : Running(u) => target[u] \notin running

\* A change is in a configuration in part after its write failed, or an undo of it; an
\* undo is of a change that was logged.
TornIsFailed ==
  /\ \A c \in unsettled : pc[c] = "done"
  /\ \A c \in torn \cup tornSaved : pc[c] = "failed" \/ c \in unsettled

\* A change is logged once, when it is done.
LoggedOnce ==
  /\ \A i \in DOMAIN log : log[i].kind = "write" =>
       log[i].of \in Changes /\ pc[log[i].of] = "done"
  /\ \A i, k \in DOMAIN log :
       log[i].kind = "write" /\ log[k].kind = "write" /\ log[i].of = log[k].of => i = k

\* An entry gives up its commands for an undo of its change, and only then.
Offered(c) ==
  /\ c \in running /\ EntryOf(c) # 0 => UndoableOf(c) # 0
  /\ c \notin unsettled /\ UndoableOf(c) # 0 => c \in running \/ UndoRuns(c)

\* The configurations have different parts of a change only by a failed command.
TornIsExcused(c) ==
  (c \in torn) # (c \in tornSaved) => c \in unsettled \/ Excused({"lostWrite"})

-------------------------------------------------------------------------------
(* Changes that are in startup-config *)

\* The save that copied a change which is not logged yet knows of it.
KnownOpen(c) ==
  c \in startup /\ Running(c) /\ ~Excused({"lostSave"})
    => \E s \in Saves : pc[s] \in {"sent", "done"} /\ c \in open[s]

\* A change that was copied has its entry before the newest save, once its save is
\* logged; that save is in the log unless it was deleted.
EntryBeforeSave(c) ==
  c \in startup /\ ~Excused({"misordered", "lostSave"})
    => SaveRuns \/ EntryOf(c) = 0 \/ EntryOf(c) < LatestSave

\* So has one that an undo without an entry may have taken away before the copy.
UnsettledBeforeSave(c) ==
  c \in unsettled /\ ~Excused({"lostSave", "lostUndo"})
    => SaveRuns \/ EntryOf(c) = 0 \/ EntryOf(c) < LatestSave

SaveIsLogged(c) ==
  c \in startup /\ ~Excused({"pruned", "lostSave"}) => SaveRuns \/ LatestSave # 0

\* A change that was copied and is undone has an undo that was sent after every
\* copy, and that marks the switch once it is logged.
UndoneSince(c, u) ==
  /\ target[u] = c
  /\ \A s \in Saves : Running(s) => u \in since[s]
  /\ \/ Running(u)
     \/ pc[u] = "done" /\ (SaveRuns \/ IsNewer(LatestSavedUndo, LatestSave))

UndoneSavedMarks(c) ==
  /\ c \in (startup \ running) \ unsettled
  /\ ~Excused({"misordered", "pruned", "lostWrite", "lostSave"})
  => \E u \in Undos : UndoneSince(c, u)

-------------------------------------------------------------------------------
(* Changes that are not *)

\* A change that was not copied was sent after every copy.
SentSince(c) ==
  c \in running \ startup => \A s \in Saves : Running(s) => c \in since[s]

\* It is logged after the newest save.
EntryAfterSave(c) ==
  /\ c \in running /\ ~Excused({"misordered"})
  /\ EntryOf(c) # 0 /\ EntryOf(c) < LatestSave
  => c \in startup

\* It is logged, or will be.
NewIsLogged(c) ==
  c \in running \ startup /\ ~Excused({"pruned", "lostWrite"})
    => Running(c) \/ EntryOf(c) # 0

-------------------------------------------------------------------------------
(* Undos that are not logged *)

\* A save that copied while the undo was sent and not logged.
CopiedUnder(u) == \E s \in Saves : pc[s] \in {"sent", "done"} /\ u \in open[s]

UndoRunsToo(u) == \E x \in Undos \ {u} : Running(x) /\ target[x] = target[u]

\* Either every save still to be logged copied before the change was sent, or one
\* copied after the undo was sent, or the undo is not the only one.
UndoOfNew(u) ==
  /\ Running(u) /\ target[u] \notin unsettled /\ ~Excused({"lostSave"})
  /\ UndoableOf(target[u]) # 0 /\ target[u] \notin startup
  => \/ \A s \in Saves : Running(s) => target[u] \in since[s]
     \/ CopiedUnder(u)
     \/ UndoRunsToo(u)

\* An undo of a change with its entry before the newest save undoes a saved change.
UndoOfSaved(u) ==
  /\ Running(u) /\ target[u] \notin unsettled /\ ~Excused({"misordered", "lostSave"})
  /\ UndoableOf(target[u]) # 0 /\ UndoableOf(target[u]) < LatestSave
  => target[u] \in startup \/ CopiedUnder(u) \/ UndoRunsToo(u)

\* An undo will find that its change was undone already.
UndoesAgain == \E u \in Undos : Running(u) /\ UndoableOf(target[u]) = 0

\* The entry that says so, after the newest save, is right.
SavedUndoIsRight ==
  ~Excused({"misordered", "again", "lostSave", "lostUndo"})
    => \A i \in DOMAIN log :
         log[i].kind = "savedUndo" /\ i > LatestSave
           => log[i].of \in startup \ running \/ SaveRuns \/ UndoesAgain

IInv ==
  /\ TypeOK /\ Begun /\ TornIsFailed /\ LoggedOnce
  /\ \A c \in Changes : /\ Offered(c) /\ TornIsExcused(c)
                        /\ KnownOpen(c) /\ EntryBeforeSave(c) /\ UnsettledBeforeSave(c)
                        /\ SaveIsLogged(c)
                        /\ UndoneSavedMarks(c) /\ SentSince(c) /\ EntryAfterSave(c)
                        /\ NewIsLogged(c)
  /\ \A u \in Undos : UndoOfNew(u) /\ UndoOfSaved(u)
  /\ SavedUndoIsRight
-------------------------------------------------------------------------------
(* Reading the log *)

\* The newest of some positions of the log is one of them, and none is newer.
LEMMA NewestIsMax ==
  ASSUME NEW n \in Nat, NEW P \in SUBSET (1..n)
  PROVE  /\ P = {} => Newest(P) = 0
         /\ P # {} => Newest(P) \in P /\ \A p \in P : p <= Newest(P)
<1>1. SUFFICES ASSUME P # {} PROVE Max(P) \in P /\ \A p \in P : p <= Max(P)
  BY DEF Newest
<1> DEFINE T == {n - p : p \in P}
<1>2. T \subseteq Nat /\ T # {}
  <2>1. \A p \in P : n - p \in Nat
    OBVIOUS
  <2>2. PICK p \in P : TRUE
    BY <1>1
  <2>3. n - p \in T
    BY <2>2
  <2> QED
    BY <2>1, <2>3
<1>3. PICK x \in T : \A y \in T : ~(<<y, x>> \in OpToRel(<, Nat))
  BY <1>2, WFMin, NatLessThanWellFounded
<1>4. \A y \in T : ~(y < x)
  BY <1>2, <1>3 DEF OpToRel
<1>5. PICK p \in P : x = n - p
  BY <1>3
<1>6. \A q \in P : p >= q
  <2>1. ASSUME NEW q \in P PROVE p >= q
    <3>1. ~(n - q < x)
      BY <1>4
    <3> QED
      BY <1>5, <3>1
  <2> QED
    BY <2>1
<1>7. Max(P) \in P /\ \A q \in P : Max(P) >= q
  BY <1>6 DEF Max
<1> QED
  BY <1>7

\* The newest entry of a set of entries.
NewestOf(entries, E) == Newest({i \in DOMAIN entries : entries[i] \in E})

LEMMA NewestOfIsMax ==
  ASSUME NEW S, NEW s \in Seq(S), NEW E
  PROVE  /\ NewestOf(s, E) \in 0..Len(s)
         /\ NewestOf(s, E) # 0 => s[NewestOf(s, E)] \in E
         /\ \A i \in 1..Len(s) : s[i] \in E => i <= NewestOf(s, E)
<1> DEFINE P == {i \in DOMAIN s : s[i] \in E}
<1>1. Len(s) \in Nat /\ DOMAIN s = 1..Len(s)
  OBVIOUS
<1>2. P \in SUBSET (1..Len(s))
  BY <1>1
<1>3. /\ P = {} => Newest(P) = 0
      /\ P # {} => Newest(P) \in P /\ \A p \in P : p <= Newest(P)
  BY <1>1, <1>2, NewestIsMax
<1>4. NewestOf(s, E) = Newest(P)
  BY DEF NewestOf
<1> QED
  BY <1>1, <1>2, <1>3, <1>4

\* A position is the newest if it holds such an entry and no newer one does.
LEMMA NewestOfIs ==
  ASSUME NEW S, NEW s \in Seq(S), NEW E, NEW n \in 0..Len(s),
         n # 0 => s[n] \in E,
         \A i \in 1..Len(s) : s[i] \in E => i <= n
  PROVE  NewestOf(s, E) = n
<1>1. /\ NewestOf(s, E) \in 0..Len(s)
      /\ NewestOf(s, E) # 0 => s[NewestOf(s, E)] \in E
      /\ \A i \in 1..Len(s) : s[i] \in E => i <= NewestOf(s, E)
  BY NewestOfIsMax
<1>2. NewestOf(s, E) <= n
  BY <1>1
<1>3. n <= NewestOf(s, E)
  BY <1>1
<1> QED
  BY <1>1, <1>2, <1>3

\* An entry that is appended is the newest.
LEMMA NewestOfAppend ==
  ASSUME NEW S, NEW s \in Seq(S), NEW e \in S, NEW E
  PROVE  NewestOf(Append(s, e), E) = IF e \in E THEN Len(s) + 1 ELSE NewestOf(s, E)
<1>1. /\ Append(s, e) \in Seq(S) /\ Len(Append(s, e)) = Len(s) + 1 /\ Len(s) \in Nat
      /\ \A i \in 1..Len(s) : Append(s, e)[i] = s[i]
      /\ Append(s, e)[Len(s) + 1] = e
  BY AppendProperties
<1>2. CASE e \in E
  <2>1. Len(s) + 1 \in 0..Len(Append(s, e))
    BY <1>1
  <2>2. \A i \in 1..Len(Append(s, e)) : i <= Len(s) + 1
    BY <1>1
  <2>3. Append(s, e)[Len(s) + 1] \in E
    BY <1>1, <1>2
  <2>4. NewestOf(Append(s, e), E) = Len(s) + 1
    BY <1>1, <2>1, <2>2, <2>3, NewestOfIs
  <2> QED
    BY <1>2, <2>4
<1>3. CASE e \notin E
  <2> DEFINE n == NewestOf(s, E)
  <2>1. /\ n \in 0..Len(s) /\ (n # 0 => s[n] \in E)
        /\ \A i \in 1..Len(s) : s[i] \in E => i <= n
    BY NewestOfIsMax
  <2>2. n \in 0..Len(Append(s, e)) /\ (n # 0 => Append(s, e)[n] \in E)
    BY <1>1, <2>1
  <2>3. ASSUME NEW i \in 1..Len(Append(s, e)), Append(s, e)[i] \in E PROVE i <= n
    <3>1. i # Len(s) + 1
      BY <1>1, <1>3, <2>3
    <3>2. i \in 1..Len(s)
      BY <1>1, <3>1
    <3> QED
      BY <1>1, <2>1, <2>3, <3>2
  <2>4. NewestOf(Append(s, e), E) = n
    BY <1>1, <2>2, <2>3, NewestOfIs
  <2> QED
    BY <1>3, <2>4
<1> QED
  BY <1>2, <1>3

\* When the oldest entry is deleted the others move up.
LEMMA NewestOfTail ==
  ASSUME NEW S, NEW s \in Seq(S), s # <<>>, NEW E
  PROVE  NewestOf(Tail(s), E) = IF NewestOf(s, E) = 0 THEN 0 ELSE NewestOf(s, E) - 1
<1> DEFINE n == NewestOf(s, E)
<1> DEFINE m == IF n = 0 THEN 0 ELSE n - 1
<1>1. /\ Tail(s) \in Seq(S) /\ Len(Tail(s)) = Len(s) - 1 /\ Len(s) \in Nat /\ Len(s) # 0
      /\ \A i \in 1..Len(Tail(s)) : Tail(s)[i] = s[i + 1]
  BY HeadTailProperties, LenProperties, EmptySeq
<1>2. /\ n \in 0..Len(s) /\ (n # 0 => s[n] \in E)
      /\ \A i \in 1..Len(s) : s[i] \in E => i <= n
  BY NewestOfIsMax
<1>3. m \in 0..Len(Tail(s))
  BY <1>1, <1>2
<1>4. m # 0 => Tail(s)[m] \in E
  <2>1. SUFFICES ASSUME m # 0 PROVE Tail(s)[m] \in E
    OBVIOUS
  <2>2. n # 0 /\ m = n - 1 /\ m \in 1..Len(Tail(s)) /\ m + 1 = n
    BY <1>2, <1>3, <2>1
  <2> QED
    BY <1>1, <1>2, <2>2
<1>5. ASSUME NEW i \in 1..Len(Tail(s)), Tail(s)[i] \in E PROVE i <= m
  <2>1. i + 1 \in 1..Len(s) /\ s[i + 1] \in E
    BY <1>1, <1>5
  <2>2. i + 1 <= n
    BY <1>2, <2>1
  <2> QED
    BY <1>2, <2>2
<1> HIDE DEF m
<1>6. NewestOf(Tail(s), E) = m
  BY <1>1, <1>3, <1>4, <1>5, NewestOfIs
<1> QED
  BY <1>6 DEF m

\* Entries that stay what they are keep their places.
LEMMA NewestOfSame ==
  ASSUME NEW s, NEW t, DOMAIN t = DOMAIN s, NEW E,
         \A i \in DOMAIN s : t[i] \in E <=> s[i] \in E
  PROVE  NewestOf(t, E) = NewestOf(s, E)
<1>1. {i \in DOMAIN t : t[i] \in E} = {i \in DOMAIN s : s[i] \in E}
  OBVIOUS
<1> QED
  BY <1>1 DEF NewestOf

\* The kinds of entries the log is read for.
SavesIn        == {e \in Entries : e.kind = "save"}
SavedUndosIn   == {e \in Entries : e.kind = "savedUndo"}
UndoablesIn    == {e \in Entries : e.undoable}
WritesOf(c)    == {e \in Entries : e.kind = "write" /\ e.of = c}
UndoablesOf(c) == {e \in Entries : e.undoable /\ e.of = c}

LEMMA ReadsOfLog ==
  ASSUME NEW s \in Seq(Entries)
  PROVE  /\ Newest({i \in DOMAIN s : s[i].kind = "save"}) = NewestOf(s, SavesIn)
         /\ Newest({i \in DOMAIN s : s[i].kind = "savedUndo"}) = NewestOf(s, SavedUndosIn)
         /\ Newest({i \in DOMAIN s : s[i].undoable}) = NewestOf(s, UndoablesIn)
         /\ \A c : Newest({i \in DOMAIN s : s[i].kind = "write" /\ s[i].of = c})
                     = NewestOf(s, WritesOf(c))
         /\ \A c : Newest({i \in DOMAIN s : s[i].undoable /\ s[i].of = c})
                     = NewestOf(s, UndoablesOf(c))
<1>1. \A i \in DOMAIN s : s[i] \in Entries
  OBVIOUS
<1>2. {i \in DOMAIN s : s[i].kind = "save"} = {i \in DOMAIN s : s[i] \in SavesIn}
  BY <1>1 DEF SavesIn
<1>3. {i \in DOMAIN s : s[i].kind = "savedUndo"} = {i \in DOMAIN s : s[i] \in SavedUndosIn}
  BY <1>1 DEF SavedUndosIn
<1>4. {i \in DOMAIN s : s[i].undoable} = {i \in DOMAIN s : s[i] \in UndoablesIn}
  BY <1>1 DEF UndoablesIn
<1>5. \A c : {i \in DOMAIN s : s[i].kind = "write" /\ s[i].of = c}
               = {i \in DOMAIN s : s[i] \in WritesOf(c)}
  BY <1>1 DEF WritesOf
<1>6. \A c : {i \in DOMAIN s : s[i].undoable /\ s[i].of = c}
               = {i \in DOMAIN s : s[i] \in UndoablesOf(c)}
  BY <1>1 DEF UndoablesOf
<1> QED
  BY <1>2, <1>3, <1>4, <1>5, <1>6 DEF NewestOf

LEMMA ReadsAreNewest ==
  ASSUME log \in Seq(Entries)
  PROVE  /\ LatestSave = NewestOf(log, SavesIn)
         /\ LatestSavedUndo = NewestOf(log, SavedUndosIn)
         /\ LatestUndoable = NewestOf(log, UndoablesIn)
         /\ \A c : EntryOf(c) = NewestOf(log, WritesOf(c))
         /\ \A c : UndoableOf(c) = NewestOf(log, UndoablesOf(c))
  BY ReadsOfLog DEF LatestSave, LatestSavedUndo, LatestUndoable, EntryOf, UndoableOf

LEMMA NextReadsAreNewest ==
  ASSUME log' \in Seq(Entries)
  PROVE  /\ LatestSave' = NewestOf(log', SavesIn)
         /\ LatestSavedUndo' = NewestOf(log', SavedUndosIn)
         /\ \A c : EntryOf(c)' = NewestOf(log', WritesOf(c))
         /\ \A c : UndoableOf(c)' = NewestOf(log', UndoablesOf(c))
  BY ReadsOfLog DEF LatestSave, LatestSavedUndo, EntryOf, UndoableOf

\* What is read are places in the log, and they hold what is read for.
LEMMA ReadsArePlaces ==
  ASSUME log \in Seq(Entries)
  PROVE  /\ LatestSave \in 0..Len(log) /\ LatestSavedUndo \in 0..Len(log)
         /\ LatestUndoable \in 0..Len(log)
         /\ \A c : /\ EntryOf(c) \in 0..Len(log) /\ UndoableOf(c) \in 0..Len(log)
                   /\ EntryOf(c) # 0 => log[EntryOf(c)].kind = "write" /\ log[EntryOf(c)].of = c
                   /\ UndoableOf(c) # 0 =>
                        log[UndoableOf(c)].undoable /\ log[UndoableOf(c)].of = c
         /\ LatestSave # 0 => log[LatestSave].kind = "save"
         /\ LatestSavedUndo # 0 => log[LatestSavedUndo].kind = "savedUndo"
         /\ LatestUndoable # 0 => log[LatestUndoable].undoable
         /\ \A i \in 1..Len(log) :
              /\ log[i].kind = "write" => i <= EntryOf(log[i].of)
              /\ log[i].undoable => i <= UndoableOf(log[i].of) /\ i <= LatestUndoable
              /\ log[i].kind = "savedUndo" => i <= LatestSavedUndo
<1>1. \A E : /\ NewestOf(log, E) \in 0..Len(log)
             /\ NewestOf(log, E) # 0 => log[NewestOf(log, E)] \in E
             /\ \A i \in 1..Len(log) : log[i] \in E => i <= NewestOf(log, E)
  BY NewestOfIsMax
<1>2. \A i \in 1..Len(log) : log[i] \in Entries
  OBVIOUS
<1>3. LatestSave \in 0..Len(log) /\ (LatestSave # 0 => log[LatestSave].kind = "save")
  BY <1>1, ReadsAreNewest DEF SavesIn
<1>4. /\ LatestSavedUndo \in 0..Len(log)
      /\ LatestSavedUndo # 0 => log[LatestSavedUndo].kind = "savedUndo"
      /\ \A i \in 1..Len(log) : log[i].kind = "savedUndo" => i <= LatestSavedUndo
  BY <1>1, <1>2, ReadsAreNewest DEF SavedUndosIn
<1>5. /\ LatestUndoable \in 0..Len(log)
      /\ LatestUndoable # 0 => log[LatestUndoable].undoable
      /\ \A i \in 1..Len(log) : log[i].undoable => i <= LatestUndoable
  BY <1>1, <1>2, ReadsAreNewest DEF UndoablesIn
<1>6. ASSUME NEW c
      PROVE  /\ EntryOf(c) \in 0..Len(log)
             /\ EntryOf(c) # 0 => log[EntryOf(c)].kind = "write" /\ log[EntryOf(c)].of = c
             /\ \A i \in 1..Len(log) : log[i].kind = "write" /\ log[i].of = c => i <= EntryOf(c)
  <2>1. EntryOf(c) = NewestOf(log, WritesOf(c))
    BY ReadsAreNewest
  <2>2. \A i \in 1..Len(log) :
          log[i] \in WritesOf(c) <=> log[i].kind = "write" /\ log[i].of = c
    BY <1>2 DEF WritesOf
  <2> QED
    BY <1>1, <2>1, <2>2
<1>7. ASSUME NEW c
      PROVE  /\ UndoableOf(c) \in 0..Len(log)
             /\ UndoableOf(c) # 0 => log[UndoableOf(c)].undoable /\ log[UndoableOf(c)].of = c
             /\ \A i \in 1..Len(log) : log[i].undoable /\ log[i].of = c => i <= UndoableOf(c)
  <2>1. UndoableOf(c) = NewestOf(log, UndoablesOf(c))
    BY ReadsAreNewest
  <2>2. \A i \in 1..Len(log) :
          log[i] \in UndoablesOf(c) <=> log[i].undoable /\ log[i].of = c
    BY <1>2 DEF UndoablesOf
  <2> QED
    BY <1>1, <2>1, <2>2
<1> QED
  BY <1>3, <1>4, <1>5, <1>6, <1>7

\* The reads after an entry is appended.
LEMMA ReadsAfterAppend ==
  ASSUME log \in Seq(Entries), NEW e \in Entries, log' = Append(log, e)
  PROVE  /\ LatestSave' = IF e.kind = "save" THEN Len(log) + 1 ELSE LatestSave
         /\ LatestSavedUndo' = IF e.kind = "savedUndo" THEN Len(log) + 1 ELSE LatestSavedUndo
         /\ \A c : EntryOf(c)' = IF e.kind = "write" /\ e.of = c THEN Len(log) + 1 ELSE EntryOf(c)
         /\ \A c : UndoableOf(c)' = IF e.undoable /\ e.of = c THEN Len(log) + 1 ELSE UndoableOf(c)
<1>1. log' \in Seq(Entries)
  BY AppendProperties
<1>2. \A E : NewestOf(log', E) = IF e \in E THEN Len(log) + 1 ELSE NewestOf(log, E)
  BY NewestOfAppend
<1>3. LatestSave' = IF e.kind = "save" THEN Len(log) + 1 ELSE LatestSave
  BY <1>1, <1>2, ReadsAreNewest, NextReadsAreNewest DEF SavesIn
<1>4. LatestSavedUndo' = IF e.kind = "savedUndo" THEN Len(log) + 1 ELSE LatestSavedUndo
  BY <1>1, <1>2, ReadsAreNewest, NextReadsAreNewest DEF SavedUndosIn
<1>5. ASSUME NEW c
      PROVE  EntryOf(c)' = IF e.kind = "write" /\ e.of = c THEN Len(log) + 1 ELSE EntryOf(c)
  <2>1. EntryOf(c) = NewestOf(log, WritesOf(c)) /\ EntryOf(c)' = NewestOf(log', WritesOf(c))
    BY <1>1, ReadsAreNewest, NextReadsAreNewest
  <2>2. e \in WritesOf(c) <=> e.kind = "write" /\ e.of = c
    BY DEF WritesOf
  <2> QED
    BY <1>2, <2>1, <2>2
<1>6. ASSUME NEW c
      PROVE  UndoableOf(c)' = IF e.undoable /\ e.of = c THEN Len(log) + 1 ELSE UndoableOf(c)
  <2>1. /\ UndoableOf(c) = NewestOf(log, UndoablesOf(c))
        /\ UndoableOf(c)' = NewestOf(log', UndoablesOf(c))
    BY <1>1, ReadsAreNewest, NextReadsAreNewest
  <2>2. e \in UndoablesOf(c) <=> e.undoable /\ e.of = c
    BY DEF UndoablesOf
  <2> QED
    BY <1>2, <2>1, <2>2
<1> QED
  BY <1>3, <1>4, <1>5, <1>6

\* The reads after the oldest entry was deleted.
Down(i) == IF i = 0 THEN 0 ELSE i - 1

LEMMA ReadsAfterTail ==
  ASSUME log \in Seq(Entries), log # <<>>, log' = Tail(log)
  PROVE  /\ LatestSave' = Down(LatestSave) /\ LatestSavedUndo' = Down(LatestSavedUndo)
         /\ \A c : EntryOf(c)' = Down(EntryOf(c)) /\ UndoableOf(c)' = Down(UndoableOf(c))
<1>1. log' \in Seq(Entries)
  BY HeadTailProperties
<1>2. \A E : NewestOf(log', E) = Down(NewestOf(log, E))
  BY NewestOfTail DEF Down
<1>3. ASSUME NEW c
      PROVE  EntryOf(c)' = Down(EntryOf(c)) /\ UndoableOf(c)' = Down(UndoableOf(c))
  <2>1. EntryOf(c) = NewestOf(log, WritesOf(c)) /\ EntryOf(c)' = NewestOf(log', WritesOf(c))
    BY <1>1, ReadsAreNewest, NextReadsAreNewest
  <2>2. /\ UndoableOf(c) = NewestOf(log, UndoablesOf(c))
        /\ UndoableOf(c)' = NewestOf(log', UndoablesOf(c))
    BY <1>1, ReadsAreNewest, NextReadsAreNewest
  <2> QED
    BY <1>2, <2>1, <2>2
<1> QED
  BY <1>1, <1>2, <1>3, ReadsAreNewest, NextReadsAreNewest

\* An entry that gives up its commands stays where it is.
LEMMA ConsumeKeeps ==
  ASSUME NEW s \in Seq(Entries), NEW i
  PROVE  /\ Consume(s, i) \in Seq(Entries) /\ Len(Consume(s, i)) = Len(s)
         /\ DOMAIN Consume(s, i) = DOMAIN s
         /\ \A k \in DOMAIN s :
              /\ Consume(s, i)[k].kind = s[k].kind /\ Consume(s, i)[k].of = s[k].of
              /\ Consume(s, i)[k].undoable <=> s[k].undoable /\ k # i
<1>1. DOMAIN s = 1..Len(s) /\ Len(s) \in Nat /\ \A k \in DOMAIN s : s[k] \in Entries
  OBVIOUS
<1>2. DOMAIN Consume(s, i) = DOMAIN s
  BY DEF Consume
<1>3. ASSUME NEW k \in DOMAIN s
      PROVE  /\ Consume(s, i)[k] \in Entries
             /\ Consume(s, i)[k].kind = s[k].kind /\ Consume(s, i)[k].of = s[k].of
             /\ Consume(s, i)[k].undoable <=> s[k].undoable /\ k # i
  <2>1. s[k] \in Entries
    BY <1>1
  <2>2. CASE k = i
    <3>1. Consume(s, i)[k] = [s[k] EXCEPT !.undoable = FALSE]
      BY <2>2 DEF Consume
    <3> QED
      BY <2>1, <2>2, <3>1 DEF Entries
  <2>3. CASE k # i
    <3>1. Consume(s, i)[k] = s[k]
      BY <2>3 DEF Consume
    <3> QED
      BY <2>1, <2>3, <3>1
  <2> QED
    BY <2>2, <2>3
<1>4. Consume(s, i) \in [1..Len(s) -> Entries]
  <2>1. Consume(s, i) = [k \in DOMAIN s |-> Consume(s, i)[k]]
    BY DEF Consume
  <2> QED
    BY <1>1, <1>3, <2>1
<1>5. Consume(s, i) \in Seq(Entries) /\ Len(Consume(s, i)) = Len(s)
  BY <1>1, <1>2, <1>4, SeqDef, LenProperties
<1> QED
  BY <1>2, <1>3, <1>5

\* The reads once the entry of an undone change gave up its commands.
LEMMA ReadsAfterConsume ==
  ASSUME log \in Seq(Entries), NEW c, NEW s, s = Consume(log, UndoableOf(c)),
         \A i, k \in DOMAIN log :
           log[i].undoable /\ log[k].undoable /\ log[i].of = log[k].of => i = k
  PROVE  /\ NewestOf(s, SavesIn) = LatestSave /\ NewestOf(s, SavedUndosIn) = LatestSavedUndo
         /\ \A d : NewestOf(s, WritesOf(d)) = EntryOf(d)
         /\ \A d : NewestOf(s, UndoablesOf(d)) = IF d = c THEN 0 ELSE UndoableOf(d)
<1>1. /\ s \in Seq(Entries) /\ Len(s) = Len(log) /\ DOMAIN s = DOMAIN log
      /\ \A k \in DOMAIN log : /\ s[k].kind = log[k].kind /\ s[k].of = log[k].of
                               /\ s[k].undoable <=> log[k].undoable /\ k # UndoableOf(c)
  BY ConsumeKeeps
<1>2. \A k \in DOMAIN log : s[k] \in Entries /\ log[k] \in Entries
  BY <1>1
<1>3. NewestOf(s, SavesIn) = LatestSave /\ NewestOf(s, SavedUndosIn) = LatestSavedUndo
  BY <1>1, <1>2, ReadsAreNewest, NewestOfSame DEF SavesIn, SavedUndosIn
<1>4. ASSUME NEW d PROVE NewestOf(s, WritesOf(d)) = EntryOf(d)
  <2>1. \A k \in DOMAIN log : s[k] \in WritesOf(d) <=> log[k] \in WritesOf(d)
    BY <1>1, <1>2 DEF WritesOf
  <2> QED
    BY <1>1, <2>1, ReadsAreNewest, NewestOfSame
<1>5. ASSUME NEW d, d # c PROVE NewestOf(s, UndoablesOf(d)) = UndoableOf(d)
  <2>1. UndoableOf(c) # 0 => log[UndoableOf(c)].of = c /\ UndoableOf(c) \in DOMAIN log
    BY ReadsArePlaces
  <2>2. \A k \in DOMAIN log : s[k] \in UndoablesOf(d) <=> log[k] \in UndoablesOf(d)
    BY <1>1, <1>2, <1>5, <2>1 DEF UndoablesOf
  <2> QED
    BY <1>1, <2>2, ReadsAreNewest, NewestOfSame
<1>6. NewestOf(s, UndoablesOf(c)) = 0
  <2>1. SUFFICES ASSUME NEW k \in DOMAIN log, s[k] \in UndoablesOf(c) PROVE FALSE
    BY <1>1, NewestOfIsMax
  <2>2. s[k].undoable /\ s[k].of = c
    BY <2>1 DEF UndoablesOf
  <2>3. log[k].undoable /\ log[k].of = c /\ k # UndoableOf(c) /\ k \in 1..Len(log)
    BY <1>1, <2>2
  <2>4. k <= UndoableOf(c) /\ UndoableOf(c) # 0
    BY <2>3, ReadsArePlaces
  <2>5. log[UndoableOf(c)].undoable /\ log[UndoableOf(c)].of = c /\ UndoableOf(c) \in DOMAIN log
    BY <2>4, ReadsArePlaces
  <2> QED
    BY <2>3, <2>5
<1> QED
  BY <1>3, <1>4, <1>5, <1>6

-------------------------------------------------------------------------------
(* Facts of every state *)

LEMMA TypeFacts ==
  ASSUME ConstantsOK, TypeOK
  PROVE  /\ log \in Seq(Entries) /\ Len(log) \in Nat
         /\ Changes \subseteq Requests /\ Saves \subseteq Requests /\ Undos \subseteq Requests
<1>1. log \in Seq(Entries)
  BY DEF TypeOK, Entries
<1> QED
  BY <1>1, LenProperties DEF Requests

LEMMA ReadsAreNat ==
  ASSUME ConstantsOK, TypeOK
  PROVE  /\ LatestSave \in Nat /\ LatestSavedUndo \in Nat
         /\ \A c : EntryOf(c) \in Nat /\ UndoableOf(c) \in Nat
<1>1. /\ log \in Seq(Entries) /\ Len(log) \in Nat
  BY TypeFacts
<1> QED
  BY <1>1, ReadsArePlaces

\* The entry with the commands of a change is its entry.
LEMMA OneEntry ==
  ASSUME ConstantsOK, TypeOK, LoggedOnce, NEW c \in Changes
  PROVE  /\ UndoableOf(c) # 0 => EntryOf(c) = UndoableOf(c)
         /\ EntryOf(c) # 0 => pc[c] = "done"
         /\ \A i, k \in DOMAIN log :
              log[i].undoable /\ log[k].undoable /\ log[i].of = log[k].of => i = k
<1>1. log \in Seq(Entries) /\ DOMAIN log = 1..Len(log) /\ Len(log) \in Nat
  BY TypeFacts
<1>2. \A i \in DOMAIN log : log[i].undoable => log[i].kind = "write"
  BY DEF TypeOK
<1>3. UndoableOf(c) # 0 => /\ UndoableOf(c) \in 1..Len(log)
                           /\ log[UndoableOf(c)].undoable /\ log[UndoableOf(c)].of = c
  BY <1>1, ReadsArePlaces
<1>4. EntryOf(c) # 0 => /\ EntryOf(c) \in 1..Len(log)
                        /\ log[EntryOf(c)].kind = "write" /\ log[EntryOf(c)].of = c
  BY <1>1, ReadsArePlaces
<1>5. UndoableOf(c) # 0 => EntryOf(c) # 0
  <2>1. UndoableOf(c) # 0 => UndoableOf(c) <= EntryOf(c)
    BY <1>1, <1>2, <1>3, ReadsArePlaces
  <2> QED
    BY <1>3, <2>1
<1> QED
  BY <1>1, <1>2, <1>3, <1>4, <1>5 DEF LoggedOnce

\* A change that was not logged has no entry.
LEMMA NoEntry ==
  ASSUME ConstantsOK, TypeOK, LoggedOnce, NEW c \in Changes, pc[c] # "done"
  PROVE  EntryOf(c) = 0 /\ UndoableOf(c) = 0
  BY OneEntry

LEMMA ReadsKept ==
  ASSUME log' = log
  PROVE  /\ LatestSave' = LatestSave /\ LatestSavedUndo' = LatestSavedUndo
         /\ \A c : EntryOf(c)' = EntryOf(c) /\ UndoableOf(c)' = UndoableOf(c)
  BY DEF LatestSave, LatestSavedUndo, EntryOf, UndoableOf

\* What is torn stays as it is, and stays excused.
LEMMA TornKept ==
  ASSUME TypeOK, TornIsFailed, \A c \in Changes : TornIsExcused(c),
         UNCHANGED <<torn, tornSaved>>, unsettled \subseteq unsettled',
         \A c \in unsettled' \ unsettled : c \in Changes /\ pc[c] = "done",
         \A c \in Changes : pc[c] \in {"done", "failed"} => pc'[c] = pc[c],
         "lostWrite" \in excuses => "lostWrite" \in excuses'
  PROVE  TornIsFailed' /\ \A c \in Changes : TornIsExcused(c)'
<1>1. torn \cup tornSaved \cup unsettled \subseteq Changes
  BY DEF TypeOK
<1>2. TornIsFailed'
  BY <1>1 DEF TornIsFailed
<1>3. \A c \in Changes : TornIsExcused(c)'
  BY DEF TornIsExcused, Excused
<1> QED
  BY <1>2, <1>3

-------------------------------------------------------------------------------
(* Writes *)

LEMMA WriteSentKeeps ==
  ASSUME ConstantsOK, IInv, NEW c \in Changes, WriteSent(c)
  PROVE  IInv'
<1> USE DEF Excused
<1>1. TypeOK /\ Begun /\ TornIsFailed /\ LoggedOnce /\ TypeOK'
  <2>1. TypeOK
    BY DEF IInv
  <2>2. pc' \in [Requests -> Phases] /\ since' \in [Saves -> SUBSET Requests]
    BY <2>1 DEF WriteSent, Sent, SentNow, TypeOK, Phases, Requests
  <2> QED
    BY <2>1, <2>2 DEF IInv, WriteSent, Sent, TypeOK, SentNow
<1>2. /\ pc[c] = "idle" /\ c \notin running /\ c \notin startup
      /\ \A r \in Requests : pc'[r] = IF r = c THEN "sent" ELSE pc[r]
      /\ \A s \in Saves : since[s] \subseteq since'[s] /\ (Running(s) => c \in since'[s])
      /\ running' = running \cup {c} /\ startup' = startup /\ log' = log /\ target' = target
      /\ open' = open /\ excuses' = excuses
      /\ UNCHANGED <<torn, tornSaved, unsettled>>
  BY <1>1 DEF WriteSent, Sent, SentNow, TypeOK, Begun
<1>3. /\ EntryOf(c) = 0 /\ UndoableOf(c) = 0
      /\ LatestSave' = LatestSave /\ LatestSavedUndo' = LatestSavedUndo
      /\ \A d : EntryOf(d)' = EntryOf(d) /\ UndoableOf(d)' = UndoableOf(d)
  BY <1>1, <1>2, NoEntry, ReadsKept
<1>4. /\ \A r \in Saves \cup Undos : pc'[r] = pc[r] /\ Running(r)' = Running(r)
      /\ \A d \in Changes \ {c} : pc'[d] = pc[d] /\ Running(d)' = Running(d)
      /\ Running(c)'
  BY <1>2 DEF Running, ConstantsOK, Requests
<1>5. /\ SaveRuns' = SaveRuns /\ UndoesAgain' = UndoesAgain
      /\ \A d : UndoRuns(d)' = UndoRuns(d)
      /\ \A u \in Undos : CopiedUnder(u)' = CopiedUnder(u) /\ UndoRunsToo(u)' = UndoRunsToo(u)
  BY <1>2, <1>3, <1>4 DEF SaveRuns, UndoesAgain, UndoRuns, CopiedUnder, UndoRunsToo
<1>12. TornIsFailed' /\ \A d \in Changes : TornIsExcused(d)'
  BY <1>1, <1>2, <1>4, TornKept DEF IInv
<1>6. Begun'
  <2>1. \A u \in Undos : pc[u] \in {"sending", "sent"} => target[u] # c
    BY <1>1, <1>2 DEF Begun
  <2>2. \A d \in running' \cup startup' : pc'[d] # "idle"
    <3>1. ASSUME NEW d \in running' \cup startup' PROVE pc'[d] # "idle"
      <4>1. d \in Requests /\ (d # c => pc[d] # "idle")
        BY <1>1, <1>2 DEF Begun, TypeOK, Requests
      <4> QED
        BY <1>2, <4>1
    <3> QED
      BY <3>1
  <2>3. ASSUME NEW u \in Undos, pc'[u] \in {"sending", "sent"}
        PROVE  /\ target'[u] \in Changes /\ pc'[target'[u]] = "done"
               /\ Running(u)' => target'[u] \notin running'
    <3>1. pc[u] = pc'[u] /\ target'[u] = target[u] /\ target[u] # c
      BY <1>2, <1>4, <2>1, <2>3
    <3>2. /\ target[u] \in Changes /\ pc[target[u]] = "done"
          /\ Running(u) => target[u] \notin running
      BY <1>1, <2>3, <3>1 DEF Begun
    <3> QED
      BY <1>2, <1>4, <2>3, <3>1, <3>2
  <2>4. \A d \in Changes : Running(d)' => d \in running'
    BY <1>1, <1>2, <1>4 DEF Begun
  <2> QED
    BY <2>2, <2>3, <2>4 DEF Begun, Running
<1>7. LoggedOnce'
  BY <1>1, <1>2, <1>4 DEF LoggedOnce
<1>8. ASSUME NEW d \in Changes
      PROVE  (/\ Offered(d) /\ KnownOpen(d) /\ EntryBeforeSave(d) /\ UnsettledBeforeSave(d)
              /\ SaveIsLogged(d)
              /\ SentSince(d) /\ EntryAfterSave(d) /\ NewIsLogged(d))'
  <2>1. /\ Offered(d) /\ KnownOpen(d) /\ EntryBeforeSave(d) /\ UnsettledBeforeSave(d)
        /\ SaveIsLogged(d)
        /\ SentSince(d) /\ EntryAfterSave(d) /\ NewIsLogged(d)
    BY DEF IInv
  <2>2. Offered(d)'
    BY <1>2, <1>3, <1>5, <2>1 DEF Offered
  <2>3. KnownOpen(d)'
    BY <1>2, <1>4, <2>1 DEF KnownOpen
  <2>4. EntryBeforeSave(d)' /\ UnsettledBeforeSave(d)' /\ SaveIsLogged(d)'
    BY <1>2, <1>3, <1>5, <2>1 DEF EntryBeforeSave, UnsettledBeforeSave, SaveIsLogged
  <2>5. SentSince(d)'
    BY <1>2, <1>4, <2>1 DEF SentSince
  <2>6. EntryAfterSave(d)'
    BY <1>2, <1>3, <2>1 DEF EntryAfterSave
  <2>7. NewIsLogged(d)'
    BY <1>2, <1>3, <1>4, <2>1 DEF NewIsLogged
  <2> QED
    BY <2>2, <2>3, <2>4, <2>5, <2>6, <2>7
<1>9. ASSUME NEW d \in Changes PROVE UndoneSavedMarks(d)'
  <2>1. SUFFICES ASSUME d \in (startup \ running) \ unsettled,
                        ~Excused({"misordered", "pruned", "lostWrite", "lostSave"})
                 PROVE  \E u \in Undos : UndoneSince(d, u)'
    BY <1>2 DEF UndoneSavedMarks
  <2>2. PICK u \in Undos : UndoneSince(d, u)
    BY <2>1 DEF IInv, UndoneSavedMarks
  <2>3. UndoneSince(d, u)'
    BY <1>2, <1>3, <1>4, <1>5, <2>2 DEF UndoneSince, IsNewer
  <2> QED
    BY <2>3
<1>10. ASSUME NEW u \in Undos PROVE UndoOfNew(u)' /\ UndoOfSaved(u)'
  <2>1. UndoOfNew(u) /\ UndoOfSaved(u)
    BY DEF IInv
  <2>2. UndoOfNew(u)'
    BY <1>2, <1>3, <1>4, <1>5, <2>1 DEF UndoOfNew
  <2>3. UndoOfSaved(u)'
    BY <1>2, <1>3, <1>4, <1>5, <2>1 DEF UndoOfSaved
  <2> QED
    BY <2>2, <2>3
<1>11. SavedUndoIsRight'
  BY <1>2, <1>3, <1>5 DEF IInv, SavedUndoIsRight
<1> QED
  BY <1>12, <1>1, <1>6, <1>7, <1>8, <1>9, <1>10, <1>11 DEF IInv

\* A write that fails logs nothing; what it leaves in running-config that startup-config
\* does not have is an excuse.
LEMMA WriteFailedKeeps ==
  ASSUME ConstantsOK, IInv, NEW c \in Changes, WriteFailed(c)
  PROVE  IInv'
<1> USE DEF Excused
<1>1. /\ TypeOK /\ Begun /\ TornIsFailed /\ LoggedOnce
      /\ Changes \subseteq Requests /\ Saves \subseteq Requests /\ Undos \subseteq Requests
  BY DEF IInv, Requests
<1>2. /\ pc[c] \in {"idle", "sent"} /\ c \notin Saves /\ c \notin Undos
      /\ c \notin torn /\ c \notin tornSaved /\ c \notin unsettled
      /\ pc[c] = "idle" => c \notin running /\ c \notin startup
      /\ pc[c] = "sent" => c \in running
      /\ \A r \in Requests : pc'[r] = IF r = c THEN "failed" ELSE pc[r]
      /\ \A s \in Saves : open'[s] = open[s] \ {c} /\ since[s] \subseteq since'[s]
      /\ \A s \in Saves : Running(s) => c \in since'[s]
      /\ UNCHANGED <<startup, tornSaved, log, way, target, unsettled>>
  BY <1>1 DEF WriteFailed, SentNow, TypeOK, Begun, TornIsFailed, Running, ConstantsOK
<1>3. /\ \A d \in Changes \ {c} : /\ d \in running' <=> d \in running
                                  /\ d \in torn' <=> d \in torn
      /\ running' \subseteq Changes /\ torn' \subseteq Changes
      /\ excuses \subseteq excuses' /\ excuses' \subseteq excuses \cup {"lostWrite"}
      /\ "lostWrite" \notin excuses' =>
           c \notin torn' /\ (c \in running' <=> c \in startup)
  BY <1>1 DEF WriteFailed, TypeOK
<1>4. /\ EntryOf(c) = 0 /\ UndoableOf(c) = 0
      /\ LatestSave' = LatestSave /\ LatestSavedUndo' = LatestSavedUndo
      /\ \A d : EntryOf(d)' = EntryOf(d) /\ UndoableOf(d)' = UndoableOf(d)
  BY <1>1, <1>2, NoEntry, ReadsKept
<1>5. TypeOK'
  <2>1. /\ pc' \in [Requests -> Phases] /\ open' \in [Saves -> SUBSET Requests]
        /\ since' \in [Saves -> SUBSET Requests]
    BY <1>1 DEF WriteFailed, SentNow, TypeOK, Phases
  <2>2. excuses' \subseteq Excuses
    BY <1>1, <1>3 DEF TypeOK, Excuses
  <2> QED
    BY <1>1, <1>3, <2>1, <2>2 DEF WriteFailed, TypeOK
<1>6. /\ \A r \in Saves \cup Undos : pc'[r] = pc[r] /\ Running(r)' = Running(r)
      /\ \A d \in Changes \ {c} : pc'[d] = pc[d] /\ Running(d)' = Running(d)
      /\ ~Running(c)' /\ pc'[c] = "failed"
  BY <1>1, <1>2 DEF Running
<1>7. /\ SaveRuns' = SaveRuns /\ UndoesAgain' = UndoesAgain
      /\ \A d : UndoRuns(d)' = UndoRuns(d)
      /\ \A u \in Undos : CopiedUnder(u)' = CopiedUnder(u) /\ UndoRunsToo(u)' = UndoRunsToo(u)
  BY <1>2, <1>4, <1>6 DEF SaveRuns, UndoesAgain, UndoRuns, CopiedUnder, UndoRunsToo
<1>8. \A u \in Undos : pc[u] \in {"sending", "sent"} => target[u] # c
  BY <1>1, <1>2 DEF Begun
<1>9. Begun'
  <2>1. ASSUME NEW d \in running' \cup startup' PROVE pc'[d] # "idle"
    <3>1. d \in Changes
      BY <1>1, <1>2, <1>3, <2>1 DEF TypeOK
    <3>2. d # c => d \in running \cup startup
      BY <1>2, <1>3, <2>1, <3>1
    <3> QED
      BY <1>1, <1>6, <3>1, <3>2 DEF Begun
  <2>2. \A d \in Changes : Running(d)' => d \in running'
    BY <1>1, <1>3, <1>6 DEF Begun
  <2>3. ASSUME NEW u \in Undos, pc'[u] \in {"sending", "sent"}
        PROVE  /\ target'[u] \in Changes /\ pc'[target'[u]] = "done"
               /\ Running(u)' => target'[u] \notin running'
    <3>1. pc[u] = pc'[u] /\ target'[u] = target[u] /\ target[u] # c
      BY <1>2, <1>6, <1>8, <2>3
    <3>2. /\ target[u] \in Changes /\ pc[target[u]] = "done"
          /\ Running(u) => target[u] \notin running
      BY <1>1, <2>3, <3>1 DEF Begun
    <3> QED
      BY <1>3, <1>6, <2>3, <3>1, <3>2
  <2> QED
    BY <2>1, <2>2, <2>3 DEF Begun, Running
<1>10. TornIsFailed' /\ \A d \in Changes : TornIsExcused(d)'
  <2>1. torn \cup torn' \cup tornSaved \cup unsettled \subseteq Changes
    BY <1>1, <1>3 DEF TypeOK
  <2>2. TornIsFailed'
    BY <1>1, <1>2, <1>3, <1>6, <2>1 DEF TornIsFailed
  <2>3. \A d \in Changes : TornIsExcused(d)'
    BY <1>2, <1>3 DEF IInv, TornIsExcused
  <2> QED
    BY <2>2, <2>3
<1>11. LoggedOnce'
  BY <1>1, <1>2, <1>6 DEF LoggedOnce
<1>12. ASSUME NEW d \in Changes
       PROVE  (/\ Offered(d) /\ KnownOpen(d) /\ EntryBeforeSave(d) /\ UnsettledBeforeSave(d)
               /\ SaveIsLogged(d) /\ SentSince(d) /\ EntryAfterSave(d) /\ NewIsLogged(d))'
  <2>1. /\ Offered(d) /\ KnownOpen(d) /\ EntryBeforeSave(d) /\ UnsettledBeforeSave(d)
        /\ SaveIsLogged(d) /\ SentSince(d) /\ EntryAfterSave(d) /\ NewIsLogged(d)
    BY DEF IInv
  <2>2. Offered(d)'
    BY <1>2, <1>3, <1>4, <1>7, <2>1 DEF Offered
  <2>3. KnownOpen(d)'
    BY <1>2, <1>3, <1>6, <2>1 DEF KnownOpen
  <2>4. EntryBeforeSave(d)' /\ UnsettledBeforeSave(d)' /\ SaveIsLogged(d)'
    BY <1>2, <1>3, <1>4, <1>7, <2>1 DEF EntryBeforeSave, UnsettledBeforeSave, SaveIsLogged
  <2>5. SentSince(d)'
    BY <1>2, <1>3, <1>6, <2>1 DEF SentSince
  <2>6. EntryAfterSave(d)' /\ NewIsLogged(d)'
    BY <1>2, <1>3, <1>4, <1>6, <2>1 DEF EntryAfterSave, NewIsLogged
  <2> QED
    BY <2>2, <2>3, <2>4, <2>5, <2>6
<1>13. ASSUME NEW d \in Changes PROVE UndoneSavedMarks(d)'
  <2>1. SUFFICES ASSUME d \in (startup \ running') \ unsettled,
                        ~Excused({"misordered", "pruned", "lostWrite", "lostSave"})'
                 PROVE  \E u \in Undos : UndoneSince(d, u)'
    BY <1>2 DEF UndoneSavedMarks
  <2>2. d # c /\ d \in (startup \ running) \ unsettled
    BY <1>3, <2>1
  <2>3. PICK u \in Undos : UndoneSince(d, u)
    BY <1>3, <2>1, <2>2 DEF IInv, UndoneSavedMarks
  <2>4. UndoneSince(d, u)'
    BY <1>2, <1>4, <1>6, <1>7, <2>3 DEF UndoneSince, IsNewer
  <2> QED
    BY <2>4
<1>14. ASSUME NEW u \in Undos PROVE UndoOfNew(u)' /\ UndoOfSaved(u)'
  <2>1. UndoOfNew(u) /\ UndoOfSaved(u)
    BY DEF IInv
  <2>2. UndoOfNew(u)'
    BY <1>2, <1>3, <1>4, <1>6, <1>7, <2>1 DEF UndoOfNew
  <2>3. UndoOfSaved(u)'
    BY <1>2, <1>3, <1>4, <1>6, <1>7, <2>1 DEF UndoOfSaved
  <2> QED
    BY <2>2, <2>3
<1>15. SavedUndoIsRight'
  <2>1. \A d \in startup \ running : d \in startup \ running'
    BY <1>1, <1>2, <1>3 DEF TypeOK
  <2> QED
    BY <1>2, <1>3, <1>4, <1>7, <2>1 DEF IInv, SavedUndoIsRight
<1> QED
  BY <1>5, <1>9, <1>10, <1>11, <1>12, <1>13, <1>14, <1>15 DEF IInv

\* Steps that touch neither the switch nor the log, and start or end nothing there.
LEMMA BystanderKeeps ==
  ASSUME ConstantsOK, IInv, TypeOK', Begun',
         UNCHANGED <<switch, log, ghosts>>,
         \A r \in Requests : /\ Running(r)' = Running(r)
                             /\ pc'[r] = "done" <=> pc[r] = "done",
         \A c \in Changes : pc[c] = "failed" => pc'[c] = "failed",
         \A u \in Undos : pc[u] \in {"sent", "done"} => target'[u] = target[u]
  PROVE  IInv'
<1> USE DEF Excused
<1>1. /\ TypeOK /\ TornIsFailed /\ LoggedOnce
      /\ UNCHANGED <<running, startup, torn, tornSaved, open, since, unsettled, excuses>>
  BY DEF IInv, switch, ghosts
<1>2. /\ LatestSave' = LatestSave /\ LatestSavedUndo' = LatestSavedUndo
      /\ \A d : EntryOf(d)' = EntryOf(d) /\ UndoableOf(d)' = UndoableOf(d)
  BY ReadsKept
<1>3. /\ \A r \in Requests : pc'[r] = "sent" <=> pc[r] = "sent"
      /\ \A r \in Requests : pc'[r] \in {"sent", "done"} <=> pc[r] \in {"sent", "done"}
      /\ Changes \subseteq Requests /\ Saves \subseteq Requests /\ Undos \subseteq Requests
  BY DEF Running, Requests
<1>4. \A u \in Undos : Running(u) => target'[u] = target[u]
  BY DEF Running
<1>5. /\ SaveRuns' = SaveRuns /\ UndoesAgain' = UndoesAgain
      /\ \A d : UndoRuns(d)' = UndoRuns(d)
  BY <1>1, <1>2, <1>3, <1>4 DEF SaveRuns, UndoesAgain, UndoRuns
<1>6. \A u \in Undos : /\ CopiedUnder(u)' = CopiedUnder(u)
                       /\ Running(u) => UndoRunsToo(u)' = UndoRunsToo(u)
  BY <1>1, <1>3, <1>4 DEF CopiedUnder, UndoRunsToo
<1>12. TornIsFailed' /\ \A d \in Changes : TornIsExcused(d)'
  BY <1>1, <1>3, TornKept DEF IInv
<1>7. LoggedOnce'
  BY <1>1, <1>3 DEF LoggedOnce
<1>8. ASSUME NEW d \in Changes
      PROVE  (/\ Offered(d) /\ KnownOpen(d) /\ EntryBeforeSave(d) /\ UnsettledBeforeSave(d)
              /\ SaveIsLogged(d)
              /\ SentSince(d) /\ EntryAfterSave(d) /\ NewIsLogged(d))'
  <2>1. /\ Offered(d) /\ KnownOpen(d) /\ EntryBeforeSave(d) /\ UnsettledBeforeSave(d)
        /\ SaveIsLogged(d)
        /\ SentSince(d) /\ EntryAfterSave(d) /\ NewIsLogged(d)
    BY DEF IInv
  <2>2. Offered(d)'
    BY <1>1, <1>2, <1>5, <2>1 DEF Offered
  <2>3. KnownOpen(d)'
    BY <1>1, <1>3, <2>1 DEF KnownOpen
  <2>4. EntryBeforeSave(d)' /\ UnsettledBeforeSave(d)' /\ SaveIsLogged(d)'
    BY <1>1, <1>2, <1>5, <2>1 DEF EntryBeforeSave, UnsettledBeforeSave, SaveIsLogged
  <2>5. SentSince(d)' /\ EntryAfterSave(d)' /\ NewIsLogged(d)'
    BY <1>1, <1>2, <1>3, <2>1 DEF SentSince, EntryAfterSave, NewIsLogged
  <2> QED
    BY <2>2, <2>3, <2>4, <2>5
<1>9. ASSUME NEW d \in Changes PROVE UndoneSavedMarks(d)'
  <2>1. SUFFICES ASSUME d \in (startup \ running) \ unsettled,
                        ~Excused({"misordered", "pruned", "lostWrite", "lostSave"})
                 PROVE  \E u \in Undos : UndoneSince(d, u)'
    BY <1>1 DEF UndoneSavedMarks
  <2>2. PICK u \in Undos : UndoneSince(d, u)
    BY <2>1 DEF IInv, UndoneSavedMarks
  <2>3. target'[u] = target[u]
    BY <2>2 DEF UndoneSince, Running
  <2>4. UndoneSince(d, u)'
    BY <1>1, <1>2, <1>3, <1>5, <2>2, <2>3 DEF UndoneSince, IsNewer
  <2> QED
    BY <2>4
<1>10. ASSUME NEW u \in Undos PROVE UndoOfNew(u)' /\ UndoOfSaved(u)'
  <2>1. UndoOfNew(u) /\ UndoOfSaved(u)
    BY DEF IInv
  <2>2. CASE Running(u)
    BY <1>1, <1>2, <1>3, <1>4, <1>6, <2>1, <2>2 DEF UndoOfNew, UndoOfSaved
  <2>3. CASE ~Running(u)
    BY <1>1, <1>3, <2>3 DEF UndoOfNew, UndoOfSaved
  <2> QED
    BY <2>2, <2>3
<1>11. SavedUndoIsRight'
  BY <1>1, <1>2, <1>5 DEF IInv, SavedUndoIsRight
<1> QED
  BY <1>12, <1>7, <1>8, <1>9, <1>10, <1>11 DEF IInv

LEMMA BystandersKeep ==
  ASSUME ConstantsOK, IInv,
         \E u \in Undos : \E c \in Changes : UndoFromLog(u, c) \/ UndoDirect(u, c)
  PROVE  IInv'
<1>1. TypeOK /\ Begun /\ TornIsFailed /\ LoggedOnce
  BY DEF IInv
<1>4. ASSUME NEW u \in Undos, NEW c \in Changes, UndoFromLog(u, c) \/ UndoDirect(u, c)
      PROVE  IInv'
  <2>1. /\ \A r \in Requests : pc'[r] = IF r = u THEN "sending" ELSE pc[r]
        /\ pc[u] = "idle" /\ u \notin Changes
        /\ \A x \in Undos : target'[x] = IF x = u THEN c ELSE target[x]
        /\ UNCHANGED <<running, startup, torn, tornSaved, log>>
        /\ UNCHANGED <<open, since, unsettled, excuses>>
    BY <1>1, <1>4 DEF UndoFromLog, UndoDirect, TypeOK, ConstantsOK, switch, ghosts
  <2>2. pc[c] = "done"
    BY <1>1, <1>4, NoEntry DEF UndoFromLog, UndoDirect
  <2>3. TypeOK'
    <3>1. /\ pc' \in [Requests -> Phases] /\ target' \in [Undos -> Changes \cup {NoChange}]
          /\ way' \in [Undos -> {"log", "direct"}]
      BY <1>1, <1>4 DEF UndoFromLog, UndoDirect, TypeOK, Phases
    <3> QED
      BY <1>1, <1>4, <2>1, <3>1 DEF UndoFromLog, UndoDirect, TypeOK
  <2>4. Begun'
    <3>1. \A d \in running' \cup startup' : pc'[d] # "idle"
      BY <1>1, <2>1 DEF Begun, Requests, TypeOK
    <3>2. ASSUME NEW x \in Undos, pc'[x] \in {"sending", "sent"}
          PROVE  /\ target'[x] \in Changes /\ pc'[target'[x]] = "done"
                 /\ Running(x)' => target'[x] \notin running'
      <4>1. CASE x = u
        BY <2>1, <2>2, <4>1 DEF Running, Requests
      <4>2. CASE x # u
        BY <1>1, <2>1, <3>2, <4>2 DEF Begun, Running, Requests
      <4> QED
        BY <4>1, <4>2
    <3>3. \A d \in Changes : Running(d)' => d \in running'
      BY <1>1, <2>1 DEF Begun, Running, Requests
    <3> QED
      BY <3>1, <3>2, <3>3 DEF Begun, Running
  <2>5. Changes \subseteq Requests /\ Undos \subseteq Requests
    BY DEF Requests
  <2> QED
    BY <2>1, <2>3, <2>4, <2>5, BystanderKeeps DEF Running, switch, ghosts
<1> QED
  BY <1>4

\* An entry that is appended comes after all others.
LEMMA Appended ==
  ASSUME NEW s \in Seq(Entries), NEW e \in Entries
  PROVE  /\ Append(s, e) \in Seq(Entries) /\ Len(s) \in Nat
         /\ \A i \in DOMAIN Append(s, e) :
              \/ i \in DOMAIN s /\ Append(s, e)[i] = s[i] /\ i <= Len(s)
              \/ i = Len(s) + 1 /\ Append(s, e)[i] = e
<1>1. /\ Append(s, e) \in Seq(Entries) /\ Len(Append(s, e)) = Len(s) + 1 /\ Len(s) \in Nat
      /\ \A i \in 1..Len(s) : Append(s, e)[i] = s[i]
      /\ Append(s, e)[Len(s) + 1] = e
  BY AppendProperties
<1>2. DOMAIN Append(s, e) = 1..(Len(s) + 1) /\ DOMAIN s = 1..Len(s)
  BY <1>1
<1>3. ASSUME NEW i \in DOMAIN Append(s, e)
      PROVE  \/ i \in DOMAIN s /\ Append(s, e)[i] = s[i] /\ i <= Len(s)
             \/ i = Len(s) + 1 /\ Append(s, e)[i] = e
  BY <1>1, <1>2
<1> QED
  BY <1>1, <1>3

\* A write is logged after its change; one that was copied before is late unless
\* the save that copied it is not logged either.
LEMMA WriteLoggedKeeps ==
  ASSUME ConstantsOK, IInv, NEW c \in Changes, WriteLogged(c)
  PROVE  IInv'
<1> USE DEF Excused
<1> DEFINE e == Entry("write", c, TRUE)
<1>1. /\ TypeOK /\ Begun /\ TornIsFailed /\ LoggedOnce /\ log \in Seq(Entries) /\ Len(log) \in Nat
      /\ Changes \subseteq Requests /\ Saves \subseteq Requests /\ Undos \subseteq Requests
  BY TypeFacts DEF IInv
<1>2. /\ pc[c] = "sent" /\ c \notin Saves /\ c \notin Undos
      /\ \A r \in Requests : pc'[r] = IF r = c THEN "done" ELSE pc[r]
      /\ \A s \in Saves : open'[s] = open[s] \ {c} /\ since'[s] = since[s]
      /\ UNCHANGED <<running, startup, torn, tornSaved, unsettled, target, way, pruned, losses>>
      /\ excuses' = excuses \cup {x \in {"misordered"} : Late(c)}
      /\ log' = Append(log, e)
  BY <1>1 DEF WriteLogged, Over, Running, ConstantsOK, switch
<1>3. /\ e \in Entries /\ e.kind = "write" /\ e.of = c /\ e.undoable
      /\ log' \in Seq(Entries)
      /\ \A i \in DOMAIN log' : \/ i \in DOMAIN log /\ log'[i] = log[i] /\ i <= Len(log)
                                \/ i = Len(log) + 1 /\ log'[i] = e
  <2>1. e \in Entries /\ e.kind = "write" /\ e.of = c /\ e.undoable
    BY DEF Entry, Entries, Kinds
  <2> QED
    BY <1>1, <1>2, <2>1, Appended
<1> HIDE DEF e
<1>4. /\ LatestSave' = LatestSave /\ LatestSavedUndo' = LatestSavedUndo
      /\ EntryOf(c)' = Len(log) + 1 /\ UndoableOf(c)' = Len(log) + 1
      /\ \A d : d # c => EntryOf(d)' = EntryOf(d) /\ UndoableOf(d)' = UndoableOf(d)
      /\ LatestSave <= Len(log)
  <2>1. LatestSave <= Len(log)
    BY <1>1, ReadsArePlaces
  <2> QED
    BY <1>1, <1>2, <1>3, <2>1, ReadsAfterAppend
<1>5. TypeOK'
  <2>1. /\ pc' \in [Requests -> Phases] /\ open' \in [Saves -> SUBSET Requests]
        /\ since' \in [Saves -> SUBSET Requests]
    BY <1>1 DEF WriteLogged, Over, TypeOK, Phases
  <2>2. excuses' \subseteq Excuses
    BY <1>1, <1>2 DEF TypeOK, Excuses
  <2>3. /\ log' \in Seq([kind : Kinds, of : Changes \cup {NoChange}, undoable : BOOLEAN])
        /\ \A i \in DOMAIN log' : log'[i].undoable => log'[i].kind = "write"
    BY <1>1, <1>3 DEF TypeOK, Entries
  <2> QED
    BY <1>1, <1>2, <2>1, <2>2, <2>3 DEF TypeOK
<1>6. /\ \A r \in Saves \cup Undos : pc'[r] = pc[r] /\ Running(r)' = Running(r)
      /\ \A d \in Changes \ {c} : pc'[d] = pc[d] /\ Running(d)' = Running(d)
      /\ ~Running(c)' /\ pc'[c] = "done" /\ Running(c)
  BY <1>1, <1>2 DEF Running
<1>7. /\ SaveRuns' = SaveRuns
      /\ \A d : UndoRuns(d)' = UndoRuns(d)
      /\ \A u \in Undos : CopiedUnder(u)' = CopiedUnder(u) /\ UndoRunsToo(u)' = UndoRunsToo(u)
  BY <1>2, <1>6 DEF SaveRuns, UndoRuns, CopiedUnder, UndoRunsToo
<1>8. \A u \in Undos : pc[u] \in {"sending", "sent"} => target[u] # c
  BY <1>1, <1>2 DEF Begun
<1>9. EntryOf(c) = 0 /\ UndoableOf(c) = 0
  BY <1>1, <1>2, NoEntry
<1>10. UndoesAgain' = UndoesAgain
  BY <1>2, <1>4, <1>6, <1>8 DEF UndoesAgain, Running
<1>11. Begun'
  <2>1. \A d \in running \cup startup : pc'[d] # "idle"
    BY <1>1, <1>2 DEF Begun, TypeOK
  <2> QED
    BY <1>1, <1>2, <1>6, <2>1 DEF Begun
<1>18. TornIsFailed' /\ \A d \in Changes : TornIsExcused(d)'
  BY <1>1, <1>2, TornKept DEF IInv
<1>12. LoggedOnce'
  <2>1. \A i \in DOMAIN log : log[i].kind = "write" => log[i].of # c
    BY <1>1, <1>2 DEF LoggedOnce
  <2>2. ASSUME NEW i \in DOMAIN log', log'[i].kind = "write"
        PROVE  log'[i].of \in Changes /\ pc'[log'[i].of] = "done"
    <3>1. CASE i \in DOMAIN log /\ log'[i] = log[i]
      BY <1>1, <1>6, <2>1, <2>2, <3>1 DEF LoggedOnce
    <3>2. CASE log'[i] = e
      BY <1>3, <1>6, <3>2
    <3> QED
      BY <1>3, <3>1, <3>2
  <2>3. ASSUME NEW i \in DOMAIN log', NEW k \in DOMAIN log', log'[i].kind = "write",
               log'[k].kind = "write", log'[i].of = log'[k].of
        PROVE  i = k
    <3>1. CASE i \in DOMAIN log /\ log'[i] = log[i] /\ k \in DOMAIN log /\ log'[k] = log[k]
      BY <1>1, <2>3, <3>1 DEF LoggedOnce
    <3>2. CASE i = Len(log) + 1 /\ k = Len(log) + 1
      BY <3>2
    <3>3. CASE log'[i] = e /\ k \in DOMAIN log /\ log'[k] = log[k]
      BY <1>3, <2>1, <2>3, <3>3
    <3>4. CASE log'[k] = e /\ i \in DOMAIN log /\ log'[i] = log[i]
      BY <1>3, <2>1, <2>3, <3>4
    <3> QED
      BY <1>3, <3>1, <3>2, <3>3, <3>4
  <2> QED
    BY <2>2, <2>3 DEF LoggedOnce
<1>13. c \in startup /\ ~Excused({"misordered", "lostSave"})' => SaveRuns
  <2>1. SUFFICES ASSUME c \in startup, ~Excused({"misordered", "lostSave"})' PROVE SaveRuns
    OBVIOUS
  <2>2. PICK s \in Saves : pc[s] \in {"sent", "done"} /\ c \in open[s]
    BY <1>2, <1>6, <2>1 DEF IInv, KnownOpen
  <2>3. ~Late(c)
    BY <1>2, <2>1
  <2> QED
    BY <2>2, <2>3 DEF Late, SaveRuns, Running
<1>14. ASSUME NEW d \in Changes
       PROVE  (/\ Offered(d) /\ KnownOpen(d) /\ EntryBeforeSave(d) /\ UnsettledBeforeSave(d)
               /\ SaveIsLogged(d)
               /\ SentSince(d) /\ EntryAfterSave(d) /\ NewIsLogged(d))'
  <2>1. /\ Offered(d) /\ KnownOpen(d) /\ EntryBeforeSave(d) /\ UnsettledBeforeSave(d)
        /\ SaveIsLogged(d)
        /\ SentSince(d) /\ EntryAfterSave(d) /\ NewIsLogged(d)
    BY DEF IInv
  <2>2. CASE d # c
    <3>1. Offered(d)'
      BY <1>2, <1>4, <1>7, <2>1, <2>2 DEF Offered
    <3>2. KnownOpen(d)'
      BY <1>2, <1>6, <2>1, <2>2 DEF KnownOpen
    <3>3. EntryBeforeSave(d)' /\ UnsettledBeforeSave(d)' /\ SaveIsLogged(d)'
      BY <1>2, <1>4, <1>7, <2>1, <2>2 DEF EntryBeforeSave, UnsettledBeforeSave, SaveIsLogged
    <3>4. SentSince(d)' /\ EntryAfterSave(d)' /\ NewIsLogged(d)'
      BY <1>2, <1>4, <1>6, <2>1, <2>2 DEF SentSince, EntryAfterSave, NewIsLogged
    <3> QED
      BY <3>1, <3>2, <3>3, <3>4
  <2>3. CASE d = c
    <3>1. KnownOpen(c)'
      BY <1>6 DEF KnownOpen
    <3>2. EntryBeforeSave(c)' /\ UnsettledBeforeSave(c)' /\ SaveIsLogged(c)'
      BY <1>1, <1>2, <1>4, <1>7, <1>13, <2>1, <2>3
         DEF EntryBeforeSave, UnsettledBeforeSave, SaveIsLogged, TornIsFailed
    <3>3. SentSince(c)' /\ NewIsLogged(c)'
      BY <1>1, <1>2, <1>4, <1>6, <2>1, <2>3 DEF SentSince, NewIsLogged
    <3>5. EntryAfterSave(c)'
      <4>1. ~(EntryOf(c)' < LatestSave')
        BY <1>1, <1>4, ReadsAreNat
      <4> QED
        BY <4>1 DEF EntryAfterSave
    <3>4. Offered(c)'
      BY <1>1, <1>2, <1>4, <1>6 DEF Offered, Begun
    <3> QED
      BY <2>3, <3>1, <3>2, <3>3, <3>4, <3>5
  <2> QED
    BY <2>2, <2>3
<1>15. ASSUME NEW d \in Changes PROVE UndoneSavedMarks(d)'
  <2>1. SUFFICES ASSUME d \in (startup \ running) \ unsettled,
                        ~Excused({"misordered", "pruned", "lostWrite", "lostSave"})'
                 PROVE  \E u \in Undos : UndoneSince(d, u)'
    BY <1>2 DEF UndoneSavedMarks
  <2>2. PICK u \in Undos : UndoneSince(d, u)
    BY <1>2, <2>1 DEF IInv, UndoneSavedMarks
  <2>3. UndoneSince(d, u)'
    BY <1>2, <1>4, <1>6, <1>7, <2>2 DEF UndoneSince, IsNewer
  <2> QED
    BY <2>3
<1>16. ASSUME NEW u \in Undos PROVE UndoOfNew(u)' /\ UndoOfSaved(u)'
  <2>1. UndoOfNew(u) /\ UndoOfSaved(u) /\ (Running(u) => target[u] # c)
    BY <1>8 DEF IInv, Running
  <2>2. UndoOfNew(u)'
    BY <1>2, <1>4, <1>6, <1>7, <2>1 DEF UndoOfNew
  <2>3. UndoOfSaved(u)'
    BY <1>2, <1>4, <1>6, <1>7, <2>1 DEF UndoOfSaved
  <2> QED
    BY <2>2, <2>3
<1>17. SavedUndoIsRight'
  <2>1. ASSUME NEW i \in DOMAIN log', log'[i].kind = "savedUndo"
        PROVE  i \in DOMAIN log /\ log'[i] = log[i]
    BY <1>3, <2>1
  <2> QED
    BY <1>2, <1>4, <1>7, <1>10, <2>1 DEF IInv, SavedUndoIsRight
<1> QED
  BY <1>18, <1>5, <1>11, <1>12, <1>14, <1>15, <1>16, <1>17 DEF IInv

-------------------------------------------------------------------------------
(* Saves *)

\* After a copy the configurations agree, and what is not logged is known open.
LEMMA SaveCopiedKeeps ==
  ASSUME ConstantsOK, IInv, NEW s \in Saves, SaveCopied(s)
  PROVE  IInv'
<1> USE DEF Excused
<1>1. /\ TypeOK /\ Begun /\ TornIsFailed /\ LoggedOnce
      /\ Changes \subseteq Requests /\ Saves \subseteq Requests /\ Undos \subseteq Requests
  BY DEF IInv, Requests
<1>2. /\ pc[s] = "idle" /\ s \notin Changes /\ s \notin Undos
      /\ \A r \in Requests : pc'[r] = IF r = s THEN "sent" ELSE pc[r]
      /\ startup' = running /\ running' = running /\ log' = log /\ target' = target
      /\ torn' = torn /\ tornSaved' = torn /\ unsettled' = unsettled
      /\ since' = since /\ excuses' = {}
      /\ open'[s] = {r \in Changes \cup Undos : Running(r)}
  BY <1>1 DEF SaveCopied, TypeOK, ConstantsOK
<1>3. /\ LatestSave' = LatestSave /\ LatestSavedUndo' = LatestSavedUndo
      /\ \A d : EntryOf(d)' = EntryOf(d) /\ UndoableOf(d)' = UndoableOf(d)
  BY <1>2, ReadsKept
<1>4. TypeOK'
  <2>1. /\ pc' \in [Requests -> Phases] /\ open' \in [Saves -> SUBSET Requests]
        /\ excuses' \subseteq Excuses
    BY <1>1 DEF SaveCopied, TypeOK, Phases
  <2> QED
    BY <1>1, <1>2, <2>1 DEF SaveCopied, TypeOK
<1>5. /\ SaveRuns' /\ Running(s)' /\ pc'[s] = "sent"
      /\ \A r \in Changes \cup Undos : pc'[r] = pc[r] /\ Running(r)' = Running(r)
  BY <1>1, <1>2 DEF SaveRuns, Running
<1>6. \A d : UndoRuns(d)' = UndoRuns(d)
  BY <1>2, <1>5 DEF UndoRuns
<1>7. Begun'
  <2>1. running \subseteq Changes
    BY <1>1 DEF TypeOK
  <2> QED
    BY <1>1, <1>2, <1>5, <2>1 DEF Begun
<1>12. TornIsFailed' /\ \A d \in Changes : TornIsExcused(d)'
  <2>1. torn \cup unsettled \subseteq Changes
    BY <1>1 DEF TypeOK
  <2> QED
    BY <1>1, <1>2, <1>5, <2>1 DEF TornIsFailed, TornIsExcused
<1>8. LoggedOnce'
  BY <1>1, <1>2, <1>5 DEF LoggedOnce
<1>9. ASSUME NEW d \in Changes
      PROVE  (/\ Offered(d) /\ KnownOpen(d) /\ EntryBeforeSave(d) /\ UnsettledBeforeSave(d)
              /\ SaveIsLogged(d)
              /\ UndoneSavedMarks(d) /\ SentSince(d) /\ EntryAfterSave(d) /\ NewIsLogged(d))'
  <2>1. Offered(d)'
    BY <1>2, <1>3, <1>6 DEF IInv, Offered
  <2>2. KnownOpen(d)'
    BY <1>2, <1>5 DEF KnownOpen
  <2>3. EntryBeforeSave(d)' /\ UnsettledBeforeSave(d)' /\ SaveIsLogged(d)'
    BY <1>5 DEF EntryBeforeSave, UnsettledBeforeSave, SaveIsLogged
  <2>4. UndoneSavedMarks(d)' /\ SentSince(d)' /\ NewIsLogged(d)' /\ EntryAfterSave(d)'
    BY <1>2 DEF UndoneSavedMarks, SentSince, NewIsLogged, EntryAfterSave
  <2> QED
    BY <2>1, <2>2, <2>3, <2>4
<1>10. ASSUME NEW u \in Undos PROVE UndoOfNew(u)' /\ UndoOfSaved(u)'
  <2>1. Running(u)' => CopiedUnder(u)'
    BY <1>2, <1>5 DEF CopiedUnder
  <2> QED
    BY <2>1 DEF UndoOfNew, UndoOfSaved
<1>11. SavedUndoIsRight'
  BY <1>5 DEF SavedUndoIsRight
<1> QED
  BY <1>12, <1>4, <1>7, <1>8, <1>9, <1>10, <1>11 DEF IInv

\* A save is logged after all that was logged before it; what was sent after its
\* copy is not among that, or the log is out of order.
LEMMA SaveLoggedKeeps ==
  ASSUME ConstantsOK, IInv, NEW s \in Saves, SaveLogged(s)
  PROVE  IInv'
<1> USE DEF Excused
<1> DEFINE e == Entry("save", NoChange, FALSE)
<1>1. /\ TypeOK /\ Begun /\ TornIsFailed /\ LoggedOnce /\ log \in Seq(Entries) /\ Len(log) \in Nat
      /\ Changes \subseteq Requests /\ Saves \subseteq Requests /\ Undos \subseteq Requests
  BY TypeFacts DEF IInv
<1>2. /\ pc[s] = "sent" /\ s \notin Changes /\ s \notin Undos
      /\ \A r \in Requests : pc'[r] = IF r = s THEN "done" ELSE pc[r]
      /\ \A x \in Saves : open'[x] = open[x] \ {s}
      /\ \A x \in Saves \ {s} : since'[x] = since[x]
      /\ UNCHANGED <<running, startup, torn, tornSaved, unsettled, target, way, pruned, losses>>
      /\ excuses' = excuses \cup {x \in {"misordered"} : Overtakes(s)}
      /\ log' = Append(log, e)
  BY <1>1 DEF SaveLogged, Over, Running, ConstantsOK, switch
<1>3. /\ e \in Entries /\ e.kind = "save" /\ ~e.undoable
      /\ log' \in Seq(Entries)
      /\ \A i \in DOMAIN log' : \/ i \in DOMAIN log /\ log'[i] = log[i] /\ i <= Len(log)
                                \/ i = Len(log) + 1 /\ log'[i] = e
  <2>1. e \in Entries /\ e.kind = "save" /\ ~e.undoable
    BY DEF Entry, Entries, Kinds
  <2> QED
    BY <1>1, <1>2, <2>1, Appended
<1> HIDE DEF e
<1>4. /\ LatestSave' = Len(log) + 1 /\ LatestSavedUndo' = LatestSavedUndo
      /\ \A d : EntryOf(d)' = EntryOf(d) /\ UndoableOf(d)' = UndoableOf(d)
      /\ \A d : EntryOf(d) \in Nat /\ EntryOf(d) <= Len(log)
  <2>1. \A d : EntryOf(d) \in Nat /\ EntryOf(d) <= Len(log)
    BY <1>1, ReadsArePlaces
  <2> QED
    BY <1>1, <1>2, <1>3, <2>1, ReadsAfterAppend
<1>5. TypeOK'
  <2>1. /\ pc' \in [Requests -> Phases] /\ open' \in [Saves -> SUBSET Requests]
        /\ since' \in [Saves -> SUBSET Requests]
    BY <1>1 DEF SaveLogged, Over, TypeOK, Phases
  <2>2. excuses' \subseteq Excuses
    BY <1>1, <1>2 DEF TypeOK, Excuses
  <2>3. /\ log' \in Seq([kind : Kinds, of : Changes \cup {NoChange}, undoable : BOOLEAN])
        /\ \A i \in DOMAIN log' : log'[i].undoable => log'[i].kind = "write"
    BY <1>1, <1>3 DEF TypeOK, Entries
  <2> QED
    BY <1>1, <1>2, <2>1, <2>2, <2>3 DEF TypeOK
<1>6. /\ \A r \in Changes \cup Undos : pc'[r] = pc[r] /\ Running(r)' = Running(r)
      /\ \A x \in Saves \ {s} : pc'[x] = pc[x] /\ Running(x)' = Running(x)
      /\ ~Running(s)' /\ pc'[s] = "done" /\ Running(s)
      /\ \A x \in Saves : pc[x] \in {"sent", "done"} => pc'[x] \in {"sent", "done"}
  BY <1>1, <1>2 DEF Running
<1>7. \A d : UndoRuns(d)' = UndoRuns(d)
  BY <1>2, <1>6 DEF UndoRuns
<1>8. \A u \in Undos : /\ CopiedUnder(u) => CopiedUnder(u)'
                       /\ UndoRunsToo(u)' = UndoRunsToo(u)
  BY <1>2, <1>6 DEF CopiedUnder, UndoRunsToo
<1>9. "misordered" \notin excuses' => \A r \in since[s] : pc[r] # "done"
  BY <1>2 DEF Overtakes
<1>10. Begun'
  <2>1. running \subseteq Changes /\ startup \subseteq Changes
    BY <1>1 DEF TypeOK
  <2> QED
    BY <1>1, <1>2, <1>6, <2>1 DEF Begun
<1>16. TornIsFailed' /\ \A d \in Changes : TornIsExcused(d)'
  BY <1>1, <1>2, <1>6, TornKept DEF IInv
<1>11. LoggedOnce'
  <2>1. \A i \in DOMAIN log' : log'[i].kind = "write" => i \in DOMAIN log /\ log'[i] = log[i]
    BY <1>3
  <2> QED
    BY <1>1, <1>6, <2>1 DEF LoggedOnce
<1>12. ASSUME NEW d \in Changes
       PROVE  (/\ Offered(d) /\ KnownOpen(d) /\ EntryBeforeSave(d) /\ UnsettledBeforeSave(d)
               /\ SaveIsLogged(d)
               /\ SentSince(d) /\ EntryAfterSave(d) /\ NewIsLogged(d))'
  <2>1. /\ Offered(d) /\ KnownOpen(d) /\ EntryBeforeSave(d) /\ UnsettledBeforeSave(d)
        /\ SaveIsLogged(d)
        /\ SentSince(d) /\ EntryAfterSave(d) /\ NewIsLogged(d)
    BY DEF IInv
  <2>2. Offered(d)'
    BY <1>2, <1>4, <1>7, <2>1 DEF Offered
  <2>3. KnownOpen(d)'
    BY <1>2, <1>6, <2>1 DEF KnownOpen
  <2>4. EntryBeforeSave(d)' /\ UnsettledBeforeSave(d)' /\ SaveIsLogged(d)'
    BY <1>1, <1>4 DEF EntryBeforeSave, UnsettledBeforeSave, SaveIsLogged
  <2>5. SentSince(d)' /\ NewIsLogged(d)'
    BY <1>2, <1>4, <1>6, <2>1 DEF SentSince, NewIsLogged
  <2>6. EntryAfterSave(d)'
    <3>1. SUFFICES ASSUME d \in running \ startup, "misordered" \notin excuses', EntryOf(d) # 0
                   PROVE  FALSE
      BY <1>2, <1>4 DEF EntryAfterSave
    <3>2. d \in since[s]
      BY <1>6, <2>1, <3>1 DEF SentSince
    <3>3. pc[d] = "done"
      BY <1>1, <3>1, OneEntry
    <3> QED
      BY <1>9, <3>1, <3>2, <3>3
  <2> QED
    BY <2>2, <2>3, <2>4, <2>5, <2>6
<1>13. ASSUME NEW d \in Changes PROVE UndoneSavedMarks(d)'
  <2>1. SUFFICES ASSUME d \in (startup \ running) \ unsettled,
                        ~Excused({"misordered", "pruned", "lostWrite", "lostSave"})'
                 PROVE  \E u \in Undos : UndoneSince(d, u)'
    BY <1>2 DEF UndoneSavedMarks
  <2>2. PICK u \in Undos : UndoneSince(d, u)
    BY <1>2, <2>1 DEF IInv, UndoneSavedMarks
  <2>3. u \in since[s] /\ pc[u] # "done"
    BY <1>6, <1>9, <2>1, <2>2 DEF UndoneSince
  <2>4. UndoneSince(d, u)'
    BY <1>2, <1>6, <2>2, <2>3 DEF UndoneSince
  <2> QED
    BY <2>4
<1>14. ASSUME NEW u \in Undos PROVE UndoOfNew(u)' /\ UndoOfSaved(u)'
  <2>1. UndoOfNew(u)
    BY DEF IInv
  <2>2. UndoOfNew(u)'
    BY <1>2, <1>4, <1>6, <1>8, <2>1 DEF UndoOfNew
  <2>3. UndoOfSaved(u)'
    <3>1. SUFFICES ASSUME Running(u), target[u] \notin unsettled,
                          ~Excused({"misordered", "lostSave"})',
                          UndoableOf(target[u]) # 0, target[u] \notin startup
                   PROVE  CopiedUnder(u) \/ UndoRunsToo(u)
      BY <1>2, <1>4, <1>6, <1>8 DEF UndoOfSaved
    <3>2. target[u] \in Changes /\ pc[target[u]] = "done"
      BY <1>1, <3>1 DEF Begun, Running
    <3>3. target[u] \notin since[s]
      BY <1>9, <3>1, <3>2
    <3> QED
      BY <1>2, <1>6, <2>1, <3>1, <3>3 DEF UndoOfNew
  <2> QED
    BY <2>2, <2>3
<1>15. SavedUndoIsRight'
  <2>1. ASSUME NEW i \in DOMAIN log', log'[i].kind = "savedUndo" PROVE ~(i > LatestSave')
    BY <1>1, <1>3, <1>4, <2>1
  <2> QED
    BY <2>1 DEF SavedUndoIsRight
<1> QED
  BY <1>16, <1>5, <1>10, <1>11, <1>12, <1>13, <1>14, <1>15 DEF IInv

\* A save that fails has copied nothing, or copied and logs no checkpoint.
LEMMA SaveFailedKeeps ==
  ASSUME ConstantsOK, IInv, NEW s \in Saves, SaveFailed(s)
  PROVE  IInv'
<1> USE DEF Excused
<1>1. /\ TypeOK /\ Begun /\ TornIsFailed /\ LoggedOnce
      /\ Changes \subseteq Requests /\ Saves \subseteq Requests /\ Undos \subseteq Requests
  BY DEF IInv, Requests
<1>2. /\ \A r \in Requests : pc'[r] = IF r = s THEN "failed" ELSE pc[r]
      /\ pc[s] = "idle" /\ s \notin Changes /\ s \notin Undos
      /\ UNCHANGED <<running, torn, log, way, target, pruned, losses>>
      /\ UNCHANGED <<open, since, unsettled>>
  BY <1>1 DEF SaveFailed, TypeOK, ConstantsOK
<1>3. \/ UNCHANGED <<startup, tornSaved, excuses>>
      \/ startup' = running /\ tornSaved' = torn /\ excuses' = excuses \cup {"lostSave"}
  BY DEF SaveFailed
<1>4. TypeOK'
  <2>1. pc' \in [Requests -> Phases]
    BY <1>1 DEF SaveFailed, TypeOK, Phases
  <2>2. startup' \subseteq Changes /\ tornSaved' \subseteq Changes /\ excuses' \subseteq Excuses
    BY <1>1, <1>3 DEF TypeOK, Excuses
  <2> QED
    BY <1>1, <1>2, <2>1, <2>2 DEF TypeOK
<1>5. /\ \A r \in Requests : Running(r)' = Running(r)
      /\ \A r \in Requests : pc'[r] = "done" <=> pc[r] = "done"
      /\ \A r \in Changes \cup Undos : pc'[r] = pc[r]
  BY <1>1, <1>2 DEF Running
<1>6. Begun'
  <2>1. running \subseteq Changes /\ startup \subseteq Changes
    BY <1>1 DEF TypeOK
  <2> QED
    BY <1>1, <1>2, <1>3, <1>5, <2>1 DEF Begun
<1>7. CASE UNCHANGED <<startup, tornSaved, excuses>>
  BY <1>1, <1>2, <1>4, <1>5, <1>6, <1>7, BystanderKeeps DEF switch, ghosts
<1>8. CASE startup' = running /\ tornSaved' = torn /\ excuses' = excuses \cup {"lostSave"}
  <2>1. TornIsFailed' /\ \A d \in Changes : TornIsExcused(d)'
    <3>1. torn \cup unsettled \subseteq Changes
      BY <1>1 DEF TypeOK
    <3> QED
      BY <1>1, <1>2, <1>5, <1>8, <3>1 DEF TornIsFailed, TornIsExcused
  <2>2. LoggedOnce'
    BY <1>1, <1>2, <1>5 DEF LoggedOnce
  <2>3. \A d : EntryOf(d)' = EntryOf(d) /\ UndoableOf(d)' = UndoableOf(d)
    BY <1>2, ReadsKept
  <2>4. \A d : UndoRuns(d)' = UndoRuns(d)
    BY <1>1, <1>2, <1>5 DEF UndoRuns
  <2>5. ASSUME NEW d \in Changes
        PROVE  (/\ Offered(d) /\ KnownOpen(d) /\ EntryBeforeSave(d) /\ UnsettledBeforeSave(d)
                /\ SaveIsLogged(d) /\ UndoneSavedMarks(d) /\ SentSince(d)
                /\ EntryAfterSave(d) /\ NewIsLogged(d))'
    <3>1. Offered(d)'
      BY <1>2, <2>3, <2>4 DEF IInv, Offered
    <3>2. /\ KnownOpen(d)' /\ EntryBeforeSave(d)' /\ UnsettledBeforeSave(d)'
          /\ SaveIsLogged(d)' /\ UndoneSavedMarks(d)'
      BY <1>8 DEF KnownOpen, EntryBeforeSave, UnsettledBeforeSave, SaveIsLogged, UndoneSavedMarks
    <3>3. SentSince(d)' /\ EntryAfterSave(d)' /\ NewIsLogged(d)'
      BY <1>2, <1>8 DEF SentSince, EntryAfterSave, NewIsLogged
    <3> QED
      BY <3>1, <3>2, <3>3
  <2>6. /\ \A u \in Undos : UndoOfNew(u)' /\ UndoOfSaved(u)'
        /\ SavedUndoIsRight'
    BY <1>8 DEF UndoOfNew, UndoOfSaved, SavedUndoIsRight
  <2> QED
    BY <1>4, <1>6, <2>1, <2>2, <2>5, <2>6 DEF IInv
<1> QED
  BY <1>3, <1>7, <1>8

-------------------------------------------------------------------------------
(* Undos *)

\* An undo that is sent is sent after every copy.
LEMMA UndoSentKeeps ==
  ASSUME ConstantsOK, IInv, NEW u \in Undos, UndoSent(u)
  PROVE  IInv'
<1> USE DEF Excused
<1> DEFINE c == target[u]
<1>1. /\ TypeOK /\ Begun /\ TornIsFailed /\ LoggedOnce
      /\ Changes \subseteq Requests /\ Saves \subseteq Requests /\ Undos \subseteq Requests
  BY DEF IInv, Requests
<1>2. /\ pc[u] = "sending" /\ u \notin Changes /\ u \notin Saves
      /\ c \in Changes /\ pc[c] = "done"
      /\ \A r \in Requests : pc'[r] = IF r = u THEN "sent" ELSE pc[r]
      /\ \A s \in Saves : since[s] \subseteq since'[s] /\ (Running(s) => u \in since'[s])
      /\ running' = running \ {c} /\ startup' = startup /\ log' = log /\ target' = target
      /\ open' = open /\ excuses' = excuses /\ unsettled' = unsettled
      /\ torn' = torn \ {c} /\ tornSaved' = tornSaved
  BY <1>1 DEF UndoSent, Sent, SentNow, TypeOK, Begun, ConstantsOK
<1> HIDE DEF c
<1>3. /\ LatestSave' = LatestSave /\ LatestSavedUndo' = LatestSavedUndo
      /\ \A d : EntryOf(d)' = EntryOf(d) /\ UndoableOf(d)' = UndoableOf(d)
  BY <1>2, ReadsKept
<1>4. TypeOK'
  <2>1. pc' \in [Requests -> Phases] /\ since' \in [Saves -> SUBSET Requests]
    BY <1>1 DEF UndoSent, Sent, SentNow, TypeOK, Phases
  <2> QED
    BY <1>1, <1>2, <2>1 DEF UndoSent, Sent, TypeOK
<1>5. /\ \A r \in Changes \cup Saves : pc'[r] = pc[r] /\ Running(r)' = Running(r)
      /\ \A x \in Undos \ {u} : pc'[x] = pc[x] /\ Running(x)' = Running(x)
      /\ Running(u)' /\ pc'[u] = "sent" /\ ~Running(u)
  BY <1>1, <1>2 DEF Running
<1>6. /\ SaveRuns' = SaveRuns /\ (UndoesAgain => UndoesAgain')
      /\ \A d : UndoRuns(d) => UndoRuns(d)'
      /\ UndoRuns(c)'
      /\ \A x \in Undos : /\ CopiedUnder(x)' = CopiedUnder(x)
                          /\ UndoRunsToo(x) => UndoRunsToo(x)'
  BY <1>2, <1>3, <1>5 DEF SaveRuns, UndoesAgain, UndoRuns, CopiedUnder, UndoRunsToo, c
<1>7. Begun'
  <2>1. \A d \in running' \cup startup' : pc'[d] # "idle"
    BY <1>1, <1>2, <1>5 DEF Begun, TypeOK
  <2>2. ASSUME NEW x \in Undos, pc'[x] \in {"sending", "sent"}
        PROVE  /\ target'[x] \in Changes /\ pc'[target'[x]] = "done"
               /\ Running(x)' => target'[x] \notin running'
    <3>1. CASE x = u
      BY <1>2, <1>5, <3>1 DEF c
    <3>2. CASE x # u
      BY <1>1, <1>2, <1>5, <2>2, <3>2 DEF Begun
    <3> QED
      BY <3>1, <3>2
  <2>3. \A d \in Changes : Running(d)' => d \in running'
    BY <1>1, <1>2, <1>5 DEF Begun, Running
  <2> QED
    BY <2>1, <2>2, <2>3 DEF Begun, Running
<1>14. TornIsFailed' /\ \A d \in Changes : TornIsExcused(d)'
  <2>1. c \in torn \cup tornSaved => c \in unsettled
    BY <1>1, <1>2 DEF TornIsFailed
  <2>2. torn \cup tornSaved \cup unsettled \subseteq Changes
    BY <1>1 DEF TypeOK
  <2>3. TornIsFailed'
    BY <1>1, <1>2, <1>5, <2>2 DEF TornIsFailed
  <2>4. ASSUME NEW d \in Changes PROVE TornIsExcused(d)'
    <3>1. TornIsExcused(d)
      BY DEF IInv
    <3> QED
      BY <1>2, <2>1, <3>1 DEF TornIsExcused
  <2> QED
    BY <2>3, <2>4
<1>8. LoggedOnce'
  BY <1>1, <1>2, <1>5 DEF LoggedOnce
<1>9. ASSUME NEW d \in Changes
      PROVE  (/\ Offered(d) /\ KnownOpen(d) /\ EntryBeforeSave(d) /\ UnsettledBeforeSave(d)
              /\ SaveIsLogged(d)
              /\ SentSince(d) /\ EntryAfterSave(d) /\ NewIsLogged(d))'
  <2>1. /\ Offered(d) /\ KnownOpen(d) /\ EntryBeforeSave(d) /\ UnsettledBeforeSave(d)
        /\ SaveIsLogged(d)
        /\ SentSince(d) /\ EntryAfterSave(d) /\ NewIsLogged(d)
    BY DEF IInv
  <2>2. Offered(d)'
    <3>1. CASE d = c
      <4>1. d \notin running' /\ UndoRuns(d)'
        BY <1>2, <1>5, <3>1 DEF UndoRuns, c
      <4> QED
        BY <4>1 DEF Offered
    <3>2. CASE d # c
      <4>1. /\ d \in running' <=> d \in running
            /\ EntryOf(d)' = EntryOf(d) /\ UndoableOf(d)' = UndoableOf(d)
            /\ UndoRuns(d) => UndoRuns(d)'
        BY <1>2, <1>3, <1>6, <3>2
      <4> QED
        BY <1>2, <2>1, <4>1 DEF Offered
    <3> QED
      BY <3>1, <3>2
  <2>3. KnownOpen(d)'
    BY <1>2, <1>5, <2>1 DEF KnownOpen
  <2>4. EntryBeforeSave(d)' /\ UnsettledBeforeSave(d)' /\ SaveIsLogged(d)'
    BY <1>2, <1>3, <1>6, <2>1 DEF EntryBeforeSave, UnsettledBeforeSave, SaveIsLogged
  <2>5. SentSince(d)' /\ EntryAfterSave(d)' /\ NewIsLogged(d)'
    BY <1>2, <1>3, <1>5, <2>1 DEF SentSince, EntryAfterSave, NewIsLogged
  <2> QED
    BY <2>2, <2>3, <2>4, <2>5
<1>10. ASSUME NEW d \in Changes PROVE UndoneSavedMarks(d)'
  <2>1. SUFFICES ASSUME d \in (startup \ running') \ unsettled,
                        ~Excused({"misordered", "pruned", "lostWrite", "lostSave"})
                 PROVE  \E x \in Undos : UndoneSince(d, x)'
    BY <1>2 DEF UndoneSavedMarks
  <2>2. CASE d \in running
    <3>1. d = c
      BY <1>2, <2>1, <2>2
    <3>2. target'[u] = d
      BY <1>2, <3>1 DEF c
    <3>3. \A s \in Saves : Running(s)' => u \in since'[s]
      BY <1>2, <1>5
    <3>4. UndoneSince(d, u)'
      BY <1>5, <3>2, <3>3 DEF UndoneSince
    <3> QED
      BY <3>4
  <2>3. CASE d \notin running
    <3>1. PICK x \in Undos : UndoneSince(d, x)
      BY <2>1, <2>3 DEF IInv, UndoneSavedMarks
    <3>2. x # u
      BY <1>2, <3>1 DEF UndoneSince, Running
    <3>3. UndoneSince(d, x)'
      BY <1>2, <1>3, <1>5, <1>6, <3>1, <3>2 DEF UndoneSince, IsNewer
    <3> QED
      BY <3>3
  <2> QED
    BY <2>2, <2>3
<1>11. UndoOfNew(u)' /\ UndoOfSaved(u)'
  <2>1. Offered(c) /\ SentSince(c) /\ EntryAfterSave(c)
    BY <1>2 DEF IInv
  <2>2. ASSUME c \notin running, UndoRuns(c) PROVE UndoRunsToo(u)'
    BY <1>2, <1>5, <2>2 DEF UndoRuns, UndoRunsToo, c
  <2>3. UndoOfNew(u)'
    <3>1. SUFFICES ASSUME c \notin unsettled, ~Excused({"lostSave"}), UndoableOf(c) # 0,
                          c \notin startup
                   PROVE  (\A s \in Saves : Running(s) => c \in since'[s]) \/ UndoRunsToo(u)'
      BY <1>2, <1>3, <1>5 DEF UndoOfNew, c
    <3> QED
      BY <1>2, <2>1, <2>2, <3>1 DEF Offered, SentSince
  <2>4. UndoOfSaved(u)'
    <3>1. SUFFICES ASSUME c \notin unsettled, ~Excused({"misordered", "lostSave"}),
                          UndoableOf(c) # 0, UndoableOf(c) < LatestSave
                   PROVE  c \in startup \/ UndoRunsToo(u)'
      BY <1>2, <1>3 DEF UndoOfSaved, c
    <3>2. EntryOf(c) = UndoableOf(c)
      BY <1>1, <1>2, <3>1, OneEntry
    <3> QED
      BY <2>1, <2>2, <3>1, <3>2 DEF Offered, EntryAfterSave
  <2> QED
    BY <2>3, <2>4
<1>12. ASSUME NEW x \in Undos \ {u} PROVE UndoOfNew(x)' /\ UndoOfSaved(x)'
  <2>1. UndoOfNew(x) /\ UndoOfSaved(x)
    BY DEF IInv
  <2>2. UndoOfNew(x)'
    BY <1>2, <1>3, <1>5, <1>6, <2>1 DEF UndoOfNew
  <2>3. UndoOfSaved(x)'
    BY <1>2, <1>3, <1>5, <1>6, <2>1 DEF UndoOfSaved
  <2> QED
    BY <2>2, <2>3
<1>13. SavedUndoIsRight'
  BY <1>2, <1>3, <1>6 DEF IInv, SavedUndoIsRight
<1> QED
  BY <1>14, <1>4, <1>7, <1>8, <1>9, <1>10, <1>11, <1>12, <1>13 DEF IInv

\* An undo that fails leaves its change as it was, or unsettled.
LEMMA UndoFailedKeeps ==
  ASSUME ConstantsOK, IInv, NEW u \in Undos, UndoFailed(u)
  PROVE  IInv'
<1> USE DEF Excused
<1> DEFINE c == target[u]
<1>1. /\ TypeOK /\ Begun /\ TornIsFailed /\ LoggedOnce
      /\ Changes \subseteq Requests /\ Saves \subseteq Requests /\ Undos \subseteq Requests
  BY DEF IInv, Requests
<1>2. /\ pc[u] = "sending" /\ u \notin Changes /\ u \notin Saves
      /\ c \in Changes /\ pc[c] = "done"
      /\ \A r \in Requests : pc'[r] = IF r = u THEN "failed" ELSE pc[r]
      /\ UNCHANGED <<startup, tornSaved, log, way, target, pruned, losses, open, since>>
  BY <1>1 DEF UndoFailed, TypeOK, Begun, ConstantsOK
<1>3. \/ UNCHANGED <<running, torn, unsettled, excuses>>
      \/ /\ running' = running \ {c}
         /\ torn' \in {torn \ {c}, torn \cup {c}}
         /\ unsettled' = unsettled \cup {c} /\ excuses' = excuses \cup {"lostUndo"}
  BY DEF UndoFailed
<1> HIDE DEF c
<1>4. /\ running' \subseteq running /\ torn' \subseteq Changes
      /\ \A d \in Changes \ {c} : /\ d \in running' <=> d \in running
                                  /\ d \in torn' <=> d \in torn
      /\ unsettled \subseteq unsettled' /\ unsettled' \subseteq unsettled \cup {c}
      /\ excuses \subseteq excuses' /\ excuses' \subseteq excuses \cup {"lostUndo"}
      /\ c \notin unsettled' \/ "lostUndo" \notin excuses' =>
           UNCHANGED <<running, torn, unsettled, excuses>>
  BY <1>1, <1>2, <1>3 DEF TypeOK
<1>5. /\ LatestSave' = LatestSave /\ LatestSavedUndo' = LatestSavedUndo
      /\ \A d : EntryOf(d)' = EntryOf(d) /\ UndoableOf(d)' = UndoableOf(d)
  BY <1>2, ReadsKept
<1>6. TypeOK'
  <2>1. pc' \in [Requests -> Phases]
    BY <1>1 DEF UndoFailed, TypeOK, Phases
  <2>2. running' \subseteq Changes /\ unsettled' \subseteq Changes /\ excuses' \subseteq Excuses
    BY <1>1, <1>2, <1>4 DEF TypeOK, Excuses
  <2> QED
    BY <1>1, <1>2, <1>4, <2>1, <2>2 DEF TypeOK
<1>7. /\ \A r \in Changes \cup Saves : pc'[r] = pc[r]
      /\ \A x \in Undos : x # u => pc'[x] = pc[x]
      /\ \A r \in Requests : Running(r)' = Running(r)
      /\ pc'[u] = "failed"
  BY <1>1, <1>2 DEF Running
<1>8. /\ SaveRuns' = SaveRuns /\ UndoesAgain' = UndoesAgain
      /\ \A d : UndoRuns(d)' = UndoRuns(d)
      /\ \A x \in Undos : CopiedUnder(x)' = CopiedUnder(x) /\ UndoRunsToo(x)' = UndoRunsToo(x)
  BY <1>1, <1>2, <1>5, <1>7 DEF SaveRuns, UndoesAgain, UndoRuns, CopiedUnder, UndoRunsToo
<1>9. Begun'
  <2>1. \A d \in running' \cup startup' : pc'[d] # "idle"
    BY <1>1, <1>2, <1>4, <1>7 DEF Begun, TypeOK
  <2>2. \A d \in Changes : Running(d)' => d \in running'
    BY <1>1, <1>2, <1>4, <1>7 DEF Begun, Running
  <2>3. ASSUME NEW x \in Undos, pc'[x] \in {"sending", "sent"}
        PROVE  /\ target'[x] \in Changes /\ pc'[target'[x]] = "done"
               /\ Running(x)' => target'[x] \notin running'
    <3>1. x # u /\ pc[x] = pc'[x] /\ target'[x] = target[x]
      BY <1>2, <1>7, <2>3
    <3>2. /\ target[x] \in Changes /\ pc[target[x]] = "done"
          /\ Running(x) => target[x] \notin running
      BY <1>1, <2>3, <3>1 DEF Begun
    <3> QED
      BY <1>1, <1>4, <1>7, <3>1, <3>2
  <2> QED
    BY <2>1, <2>2, <2>3 DEF Begun, Running
<1>10. TornIsFailed' /\ \A d \in Changes : TornIsExcused(d)'
  <2>1. torn \cup tornSaved \cup unsettled \subseteq Changes
    BY <1>1 DEF TypeOK
  <2>2. TornIsFailed'
    <3>1. \A d \in unsettled' : pc'[d] = "done"
      BY <1>1, <1>2, <1>4, <1>7, <2>1 DEF TornIsFailed
    <3>2. ASSUME NEW d \in torn' \cup tornSaved' PROVE pc'[d] = "failed" \/ d \in unsettled'
      <4>1. d \in Changes
        BY <1>2, <1>4, <2>1, <3>2
      <4>2. d \in torn \cup tornSaved \/ d \in unsettled'
        BY <1>2, <1>4, <3>2, <4>1
      <4> QED
        BY <1>1, <1>4, <1>7, <4>1, <4>2 DEF TornIsFailed
    <3> QED
      BY <3>1, <3>2 DEF TornIsFailed
  <2>3. \A d \in Changes : TornIsExcused(d)'
    <3>1. ASSUME NEW d \in Changes PROVE TornIsExcused(d)'
      <4>1. TornIsExcused(d)
        BY DEF IInv
      <4> QED
        BY <1>2, <1>4, <4>1 DEF TornIsExcused
    <3> QED
      BY <3>1
  <2> QED
    BY <2>2, <2>3
<1>11. LoggedOnce'
  BY <1>1, <1>2, <1>7 DEF LoggedOnce
<1>12. ASSUME NEW d \in Changes
       PROVE  (/\ Offered(d) /\ KnownOpen(d) /\ EntryBeforeSave(d) /\ UnsettledBeforeSave(d)
               /\ SaveIsLogged(d) /\ SentSince(d) /\ EntryAfterSave(d) /\ NewIsLogged(d))'
  <2>1. /\ Offered(d) /\ KnownOpen(d) /\ EntryBeforeSave(d) /\ UnsettledBeforeSave(d)
        /\ SaveIsLogged(d) /\ SentSince(d) /\ EntryAfterSave(d) /\ NewIsLogged(d)
    BY DEF IInv
  <2>2. Offered(d)'
    BY <1>4, <1>5, <1>8, <2>1 DEF Offered
  <2>3. KnownOpen(d)'
    BY <1>1, <1>2, <1>4, <1>7, <2>1 DEF KnownOpen
  <2>4. EntryBeforeSave(d)' /\ UnsettledBeforeSave(d)' /\ SaveIsLogged(d)'
    BY <1>2, <1>4, <1>5, <1>8, <2>1 DEF EntryBeforeSave, UnsettledBeforeSave, SaveIsLogged
  <2>5. SentSince(d)'
    BY <1>1, <1>2, <1>4, <1>7, <2>1 DEF SentSince
  <2>6. EntryAfterSave(d)' /\ NewIsLogged(d)'
    BY <1>1, <1>2, <1>4, <1>5, <1>7, <2>1 DEF EntryAfterSave, NewIsLogged
  <2> QED
    BY <2>2, <2>3, <2>4, <2>5, <2>6
<1>13. ASSUME NEW d \in Changes PROVE UndoneSavedMarks(d)'
  <2>1. SUFFICES ASSUME d \in (startup \ running') \ unsettled',
                        ~Excused({"misordered", "pruned", "lostWrite", "lostSave"})'
                 PROVE  \E x \in Undos : UndoneSince(d, x)'
    BY <1>2 DEF UndoneSavedMarks
  <2>2. d \in (startup \ running) \ unsettled
    BY <1>4, <2>1
  <2>3. PICK x \in Undos : UndoneSince(d, x)
    BY <1>4, <2>1, <2>2 DEF IInv, UndoneSavedMarks
  <2>4. x # u
    BY <1>2, <2>3 DEF UndoneSince, Running
  <2>5. UndoneSince(d, x)'
    BY <1>1, <1>2, <1>5, <1>7, <1>8, <2>3, <2>4 DEF UndoneSince, IsNewer
  <2> QED
    BY <2>5
<1>14. ASSUME NEW x \in Undos PROVE UndoOfNew(x)' /\ UndoOfSaved(x)'
  <2>1. UndoOfNew(x) /\ UndoOfSaved(x)
    BY DEF IInv
  <2>2. UndoOfNew(x)'
    BY <1>1, <1>2, <1>4, <1>5, <1>7, <1>8, <2>1 DEF UndoOfNew
  <2>3. UndoOfSaved(x)'
    BY <1>1, <1>2, <1>4, <1>5, <1>7, <1>8, <2>1 DEF UndoOfSaved
  <2> QED
    BY <2>2, <2>3
<1>15. SavedUndoIsRight'
  BY <1>2, <1>4, <1>5, <1>8 DEF IInv, SavedUndoIsRight
<1> QED
  BY <1>6, <1>9, <1>10, <1>11, <1>12, <1>13, <1>14, <1>15 DEF IInv

\* An undo is logged: its entry marks the switch when the change was saved, and the
\* entry of the change gives up its commands.
LEMMA UndoLoggedKeeps ==
  ASSUME ConstantsOK, IInv, NEW u \in Undos, UndoLogged(u)
  PROVE  IInv'
<1> USE DEF Excused
<1> DEFINE c == target[u]
           s == Consume(log, UndoableOf(c))
           e == UndoEntry(u)
<1>1. /\ TypeOK /\ Begun /\ TornIsFailed /\ LoggedOnce /\ log \in Seq(Entries) /\ Len(log) \in Nat
      /\ Changes \subseteq Requests /\ Saves \subseteq Requests /\ Undos \subseteq Requests
  BY TypeFacts DEF IInv
<1>2. /\ pc[u] = "sent" /\ u \notin Changes /\ u \notin Saves
      /\ c \in Changes /\ pc[c] = "done" /\ c \notin running
      /\ \A r \in Requests : pc'[r] = IF r = u THEN "done" ELSE pc[r]
      /\ \A x \in Saves : open'[x] = open[x] \ {u} /\ since'[x] = since[x]
      /\ UNCHANGED <<running, startup, torn, tornSaved, unsettled, target, way, pruned, losses>>
      /\ log' = Append(s, e)
  BY <1>1 DEF UndoLogged, Over, Running, ConstantsOK, Begun, switch
<1>3. /\ excuses \subseteq excuses' /\ excuses' \subseteq excuses \cup {"misordered", "again"}
      /\ "misordered" \notin excuses' => ~Late(u)
      /\ "again" \notin excuses' => UndoableOf(c) # 0 /\ c \notin unsettled
  BY DEF UndoLogged
<1>4. /\ s \in Seq(Entries) /\ Len(s) = Len(log) /\ DOMAIN s = DOMAIN log
      /\ \A k \in DOMAIN log : /\ s[k].kind = log[k].kind /\ s[k].of = log[k].of
                               /\ s[k].undoable => log[k].undoable
  BY <1>1, ConsumeKeeps
<1>5. /\ e \in Entries /\ e.of = c /\ ~e.undoable /\ e.kind \in {"undo", "savedUndo"}
      /\ e.kind = "savedUndo" <=> PostSave(u)
  BY <1>2 DEF UndoEntry, Entry, Entries, Kinds
<1>6. /\ NewestOf(s, SavesIn) = LatestSave /\ NewestOf(s, SavedUndosIn) = LatestSavedUndo
      /\ \A d : NewestOf(s, WritesOf(d)) = EntryOf(d)
      /\ \A d : NewestOf(s, UndoablesOf(d)) = IF d = c THEN 0 ELSE UndoableOf(d)
  BY <1>1, <1>2, OneEntry, ReadsAfterConsume
<1> HIDE DEF c, s, e
<1>7. /\ log' \in Seq(Entries)
      /\ \A i \in DOMAIN log' : \/ i \in DOMAIN log /\ log'[i] = s[i] /\ i <= Len(log)
                                \/ i = Len(log) + 1 /\ log'[i] = e
  BY <1>2, <1>4, <1>5, Appended
<1>8. /\ LatestSave' = LatestSave
      /\ LatestSavedUndo' = IF PostSave(u) THEN Len(log) + 1 ELSE LatestSavedUndo
      /\ \A d : EntryOf(d)' = EntryOf(d)
      /\ \A d : UndoableOf(d)' = IF d = c THEN 0 ELSE UndoableOf(d)
  <2>1. \A E : NewestOf(log', E) = IF e \in E THEN Len(log) + 1 ELSE NewestOf(s, E)
    BY <1>2, <1>4, <1>5, NewestOfAppend
  <2>2. /\ e \notin SavesIn /\ (e \in SavedUndosIn <=> PostSave(u))
        /\ \A d : e \notin WritesOf(d) /\ e \notin UndoablesOf(d)
    BY <1>5 DEF SavesIn, SavedUndosIn, WritesOf, UndoablesOf
  <2>3. LatestSave' = LatestSave
    BY <1>6, <1>7, <2>1, <2>2, NextReadsAreNewest
  <2>4. LatestSavedUndo' = IF PostSave(u) THEN Len(log) + 1 ELSE LatestSavedUndo
    BY <1>6, <1>7, <2>1, <2>2, NextReadsAreNewest
  <2>5. \A d : EntryOf(d)' = EntryOf(d)
    BY <1>6, <1>7, <2>1, <2>2, NextReadsAreNewest
  <2>6. \A d : UndoableOf(d)' = IF d = c THEN 0 ELSE UndoableOf(d)
    BY <1>6, <1>7, <2>1, <2>2, NextReadsAreNewest
  <2> QED
    BY <2>3, <2>4, <2>5, <2>6
<1>9. /\ LatestSave \in Nat /\ LatestSave <= Len(log)
      /\ LatestSavedUndo \in Nat /\ LatestSavedUndo <= Len(log)
      /\ EntryOf(c) \in Nat /\ UndoableOf(c) \in Nat
      /\ UndoableOf(c) # 0 => EntryOf(c) = UndoableOf(c)
  <2>1. UndoableOf(c) # 0 => EntryOf(c) = UndoableOf(c)
    BY <1>1, <1>2, OneEntry
  <2> QED
    BY <1>1, <2>1, ReadsArePlaces
<1>10. TypeOK'
  <2>1. /\ pc' \in [Requests -> Phases] /\ open' \in [Saves -> SUBSET Requests]
        /\ since' \in [Saves -> SUBSET Requests]
    BY <1>1 DEF UndoLogged, Over, TypeOK, Phases
  <2>2. excuses' \subseteq Excuses
    BY <1>1, <1>3 DEF TypeOK, Excuses
  <2>3. \A i \in DOMAIN log' : log'[i].undoable => log'[i].kind = "write"
    BY <1>1, <1>4, <1>5, <1>7 DEF TypeOK
  <2>4. log' \in Seq([kind : Kinds, of : Changes \cup {NoChange}, undoable : BOOLEAN])
    BY <1>7 DEF Entries
  <2> QED
    BY <1>1, <1>2, <2>1, <2>2, <2>3, <2>4 DEF TypeOK
<1>11. /\ \A r \in Changes \cup Saves : pc'[r] = pc[r] /\ Running(r)' = Running(r)
       /\ \A x \in Undos \ {u} : pc'[x] = pc[x] /\ Running(x)' = Running(x)
       /\ ~Running(u)' /\ pc'[u] = "done" /\ Running(u)
  BY <1>1, <1>2 DEF Running
<1>12. /\ SaveRuns' = SaveRuns
       /\ \A d : d # c => UndoRuns(d)' = UndoRuns(d)
       /\ \A x \in Undos \ {u} :
            /\ CopiedUnder(x)' = CopiedUnder(x)
            /\ target[x] # c => UndoRunsToo(x)' = UndoRunsToo(x)
  <2>1. SaveRuns' = SaveRuns
    BY <1>11 DEF SaveRuns
  <2>2. \A d : d # c => UndoRuns(d)' = UndoRuns(d)
    BY <1>2, <1>11 DEF UndoRuns, c
  <2>3. \A x \in Undos \ {u} : CopiedUnder(x)' = CopiedUnder(x)
    BY <1>2, <1>11 DEF CopiedUnder
  <2>4. \A x \in Undos \ {u} : target[x] # c => UndoRunsToo(x)' = UndoRunsToo(x)
    BY <1>2, <1>11 DEF UndoRunsToo, c
  <2> QED
    BY <2>1, <2>2, <2>3, <2>4
<1>13. UndoableOf(c) # 0 /\ UndoesAgain => UndoesAgain'
  <2>1. SUFFICES ASSUME UndoableOf(c) # 0,
                        NEW x \in Undos, Running(x), UndoableOf(target[x]) = 0
                 PROVE  UndoesAgain'
    BY DEF UndoesAgain
  <2>2. x # u
    BY <2>1 DEF c
  <2>3. Running(x)' /\ UndoableOf(target[x])' = 0
    BY <1>2, <1>8, <1>11, <2>1, <2>2
  <2> QED
    BY <2>3 DEF UndoesAgain
<1>14. Begun'
  <2>1. running \subseteq Changes /\ startup \subseteq Changes
    BY <1>1 DEF TypeOK
  <2>2. \A d \in running' \cup startup' : pc'[d] # "idle"
    BY <1>1, <1>2, <1>11, <2>1 DEF Begun
  <2>3. \A d \in Changes : Running(d)' => d \in running'
    BY <1>1, <1>2, <1>11 DEF Begun
  <2>4. ASSUME NEW x \in Undos, pc'[x] \in {"sending", "sent"}
        PROVE  /\ target'[x] \in Changes /\ pc'[target'[x]] = "done"
               /\ Running(x)' => target'[x] \notin running'
    BY <1>1, <1>2, <1>11, <2>4 DEF Begun
  <2> QED
    BY <2>2, <2>3, <2>4 DEF Begun, Running
<1>20. TornIsFailed' /\ \A d \in Changes : TornIsExcused(d)'
  BY <1>1, <1>2, <1>3, <1>11, TornKept DEF IInv
<1>15. LoggedOnce'
  <2>1. ASSUME NEW i \in DOMAIN log', log'[i].kind = "write"
        PROVE  i \in DOMAIN log /\ log[i].kind = "write" /\ log'[i].of = log[i].of
    BY <1>4, <1>5, <1>7, <2>1
  <2> QED
    BY <1>1, <1>11, <2>1 DEF LoggedOnce
<1>16. ASSUME NEW d \in Changes
       PROVE  (/\ Offered(d) /\ KnownOpen(d) /\ EntryBeforeSave(d) /\ UnsettledBeforeSave(d)
               /\ SaveIsLogged(d)
               /\ SentSince(d) /\ EntryAfterSave(d) /\ NewIsLogged(d))'
  <2>1. /\ Offered(d) /\ KnownOpen(d) /\ EntryBeforeSave(d) /\ UnsettledBeforeSave(d)
        /\ SaveIsLogged(d)
        /\ SentSince(d) /\ EntryAfterSave(d) /\ NewIsLogged(d)
    BY DEF IInv
  <2>2. Offered(d)'
    <3>1. CASE d = c
      BY <1>2, <1>8, <3>1 DEF Offered
    <3>2. CASE d # c
      BY <1>2, <1>3, <1>8, <1>12, <2>1, <3>2 DEF Offered
    <3> QED
      BY <3>1, <3>2
  <2>3. KnownOpen(d)'
    BY <1>2, <1>3, <1>11, <2>1 DEF KnownOpen
  <2>4. EntryBeforeSave(d)' /\ UnsettledBeforeSave(d)' /\ SaveIsLogged(d)'
    BY <1>2, <1>3, <1>8, <1>12, <2>1 DEF EntryBeforeSave, UnsettledBeforeSave, SaveIsLogged
  <2>5. SentSince(d)' /\ EntryAfterSave(d)' /\ NewIsLogged(d)'
    BY <1>2, <1>3, <1>8, <1>11, <2>1 DEF SentSince, EntryAfterSave, NewIsLogged
  <2> QED
    BY <2>2, <2>3, <2>4, <2>5
<1>17. ASSUME NEW d \in Changes PROVE UndoneSavedMarks(d)'
  <2>1. SUFFICES ASSUME d \in (startup \ running) \ unsettled,
                        ~Excused({"misordered", "pruned", "lostWrite", "lostSave"})
                 PROVE  \E x \in Undos : UndoneSince(d, x)'
    BY <1>2, <1>3 DEF UndoneSavedMarks
  <2>2. PICK x \in Undos : UndoneSince(d, x)
    BY <2>1 DEF IInv, UndoneSavedMarks
  <2>3. IsNewer(LatestSavedUndo, LatestSave) => IsNewer(LatestSavedUndo, LatestSave)'
    BY <1>1, <1>8, <1>9 DEF IsNewer
  <2>4. /\ target'[x] = d
        /\ \A y \in Saves : Running(y)' => x \in since'[y]
    BY <1>2, <1>11, <2>2 DEF UndoneSince
  <2>5. CASE x # u
    BY <1>11, <1>12, <2>2, <2>3, <2>4, <2>5 DEF UndoneSince
  <2>6. CASE x = u
    <3>1. d = c
      BY <2>2, <2>6 DEF UndoneSince, c
    <3>2. SaveRuns \/ (LatestSave # 0 /\ (EntryOf(c) = 0 \/ EntryOf(c) < LatestSave))
      BY <2>1, <3>1 DEF IInv, EntryBeforeSave, SaveIsLogged
    <3>3. LatestSave # 0 /\ (EntryOf(c) = 0 \/ EntryOf(c) < LatestSave) => PostSave(u)
      BY <1>9 DEF PostSave, IsNewer, c
    <3>4. PostSave(u) /\ LatestSave # 0 => IsNewer(LatestSavedUndo, LatestSave)'
      BY <1>1, <1>8, <1>9 DEF IsNewer
    <3>5. SaveRuns' \/ IsNewer(LatestSavedUndo, LatestSave)'
      BY <1>12, <3>2, <3>3, <3>4
    <3> QED
      BY <1>11, <2>4, <2>6, <3>5 DEF UndoneSince
  <2> QED
    BY <2>5, <2>6
<1>18. ASSUME NEW x \in Undos PROVE UndoOfNew(x)' /\ UndoOfSaved(x)'
  <2>1. UndoOfNew(x) /\ UndoOfSaved(x)
    BY DEF IInv
  <2>2. CASE x = u
    BY <1>11, <2>2 DEF UndoOfNew, UndoOfSaved
  <2>3. CASE target[x] = c
    <3>1. UndoableOf(target[x])' = 0
      BY <1>2, <1>8, <2>3
    <3> QED
      BY <3>1 DEF UndoOfNew, UndoOfSaved
  <2>4. CASE x # u /\ target[x] # c
    <3>1. UndoOfNew(x)'
      BY <1>2, <1>3, <1>8, <1>11, <1>12, <2>1, <2>4 DEF UndoOfNew
    <3>2. UndoOfSaved(x)'
      BY <1>2, <1>3, <1>8, <1>11, <1>12, <2>1, <2>4 DEF UndoOfSaved
    <3> QED
      BY <3>1, <3>2
  <2> QED
    BY <2>2, <2>3, <2>4
<1>19. SavedUndoIsRight'
  <2>1. SUFFICES ASSUME ~Excused({"misordered", "again", "lostSave", "lostUndo"})',
                        NEW i \in DOMAIN log', log'[i].kind = "savedUndo", i > LatestSave
                 PROVE  log'[i].of \in startup \ running \/ SaveRuns \/ UndoesAgain'
    BY <1>2, <1>8, <1>12 DEF SavedUndoIsRight
  <2>2. UndoableOf(c) # 0 /\ c \notin unsettled /\ ~Late(u)
    BY <1>3, <2>1
  <2>3. CASE i \in DOMAIN log /\ log'[i] = s[i]
    <3>1. log[i].kind = "savedUndo" /\ log'[i].of = log[i].of
      BY <1>4, <2>1, <2>3
    <3>2. log[i].of \in startup \ running \/ SaveRuns \/ UndoesAgain
      BY <1>3, <2>1, <2>3, <3>1 DEF IInv, SavedUndoIsRight
    <3> QED
      BY <1>13, <2>2, <3>1, <3>2
  <2>4. CASE log'[i] = e
    <3>1. PostSave(u) /\ log'[i].of = c
      BY <1>5, <2>1, <2>4
    <3>2. UndoableOf(c) < LatestSave
      BY <1>9, <2>2, <3>1 DEF PostSave, IsNewer, c
    <3>3. c \in startup \/ CopiedUnder(u) \/ UndoRunsToo(u)
      BY <1>3, <1>11, <2>1, <2>2, <3>2 DEF IInv, UndoOfSaved, c
    <3>4. CopiedUnder(u) => SaveRuns
      BY <2>2 DEF CopiedUnder, Late, SaveRuns, Running
    <3>5. ASSUME UndoRunsToo(u) PROVE UndoesAgain'
      <4>1. PICK x \in Undos \ {u} : Running(x) /\ target[x] = c
        BY <3>5 DEF UndoRunsToo, c
      <4>2. Running(x)' /\ UndoableOf(target[x])' = 0
        BY <1>2, <1>8, <1>11, <4>1
      <4> QED
        BY <4>2 DEF UndoesAgain
    <3> QED
      BY <1>2, <3>1, <3>3, <3>4, <3>5
  <2> QED
    BY <1>7, <2>3, <2>4
<1> QED
  BY <1>20, <1>10, <1>14, <1>15, <1>16, <1>17, <1>18, <1>19 DEF IInv

-------------------------------------------------------------------------------
(* The log and the process *)

\* Deleting the oldest entry leaves the order of the others.
LEMMA PruneKeeps ==
  ASSUME ConstantsOK, IInv, Prune
  PROVE  IInv'
<1> USE DEF Excused
<1>1. /\ TypeOK /\ Begun /\ TornIsFailed /\ LoggedOnce /\ log \in Seq(Entries) /\ Len(log) \in Nat
      /\ Changes \subseteq Requests /\ Saves \subseteq Requests /\ Undos \subseteq Requests
  BY TypeFacts DEF IInv
<1>2. /\ log # <<>> /\ log' = Tail(log) /\ excuses' = excuses \cup {"pruned"}
      /\ UNCHANGED <<running, startup, torn, tornSaved, unsettled, pc, way, target, losses, open, since>>
  BY DEF Prune, switch
<1>3. /\ log' \in Seq(Entries)
      /\ \A i \in DOMAIN log' : /\ i \in Nat /\ i + 1 \in Nat /\ i # 0 /\ i + 1 \in DOMAIN log
                                /\ log'[i] = log[i + 1]
  <2>1. /\ Tail(log) \in Seq(Entries) /\ Len(Tail(log)) = Len(log) - 1
        /\ \A i \in 1..Len(Tail(log)) : Tail(log)[i] = log[i + 1]
    BY <1>1, <1>2, HeadTailProperties
  <2>2. DOMAIN log' = 1..(Len(log) - 1) /\ DOMAIN log = 1..Len(log)
    BY <1>1, <1>2, <2>1
  <2> QED
    BY <1>1, <1>2, <2>1, <2>2
<1>4. /\ LatestSave' = Down(LatestSave) /\ LatestSavedUndo' = Down(LatestSavedUndo)
      /\ \A d : EntryOf(d)' = Down(EntryOf(d)) /\ UndoableOf(d)' = Down(UndoableOf(d))
  BY <1>1, <1>2, ReadsAfterTail
<1>5. /\ LatestSave \in Nat /\ LatestSavedUndo \in Nat
      /\ \A d : EntryOf(d) \in Nat /\ UndoableOf(d) \in Nat
  BY <1>1, ReadsAreNat
<1>6. TypeOK'
  <2>1. log' \in Seq([kind : Kinds, of : Changes \cup {NoChange}, undoable : BOOLEAN])
    BY <1>3 DEF Entries
  <2>2. \A i \in DOMAIN log' : log'[i].undoable => log'[i].kind = "write"
    BY <1>1, <1>3 DEF TypeOK
  <2>3. pruned' \in 0..MaxPruned
    BY <1>1 DEF Prune, TypeOK, ConstantsOK
  <2>4. excuses' \subseteq Excuses
    BY <1>1, <1>2 DEF TypeOK, Excuses
  <2> QED
    BY <1>1, <1>2, <2>1, <2>2, <2>3, <2>4 DEF TypeOK
<1>7. /\ \A r : Running(r)' = Running(r)
      /\ SaveRuns' = SaveRuns
      /\ \A d : UndoRuns(d)' = UndoRuns(d)
      /\ \A u : CopiedUnder(u)' = CopiedUnder(u) /\ UndoRunsToo(u)' = UndoRunsToo(u)
  BY <1>2 DEF Running, SaveRuns, UndoRuns, CopiedUnder, UndoRunsToo
<1>8. UndoesAgain => UndoesAgain'
  <2>1. SUFFICES ASSUME NEW u \in Undos, Running(u), UndoableOf(target[u]) = 0
                 PROVE  UndoesAgain'
    BY DEF UndoesAgain
  <2>2. Running(u)' /\ UndoableOf(target[u])' = 0
    BY <1>2, <1>4, <1>7, <2>1 DEF Down
  <2> QED
    BY <2>2 DEF UndoesAgain
<1>9. Begun'
  BY <1>1, <1>2 DEF Begun, Running
<1>15. TornIsFailed' /\ \A d \in Changes : TornIsExcused(d)'
  BY <1>1, <1>2, TornKept DEF IInv
<1>10. LoggedOnce'
  <2>1. \A i \in DOMAIN log' : log'[i].kind = "write" =>
          log'[i].of \in Changes /\ pc'[log'[i].of] = "done"
    BY <1>1, <1>2, <1>3 DEF LoggedOnce
  <2>2. ASSUME NEW i \in DOMAIN log', NEW k \in DOMAIN log', log'[i].kind = "write",
               log'[k].kind = "write", log'[i].of = log'[k].of
        PROVE  i = k
    <3>1. i + 1 = k + 1
      BY <1>1, <1>3, <2>2 DEF LoggedOnce
    <3> QED
      BY <1>3, <3>1
  <2> QED
    BY <2>1, <2>2 DEF LoggedOnce
<1>11. ASSUME NEW d \in Changes
       PROVE  (/\ Offered(d) /\ KnownOpen(d) /\ EntryBeforeSave(d) /\ UnsettledBeforeSave(d)
               /\ SaveIsLogged(d)
               /\ SentSince(d) /\ EntryAfterSave(d) /\ NewIsLogged(d))'
  <2>1. /\ Offered(d) /\ KnownOpen(d) /\ EntryBeforeSave(d) /\ UnsettledBeforeSave(d)
        /\ SaveIsLogged(d)
        /\ SentSince(d) /\ EntryAfterSave(d) /\ NewIsLogged(d)
    BY DEF IInv
  <2>2. Offered(d)'
    <3>1. UndoableOf(d) # 0 => EntryOf(d) = UndoableOf(d)
      BY <1>1, OneEntry
    <3>2. /\ EntryOf(d)' # 0 => EntryOf(d) # 0 /\ (UndoableOf(d) # 0 => UndoableOf(d)' # 0)
          /\ UndoableOf(d)' # 0 => UndoableOf(d) # 0
      BY <1>4, <1>5, <3>1 DEF Down
    <3> QED
      BY <1>2, <1>7, <2>1, <3>2 DEF Offered
  <2>3. KnownOpen(d)'
    BY <1>2, <1>7, <2>1 DEF KnownOpen
  <2>4. EntryBeforeSave(d)' /\ UnsettledBeforeSave(d)'
    <3>1. /\ EntryOf(d) = 0 => EntryOf(d)' = 0
          /\ EntryOf(d) < LatestSave => EntryOf(d)' = 0 \/ EntryOf(d)' < LatestSave'
      BY <1>4, <1>5 DEF Down
    <3> QED
      BY <1>2, <1>7, <2>1, <3>1 DEF EntryBeforeSave, UnsettledBeforeSave
  <2>5. EntryAfterSave(d)'
    <3>1. EntryOf(d)' # 0 /\ EntryOf(d)' < LatestSave' => EntryOf(d) # 0 /\ EntryOf(d) < LatestSave
      BY <1>4, <1>5 DEF Down
    <3> QED
      BY <1>2, <2>1, <3>1 DEF EntryAfterSave
  <2>6. SaveIsLogged(d)' /\ SentSince(d)' /\ NewIsLogged(d)'
    BY <1>2, <1>7, <2>1 DEF SaveIsLogged, SentSince, NewIsLogged
  <2> QED
    BY <2>2, <2>3, <2>4, <2>5, <2>6
<1>12. \A d \in Changes : UndoneSavedMarks(d)'
  BY <1>2 DEF UndoneSavedMarks
<1>13. ASSUME NEW u \in Undos PROVE UndoOfNew(u)' /\ UndoOfSaved(u)'
  <2>1. UndoOfNew(u) /\ UndoOfSaved(u)
    BY DEF IInv
  <2>2. /\ target'[u] = target[u]
        /\ UndoableOf(target[u])' # 0 => UndoableOf(target[u]) # 0
        /\ UndoableOf(target[u])' # 0 /\ UndoableOf(target[u])' < LatestSave'
             => UndoableOf(target[u]) < LatestSave
    BY <1>2, <1>4, <1>5 DEF Down
  <2>3. UndoOfNew(u)'
    BY <1>2, <1>7, <2>1, <2>2 DEF UndoOfNew
  <2>4. UndoOfSaved(u)'
    BY <1>2, <1>7, <2>1, <2>2 DEF UndoOfSaved
  <2> QED
    BY <2>3, <2>4
<1>14. SavedUndoIsRight'
  <2>1. SUFFICES ASSUME ~Excused({"misordered", "again", "lostSave", "lostUndo"}),
                        NEW i \in DOMAIN log', log'[i].kind = "savedUndo", i > LatestSave'
                 PROVE  log'[i].of \in startup \ running \/ SaveRuns \/ UndoesAgain'
    BY <1>2, <1>7 DEF SavedUndoIsRight
  <2>2. i + 1 > LatestSave
    BY <1>3, <1>4, <1>5, <2>1 DEF Down
  <2>3. i + 1 \in DOMAIN log /\ log[i + 1].kind = "savedUndo" /\ log'[i].of = log[i + 1].of
    BY <1>3, <2>1
  <2> QED
    BY <1>8, <2>1, <2>2, <2>3 DEF IInv, SavedUndoIsRight
<1> QED
  BY <1>15, <1>6, <1>9, <1>10, <1>11, <1>12, <1>13, <1>14 DEF IInv

\* After a kill nothing is in flight, and what was is an excuse.
LEMMA CrashKeeps ==
  ASSUME ConstantsOK, IInv, Crash
  PROVE  IInv'
<1> USE DEF Excused
<1>1. /\ TypeOK /\ Begun /\ TornIsFailed /\ LoggedOnce
      /\ Changes \subseteq Requests /\ Saves \subseteq Requests /\ Undos \subseteq Requests
  BY TypeFacts DEF IInv
<1>2. /\ \A r \in Requests : pc'[r] = IF pc[r] \in {"sending", "sent"} THEN "failed" ELSE pc[r]
      /\ UNCHANGED <<running, startup, torn, tornSaved, log, way, target, pruned>>
      /\ unsettled' = unsettled \cup UndoneBy({q \in Requests : Running(q)})
      /\ excuses' = excuses \cup {Loss(r) : r \in {q \in Requests : Running(q)}}
  BY DEF Crash, Over, switch
<1>3. /\ excuses \subseteq excuses'
      /\ "lostWrite" \notin excuses' => \A c \in Changes : ~Running(c)
      /\ "lostSave" \notin excuses' => \A s \in Saves : ~Running(s)
      /\ "lostUndo" \notin excuses' => \A u \in Undos : ~Running(u)
  <2>1. \A r \in Requests : Running(r) => Loss(r) \in excuses'
    BY <1>2
  <2> QED
    BY <1>1, <1>2, <2>1 DEF Loss, ConstantsOK
<1>12. /\ unsettled \subseteq unsettled'
       /\ \A u \in Undos : Running(u) => target[u] \in unsettled'
       /\ \A c \in unsettled' \ unsettled : c \in Changes /\ pc[c] = "done"
       /\ "lostUndo" \notin excuses' => unsettled' = unsettled
  BY <1>1, <1>2, <1>3 DEF UndoneBy, Begun, Running
<1>4. /\ LatestSave' = LatestSave /\ LatestSavedUndo' = LatestSavedUndo
      /\ \A d : EntryOf(d)' = EntryOf(d) /\ UndoableOf(d)' = UndoableOf(d)
  BY <1>2, ReadsKept
<1>5. TypeOK'
  <2>1. /\ pc' \in [Requests -> Phases] /\ open' \in [Saves -> SUBSET Requests]
        /\ since' \in [Saves -> SUBSET Requests]
    BY <1>1 DEF Crash, Over, TypeOK, Phases
  <2>2. losses' \in 0..MaxLosses
    BY <1>1 DEF Crash, TypeOK, ConstantsOK
  <2>3. excuses' \subseteq Excuses
    BY <1>1, <1>2 DEF TypeOK, Excuses, Loss
  <2>4. unsettled' \subseteq Changes
    BY <1>1, <1>12 DEF TypeOK
  <2> QED
    BY <1>1, <1>2, <2>1, <2>2, <2>3, <2>4 DEF TypeOK
<1>6. /\ \A r \in Requests : ~Running(r)' /\ pc'[r] # "sending" /\ (pc[r] # "idle" => pc'[r] # "idle")
      /\ \A r \in Requests : pc[r] \in {"done", "failed"} => pc'[r] = pc[r]
      /\ ~SaveRuns' /\ ~UndoesAgain'
  BY <1>1, <1>2 DEF Running, SaveRuns, UndoesAgain
<1>7. Begun'
  <2>1. running \subseteq Requests /\ startup \subseteq Requests
    BY <1>1 DEF TypeOK
  <2> QED
    BY <1>1, <1>2, <1>6, <2>1 DEF Begun, Running
<1>13. TornIsFailed' /\ \A d \in Changes : TornIsExcused(d)'
  BY <1>1, <1>2, <1>3, <1>6, <1>12, TornKept DEF IInv
<1>8. LoggedOnce'
  BY <1>1, <1>2, <1>6 DEF LoggedOnce
<1>9. ASSUME NEW d \in Changes
      PROVE  (/\ Offered(d) /\ KnownOpen(d) /\ EntryBeforeSave(d) /\ UnsettledBeforeSave(d)
              /\ SaveIsLogged(d)
              /\ UndoneSavedMarks(d) /\ SentSince(d) /\ EntryAfterSave(d) /\ NewIsLogged(d))'
  <2>1. /\ Offered(d) /\ EntryBeforeSave(d) /\ UnsettledBeforeSave(d) /\ SaveIsLogged(d)
        /\ UndoneSavedMarks(d) /\ EntryAfterSave(d) /\ NewIsLogged(d)
    BY DEF IInv
  <2>2. Offered(d)'
    BY <1>2, <1>4, <1>12, <2>1 DEF Offered, UndoRuns
  <2>3. KnownOpen(d)' /\ SentSince(d)'
    BY <1>1, <1>6 DEF KnownOpen, SentSince
  <2>4. EntryBeforeSave(d)' /\ UnsettledBeforeSave(d)' /\ SaveIsLogged(d)'
    BY <1>1, <1>2, <1>3, <1>4, <1>12, <2>1
       DEF EntryBeforeSave, UnsettledBeforeSave, SaveIsLogged, SaveRuns
  <2>5. EntryAfterSave(d)' /\ NewIsLogged(d)'
    BY <1>2, <1>3, <1>4, <2>1 DEF EntryAfterSave, NewIsLogged
  <2>6. UndoneSavedMarks(d)'
    <3>1. SUFFICES ASSUME d \in (startup \ running) \ unsettled',
                          ~Excused({"misordered", "pruned", "lostWrite", "lostSave"})'
                   PROVE  \E u \in Undos : UndoneSince(d, u)'
      BY <1>2 DEF UndoneSavedMarks
    <3>2. PICK u \in Undos : UndoneSince(d, u)
      BY <1>3, <1>12, <2>1, <3>1 DEF UndoneSavedMarks
    <3>3. ~Running(u) /\ ~SaveRuns
      BY <1>3, <1>12, <3>1, <3>2 DEF SaveRuns, UndoneSince
    <3>4. UndoneSince(d, u)'
      BY <1>1, <1>2, <1>4, <1>6, <3>2, <3>3 DEF UndoneSince, IsNewer
    <3> QED
      BY <3>4
  <2> QED
    BY <2>2, <2>3, <2>4, <2>5, <2>6
<1>10. \A u \in Undos : UndoOfNew(u)' /\ UndoOfSaved(u)'
  BY <1>1, <1>6 DEF UndoOfNew, UndoOfSaved
<1>11. SavedUndoIsRight'
  <2>1. SUFFICES ASSUME ~Excused({"misordered", "again", "lostSave", "lostUndo"})',
                        NEW i \in DOMAIN log, log[i].kind = "savedUndo", i > LatestSave
                 PROVE  log[i].of \in startup \ running
    BY <1>2, <1>4 DEF SavedUndoIsRight
  <2>2. ~SaveRuns /\ ~UndoesAgain
    BY <1>3, <2>1 DEF SaveRuns, UndoesAgain
  <2> QED
    BY <1>3, <2>1, <2>2 DEF IInv, SavedUndoIsRight
<1> QED
  BY <1>13, <1>5, <1>7, <1>8, <1>9, <1>10, <1>11 DEF IInv

\* A request whose entry is lost ends like one that logged, and is an excuse.
LEMMA LogFailsKeeps ==
  ASSUME ConstantsOK, IInv, NEW r \in Requests, LogFails(r)
  PROVE  IInv'
<1> USE DEF Excused
<1>1. /\ TypeOK /\ Begun /\ TornIsFailed /\ LoggedOnce /\ log \in Seq(Entries) /\ Len(log) \in Nat
      /\ Changes \subseteq Requests /\ Saves \subseteq Requests /\ Undos \subseteq Requests
  BY TypeFacts DEF IInv
<1>2. /\ pc[r] = "sent" /\ losses' = losses + 1 /\ losses < MaxLosses
      /\ \A q \in Requests : pc'[q] = IF q = r THEN "done" ELSE pc[q]
      /\ \A s \in Saves : open'[s] = open[s] \ {r} /\ (s # r => since'[s] = since[s])
      /\ UNCHANGED <<running, startup, torn, tornSaved, way, target, pruned>>
      /\ unsettled' = unsettled \cup UndoneBy({r})
      /\ excuses' = excuses \cup {Loss(r)}
  BY <1>1 DEF LogFails, Over, Running, switch
<1>3. /\ r \in Changes => "lostWrite" \in excuses'
      /\ r \in Saves => "lostSave" \in excuses'
      /\ r \in Undos => "lostUndo" \in excuses'
      /\ excuses \subseteq excuses'
  BY <1>2 DEF Loss, ConstantsOK
<1>13. /\ unsettled \subseteq unsettled'
       /\ r \in Undos => target[r] \in unsettled'
       /\ \A c \in unsettled' \ unsettled : c \in Changes /\ pc[c] = "done"
       /\ "lostUndo" \notin excuses' => unsettled' = unsettled
  BY <1>1, <1>2, <1>3 DEF UndoneBy, Begun
<1>4. /\ log' \in Seq(Entries) /\ DOMAIN log' = DOMAIN log
      /\ \A i \in DOMAIN log : /\ log'[i].kind = log[i].kind /\ log'[i].of = log[i].of
                               /\ log'[i].undoable => log[i].undoable
      /\ LatestSave' = LatestSave /\ LatestSavedUndo' = LatestSavedUndo
      /\ \A d : EntryOf(d)' = EntryOf(d)
      /\ \A d \in Changes : \/ UndoableOf(d)' = UndoableOf(d)
                            \/ r \in Undos /\ d = target[r] /\ UndoableOf(d)' = 0
  <2>1. CASE log' = log
    BY <1>1, <2>1, ReadsKept
  <2>2. ASSUME r \in Undos, log' = Consume(log, UndoableOf(target[r]))
        PROVE  /\ log' \in Seq(Entries) /\ DOMAIN log' = DOMAIN log
               /\ \A i \in DOMAIN log : /\ log'[i].kind = log[i].kind /\ log'[i].of = log[i].of
                                        /\ log'[i].undoable => log[i].undoable
               /\ LatestSave' = LatestSave /\ LatestSavedUndo' = LatestSavedUndo
               /\ \A d : EntryOf(d)' = EntryOf(d)
               /\ \A d : UndoableOf(d)' = IF d = target[r] THEN 0 ELSE UndoableOf(d)
    <3> DEFINE s == Consume(log, UndoableOf(target[r]))
    <3>1. target[r] \in Changes
      BY <1>1, <1>2, <2>2 DEF Begun
    <3>2. /\ s \in Seq(Entries) /\ DOMAIN s = DOMAIN log
          /\ \A i \in DOMAIN log : /\ s[i].kind = log[i].kind /\ s[i].of = log[i].of
                                   /\ s[i].undoable => log[i].undoable
      BY <1>1, ConsumeKeeps
    <3>3. /\ NewestOf(s, SavesIn) = LatestSave /\ NewestOf(s, SavedUndosIn) = LatestSavedUndo
          /\ \A d : NewestOf(s, WritesOf(d)) = EntryOf(d)
          /\ \A d : NewestOf(s, UndoablesOf(d)) = IF d = target[r] THEN 0 ELSE UndoableOf(d)
      BY <1>1, <3>1, OneEntry, ReadsAfterConsume
    <3>4. log' = s
      BY <2>2
    <3> HIDE DEF s
    <3>5. LatestSave' = LatestSave /\ LatestSavedUndo' = LatestSavedUndo
      BY <3>2, <3>3, <3>4, NextReadsAreNewest
    <3>6. \A d : EntryOf(d)' = EntryOf(d)
      BY <3>2, <3>3, <3>4, NextReadsAreNewest
    <3>7. \A d : UndoableOf(d)' = IF d = target[r] THEN 0 ELSE UndoableOf(d)
      BY <3>2, <3>3, <3>4, NextReadsAreNewest
    <3> QED
      BY <3>2, <3>4, <3>5, <3>6, <3>7
  <2>3. log' = log \/ (r \in Undos /\ log' = Consume(log, UndoableOf(target[r])))
    BY DEF LogFails
  <2> QED
    BY <2>1, <2>2, <2>3
<1>5. TypeOK'
  <2>1. /\ pc' \in [Requests -> Phases] /\ open' \in [Saves -> SUBSET Requests]
        /\ since' \in [Saves -> SUBSET Requests]
    BY <1>1 DEF LogFails, Over, TypeOK, Phases
  <2>2. losses' \in 0..MaxLosses
    BY <1>1, <1>2 DEF TypeOK, ConstantsOK
  <2>3. excuses' \subseteq Excuses
    BY <1>1, <1>2 DEF TypeOK, Excuses, Loss
  <2>4. log' \in Seq([kind : Kinds, of : Changes \cup {NoChange}, undoable : BOOLEAN])
    BY <1>4 DEF Entries
  <2>5. \A i \in DOMAIN log' : log'[i].undoable => log'[i].kind = "write"
    BY <1>1, <1>4 DEF TypeOK
  <2>6. unsettled' \subseteq Changes
    BY <1>1, <1>13 DEF TypeOK
  <2> QED
    BY <1>1, <1>2, <2>1, <2>2, <2>3, <2>4, <2>5, <2>6 DEF TypeOK
<1>6. /\ \A q \in Requests \ {r} : pc'[q] = pc[q] /\ Running(q)' = Running(q)
      /\ ~Running(r)' /\ pc'[r] = "done" /\ Running(r)
      /\ \A q \in Requests : pc[q] \in {"sent", "done"} => pc'[q] \in {"sent", "done"}
  BY <1>2 DEF Running
<1>7. /\ r \notin Saves => SaveRuns' = SaveRuns
      /\ r \notin Undos => \A d : UndoRuns(d)' = UndoRuns(d)
      /\ r \notin Undos /\ UndoesAgain => UndoesAgain'
      /\ \A u \in Undos \ {r} : CopiedUnder(u) => CopiedUnder(u)'
      /\ r \notin Undos => \A u \in Undos : UndoRunsToo(u)' = UndoRunsToo(u)
  <2>1. r \notin Saves => SaveRuns' = SaveRuns
    BY <1>1, <1>6 DEF SaveRuns
  <2>2. r \notin Undos => \A d : UndoRuns(d)' = UndoRuns(d)
    BY <1>1, <1>2, <1>6 DEF UndoRuns
  <2>3. r \notin Undos /\ UndoesAgain => UndoesAgain'
    <3>1. SUFFICES ASSUME r \notin Undos, NEW u \in Undos, Running(u),
                          UndoableOf(target[u]) = 0
                   PROVE  UndoesAgain'
      BY DEF UndoesAgain
    <3>2. target[u] \in Changes
      BY <1>1, <3>1 DEF Begun, Running
    <3>3. Running(u)' /\ UndoableOf(target[u])' = 0
      BY <1>1, <1>2, <1>4, <1>6, <3>1, <3>2
    <3> QED
      BY <3>3 DEF UndoesAgain
  <2>4. \A u \in Undos \ {r} : CopiedUnder(u) => CopiedUnder(u)'
    BY <1>1, <1>2, <1>6 DEF CopiedUnder
  <2>5. r \notin Undos => \A u \in Undos : UndoRunsToo(u)' = UndoRunsToo(u)
    BY <1>1, <1>2, <1>6 DEF UndoRunsToo
  <2> QED
    BY <2>1, <2>2, <2>3, <2>4, <2>5
<1>8. Begun'
  <2>1. \A d \in running' \cup startup' : pc'[d] # "idle"
    BY <1>1, <1>2 DEF Begun, TypeOK
  <2>2. \A d \in Changes : Running(d)' => d \in running'
    BY <1>1, <1>2, <1>6 DEF Begun
  <2>3. ASSUME NEW u \in Undos, pc'[u] \in {"sending", "sent"}
        PROVE  /\ target'[u] \in Changes /\ pc'[target'[u]] = "done"
               /\ Running(u)' => target'[u] \notin running'
    <3>1. u # r /\ pc[u] = pc'[u] /\ Running(u)' = Running(u)
      BY <1>1, <1>6, <2>3
    <3> QED
      BY <1>1, <1>2, <2>3, <3>1 DEF Begun
  <2> QED
    BY <2>1, <2>2, <2>3 DEF Begun, Running
<1>14. TornIsFailed' /\ \A d \in Changes : TornIsExcused(d)'
  BY <1>1, <1>2, <1>3, <1>13, TornKept DEF IInv
<1>9. LoggedOnce'
  <2>1. \A c \in Changes : pc[c] = "done" => pc'[c] = "done"
    BY <1>1, <1>2
  <2> QED
    BY <1>1, <1>4, <2>1 DEF LoggedOnce
<1>10. ASSUME NEW d \in Changes
       PROVE  (/\ Offered(d) /\ KnownOpen(d) /\ EntryBeforeSave(d) /\ UnsettledBeforeSave(d)
               /\ SaveIsLogged(d)
               /\ UndoneSavedMarks(d) /\ SentSince(d) /\ EntryAfterSave(d) /\ NewIsLogged(d))'
  <2>1. /\ Offered(d) /\ KnownOpen(d) /\ EntryBeforeSave(d) /\ UnsettledBeforeSave(d)
        /\ SaveIsLogged(d)
        /\ UndoneSavedMarks(d) /\ SentSince(d) /\ EntryAfterSave(d) /\ NewIsLogged(d)
    BY DEF IInv
  <2>2. Offered(d)'
    <3>1. r \in Undos => target[r] \notin running
      BY <1>1, <1>6 DEF Begun
    <3>2. EntryOf(d)' = EntryOf(d) /\ (d \in running => UndoableOf(d)' = UndoableOf(d))
      BY <1>4, <3>1
    <3>3. d \in running /\ EntryOf(d)' # 0 => UndoableOf(d)' # 0
      BY <2>1, <3>2 DEF Offered
    <3>4. ASSUME d \notin unsettled', UndoableOf(d)' # 0
          PROVE  d \in running \/ UndoRuns(d)'
      <4>1. (r \in Undos => target[r] # d) /\ UndoableOf(d) # 0 /\ d \notin unsettled
        BY <1>4, <1>13, <3>4
      <4>2. UndoRuns(d) => UndoRuns(d)'
        BY <1>1, <1>2, <1>6, <4>1 DEF UndoRuns
      <4> QED
        BY <2>1, <4>1, <4>2 DEF Offered
    <3> QED
      BY <1>2, <3>3, <3>4 DEF Offered
  <2>3. KnownOpen(d)'
    BY <1>1, <1>2, <1>3, <1>6, <2>1 DEF KnownOpen
  <2>4. EntryBeforeSave(d)' /\ UnsettledBeforeSave(d)' /\ SaveIsLogged(d)'
    BY <1>2, <1>3, <1>4, <1>7, <1>13, <2>1
       DEF EntryBeforeSave, UnsettledBeforeSave, SaveIsLogged
  <2>5. SentSince(d)'
    BY <1>1, <1>2, <1>6, <2>1 DEF SentSince
  <2>6. EntryAfterSave(d)' /\ NewIsLogged(d)'
    BY <1>1, <1>2, <1>3, <1>4, <1>6, <2>1 DEF EntryAfterSave, NewIsLogged
  <2>7. UndoneSavedMarks(d)'
    <3>1. SUFFICES ASSUME d \in (startup \ running) \ unsettled',
                          ~Excused({"misordered", "pruned", "lostWrite", "lostSave"})'
                   PROVE  \E u \in Undos : UndoneSince(d, u)'
      BY <1>2 DEF UndoneSavedMarks
    <3>2. PICK u \in Undos : UndoneSince(d, u)
      BY <1>3, <1>13, <2>1, <3>1 DEF UndoneSavedMarks
    <3>3. r \notin Saves /\ r # u
      BY <1>3, <1>13, <3>1, <3>2 DEF UndoneSince
    <3>4. UndoneSince(d, u)'
      BY <1>1, <1>2, <1>4, <1>6, <1>7, <3>2, <3>3 DEF UndoneSince, IsNewer
    <3> QED
      BY <3>4
  <2> QED
    BY <2>2, <2>3, <2>4, <2>5, <2>6, <2>7
<1>11. ASSUME NEW u \in Undos PROVE UndoOfNew(u)' /\ UndoOfSaved(u)'
  <2>1. UndoOfNew(u) /\ UndoOfSaved(u)
    BY DEF IInv
  <2>2. SUFFICES ASSUME r \notin Saves, r # u, Running(u), target[u] \notin unsettled'
                 PROVE  UndoOfNew(u)' /\ UndoOfSaved(u)'
    BY <1>1, <1>2, <1>3, <1>6 DEF UndoOfNew, UndoOfSaved
  <2>3. /\ target'[u] = target[u] /\ target[u] \notin unsettled
        /\ UndoableOf(target[u])' = UndoableOf(target[u])
        /\ UndoRunsToo(u) => UndoRunsToo(u)'
    <3>1. target[u] \in Changes /\ target[u] \notin unsettled
      BY <1>1, <1>13, <2>2 DEF Begun, Running
    <3>2. r \in Undos => target[r] # target[u]
      BY <1>13, <2>2
    <3>3. UndoRunsToo(u) => UndoRunsToo(u)'
      BY <1>1, <1>2, <1>6, <3>2 DEF UndoRunsToo
    <3> QED
      BY <1>2, <1>4, <2>2, <3>1, <3>2, <3>3
  <2>4. UndoOfNew(u)'
    BY <1>1, <1>2, <1>3, <1>6, <1>7, <2>1, <2>2, <2>3 DEF UndoOfNew
  <2>5. UndoOfSaved(u)'
    BY <1>2, <1>3, <1>4, <1>6, <1>7, <2>1, <2>2, <2>3 DEF UndoOfSaved
  <2> QED
    BY <2>4, <2>5
<1>12. SavedUndoIsRight'
  <2>1. SUFFICES ASSUME ~Excused({"misordered", "again", "lostSave", "lostUndo"})',
                        NEW i \in DOMAIN log, log[i].kind = "savedUndo", i > LatestSave
                 PROVE  log[i].of \in startup \ running \/ SaveRuns' \/ UndoesAgain'
    BY <1>2, <1>4 DEF SavedUndoIsRight
  <2> QED
    BY <1>3, <1>7, <2>1 DEF IInv, SavedUndoIsRight
<1> QED
  BY <1>14, <1>5, <1>8, <1>9, <1>10, <1>11, <1>12 DEF IInv
-------------------------------------------------------------------------------
(* The invariant and what it says *)

LEMMA InitIInv ==
  ASSUME ConstantsOK, Init
  PROVE  IInv
<1>1. TypeOK
  <2>1. pc \in [Requests -> Phases]
    BY DEF Init, Phases
  <2>2. log \in Seq([kind : Kinds, of : Changes \cup {NoChange}, undoable : BOOLEAN])
    BY DEF Init
  <2> QED
    BY <2>1, <2>2 DEF Init, TypeOK, ConstantsOK
<1>2. /\ log \in Seq(Entries) /\ DOMAIN log = {} /\ Len(log) = 0
  BY <1>1, TypeFacts DEF Init
<1>3. \A d : EntryOf(d) = 0 /\ UndoableOf(d) = 0
  BY <1>2, ReadsArePlaces
<1>4. /\ \A r \in Requests : pc[r] = "idle"
      /\ \A r \in Requests : ~Running(r)
      /\ running = {} /\ startup = {}
      /\ Changes \subseteq Requests /\ Saves \subseteq Requests /\ Undos \subseteq Requests
  BY DEF Init, Running, Requests
<1>5. Begun /\ TornIsFailed /\ \A d \in Changes : TornIsExcused(d)
  BY <1>4 DEF Init, Begun, TornIsFailed, TornIsExcused
<1>6. LoggedOnce
  BY <1>2 DEF LoggedOnce
<1>7. ASSUME NEW d \in Changes
      PROVE  /\ Offered(d) /\ TornIsExcused(d) /\ KnownOpen(d) /\ EntryBeforeSave(d) /\ UnsettledBeforeSave(d)
             /\ SaveIsLogged(d)
             /\ UndoneSavedMarks(d) /\ SentSince(d) /\ EntryAfterSave(d) /\ NewIsLogged(d)
  BY <1>3, <1>4, <1>5
     DEF Offered, KnownOpen, EntryBeforeSave, UnsettledBeforeSave, SaveIsLogged, UndoneSavedMarks,
                    SentSince, EntryAfterSave, NewIsLogged
<1>8. ASSUME NEW u \in Undos PROVE UndoOfNew(u) /\ UndoOfSaved(u)
  BY <1>4 DEF UndoOfNew, UndoOfSaved
<1>9. SavedUndoIsRight
  BY <1>2 DEF SavedUndoIsRight
<1> QED
  BY <1>1, <1>5, <1>6, <1>7, <1>8, <1>9 DEF IInv

LEMMA NextIInv ==
  ASSUME ConstantsOK, IInv, [Next]_vars
  PROVE  IInv'
<1>1. CASE \E c \in Changes : WriteSent(c) \/ WriteFailed(c) \/ WriteLogged(c)
  BY <1>1, WriteSentKeeps, WriteFailedKeeps, WriteLoggedKeeps
<1>2. CASE \E s \in Saves : SaveCopied(s) \/ SaveLogged(s) \/ SaveFailed(s)
  BY <1>2, SaveCopiedKeeps, SaveLoggedKeeps, SaveFailedKeeps
<1>3. CASE \E u \in Undos : \/ \E c \in Changes : UndoFromLog(u, c) \/ UndoDirect(u, c)
                            \/ UndoSent(u) \/ UndoFailed(u) \/ UndoLogged(u)
  BY <1>3, UndoSentKeeps, UndoFailedKeeps, UndoLoggedKeeps, BystandersKeep
<1>4. CASE Prune \/ Crash \/ \E r \in Requests : LogFails(r)
  BY <1>4, PruneKeeps, CrashKeeps, LogFailsKeeps
<1>5. CASE UNCHANGED vars
  <2>1. /\ UNCHANGED <<running, startup, torn, tornSaved, log, pc, way, target>>
        /\ UNCHANGED <<pruned, losses, open, since, unsettled, excuses>>
    BY <1>5 DEF vars, switch, ghosts
  <2>2. TypeOK' /\ Begun'
    BY <2>1 DEF IInv, TypeOK, Begun, Running
  <2> QED
    BY <2>1, <2>2, BystanderKeeps DEF Running, switch, ghosts
<1> QED
  BY <1>1, <1>2, <1>3, <1>4, <1>5 DEF Next

\* The invariant holds in every state, whatever the requests and the losses.
THEOREM Invariance == Spec => []IInv
<1>1. Init => IInv
  BY ConstantsOK, InitIInv
<1>2. IInv /\ [Next]_vars => IInv'
  BY ConstantsOK, NextIInv
<1> QED
  BY <1>1, <1>2, PTL DEF Spec

\* Every variable keeps to its type in every reachable state.
THEOREM TypeCorrect == Spec => []TypeOK
<1>1. IInv => TypeOK
  BY DEF IInv
<1> QED
  BY <1>1, Invariance, PTL

\* With no request in flight, a kept entry offers its undo while its change is wholly in
\* running-config, and only then, unless an undo of that change failed half way or was
\* not logged.
THEOREM UndoButtonsAreRight == Spec => []UndoOfferedIffPresent
<1>1. ASSUME IInv PROVE UndoOfferedIffPresent
  <2>1. SUFFICES ASSUME Quiet, NEW c \in Changes, EntryOf(c) # 0
                 PROVE  /\ c \in running => UndoableOf(c) # 0
                        /\ UndoableOf(c) # 0 => c \in running \cup unsettled
    BY DEF UndoOfferedIffPresent
  <2>2. ~UndoRuns(c)
    BY <2>1 DEF UndoRuns, Quiet, Running, Requests
  <2> QED
    BY <1>1, <2>1, <2>2 DEF IInv, Offered
<1> QED
  BY <1>1, Invariance, PTL

LEMMA QuietFacts ==
  ASSUME Quiet
  PROVE  /\ ~SaveRuns /\ ~UndoesAgain
         /\ \A c : ~UndoRuns(c)
         /\ \A c \in Changes : ~Running(c)
         /\ \A u \in Undos : ~Running(u)
  BY DEF Quiet, SaveRuns, UndoesAgain, UndoRuns, Running, Requests

\* A switch that is marked has something to save: an entry that still offers its undo
\* after the newest save is of a change the save did not copy, and an undo after the
\* save that says the change was saved is of one that startup-config still has.
THEOREM MarksAreTrue == Spec => []MarkedIsUnsaved
<1>1. ASSUME IInv PROVE MarkedIsUnsaved
  <2>0. Unsaved = {} => \A c \in Changes : c \in running <=> c \in startup
    BY DEF Unsaved
  <2>1. SUFFICES ASSUME Quiet, Pending, \A c \in Changes : c \in running <=> c \in startup,
                        excuses \cap {"misordered", "again", "lostSave", "lostUndo"} = {}
                 PROVE  FALSE
    BY <2>0 DEF MarkedIsUnsaved
  <2>2. /\ ~SaveRuns /\ ~UndoesAgain /\ \A c : ~UndoRuns(c)
    BY <2>1, QuietFacts
  <2>3. /\ TypeOK /\ LoggedOnce /\ log \in Seq(Entries) /\ DOMAIN log = 1..Len(log)
        /\ LatestSave \in Nat
    BY <1>1, ConstantsOK, TypeFacts, ReadsAreNat DEF IInv
  <2>4. ASSUME LatestUndoable # 0, LatestSave = 0 \/ IsNewer(LatestUndoable, LatestSave)
        PROVE  FALSE
    <3> DEFINE i == LatestUndoable
               d == log[i].of
    <3>1. i \in DOMAIN log /\ i \in Nat /\ log[i].undoable
      BY <2>3, <2>4, ReadsArePlaces
    <3>2. log[i].kind = "write"
      BY <2>3, <3>1 DEF TypeOK
    <3>3. d \in Changes
      BY <2>3, <3>1, <3>2 DEF LoggedOnce
    <3>4. i <= UndoableOf(d)
      BY <2>3, <3>1, ReadsArePlaces
    <3>5. UndoableOf(d) \in Nat
      BY <2>3, ConstantsOK, ReadsAreNat
    <3>6. UndoableOf(d) # 0
      BY <2>4, <3>1, <3>4, <3>5
    <3>7. EntryOf(d) = UndoableOf(d)
      BY <2>3, <3>3, <3>6, ConstantsOK, OneEntry
    <3> HIDE DEF d
    <3>8. d \in startup \/ d \in unsettled
      BY <1>1, <2>1, <2>2, <3>3, <3>6 DEF IInv, Offered
    <3>9. EntryOf(d) < LatestSave
      BY <1>1, <2>1, <2>2, <3>3, <3>6, <3>7, <3>8
         DEF IInv, EntryBeforeSave, UnsettledBeforeSave, Excused
    <3> QED
      BY <2>3, <2>4, <3>1, <3>4, <3>5, <3>7, <3>9 DEF IsNewer
  <2>5. ASSUME IsNewer(LatestSavedUndo, LatestSave) PROVE FALSE
    <3>1. /\ LatestSavedUndo \in DOMAIN log /\ log[LatestSavedUndo].kind = "savedUndo"
          /\ LatestSavedUndo > LatestSave
      BY <2>3, <2>5, ReadsArePlaces DEF IsNewer
    <3>2. log[LatestSavedUndo].of \in startup \ running
      BY <1>1, <2>1, <2>2, <3>1 DEF IInv, SavedUndoIsRight, Excused
    <3> QED
      BY <2>1, <2>3, <3>2 DEF TypeOK
  <2> QED
    BY <2>1, <2>4, <2>5 DEF Pending
<1> QED
  BY <1>1, Invariance, PTL

\* A difference between the configurations marks the switch: a change that was not
\* copied is logged after the newest save and offers its undo, and the undo of a change
\* that was copied comes after the save with the mark.
THEOREM DifferencesAreMarked == Spec => []UnsavedIsMarked
<1>1. ASSUME IInv PROVE UnsavedIsMarked
  <2>1. SUFFICES ASSUME Quiet, NEW d \in Unsaved \ unsettled,
                        excuses \cap {"misordered", "pruned", "lostWrite", "lostSave"} = {}
                 PROVE  Pending
    BY DEF UnsavedIsMarked
  <2>2. /\ ~SaveRuns /\ \A u \in Undos : ~Running(u)
        /\ \A c \in Changes : ~Running(c)
    BY <2>1, QuietFacts
  <2>3. /\ TypeOK /\ LoggedOnce /\ log \in Seq(Entries) /\ DOMAIN log = 1..Len(log)
        /\ running \subseteq Changes /\ startup \subseteq Changes
    BY <1>1, ConstantsOK, TypeFacts DEF IInv, TypeOK
  <2>6. d \in Changes /\ ((d \in running) # (d \in startup))
    <3>1. d \in Changes /\ (d \in torn <=> d \in tornSaved)
      BY <1>1, <2>1 DEF IInv, TornIsExcused, Excused, Unsaved
    <3> QED
      BY <2>1, <3>1 DEF Unsaved
  <2>4. ASSUME NEW c \in running \ startup PROVE Pending
    <3>1. c \in Changes /\ EntryOf(c) # 0
      BY <1>1, <2>1, <2>2, <2>3 DEF IInv, NewIsLogged, Excused
    <3>2. UndoableOf(c) # 0
      BY <1>1, <3>1 DEF IInv, Offered
    <3>3. EntryOf(c) = UndoableOf(c)
      BY <2>3, <3>1, <3>2, ConstantsOK, OneEntry
    <3>4. ~(EntryOf(c) < LatestSave)
      BY <1>1, <2>1, <3>1 DEF IInv, EntryAfterSave, Excused
    <3>5. /\ LatestSave \in Nat /\ LatestUndoable \in Nat
          /\ UndoableOf(c) \in 1..Len(log) /\ log[UndoableOf(c)].undoable
          /\ LatestSave # 0 => log[LatestSave].kind = "save"
      BY <2>3, <3>2, ReadsArePlaces
    <3>6. UndoableOf(c) <= LatestUndoable /\ log[UndoableOf(c)].kind = "write"
      BY <2>3, <3>5, ReadsArePlaces DEF TypeOK
    <3>7. LatestSave # 0 => UndoableOf(c) # LatestSave
      BY <3>5, <3>6
    <3>8. LatestUndoable # 0 /\ (LatestSave = 0 \/ LatestUndoable > LatestSave)
      BY <3>3, <3>4, <3>5, <3>6, <3>7
    <3> QED
      BY <3>8 DEF Pending, IsNewer
  <2>5. ASSUME NEW c \in (startup \ running) \ unsettled PROVE Pending
    <3>1. PICK u \in Undos : UndoneSince(c, u)
      BY <1>1, <2>1, <2>3 DEF IInv, UndoneSavedMarks, Excused
    <3> QED
      BY <2>2, <3>1 DEF UndoneSince, Pending
  <2> QED
    BY <2>1, <2>4, <2>5, <2>6
<1> QED
  BY <1>1, Invariance, PTL

=============================================================================
