---------------------------- MODULE ChangeTracking ----------------------------
(***************************************************************************)
(* How GIGACL tracks the unsaved changes of one switch of one administrator*)
(* and lets them be undone: the audit log is the only record. A successful *)
(* write logs an entry with its undo commands, a save logs a checkpoint,   *)
(* an undo consumes the entry it undoes, and the UNSAVED signal of the     *)
(* switch is computed from these entries on every read.                    *)
(*                                                                         *)
(* The switch is changed first and the log afterwards, with an await in    *)
(* between, so the log can record the steps of several requests in another *)
(* order than the switch took them. Log retention deletes the oldest       *)
(* entries; a process killed between the two steps, or a failed insert into*)
(* the log, leaves a step of the switch without its entry.                 *)
(*                                                                         *)
(* A change is the effect of one write; running and startup are the        *)
(* changes present in the two configurations of the switch. A command that *)
(* fails may have been obeyed in part, or wholly: a refused line comes     *)
(* after others that were taken, and an answer may be lost. torn and       *)
(* tornSaved are the changes of which only some lines are there. That a    *)
(* success is what it says is the business of RuleWrites and ConfigObjects;*)
(* what is configured without GIGACL is in no log and not modelled.        *)
(***************************************************************************)
EXTENDS Naturals, Sequences, FiniteSets, FiniteSetsExt

CONSTANTS
  Changes,     \* write requests, each with its effect
  Saves,       \* save-config requests
  Undos,       \* undo requests
  NoChange,    \* what a save entry is about
  MaxPruned,   \* bound: log entries ever deleted
  MaxLosses    \* bound: audit entries lost, by a kill or a failed insert

Requests == Changes \cup Saves \cup Undos

ASSUME ConstantsOK ==
  /\ Changes \cap Saves = {} /\ Changes \cap Undos = {} /\ Saves \cap Undos = {}
  /\ NoChange \notin Changes
  /\ MaxPruned \in Nat /\ MaxLosses \in Nat

VARIABLES
  running,   \* changes in running-config
  startup,   \* changes in startup-config
  torn,      \* changes of which only a part is in running-config
  tornSaved, \* changes of which only a part is in startup-config
  log,       \* audit entries of this user and switch, oldest first
  pc,        \* request -> its progress
  way,       \* undo -> "log" (/api/logs/undo) or "direct" (/api/write/undo)
  target,    \* undo -> the change it undoes
  pruned,    \* entries deleted so far
  losses,    \* kills and failed inserts so far
  open,      \* save -> requests sent but not logged when it copied
  since,     \* save -> requests sent after it copied and before it logged
  unsettled, \* changes an undo of which changed the switch and left no entry
  excuses    \* why the signal may be wrong until the next copy

switch == <<running, startup, torn, tornSaved>>
ghosts == <<open, since, unsettled, excuses>>
vars == <<switch, log, pc, way, target, pruned, losses, ghosts>>

Phases  == {"idle", "sending", "sent", "done", "failed"}
Kinds   == {"write", "save", "undo", "savedUndo"}
Excuses == {"misordered", "again", "pruned", "lostWrite", "lostSave", "lostUndo"}

\* An audit entry; only one of a write carries undo commands.
Entry(k, c, u) == [kind |-> k, of |-> c, undoable |-> u]

TypeOK ==
  /\ running \subseteq Changes
  /\ startup \subseteq Changes
  /\ torn \subseteq Changes /\ tornSaved \subseteq Changes
  /\ log \in Seq([kind : Kinds, of : Changes \cup {NoChange}, undoable : BOOLEAN])
  /\ \A i \in DOMAIN log : log[i].undoable => log[i].kind = "write"
  /\ pc \in [Requests -> Phases]
  /\ way \in [Undos -> {"log", "direct"}]
  /\ target \in [Undos -> Changes \cup {NoChange}]
  /\ pruned \in 0..MaxPruned
  /\ losses \in 0..MaxLosses
  /\ open \in [Saves -> SUBSET Requests]
  /\ since \in [Saves -> SUBSET Requests]
  /\ unsettled \subseteq Changes
  /\ excuses \subseteq Excuses

Init ==
  /\ running = {} /\ startup = {} /\ torn = {} /\ tornSaved = {}
  /\ log = <<>>
  /\ pc = [r \in Requests |-> "idle"]
  /\ way = [u \in Undos |-> "log"]
  /\ target = [u \in Undos |-> NoChange]
  /\ pruned = 0 /\ losses = 0
  /\ open = [s \in Saves |-> {}]
  /\ since = [s \in Saves |-> {}]
  /\ unsettled = {} /\ excuses = {}

-------------------------------------------------------------------------------
(* Reading the log *)

\* The newest of the entries at the positions P, 0 if there is none.
Newest(P) == IF P = {} THEN 0 ELSE Max(P)

LatestSave      == Newest({i \in DOMAIN log : log[i].kind = "save"})
LatestSavedUndo == Newest({i \in DOMAIN log : log[i].kind = "savedUndo"})
LatestUndoable  == Newest({i \in DOMAIN log : log[i].undoable})
EntryOf(c)      == Newest({i \in DOMAIN log : log[i].kind = "write" /\ log[i].of = c})
UndoableOf(c)   == Newest({i \in DOMAIN log : log[i].undoable /\ log[i].of = c})

\* _log_is_newer
IsNewer(i, k) == i # 0 /\ k # 0 /\ i > k

\* _switch_pending_changes
Pending_AnySave ==
  \/ LatestUndoable # 0 /\ LatestSave = 0
  \/ IsNewer(LatestSavedUndo, LatestSave)
Pending ==
  \/ LatestUndoable # 0 /\ (LatestSave = 0 \/ IsNewer(LatestUndoable, LatestSave))
  \/ IsNewer(LatestSavedUndo, LatestSave)

-------------------------------------------------------------------------------
(* Writes and saves *)

Running(r) == pc[r] = "sent"

\* Request r changes running-config: every save that copied before knows of it.
SentNow(r) == [s \in Saves |-> IF Running(s) THEN since[s] \cup {r} ELSE since[s]]

Sent(r) ==
  /\ pc' = [pc EXCEPT ![r] = "sent"]
  /\ since' = SentNow(r)
  /\ UNCHANGED <<open, unsettled, excuses>>

\* The requests R are over with progress p: no order with them matters any more.
Over(R, p) ==
  /\ pc' = [r \in Requests |-> IF r \in R THEN p ELSE pc[r]]
  /\ open' = [s \in Saves |-> open[s] \ R]
  /\ since' = [s \in Saves |-> IF s \in R THEN {} ELSE since[s]]

\* r logs now what it sent before a copy that was logged already.
Late(r) == \E s \in Saves : pc[s] = "done" /\ r \in open[s]

\* The lines of a write are taken and read back.
WriteSent(c) ==
  /\ pc[c] = "idle"
  /\ running' = running \cup {c}
  /\ Sent(c)
  /\ UNCHANGED <<startup, torn, tornSaved, log, way, target, pruned, losses>>

\* The write is refused, or its read-back is wrong, or the switch is gone: an error
\* entry or none, and no undo. What the switch then has of it is nothing, a part or
\* all: lines before the refused one, a rollback that failed as well, an answer that
\* was lost. A save may have copied it before it was rolled back.
WriteFailed(c) ==
  /\ pc[c] \in {"idle", "sent"}
  /\ pc' = [pc EXCEPT ![c] = "failed"]
  /\ \/ running' = running \ {c} /\ torn' = torn
     \/ running' = running \ {c} /\ torn' = torn \cup {c}
     \/ running' = running \cup {c} /\ torn' = torn
  /\ open' = [s \in Saves |-> open[s] \ {c}]
  /\ since' = SentNow(c)
  /\ excuses' = excuses \cup
       {x \in {"lostWrite"} : c \in torn' \/ (c \in running' <=> c \notin startup)}
  /\ UNCHANGED <<startup, tornSaved, log, way, target, pruned, losses, unsettled>>

\* audit.log_success with undo_commands and undo_label.
WriteLogged(c) ==
  /\ Running(c)
  /\ Over({c}, "done")
  /\ log' = Append(log, Entry("write", c, TRUE))
  /\ excuses' = excuses \cup {x \in {"misordered"} : Late(c)}
  /\ UNCHANGED <<switch, way, target, pruned, losses, unsettled>>

\* copy running-config startup-config, in a worker thread.
SaveCopied(s) ==
  /\ pc[s] = "idle"
  /\ pc' = [pc EXCEPT ![s] = "sent"]
  /\ startup' = running /\ tornSaved' = torn
  /\ open' = [open EXCEPT ![s] = {r \in Changes \cup Undos : Running(r)}]
  /\ excuses' = {}
  /\ UNCHANGED <<running, torn, log, way, target, pruned, losses, since, unsettled>>

\* s logs now, after a request that was sent after its copy.
Overtakes(s) == \E r \in since[s] : pc[r] = "done"

\* The audit entry follows when the slowest switch of the request is done.
SaveLogged(s) ==
  /\ Running(s)
  /\ Over({s}, "done")
  /\ log' = Append(log, Entry("save", NoChange, FALSE))
  /\ excuses' = excuses \cup {x \in {"misordered"} : Overtakes(s)}
  /\ UNCHANGED <<switch, way, target, pruned, losses, unsettled>>

\* The copy is refused or its answer does not come: an error entry, which is no
\* checkpoint, although the switch may have copied after all.
SaveFailed(s) ==
  /\ pc[s] = "idle"
  /\ pc' = [pc EXCEPT ![s] = "failed"]
  /\ \/ UNCHANGED <<startup, tornSaved, excuses>>
     \/ /\ startup' = running /\ tornSaved' = torn
        /\ excuses' = excuses \cup {"lostSave"}
  /\ UNCHANGED <<running, torn, log, way, target, pruned, losses, open, since, unsettled>>

-------------------------------------------------------------------------------
(* Undo *)

\* The Undo button of the Logs page: the entry must still have its commands.
UndoFromLog(u, c) ==
  /\ pc[u] = "idle"
  /\ UndoableOf(c) # 0
  /\ target' = [target EXCEPT ![u] = c]
  /\ pc' = [pc EXCEPT ![u] = "sending"]
  /\ way' = [way EXCEPT ![u] = "log"]
  /\ UNCHANGED <<switch, log, pruned, losses, ghosts>>

\* The Undo button of the section that wrote the change: the browser has the
\* commands from the response, and the server checks nothing.
UndoDirect(u, c) ==
  /\ pc[u] = "idle"
  /\ pc[c] = "done"
  /\ target' = [target EXCEPT ![u] = c]
  /\ pc' = [pc EXCEPT ![u] = "sending"]
  /\ way' = [way EXCEPT ![u] = "direct"]
  /\ UNCHANGED <<switch, log, pruned, losses, ghosts>>

UndoSent(u) ==
  /\ pc[u] = "sending"
  /\ running' = running \ {target[u]} /\ torn' = torn \ {target[u]}
  /\ Sent(u)
  /\ UNCHANGED <<startup, tornSaved, log, way, target, pruned, losses>>

\* The switch refuses a line or is gone: the entry keeps its commands, whatever the
\* lines before took away, nothing, a part of the change or all of it.
UndoFailed(u) ==
  /\ pc[u] = "sending"
  /\ pc' = [pc EXCEPT ![u] = "failed"]
  /\ \/ UNCHANGED <<running, torn, unsettled, excuses>>
     \/ /\ running' = running \ {target[u]}
        /\ torn' \in {torn \ {target[u]}, torn \cup {target[u]}}
        /\ unsettled' = unsettled \cup {target[u]}
        /\ excuses' = excuses \cup {"lostUndo"}
  /\ UNCHANGED <<startup, tornSaved, log, way, target, pruned, losses, open, since>>

\* post_save_undo: was the change saved before it was undone? An undo from the
\* log compares with the entry it read, which may be deleted by now; a direct
\* undo with the newest entry that still has the commands.
PostSave_NoEntryNoSave(u) == IsNewer(LatestSave, EntryOf(target[u]))
PostSave(u) ==
  LET entry == IF way[u] = "log" THEN EntryOf(target[u]) ELSE UndoableOf(target[u])
  IN  LatestSave # 0 /\ (entry = 0 \/ IsNewer(LatestSave, entry))

\* The entry at position i gives up its commands.
Consume_Nothing(entries, i) == entries
Consume(entries, i) ==
  [k \in DOMAIN entries |-> IF k = i THEN [entries[k] EXCEPT !.undoable = FALSE]
                                    ELSE entries[k]]

\* The undo's own entry offers no undo.
UndoEntry(u) == Entry(IF PostSave(u) THEN "savedUndo" ELSE "undo", target[u], FALSE)

UndoLogged(u) ==
  /\ Running(u)
  /\ Over({u}, "done")
  /\ log' = Append(Consume(log, UndoableOf(target[u])), UndoEntry(u))
  /\ excuses' = excuses \cup {x \in {"misordered"} : Late(u)}
                       \cup {x \in {"again"} : \/ UndoableOf(target[u]) = 0
                                                 \/ target[u] \in unsettled}
  /\ UNCHANGED <<switch, way, target, pruned, losses, unsettled>>

-------------------------------------------------------------------------------
(* The log and the process *)

\* Log retention, scheduled or by a super admin, deletes the oldest entries.
Prune ==
  /\ pruned < MaxPruned /\ log # <<>>
  /\ pruned' = pruned + 1
  /\ log' = Tail(log)
  /\ excuses' = excuses \cup {"pruned"}
  /\ UNCHANGED <<switch, pc, way, target, losses, open, since, unsettled>>

\* What is lost when r does not log.
Loss(r) == IF r \in Changes THEN "lostWrite" ELSE IF r \in Saves THEN "lostSave" ELSE "lostUndo"

\* The changes that the undos among R took away without an entry.
UndoneBy(R) == {target[u] : u \in Undos \cap R}

\* The process is killed: no request in flight logs any more.
Crash ==
  /\ losses < MaxLosses
  /\ losses' = losses + 1
  /\ Over({r \in Requests : pc[r] \in {"sending", "sent"}}, "failed")
  /\ unsettled' = unsettled \cup UndoneBy({q \in Requests : Running(q)})
  /\ excuses' = excuses \cup {Loss(r) : r \in {q \in Requests : Running(q)}}
  /\ UNCHANGED <<switch, log, way, target, pruned>>

\* audit.log catches a failed insert and rolls it back: the handler answers
\* success without an entry, and an undo may still have consumed its entry.
LogFails(r) ==
  /\ Running(r) /\ losses < MaxLosses
  /\ losses' = losses + 1
  /\ Over({r}, "done")
  /\ log' \in {log} \cup {Consume(log, UndoableOf(target[u])) : u \in Undos \cap {r}}
  /\ unsettled' = unsettled \cup UndoneBy({r})
  /\ excuses' = excuses \cup {Loss(r)}
  /\ UNCHANGED <<switch, way, target, pruned>>

Quiet == \A r \in Requests : pc[r] \notin {"sending", "sent"}

Next ==
  \/ \E c \in Changes : WriteSent(c) \/ WriteFailed(c) \/ WriteLogged(c)
  \/ \E s \in Saves : SaveCopied(s) \/ SaveLogged(s) \/ SaveFailed(s)
  \/ \E u \in Undos : \/ \E c \in Changes : UndoFromLog(u, c) \/ UndoDirect(u, c)
                       \/ UndoSent(u) \/ UndoFailed(u) \/ UndoLogged(u)
  \/ Prune \/ Crash \/ \E r \in Requests : LogFails(r)

Spec == Init /\ [][Next]_vars

-------------------------------------------------------------------------------
(* Properties *)

\* The changes that the two configurations do not have alike.
Unsaved == {c \in Changes : \/ (c \in running) # (c \in startup)
                            \/ (c \in torn) # (c \in tornSaved)}

\* "Any successful write marks the switch as having unsaved changes": between
\* requests, when the two configurations differ in a change the switch is marked,
\* unless since the last copy a save and another request were logged in the other
\* order than the switch took them, a write left something and no entry, a save
\* copied without one, or retention deleted some; and unless an undo of that change
\* failed half way or was not logged.
UnsavedIsMarked ==
  Quiet /\ Unsaved \ unsettled # {}
    /\ excuses \cap {"misordered", "pruned", "lostWrite", "lostSave"} = {}
    => Pending

\* The switch is marked only while there is something to save, unless since the last
\* copy a save and another request were logged out of order, an undo was repeated, or
\* a save or an undo had its effect and no entry. What a failed write left, a lost
\* entry of a write and deleted entries never mark a switch with nothing to save.
MarkedIsUnsaved ==
  Quiet /\ Pending /\ excuses \cap {"misordered", "again", "lostSave", "lostUndo"} = {}
    => Unsaved # {}

\* A kept entry offers its undo whenever its change is wholly on the switch, and
\* offers none when it is not, whichever of the two ways undid it and whatever failed,
\* was saved, deleted or lost in between; only an undo of that very change that failed
\* half way or was not logged leaves an offer for what is gone.
UndoOfferedIffPresent ==
  Quiet => \A c \in Changes : EntryOf(c) # 0 =>
    /\ c \in running => UndoableOf(c) # 0
    /\ UndoableOf(c) # 0 => c \in running \cup unsettled

\* "Any successful write marks the switch as having unsaved changes", as written:
\* the change of a successful write that is on the switch and not in its
\* startup-config marks it, at least when no log entry was lost or deleted.
AnyWriteMarks ==
  Quiet /\ losses = 0 /\ pruned = 0
    => \A c \in running \ startup : pc[c] = "done" => Pending

\* "Clear undo data from the original log entry so it can't be undone twice":
\* the commands of one change are taken by the switch for one undo from the log.
UndoneOnce ==
  \A u, x \in Undos :
    u # x /\ target[u] = target[x] /\ way[u] = "log" /\ way[x] = "log"
      => ~(pc[u] \in {"sent", "done"} /\ pc[x] \in {"sent", "done"})
==============================================================================
