----------------------------- MODULE SshSessions -----------------------------
(***************************************************************************)
(* The cache of SSH sessions to one switch and everything that opens,      *)
(* shares, replaces and closes them: commands of requests, with the retry  *)
(* of run_config; workers of a health sweep; additions and updates of the  *)
(* switch, which log in once to test the credentials (fetch_hostname); and *)
(* changes that close a session afterwards.                                *)
(*                                                                         *)
(* A session is kept under the SSH user it was opened for, and is never    *)
(* evicted. Two locks are taken, never one inside the other: _lock around  *)
(* the cache, held while get_or_create_session connects, and _cmd_lock of  *)
(* a session, held for a command. disconnect() takes neither.              *)
(***************************************************************************)
EXTENDS Naturals, Sequences, FiniteSets

CONSTANTS
  Jobs,       \* requests and sweep workers
  Owners,     \* accounts of GIGACL that may have the switch
  Users,      \* user names, of GIGACL and of the switch
  Passes,     \* SSH passwords
  NameOf,     \* owner -> its user name
  Asks,       \* job -> what it may be: a kind and an owner
  Outset,     \* the switch entries there may be at the start
  MaxReads,   \* bound: commands of one sweep worker
  Nobody, NoRow, NoSession

Creds == [user : Users, pass : Passes]
Kinds == {"command", "sweep", "add", "update", "grant", "delete"}
Ask   == [kind : Kinds, owner : Owners]

\* A sweep worker opens a session per command at most, a request one for itself and
\* one for its retry.
Sessions == Jobs \X (1..MaxReads)

ASSUME ConstantsOK ==
  /\ MaxReads \in Nat \ {0, 1}
  /\ NameOf \in [Owners -> Users]
  /\ Asks \in [Jobs -> SUBSET Ask]
  /\ Outset \subseteq [Owners -> Creds \cup {NoRow}]
  /\ Nobody \notin Jobs /\ NoRow \notin Creds /\ NoSession \notin Sessions

VARIABLES
  rows,     \* owner -> credentials in the switch entry of the owner
  cache,    \* _sessions: SSH user -> session
  lock,     \* _lock
  conn,     \* session -> its connection
  opened,   \* session -> the credentials it was opened with
  busy,     \* session -> job that has its _cmd_lock
  ask,      \* job -> what it is
  pc,       \* job -> where it is
  cred,     \* job -> credentials it works with
  mine,     \* job -> session in its hands
  drop,     \* job -> SSH users whose sessions it still has to close
  then,     \* job -> where it goes on after closing them
  left,     \* job -> commands, or attempts, it has left
  had,      \* sweep workers that found a session
  sent,     \* job -> times its commands were taken by the switch
  old,      \* job -> credentials that its change replaced
  solo,     \* the last job to begin, if no other was on its way
  stray     \* sessions overwritten in the cache while open

local == <<mine, drop, then, left>>
ghosts == <<sent, old, solo, stray>>
vars == <<rows, cache, lock, conn, opened, busy, ask, pc, cred, local, had, ghosts>>

Places == {"idle", "looking", "entering", "connecting", "ready", "sending",
           "dropping", "closing", "probing", "inserting", "tested", "changing",
           "done", "failed"}

TypeOK ==
  /\ rows \in [Owners -> Creds \cup {NoRow}]
  /\ cache \in [Users -> Sessions \cup {NoSession}]
  /\ lock \in Jobs \cup {Nobody}
  /\ conn \in [Sessions -> {"none", "open", "lost", "closed"}]
  /\ opened \in [Sessions -> Creds \cup {NoRow}]
  /\ busy \in [Sessions -> Jobs \cup {Nobody}]
  /\ ask \in [Jobs -> Ask]
  /\ pc \in [Jobs -> Places]
  /\ cred \in [Jobs -> Creds \cup {NoRow}]
  /\ mine \in [Jobs -> Sessions \cup {NoSession}]
  /\ drop \in [Jobs -> Seq(Users)]
  /\ then \in [Jobs -> Places]
  /\ left \in [Jobs -> 0..MaxReads]
  /\ had \subseteq Jobs
  /\ sent \in [Jobs -> 0..2]
  /\ old \in [Jobs -> Creds \cup {NoRow}]
  /\ solo \in Jobs \cup {Nobody}
  /\ stray \subseteq Sessions

Init ==
  /\ rows \in Outset
  /\ cache = [u \in Users |-> NoSession]
  /\ lock = Nobody
  /\ conn = [s \in Sessions |-> "none"]
  /\ opened = [s \in Sessions |-> NoRow]
  /\ busy = [s \in Sessions |-> Nobody]
  /\ ask \in {f \in [Jobs -> UNION {Asks[j] : j \in Jobs}] : \A j \in Jobs : f[j] \in Asks[j]}
  /\ pc = [j \in Jobs |-> "idle"]
  /\ cred = [j \in Jobs |-> NoRow]
  /\ mine = [j \in Jobs |-> NoSession]
  /\ drop = [j \in Jobs |-> <<>>]
  /\ then = [j \in Jobs |-> "done"]
  /\ left = [j \in Jobs |-> 0]
  /\ had = {}
  /\ sent = [j \in Jobs |-> 0]
  /\ old = [j \in Jobs |-> NoRow]
  /\ solo = Nobody
  /\ stray = {}

Kind(j)  == ask[j].kind
Owner(j) == ask[j].owner
User(j)  == cred[j].user
IsOver(j) == pc[j] \in {"done", "failed"}

\* is_alive, of a session there is.
Alive(s) == s # NoSession /\ conn[s] = "open"

Goes(j, place) == pc' = [pc EXCEPT ![j] = place]

\* The job closes the sessions of these users and goes on at place.
Closes(j, users, place) ==
  /\ drop' = [drop EXCEPT ![j] = users]
  /\ then' = [then EXCEPT ![j] = place]
  /\ Goes(j, "dropping")

\* The next session of the job.
Fresh(j) == CHOOSE s \in Sessions :
  /\ s[1] = j
  /\ s[2] = 1 + Cardinality({n \in 1..MaxReads : conn[<<j, n>>] # "none"})

\* The connection is made, with credentials c, and the job has it in its hands.
Opens(j, c) ==
  /\ conn' = [conn EXCEPT ![Fresh(j)] = "open"]
  /\ opened' = [opened EXCEPT ![Fresh(j)] = c]
  /\ mine' = [mine EXCEPT ![j] = Fresh(j)]

-------------------------------------------------------------------------------
(* Beginning *)

\* No handler is between two awaits: the event loop runs one such stretch at a
\* time. Worker threads, which also resolve targets (bulk-save), run beside it.
LoopFree ==
  \A j \in Jobs :
    /\ pc[j] # "changing"
    /\ pc[j] \in {"dropping", "closing"} /\ Kind(j) \in {"update", "grant", "delete"}
         => then[j] = "probing"

Begins(j) ==
  /\ pc[j] = "idle"
  /\ solo' = IF \A i \in Jobs : pc[i] = "idle" \/ IsOver(i) THEN j ELSE Nobody

\* A request or a sweep resolves the credentials of its target.
Resolve(j) ==
  /\ Begins(j)
  /\ Kind(j) \in {"command", "sweep"} /\ rows[Owner(j)] # NoRow
  /\ cred' = [cred EXCEPT ![j] = rows[Owner(j)]]
  /\ left' = [left EXCEPT ![j] = IF Kind(j) = "sweep" THEN MaxReads ELSE 2]
  /\ Goes(j, IF Kind(j) = "sweep" THEN "looking" ELSE "entering")
  /\ UNCHANGED <<rows, cache, lock, conn, opened, busy, ask, mine, drop, then, had,
                 sent, old, stray>>

\* add_switch tests the credentials it is given first.
Add(j, c) ==
  /\ Begins(j) /\ LoopFree /\ Kind(j) = "add"
  /\ cred' = [cred EXCEPT ![j] = c]
  /\ Closes(j, <<c.user>>, "probing")
  /\ UNCHANGED <<rows, cache, lock, conn, opened, busy, ask, mine, left, had, sent,
                 old, stray>>

\* What update_switch closes: the session of the user name it replaces, and for a
\* new password that of the name the entry has then.
UpdateDrops_NewName(before, c) == <<c.user>>
UpdateDrops(before, c) ==
  (IF c.user # before.user THEN <<before.user>> ELSE <<>>) \o
  (IF c.pass # before.pass THEN <<c.user>> ELSE <<>>)

\* update_switch tests a new password with the old user name first.
Update(j, c) ==
  LET before == rows[Owner(j)]
  IN  /\ Begins(j) /\ LoopFree /\ Kind(j) = "update" /\ before \notin {NoRow, c}
      /\ cred' = [cred EXCEPT ![j] = c]
      /\ old' = [old EXCEPT ![j] = before]
      /\ IF c.pass # before.pass
           THEN Closes(j, <<before.user, before.user>>, "probing")
           ELSE Closes(j, UpdateDrops(before, c), "changing")
      /\ UNCHANGED <<rows, cache, lock, conn, opened, busy, ask, mine, left, had, sent, stray>>

\* update_granted_switch commits what the super admin gave and then closes the
\* session of the user name that is now in the row.
UpdateGranted(j, c) ==
  /\ Begins(j) /\ LoopFree /\ Kind(j) = "grant" /\ rows[Owner(j)] \notin {NoRow, c}
  /\ rows' = [rows EXCEPT ![Owner(j)] = c]
  /\ old' = [old EXCEPT ![j] = rows[Owner(j)]]
  /\ Closes(j, <<c.user>>, "done")
  /\ UNCHANGED <<cache, lock, conn, opened, busy, ask, cred, mine, left, had, sent, stray>>

\* delete_switch and delete_user close the session of the owner's own name,
\* delete_granted_switch that of the name in the entry.
Delete(j) ==
  /\ Begins(j) /\ LoopFree /\ Kind(j) = "delete" /\ rows[Owner(j)] # NoRow
  /\ \E u \in {NameOf[Owner(j)], rows[Owner(j)].user} : Closes(j, <<u>>, "changing")
  /\ UNCHANGED <<rows, cache, lock, conn, opened, busy, ask, cred, mine, left, had,
                 sent, old, stray>>

\* A job on an entry that is not there is answered 404.
NotFound(j) ==
  /\ Begins(j) /\ LoopFree /\ Kind(j) # "add" /\ rows[Owner(j)] = NoRow
  /\ Goes(j, "failed")
  /\ UNCHANGED <<rows, cache, lock, conn, opened, busy, ask, cred, local, had, sent, old, stray>>

-------------------------------------------------------------------------------
(* Commands *)

\* A sweep worker asks has_session before its first command.
Look(j) ==
  /\ pc[j] = "looking" /\ lock = Nobody
  /\ had' = IF cache[User(j)] # NoSession THEN had \cup {j} ELSE had
  /\ Goes(j, "entering")
  /\ UNCHANGED <<rows, cache, lock, conn, opened, busy, ask, cred, local, ghosts>>

\* get_or_create_session: a living session is shared, whatever its credentials;
\* a dead one is closed, and _lock is kept to connect.
Reuse(j) ==
  LET s == cache[User(j)]
  IN  /\ pc[j] = "entering" /\ lock = Nobody
      /\ Alive(s)
      /\ mine' = [mine EXCEPT ![j] = s]
      /\ Goes(j, "ready")
      /\ UNCHANGED <<rows, cache, lock, conn, opened, busy, ask, cred, drop, then, left,
                     had, ghosts>>

Replace(j) ==
  LET s == cache[User(j)]
  IN  /\ pc[j] = "entering" /\ lock = Nobody
      /\ ~Alive(s)
      /\ lock' = j
      /\ conn' = [t \in Sessions |-> IF t = s THEN "closed" ELSE conn[t]]
      /\ Goes(j, "connecting")
      /\ UNCHANGED <<rows, cache, opened, busy, ask, cred, local, had, ghosts>>

Connect(j) ==
  /\ pc[j] = "connecting"
  /\ Opens(j, cred[j])
  /\ cache' = [cache EXCEPT ![User(j)] = Fresh(j)]
  /\ lock' = Nobody
  /\ Goes(j, "ready")
  /\ UNCHANGED <<rows, busy, ask, cred, drop, then, left, had, ghosts>>

\* A sweep worker sends its next command, unless its first one failed.
Continues(j, ok) == Kind(j) = "sweep" /\ left[j] > 1 /\ (ok \/ left[j] < MaxReads)

\* It hands back what it opened, however it went.
HandsBack_OnSuccess(j, ok) == ok /\ Kind(j) = "sweep" /\ j \notin had
HandsBack(j, ok) == Kind(j) = "sweep" /\ j \notin had

\* A command is over: it was answered, or it failed for good.
Ends(j, ok) ==
  /\ left' = [left EXCEPT ![j] = @ - 1]
  /\ IF ~Continues(j, ok) /\ HandsBack(j, ok)
       THEN Closes(j, <<User(j)>>, "done")
       ELSE /\ Goes(j, IF Continues(j, ok) THEN "entering"
                       ELSE IF ok \/ Kind(j) = "sweep" THEN "done" ELSE "failed")
            /\ UNCHANGED <<drop, then>>

\* _lock is given up by an exception too.
LockAfter_Kept(j) == j
LockAfter(j) == Nobody

ConnectFails(j) ==
  /\ pc[j] = "connecting"
  /\ lock' = LockAfter(j)
  /\ Ends(j, FALSE)
  /\ UNCHANGED <<rows, cache, conn, opened, busy, ask, cred, mine, had, ghosts>>

\* The command waits for _cmd_lock; the session may have been closed by then.
Take(j) ==
  /\ pc[j] = "ready" /\ busy[mine[j]] = Nobody /\ conn[mine[j]] # "closed"
  /\ busy' = [busy EXCEPT ![mine[j]] = j]
  /\ Goes(j, "sending")
  /\ UNCHANGED <<rows, cache, lock, conn, opened, ask, cred, local, had, ghosts>>

NotConnected(j) ==
  /\ pc[j] = "ready" /\ busy[mine[j]] = Nobody /\ conn[mine[j]] = "closed"
  /\ Ends(j, FALSE)
  /\ UNCHANGED <<rows, cache, lock, conn, opened, busy, ask, cred, mine, had, ghosts>>

Leaves(j) == busy' = [busy EXCEPT ![mine[j]] = Nobody]

Answered(j) ==
  /\ pc[j] = "sending" /\ conn[mine[j]] = "open"
  /\ Leaves(j)
  /\ Ends(j, TRUE)
  /\ sent' = [sent EXCEPT ![j] = IF Kind(j) = "command" THEN @ + 1 ELSE 0]
  /\ UNCHANGED <<rows, cache, lock, conn, opened, ask, cred, mine, had, old, solo, stray>>

\* The failure after which run_config tries again: configuration mode was not
\* entered, and nothing was sent.
Retriable_Any(modeFailed) == TRUE
Retriable(modeFailed) == modeFailed

\* A command fails: it timed out or the session was lost or closed under it, after
\* the switch took the lines or before. A request tries once more if it may.
CommandFails(j) ==
  \E modeFailed \in BOOLEAN, taken \in {0, 1} :
    /\ pc[j] = "sending"
    /\ modeFailed => taken = 0
    /\ Leaves(j)
    /\ sent' = [sent EXCEPT ![j] = IF Kind(j) = "command" THEN @ + taken ELSE 0]
    /\ IF Kind(j) = "command" /\ left[j] = 2 /\ Retriable(modeFailed)
         THEN left' = [left EXCEPT ![j] = 1] /\ Closes(j, <<User(j)>>, "entering")
         ELSE Ends(j, FALSE)
    /\ UNCHANGED <<rows, cache, lock, conn, opened, ask, cred, mine, had, old, solo, stray>>

-------------------------------------------------------------------------------
(* Closing and testing *)

\* invalidate_session: out of the cache under _lock, then closed without it.
Pop(j) ==
  /\ pc[j] = "dropping" /\ lock = Nobody
  /\ mine' = [mine EXCEPT ![j] = cache[Head(drop[j])]]
  /\ cache' = [cache EXCEPT ![Head(drop[j])] = NoSession]
  /\ drop' = [drop EXCEPT ![j] = Tail(@)]
  /\ Goes(j, "closing")
  /\ UNCHANGED <<rows, lock, conn, opened, busy, ask, cred, then, left, had, ghosts>>

Closed_Forgotten(s) == conn
Closed(s) == [t \in Sessions |-> IF t = s THEN "closed" ELSE conn[t]]

Close(j) ==
  /\ pc[j] = "closing"
  /\ conn' = Closed(mine[j])
  /\ mine' = [mine EXCEPT ![j] = NoSession]
  /\ Goes(j, IF drop[j] = <<>> THEN then[j] ELSE "dropping")
  /\ UNCHANGED <<rows, cache, lock, opened, busy, ask, cred, drop, then, left, had, ghosts>>

\* The credentials a test logs in with.
Tested(j) == IF Kind(j) = "add" THEN cred[j] ELSE [cred[j] EXCEPT !.user = old[j].user]

\* fetch_hostname connects without _lock and puts its session into the cache over
\* whatever is there by then.
Probe(j) ==
  /\ pc[j] = "probing"
  /\ Opens(j, Tested(j))
  /\ Goes(j, "inserting")
  /\ UNCHANGED <<rows, cache, lock, busy, ask, cred, drop, then, left, had, ghosts>>

ProbeFails(j) ==
  /\ pc[j] = "probing"
  /\ Goes(j, "failed")
  /\ UNCHANGED <<rows, cache, lock, conn, opened, busy, ask, cred, local, had, ghosts>>

\* The hostname is read next; its failure is caught and changes nothing.
Insert(j) ==
  LET before == cache[Tested(j).user]
  IN  /\ pc[j] = "inserting" /\ lock = Nobody
      /\ cache' = [cache EXCEPT ![Tested(j).user] = mine[j]]
      /\ stray' = stray \cup {s \in {before} : Alive(s)}
      /\ mine' = [mine EXCEPT ![j] = NoSession]
      /\ Goes(j, "tested")
      /\ UNCHANGED <<rows, lock, conn, opened, busy, ask, cred, drop, then, left, had,
                     sent, old, solo>>

\* The handler is back from its test: add_switch writes the entry, whether there
\* is one or not, update_switch has sessions to close first.
Added(j) ==
  /\ pc[j] = "tested" /\ LoopFree /\ Kind(j) = "add"
  /\ rows' = [rows EXCEPT ![Owner(j)] = cred[j]]
  /\ Goes(j, "done")
  /\ UNCHANGED <<cache, lock, conn, opened, busy, ask, cred, local, had, ghosts>>

UpdateTested(j) ==
  /\ pc[j] = "tested" /\ LoopFree /\ Kind(j) = "update"
  /\ Closes(j, UpdateDrops(old[j], cred[j]), "changing")
  /\ UNCHANGED <<rows, cache, lock, conn, opened, busy, ask, cred, mine, left, had, ghosts>>

\* What update_switch leaves in an entry: the fields it changes.
Updated(row, before, c) ==
  [user |-> IF c.user # before.user THEN c.user ELSE row.user,
   pass |-> IF c.pass # before.pass THEN c.pass ELSE row.pass]

\* The entry is written or deleted; one that was deleted during the test of an
\* update is not written again.
Change(j) ==
  LET row == rows[Owner(j)]
  IN  /\ pc[j] = "changing"
      /\ rows' = [rows EXCEPT ![Owner(j)] =
           IF Kind(j) = "delete" \/ row = NoRow THEN NoRow ELSE Updated(row, old[j], cred[j])]
      /\ Goes(j, IF row = NoRow THEN "failed" ELSE "done")
      /\ UNCHANGED <<cache, lock, conn, opened, busy, ask, cred, local, had, ghosts>>

-------------------------------------------------------------------------------
\* The switch, or the network, ends a connection.
LinkLost(s) ==
  /\ conn[s] = "open"
  /\ conn' = [conn EXCEPT ![s] = "lost"]
  /\ UNCHANGED <<rows, cache, lock, opened, busy, ask, pc, cred, local, had, ghosts>>

Step(j) ==
  \/ Look(j) \/ Reuse(j) \/ Replace(j) \/ Connect(j) \/ ConnectFails(j)
  \/ Take(j) \/ NotConnected(j) \/ Answered(j) \/ CommandFails(j)
  \/ Pop(j) \/ Close(j) \/ Probe(j) \/ ProbeFails(j) \/ Insert(j)
  \/ Added(j) \/ UpdateTested(j) \/ Change(j)

\* All jobs are over.
Finished == /\ \A j \in Jobs : IsOver(j)
            /\ UNCHANGED vars

Next ==
  \/ Finished
  \/ \E j \in Jobs :
       \/ Resolve(j) \/ Delete(j) \/ NotFound(j) \/ Step(j)
       \/ \E c \in Creds : Add(j, c) \/ Update(j, c) \/ UpdateGranted(j, c)
  \/ \E s \in Sessions : LinkLost(s)

Spec == Init /\ [][Next]_vars

-------------------------------------------------------------------------------
(* Properties *)

Held(s) == \E u \in Users : cache[u] = s

\* On its way: opened to be put into the cache, or taken out of it to be closed.
InHands(s) == \E j \in Jobs : mine[j] = s /\ pc[j] \in {"inserting", "closing"}

\* "Sessions are never evicted", so a session that is not in the cache is never
\* closed and keeps a VTY line of the switch: every open session is in the cache or
\* on its way into it or out, unless fetch_hostname wrote over it.
NoStraySession ==
  \A s \in Sessions : conn[s] = "open" => Held(s) \/ InHands(s) \/ s \in stray

\* "Callers check this first so they can hand back anything they opened
\* themselves": of a sweep worker that found no session none is left open when it
\* is over, whoever shared or replaced it and however its commands ended.
SweepHandsBack ==
  \A s \in Sessions :
    /\ conn[s] = "open" /\ Kind(s[1]) = "sweep" /\ s[1] \notin had /\ IsOver(s[1])
    => InHands(s) \/ s \in stray

\* "Reconnecting is safe for this specific pre-command failure": however sessions
\* are lost and closed, the switch takes the commands of a request once at most.
SentOnce == \A j \in Jobs : sent[j] <= 1

\* A change with no other job on its way leaves no session in the cache that was
\* opened with the credentials it replaced.
ClosesOld(kind) ==
  solo # Nobody /\ Kind(solo) = kind /\ pc[solo] = "done"
    => \A u \in Users : Alive(cache[u]) => opened[cache[u]] # old[solo]

\* A user's own update of user name or password closes the session of the old.
UpdateClosesOld == ClosesOld("update")

\* "Credentials or privilege changed, so a session opened under the old ones must
\* not keep working", for the update of a granted switch.
GrantClosesOld == ClosesOld("grant")

\* Neither lock is kept by a job that does not connect under it or send under it,
\* whichever way its connect or its command ended.
LocksAreGivenUp ==
  /\ lock # Nobody => pc[lock] = "connecting"
  /\ \A s \in Sessions : busy[s] # Nobody => pc[busy[s]] = "sending" /\ mine[busy[s]] = s
==============================================================================
