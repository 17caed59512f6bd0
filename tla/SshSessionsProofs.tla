--------------------------- MODULE SshSessionsProofs ---------------------------
(***************************************************************************)
(* The invariants of the session cache, for every number of jobs, users    *)
(* and commands. What makes them inductive is what each place of a job     *)
(* says of what it has in its hands (Equipped), how many sessions it can   *)
(* have opened by then (Budgeted), and what the cache holds (Keyed).       *)
(***************************************************************************)
EXTENDS SshSessions, FiniteSetTheorems, TLAPS

Commanding == {"looking", "entering", "connecting", "ready", "sending"}
Testing    == {"probing", "inserting", "tested"}
Dropping   == {"dropping", "closing"}

\* What a test of credentials needs: those it is given and, for an update, the
\* ones it replaces, with another password.
Tester(j) ==
  /\ cred[j] \in Creds
  /\ Kind(j) = "update" => old[j] \in Creds /\ cred[j].pass # old[j].pass

\* What a job that closes sessions goes on with, by its kind.
Resumes(j) ==
  /\ Kind(j) = "command" => then[j] = "entering" /\ cred[j] \in Creds /\ left[j] = 1
  /\ Kind(j) = "sweep"   => /\ then[j] = "done" /\ cred[j] \in Creds
                            /\ drop[j] = IF pc[j] = "closing" THEN <<>> ELSE <<User(j)>>
  /\ Kind(j) = "add"     => then[j] = "probing" /\ Tester(j)
  /\ Kind(j) = "update"  => /\ then[j] \in {"probing", "changing"}
                            /\ cred[j] \in Creds /\ old[j] \in Creds
                            /\ then[j] = "probing" => Tester(j)
  /\ Kind(j) = "grant"   => then[j] = "done"
  /\ Kind(j) = "delete"  => then[j] = "changing"

Equipped(j) ==
  /\ pc[j] \in Commanding =>
       Kind(j) \in {"command", "sweep"} /\ cred[j] \in Creds /\ left[j] >= 1
  /\ pc[j] \in {"ready", "sending"} => mine[j] \in Sessions
  /\ pc[j] \in Testing => Kind(j) \in {"add", "update"} /\ Tester(j)
  /\ pc[j] = "inserting" =>
       /\ mine[j] \in Sessions /\ mine[j][1] = j
       /\ conn[mine[j]] # "none" /\ opened[mine[j]] = Tested(j)
  /\ pc[j] \in Dropping => Resumes(j)
  /\ pc[j] = "dropping" => drop[j] # <<>>
  /\ pc[j] = "closing" /\ mine[j] \in Sessions => conn[mine[j]] # "none"
  /\ pc[j] = "changing" => /\ Kind(j) \in {"update", "delete"}
                           /\ Kind(j) = "update" => cred[j] \in Creds /\ old[j] \in Creds

\* The sessions a job has opened are the first k of its own.
FirstOpened(j, k) == \A n \in 1..MaxReads : conn[<<j, n>>] # "none" <=> n <= k

\* It can have opened as many, where it is.
Affords(j, k) ==
  /\ pc[j] \in {"idle", "probing"} => k = 0
  /\ pc[j] \in {"looking", "entering", "connecting"} => k + left[j] <= MaxReads
  /\ pc[j] \in {"ready", "sending"} => k + left[j] <= MaxReads + 1
  /\ pc[j] \in Dropping /\ then[j] = "entering" => k + left[j] <= MaxReads
  /\ pc[j] \in Dropping /\ then[j] = "probing" => k = 0

Budgeted(j) == \E k \in 0..MaxReads : FirstOpened(j, k) /\ Affords(j, k)

\* A session in the cache was opened, with the user name it is kept under; one of
\* a sweep worker with the worker's credentials.
Keyed(u) ==
  cache[u] \in Sessions =>
    /\ conn[cache[u]] # "none"
    /\ opened[cache[u]] \in Creds /\ opened[cache[u]].user = u
    /\ Kind(cache[u][1]) = "sweep" => u = User(cache[u][1])

\* While a job connects it has the lock, and what it replaces is dead.
Connecting(j) == pc[j] = "connecting" => lock = j /\ ~Alive(cache[User(j)])

\* Nothing was sent before the last command of a job.
Unsent(j) ==
  /\ sent[j] <= 1
  /\ pc[j] \in {"idle"} \cup Commanding => sent[j] = 0
  /\ pc[j] \in Dropping /\ then[j] = "entering" => sent[j] = 0

\* Once a sweep worker has popped what it opened, none of it is in the cache.
HandedBack(j) ==
  Kind(j) = "sweep" /\ j \notin had /\ pc[j] \in {"closing", "done", "failed"}
    => \A u \in Users : cache[u] \in Sessions => cache[u][1] # j

\* No session in the cache was opened with what the change of j replaces.
Clean(j) == \A u \in Users : Alive(cache[u]) => opened[cache[u]] # old[j]

\* While the last job to begin is alone, nobody else is on the way, and an update
\* closes the session under the old user name before anything else.
Alone(j) ==
  /\ \A i \in Jobs \ {j} : pc[i] = "idle" \/ IsOver(i)
  /\ pc[j] # "idle"
  /\ Kind(j) = "update" /\ pc[j] # "failed" =>
       Clean(j) \/ (pc[j] = "dropping" /\ Head(drop[j]) = old[j].user)

IInv ==
  /\ TypeOK
  /\ \A j \in Jobs : Equipped(j) /\ Budgeted(j) /\ Connecting(j) /\ Unsent(j) /\ HandedBack(j)
  /\ \A u \in Users : Keyed(u)
  /\ LocksAreGivenUp
  /\ NoStraySession
  /\ solo \in Jobs => Alone(solo)

-------------------------------------------------------------------------------
(* Jobs and sessions *)

StepOf(j) ==
  \/ Resolve(j) \/ Delete(j) \/ NotFound(j) \/ Step(j)
  \/ \E c \in Creds : Add(j, c) \/ Update(j, c) \/ UpdateGranted(j, c)

\* The next session of a job is the one after those it has opened.
LEMMA FreshIsNext ==
  ASSUME ConstantsOK, NEW j \in Jobs, NEW k \in 0..MaxReads, k < MaxReads, FirstOpened(j, k)
  PROVE  /\ Fresh(j) = <<j, k + 1>> /\ Fresh(j) \in Sessions /\ Fresh(j)[1] = j
         /\ conn[Fresh(j)] = "none"
<1>1. {n \in 1..MaxReads : conn[<<j, n>>] # "none"} = 1..k
  BY DEF FirstOpened, ConstantsOK
<1>2. Cardinality(1..k) = k
  BY FS_Interval
<1>3. <<j, k + 1>> \in Sessions
  BY DEF Sessions, ConstantsOK
<1>4. Fresh(j) = CHOOSE s \in Sessions : s[1] = j /\ s[2] = 1 + k
  BY <1>1, <1>2 DEF Fresh
<1>5. \A s \in Sessions : s[1] = j /\ s[2] = 1 + k => s = <<j, k + 1>>
  BY DEF Sessions
<1>6. Fresh(j) = <<j, k + 1>>
  BY <1>3, <1>4, <1>5
<1>7. conn[<<j, k + 1>>] = "none"
  BY DEF FirstOpened, ConstantsOK
<1> QED
  BY <1>3, <1>6, <1>7

\* A job that is about to connect has a session left to open.
LEMMA RoomToOpen ==
  ASSUME ConstantsOK, IInv, NEW j \in Jobs, pc[j] \in {"connecting", "probing"}
  PROVE  /\ Fresh(j) \in Sessions /\ Fresh(j)[1] = j
         /\ conn[Fresh(j)] = "none"
         /\ \E k \in 0..MaxReads : /\ k < MaxReads /\ FirstOpened(j, k) /\ Affords(j, k)
                                   /\ Fresh(j) = <<j, k + 1>>
<1>1. PICK k \in 0..MaxReads : FirstOpened(j, k) /\ Affords(j, k)
  BY DEF IInv, Budgeted
<1>2. pc[j] = "connecting" => left[j] \in 1..MaxReads
  BY DEF IInv, TypeOK, Equipped, Commanding
<1>3. k < MaxReads
  BY <1>1, <1>2 DEF Affords, ConstantsOK
<1> QED
  BY <1>1, <1>3, FreshIsNext

\* How a command ends.
Ended(j) ==
  /\ left' = [left EXCEPT ![j] = @ - 1]
  /\ \/ /\ Kind(j) = "sweep" /\ left[j] > 1
        /\ pc' = [pc EXCEPT ![j] = "entering"]
        /\ UNCHANGED <<drop, then>>
     \/ /\ Kind(j) = "sweep" /\ j \notin had
        /\ Closes(j, <<User(j)>>, "done")
     \/ /\ Kind(j) = "sweep" => j \in had
        /\ pc' = [pc EXCEPT ![j] = "done"] \/ pc' = [pc EXCEPT ![j] = "failed"]
        /\ UNCHANGED <<drop, then>>

LEMMA EndsEnded ==
  ASSUME NEW j \in Jobs, NEW ok \in BOOLEAN, Ends(j, ok)
  PROVE  Ended(j)
  BY DEF Ends, Ended, Continues, HandsBack, Goes

\* What belongs to a job is left as it is.
Untouched(i) ==
  /\ pc'[i] = pc[i] /\ cred'[i] = cred[i] /\ mine'[i] = mine[i]
  /\ drop'[i] = drop[i] /\ then'[i] = then[i] /\ left'[i] = left[i]
  /\ sent'[i] = sent[i] /\ old'[i] = old[i]
  /\ i \in had' <=> i \in had

\* A step of a job leaves what belongs to the others.
LEMMA OthersUntouched ==
  ASSUME TypeOK, NEW j \in Jobs, StepOf(j), NEW i \in Jobs \ {j}
  PROVE  Untouched(i) /\ ask' = ask
<1> USE DEF TypeOK, Goes, Closes, local, ghosts, Untouched
<1>1. CASE Resolve(j) \/ Delete(j) \/ NotFound(j)
  BY <1>1 DEF Resolve, Delete, NotFound
<1>2. ASSUME NEW c \in Creds, Add(j, c) \/ Update(j, c) \/ UpdateGranted(j, c)
      PROVE  Untouched(i) /\ ask' = ask
  BY <1>2 DEF Add, Update, UpdateGranted
<1>3. CASE Look(j) \/ Reuse(j) \/ Replace(j) \/ Connect(j) \/ Take(j)
  BY <1>3 DEF Look, Reuse, Replace, Connect, Take, Opens
<1>4. ASSUME Ended(j) PROVE pc'[i] = pc[i] /\ drop'[i] = drop[i] /\ then'[i] = then[i]
                            /\ left'[i] = left[i]
  BY <1>4 DEF Ended
<1>5. CASE ConnectFails(j) \/ NotConnected(j)
  BY <1>4, <1>5, EndsEnded DEF ConnectFails, NotConnected
<1>6. CASE Answered(j)
  BY <1>4, <1>6, EndsEnded DEF Answered
<1>7. CASE CommandFails(j)
  <2>1. PICK modeFailed \in BOOLEAN, taken \in {0, 1} : CommandFails(j)!(modeFailed, taken)
    BY <1>7 DEF CommandFails
  <2>2. pc'[i] = pc[i] /\ drop'[i] = drop[i] /\ then'[i] = then[i] /\ left'[i] = left[i]
    BY <1>4, <2>1, EndsEnded
  <2> QED
    BY <2>1, <2>2
<1>8. CASE Pop(j) \/ Close(j) \/ Probe(j) \/ ProbeFails(j) \/ Insert(j)
  BY <1>8 DEF Pop, Close, Probe, ProbeFails, Insert, Opens
<1>9. CASE Added(j) \/ UpdateTested(j) \/ Change(j)
  BY <1>9 DEF Added, UpdateTested, Change
<1> QED
  BY <1>1, <1>2, <1>3, <1>5, <1>6, <1>7, <1>8, <1>9 DEF StepOf, Step

-------------------------------------------------------------------------------
(* Types *)

LEMMA TypedInit == ConstantsOK /\ Init => TypeOK
<1> SUFFICES ASSUME ConstantsOK, Init PROVE TypeOK
  OBVIOUS
<1>1. ask \in [Jobs -> Ask]
  BY DEF Init, ConstantsOK
<1>2. \A j \in Jobs : <<>> \in Seq(Users)
  OBVIOUS
<1> QED
  BY <1>1, <1>2 DEF Init, TypeOK, ConstantsOK, Places

\* The users whose sessions an update closes, and what it closes first.
LEMMA UpdateDropsUsers ==
  ASSUME NEW before \in Creds, NEW c \in Creds
  PROVE  /\ UpdateDrops(before, c) \in Seq(Users)
         /\ c # before => UpdateDrops(before, c) # <<>>
         /\ c.user # before.user =>
              UpdateDrops(before, c) # <<>> /\ Head(UpdateDrops(before, c)) = before.user
<1>1. before.user \in Users /\ c.user \in Users /\ before.pass \in Passes /\ c.pass \in Passes
  BY DEF Creds
<1>2. c # before => c.user # before.user \/ c.pass # before.pass
  BY DEF Creds
<1>3. CASE c.user # before.user /\ c.pass # before.pass
  BY <1>1, <1>3 DEF UpdateDrops
<1>4. CASE c.user # before.user /\ c.pass = before.pass
  BY <1>1, <1>4 DEF UpdateDrops
<1>5. CASE c.user = before.user /\ c.pass # before.pass
  BY <1>1, <1>5 DEF UpdateDrops
<1>6. CASE c.user = before.user /\ c.pass = before.pass
  BY <1>1, <1>2, <1>6 DEF UpdateDrops
<1> QED
  BY <1>3, <1>4, <1>5, <1>6

\* A test logs in with credentials.
LEMMA TestedCreds ==
  ASSUME NEW j \in Jobs, Tester(j), Kind(j) \in {"add", "update"}
  PROVE  /\ Tested(j) \in Creds
         /\ Kind(j) = "update" => Tested(j).user = old[j].user /\ Tested(j) # old[j]
  BY DEF Tested, Tester, Creds

\* Going on to close sessions keeps the types.
LEMMA TypedCloses ==
  ASSUME TypeOK, NEW j \in Jobs, NEW users \in Seq(Users), NEW place \in Places,
         Closes(j, users, place)
  PROVE  /\ pc' \in [Jobs -> Places] /\ drop' \in [Jobs -> Seq(Users)]
         /\ then' \in [Jobs -> Places]
  BY DEF TypeOK, Closes, Goes, Places

\* The end of a command keeps the types.
LEMMA TypedEnd ==
  ASSUME ConstantsOK, TypeOK, NEW j \in Jobs, cred[j] \in Creds, left[j] >= 1, Ended(j)
  PROVE  /\ pc' \in [Jobs -> Places] /\ drop' \in [Jobs -> Seq(Users)]
         /\ then' \in [Jobs -> Places] /\ left' \in [Jobs -> 0..MaxReads]
<1>1. <<User(j)>> \in Seq(Users)
  BY DEF User, Creds
<1>2. left' \in [Jobs -> 0..MaxReads]
  BY DEF Ended, TypeOK, ConstantsOK
<1>3. pc' \in [Jobs -> Places]
  BY DEF Ended, TypeOK, Places, Closes, Goes
<1>4. drop' \in [Jobs -> Seq(Users)]
  <2>1. CASE Closes(j, <<User(j)>>, "done")
    BY <1>1, <2>1, TypedCloses DEF Places
  <2> QED
    BY <2>1 DEF Ended, TypeOK
<1>5. then' \in [Jobs -> Places]
  BY DEF Ended, TypeOK, Places, Closes
<1> QED
  BY <1>2, <1>3, <1>4, <1>5

\* Every step of a job keeps the types.
LEMMA TypedStep ==
  ASSUME ConstantsOK, IInv, NEW j \in Jobs, StepOf(j)
  PROVE  TypeOK'
<1> USE DEF Goes, Closes, local, ghosts
<1>1. TypeOK /\ Equipped(j) /\ Unsent(j)
  BY DEF IInv
<1>0. Owner(j) \in Owners /\ rows[Owner(j)] \in Creds \cup {NoRow}
  BY <1>1 DEF TypeOK, Owner, Ask
<1>2. CASE Resolve(j)
  <2>1. left' \in [Jobs -> 0..MaxReads]
    BY <1>1, <1>2 DEF Resolve, TypeOK, ConstantsOK
  <2>2. cred' \in [Jobs -> Creds \cup {NoRow}]
    BY <1>0, <1>1, <1>2 DEF Resolve, TypeOK
  <2> QED
    BY <1>1, <1>2, <2>1, <2>2 DEF Resolve, Begins, TypeOK, Places
<1>3. CASE Delete(j)
  <2>1. PICK u \in {NameOf[Owner(j)], rows[Owner(j)].user} : Closes(j, <<u>>, "changing")
    BY <1>3 DEF Delete
  <2>2. u \in Users
    BY <1>0, <1>3 DEF Delete, ConstantsOK, Creds
  <2>3. <<u>> \in Seq(Users)
    BY <2>2
  <2> QED
    BY <1>1, <1>3, <2>1, <2>3 DEF Delete, Begins, TypeOK, Places
<1>4. CASE NotFound(j)
  BY <1>1, <1>4 DEF NotFound, Begins, TypeOK, Places
<1>5. ASSUME NEW c \in Creds, Add(j, c) PROVE TypeOK'
  BY <1>1, <1>5 DEF Add, Begins, TypeOK, Places, Creds
<1>6. ASSUME NEW c \in Creds, Update(j, c) PROVE TypeOK'
  <2>1. rows[Owner(j)] \in Creds
    BY <1>0, <1>6 DEF Update
  <2>2. UpdateDrops(rows[Owner(j)], c) \in Seq(Users)
    BY <2>1, UpdateDropsUsers
  <2>3. <<rows[Owner(j)].user, rows[Owner(j)].user>> \in Seq(Users)
    BY <2>1 DEF Creds
  <2>4. drop' \in [Jobs -> Seq(Users)]
    <3>1. CASE Closes(j, <<rows[Owner(j)].user, rows[Owner(j)].user>>, "probing")
      BY <1>1, <2>3, <3>1, TypedCloses DEF Places
    <3>2. CASE Closes(j, UpdateDrops(rows[Owner(j)], c), "changing")
      BY <1>1, <2>2, <3>2, TypedCloses DEF Places
    <3> QED
      BY <1>6, <3>1, <3>2 DEF Update
  <2>5. then' \in [Jobs -> Places] /\ pc' \in [Jobs -> Places]
    BY <1>1, <1>6 DEF Update, TypeOK, Places
  <2> QED
    BY <1>1, <1>6, <2>1, <2>4, <2>5 DEF Update, Begins, TypeOK
<1>7. ASSUME NEW c \in Creds, UpdateGranted(j, c) PROVE TypeOK'
  BY <1>1, <1>7 DEF UpdateGranted, Begins, TypeOK, Places, Creds, Owner, Ask
<1>8. CASE Look(j) \/ Reuse(j)
  <2>1. CASE Look(j)
    BY <1>1, <2>1 DEF Look, TypeOK, Places
  <2>2. CASE Reuse(j)
    <3>1. User(j) \in Users
      BY <1>1, <2>2 DEF Reuse, Equipped, Commanding, User, Creds
    <3> QED
      BY <1>1, <2>2, <3>1 DEF Reuse, Alive, TypeOK, Places
  <2> QED
    BY <1>8, <2>1, <2>2
<1>9. CASE Replace(j)
  BY <1>1, <1>9 DEF Replace, TypeOK, Places
<1>10. CASE Connect(j)
  BY <1>1, <1>10, RoomToOpen DEF Connect, Opens, TypeOK, Places, Equipped, Commanding, User, Creds
<1>11. ASSUME Ended(j), pc[j] \in Commanding
       PROVE  /\ pc' \in [Jobs -> Places] /\ drop' \in [Jobs -> Seq(Users)]
              /\ then' \in [Jobs -> Places] /\ left' \in [Jobs -> 0..MaxReads]
  BY <1>1, <1>11, TypedEnd DEF Equipped
<1>12. CASE ConnectFails(j)
  BY <1>1, <1>11, <1>12, EndsEnded DEF ConnectFails, LockAfter, TypeOK, Commanding
<1>13. CASE NotConnected(j)
  BY <1>1, <1>11, <1>13, EndsEnded DEF NotConnected, TypeOK, Commanding
<1>14. CASE Take(j)
  BY <1>1, <1>14 DEF Take, TypeOK, Places
<1>15. CASE Answered(j)
  <2>1. sent' \in [Jobs -> 0..2]
    BY <1>1, <1>15 DEF Answered, TypeOK, Unsent, Commanding
  <2> QED
    BY <1>1, <1>11, <1>15, <2>1, EndsEnded DEF Answered, Leaves, TypeOK, Commanding
<1>16. CASE CommandFails(j)
  <2>1. PICK modeFailed \in BOOLEAN, taken \in {0, 1} : CommandFails(j)!(modeFailed, taken)
    BY <1>16 DEF CommandFails
  <2>2. sent' \in [Jobs -> 0..2]
    BY <1>1, <2>1 DEF TypeOK, Unsent, Commanding
  <2>3. /\ pc' \in [Jobs -> Places] /\ drop' \in [Jobs -> Seq(Users)]
        /\ then' \in [Jobs -> Places] /\ left' \in [Jobs -> 0..MaxReads]
    <3>1. CASE Ends(j, FALSE)
      BY <1>11, <2>1, <3>1, EndsEnded DEF Commanding
    <3>2. CASE left' = [left EXCEPT ![j] = 1] /\ Closes(j, <<User(j)>>, "entering")
      <4>1. <<User(j)>> \in Seq(Users)
        BY <1>1, <2>1 DEF Equipped, Commanding, User, Creds
      <4> QED
        BY <1>1, <3>2, <4>1 DEF TypeOK, Places, ConstantsOK
    <3> QED
      BY <2>1, <3>1, <3>2
  <2> QED
    BY <1>1, <2>1, <2>2, <2>3 DEF Leaves, TypeOK
<1>17. CASE Pop(j)
  <2>1. drop[j] \in Seq(Users) /\ drop[j] # <<>>
    BY <1>1, <1>17 DEF Pop, TypeOK, Equipped
  <2>2. Head(drop[j]) \in Users /\ Tail(drop[j]) \in Seq(Users)
    BY <2>1
  <2> QED
    BY <1>1, <1>17, <2>2 DEF Pop, TypeOK, Places
<1>18. CASE Close(j)
  BY <1>1, <1>18 DEF Close, Closed, TypeOK, Places
<1>19. CASE Probe(j)
  <2>1. Tested(j) \in Creds
    BY <1>1, <1>19, TestedCreds DEF Probe, Equipped, Testing
  <2> QED
    BY <1>1, <1>19, <2>1, RoomToOpen DEF Probe, Opens, TypeOK, Places
<1>20. CASE ProbeFails(j)
  BY <1>1, <1>20 DEF ProbeFails, TypeOK, Places
<1>21. CASE Insert(j)
  <2>1. Tested(j).user \in Users
    BY <1>1, <1>21, TestedCreds DEF Insert, Equipped, Testing, Creds
  <2> QED
    BY <1>1, <1>21, <2>1 DEF Insert, Alive, TypeOK, Places, Equipped
<1>22. CASE Added(j)
  BY <1>1, <1>22 DEF Added, TypeOK, Places, Equipped, Testing, Tester, Owner, Ask
<1>23. CASE UpdateTested(j)
  <2>1. UpdateDrops(old[j], cred[j]) \in Seq(Users)
    BY <1>1, <1>23, UpdateDropsUsers DEF UpdateTested, Equipped, Testing, Tester
  <2> QED
    BY <1>1, <1>23, <2>1 DEF UpdateTested, TypeOK, Places
<1>24. CASE Change(j)
  <2>1. rows[Owner(j)] \in Creds \cup {NoRow}
    BY <1>1 DEF TypeOK, Owner, Ask
  <2>2. rows[Owner(j)] # NoRow /\ Kind(j) # "delete"
          => Updated(rows[Owner(j)], old[j], cred[j]) \in Creds
    BY <1>1, <1>24, <2>1 DEF Change, Equipped, Updated, Creds
  <2> QED
    BY <1>1, <1>24, <2>1, <2>2 DEF Change, TypeOK, Places
<1> QED
  BY <1>2, <1>3, <1>4, <1>5, <1>6, <1>7, <1>8, <1>9, <1>10, <1>12, <1>13, <1>14, <1>15, <1>16,
     <1>17, <1>18, <1>19, <1>20, <1>21, <1>22, <1>23, <1>24 DEF StepOf, Step
-------------------------------------------------------------------------------
(* What a step does to connections *)

LEMMA AskKept ==
  ASSUME NEW j \in Jobs, StepOf(j)
  PROVE  ask' = ask
<1>1. CASE Resolve(j) \/ Delete(j) \/ NotFound(j)
  BY <1>1 DEF Resolve, Delete, NotFound
<1>2. ASSUME NEW c \in Creds, Add(j, c) \/ Update(j, c) \/ UpdateGranted(j, c)
      PROVE  ask' = ask
  BY <1>2 DEF Add, Update, UpdateGranted
<1>3. CASE Step(j)
  BY <1>3 DEF Step, Look, Reuse, Replace, Connect, ConnectFails, Take, NotConnected, Answered,
              CommandFails, Pop, Close, Probe, ProbeFails, Insert, Added, UpdateTested, Change
<1> QED
  BY <1>1, <1>2, <1>3 DEF StepOf

\* What a job opens it opens with credentials, as its next session; what it closes
\* was opened before.
Kept(j)   == UNCHANGED <<conn, opened>>
Made(j)   == /\ pc[j] \in {"connecting", "probing"}
             /\ \E c \in Creds : Opens(j, c)
Shut(j)   == /\ \E s \in Sessions \cup {NoSession} :
                  /\ conn' = Closed(s)
                  /\ s \in Sessions => conn[s] # "none"
             /\ pc[j] \in {"entering", "closing"}
             /\ UNCHANGED opened

LEMMA ConnSteps ==
  ASSUME ConstantsOK, IInv, NEW j \in Jobs, StepOf(j)
  PROVE  Kept(j) \/ Made(j) \/ Shut(j)
<1>0. TypeOK /\ Equipped(j) /\ \A u \in Users : Keyed(u)
  BY DEF IInv
<1>1. CASE Resolve(j) \/ Delete(j) \/ NotFound(j)
  BY <1>1 DEF Resolve, Delete, NotFound, Kept
<1>2. ASSUME NEW c \in Creds, Add(j, c) \/ Update(j, c) \/ UpdateGranted(j, c)
      PROVE  Kept(j)
  BY <1>2 DEF Add, Update, UpdateGranted, Kept
<1>3. CASE \/ Look(j) \/ Reuse(j) \/ ConnectFails(j) \/ Take(j) \/ NotConnected(j)
           \/ Answered(j) \/ CommandFails(j) \/ Pop(j) \/ ProbeFails(j) \/ Insert(j)
           \/ Added(j) \/ UpdateTested(j) \/ Change(j)
  BY <1>3 DEF Look, Reuse, ConnectFails, Take, NotConnected, Answered, CommandFails, Pop,
              ProbeFails, Insert, Added, UpdateTested, Change, Kept
<1>4. CASE Replace(j)
  <2>1. User(j) \in Users
    BY <1>0, <1>4 DEF Replace, Equipped, Commanding, User, Creds
  <2>2. cache[User(j)] \in Sessions \cup {NoSession}
    BY <1>0, <2>1 DEF TypeOK
  <2>3. cache[User(j)] \in Sessions => conn[cache[User(j)]] # "none"
    BY <1>0, <2>1 DEF Keyed
  <2> QED
    BY <1>4, <2>2, <2>3 DEF Replace, Shut, Closed
<1>5. CASE Close(j)
  <2>1. mine[j] \in Sessions \cup {NoSession}
    BY <1>0 DEF TypeOK
  <2>2. mine[j] \in Sessions => conn[mine[j]] # "none"
    BY <1>0, <1>5 DEF Close, Equipped
  <2> QED
    BY <1>5, <2>1, <2>2 DEF Close, Shut
<1>6. CASE Connect(j)
  BY <1>0, <1>6 DEF Connect, Made, Equipped, Commanding
<1>7. CASE Probe(j)
  BY <1>0, <1>7, TestedCreds DEF Probe, Made, Equipped, Testing
<1> QED
  BY <1>1, <1>2, <1>3, <1>4, <1>5, <1>6, <1>7 DEF StepOf, Step

\* What was opened stays opened, with the credentials it was opened with; what
\* opens is the next session of the job, and nothing comes back to life.
Lasting(j, s) ==
  /\ conn[s] # "none" => conn'[s] # "none" /\ opened'[s] = opened[s]
  /\ conn[s] = "none" /\ conn'[s] # "none"
       => s = Fresh(j) /\ pc[j] \in {"connecting", "probing"} /\ conn'[s] = "open"
  /\ conn'[s] = "open" /\ conn[s] # "open" => conn[s] = "none"

LEMMA ConnsLast ==
  ASSUME ConstantsOK, IInv, NEW j \in Jobs, StepOf(j), NEW s \in Sessions
  PROVE  Lasting(j, s)
<1>1. TypeOK
  BY DEF IInv
<1>2. CASE Kept(j)
  BY <1>2 DEF Kept, Lasting
<1>3. CASE Made(j)
  <2>1. Fresh(j) \in Sessions /\ conn[Fresh(j)] = "none"
    BY <1>3, RoomToOpen DEF Made
  <2> QED
    BY <1>1, <1>3, <2>1 DEF Made, Opens, TypeOK, Lasting
<1>4. CASE Shut(j)
  BY <1>1, <1>4 DEF Shut, Closed, TypeOK, Lasting
<1> QED
  BY <1>2, <1>3, <1>4, ConnSteps

\* The sessions of another job are opened by that job only.
LEMMA OthersKept ==
  ASSUME ConstantsOK, IInv, NEW j \in Jobs, StepOf(j), NEW s \in Sessions, s[1] # j
  PROVE  conn'[s] = "none" <=> conn[s] = "none"
<1>1. conn[s] = "none" /\ conn'[s] # "none" => Fresh(j)[1] = j
  BY ConnsLast, RoomToOpen DEF Lasting
<1> QED
  BY <1>1, ConnsLast DEF Lasting

-------------------------------------------------------------------------------
(* What a step leaves to the other jobs *)

LEMMA EquippedOthers ==
  ASSUME ConstantsOK, IInv, NEW j \in Jobs, StepOf(j), NEW i \in Jobs \ {j}
  PROVE  Equipped(i)'
<1>1. TypeOK /\ Equipped(i)
  BY DEF IInv
<1>2. Untouched(i) /\ ask' = ask
  BY <1>1, OthersUntouched
<1>3. Tester(i)' = Tester(i) /\ Resumes(i)' = Resumes(i) /\ Tested(i)' = Tested(i)
  BY <1>2 DEF Untouched, Tester, Resumes, Tested, Kind, User
<1>4. mine[i] \in Sessions => Lasting(j, mine[i])
  BY ConnsLast
<1> QED
  BY <1>1, <1>2, <1>3, <1>4 DEF Untouched, Equipped, Kind, Lasting

LEMMA BudgetedOthers ==
  ASSUME ConstantsOK, IInv, NEW j \in Jobs, StepOf(j), NEW i \in Jobs \ {j}
  PROVE  Budgeted(i)'
<1>1. TypeOK /\ Budgeted(i)
  BY DEF IInv
<1>2. Untouched(i)
  BY <1>1, OthersUntouched
<1>3. PICK k \in 0..MaxReads : FirstOpened(i, k) /\ Affords(i, k)
  BY <1>1 DEF Budgeted
<1>4. ASSUME NEW n \in 1..MaxReads
      PROVE  conn'[<<i, n>>] = "none" <=> conn[<<i, n>>] = "none"
  BY OthersKept DEF Sessions
<1>5. FirstOpened(i, k)'
  BY <1>3, <1>4 DEF FirstOpened
<1>6. Affords(i, k)'
  BY <1>2, <1>3 DEF Affords, Untouched
<1> QED
  BY <1>5, <1>6 DEF Budgeted

LEMMA UnsentOthers ==
  ASSUME ConstantsOK, IInv, NEW j \in Jobs, StepOf(j), NEW i \in Jobs \ {j}
  PROVE  Unsent(i)'
  BY OthersUntouched DEF IInv, Unsent, Untouched
-------------------------------------------------------------------------------
(* What a step leaves the job that takes it *)

\* After a command, or an attempt, the job has what it goes on with.
LEMMA EquippedEnd ==
  ASSUME ConstantsOK, TypeOK, NEW j \in Jobs, Kind(j) \in {"command", "sweep"},
         cred[j] \in Creds, left[j] >= 1, Ended(j), ask' = ask, cred' = cred
  PROVE  Equipped(j)'
<1> USE DEF TypeOK, Closes, Goes
<1>1. Kind(j)' = Kind(j) /\ left[j] \in 0..MaxReads /\ left'[j] = left[j] - 1
  BY DEF Kind, Ended
<1>2. CASE Kind(j) = "sweep" /\ left[j] > 1 /\ pc' = [pc EXCEPT ![j] = "entering"]
  <2>1. pc'[j] = "entering"
    BY <1>2
  <2>2. left'[j] >= 1
    BY <1>1, <1>2, ConstantsOK DEF ConstantsOK
  <2> QED
    BY <1>1, <2>1, <2>2 DEF Equipped, Commanding, Testing, Dropping
<1>3. CASE Kind(j) = "sweep" /\ Closes(j, <<User(j)>>, "done")
  <2>1. pc'[j] = "dropping" /\ drop'[j] = <<User(j)>> /\ then'[j] = "done"
    BY <1>3
  <2>2. Resumes(j)'
    BY <1>1, <1>3, <2>1 DEF Resumes, User
  <2>3. drop'[j] # <<>>
    BY <2>1
  <2> QED
    BY <2>1, <2>2, <2>3 DEF Equipped, Commanding, Testing, Dropping
<1>4. CASE pc' = [pc EXCEPT ![j] = "done"] \/ pc' = [pc EXCEPT ![j] = "failed"]
  <2>1. pc'[j] \in {"done", "failed"}
    BY <1>4
  <2> QED
    BY <2>1 DEF Equipped, Commanding, Testing, Dropping
<1> QED
  BY <1>2, <1>3, <1>4 DEF Ended

\* A job that begins to close the sessions of these users.
LEMMA EquippedCloses ==
  ASSUME TypeOK, NEW j \in Jobs, NEW users, NEW place, Closes(j, users, place), users # <<>>,
         pc'[j] = "dropping" /\ drop'[j] = users /\ then'[j] = place => Resumes(j)'
  PROVE  Equipped(j)'
<1>1. pc'[j] = "dropping" /\ drop'[j] = users /\ then'[j] = place
  BY DEF Closes, Goes, TypeOK
<1> QED
  BY <1>1 DEF Equipped, Commanding, Testing, Dropping

LEMMA EquippedBeginning ==
  ASSUME ConstantsOK, IInv, NEW j \in Jobs,
         \/ Resolve(j) \/ Delete(j) \/ NotFound(j)
         \/ \E c \in Creds : Add(j, c) \/ Update(j, c) \/ UpdateGranted(j, c)
  PROVE  Equipped(j)'
<1>1. TypeOK /\ Owner(j) \in Owners /\ rows[Owner(j)] \in Creds \cup {NoRow}
  BY DEF IInv, TypeOK, Owner, Ask
<1>2. CASE Resolve(j)
  <2>1. Kind(j)' = Kind(j) /\ cred'[j] \in Creds /\ left'[j] >= 1
    BY <1>1, <1>2 DEF Resolve, TypeOK, ConstantsOK, Kind
  <2>2. pc'[j] \in {"looking", "entering"}
    BY <1>1, <1>2 DEF Resolve, Goes, TypeOK
  <2> QED
    BY <1>2, <2>1, <2>2 DEF Resolve, Equipped, Commanding, Testing, Dropping
<1>3. CASE Delete(j)
  <2>1. PICK u \in {NameOf[Owner(j)], rows[Owner(j)].user} : Closes(j, <<u>>, "changing")
    BY <1>3 DEF Delete
  <2>2. <<u>> # <<>>
    OBVIOUS
  <2>3. Kind(j)' = "delete"
    BY <1>3 DEF Delete, Kind
  <2> QED
    BY <1>1, <2>1, <2>2, <2>3, EquippedCloses DEF Resumes
<1>4. CASE NotFound(j)
  <2>1. pc'[j] = "failed"
    BY <1>1, <1>4 DEF NotFound, Goes, TypeOK
  <2> QED
    BY <2>1 DEF Equipped, Commanding, Testing, Dropping
<1>5. ASSUME NEW c \in Creds, Add(j, c) PROVE Equipped(j)'
  <2>1. <<c.user>> # <<>>
    OBVIOUS
  <2>2. Kind(j)' = "add" /\ cred'[j] = c
    BY <1>1, <1>5 DEF Add, Kind, TypeOK
  <2> QED
    BY <1>1, <1>5, <2>1, <2>2, EquippedCloses DEF Add, Resumes, Tester
<1>6. ASSUME NEW c \in Creds, Update(j, c) PROVE Equipped(j)'
  <2>1. Kind(j)' = "update" /\ cred'[j] = c /\ old'[j] = rows[Owner(j)]
    BY <1>1, <1>6 DEF Update, Kind, TypeOK
  <2>2. rows[Owner(j)] \in Creds /\ c # rows[Owner(j)]
    BY <1>1, <1>6 DEF Update
  <2>3. CASE /\ c.pass # rows[Owner(j)].pass
             /\ Closes(j, <<rows[Owner(j)].user, rows[Owner(j)].user>>, "probing")
    <3>1. <<rows[Owner(j)].user, rows[Owner(j)].user>> # <<>>
      OBVIOUS
    <3> QED
      BY <1>1, <2>1, <2>2, <2>3, <3>1, EquippedCloses DEF Resumes, Tester
  <2>4. CASE Closes(j, UpdateDrops(rows[Owner(j)], c), "changing")
    <3>1. UpdateDrops(rows[Owner(j)], c) # <<>>
      BY <2>2, UpdateDropsUsers
    <3> QED
      BY <1>1, <2>1, <2>2, <2>4, <3>1, EquippedCloses DEF Resumes
  <2> QED
    BY <1>6, <2>3, <2>4 DEF Update
<1>7. ASSUME NEW c \in Creds, UpdateGranted(j, c) PROVE Equipped(j)'
  <2>1. <<c.user>> # <<>>
    OBVIOUS
  <2>2. Kind(j)' = "grant"
    BY <1>7 DEF UpdateGranted, Kind
  <2> QED
    BY <1>1, <1>7, <2>1, <2>2, EquippedCloses DEF UpdateGranted, Resumes
<1> QED
  BY <1>2, <1>3, <1>4, <1>5, <1>6, <1>7

LEMMA EquippedCommand ==
  ASSUME ConstantsOK, IInv, NEW j \in Jobs,
         \/ Look(j) \/ Reuse(j) \/ Replace(j) \/ Connect(j) \/ ConnectFails(j)
         \/ Take(j) \/ NotConnected(j) \/ Answered(j) \/ CommandFails(j)
  PROVE  Equipped(j)'
<1>1. TypeOK /\ Equipped(j)
  BY DEF IInv
<1>2. pc[j] \in Commanding
  BY DEF Look, Reuse, Replace, Connect, ConnectFails, Take, NotConnected, Answered,
         CommandFails, Commanding
<1>3. Kind(j) \in {"command", "sweep"} /\ cred[j] \in Creds /\ left[j] >= 1
  BY <1>1, <1>2 DEF Equipped
<1>4. StepOf(j) /\ ask' = ask
  BY AskKept DEF StepOf, Step
<1>5. Kind(j)' = Kind(j)
  BY <1>4 DEF Kind
<1>6. CASE Look(j) \/ Replace(j)
  <2>1. pc'[j] \in {"entering", "connecting"} /\ cred'[j] = cred[j] /\ left'[j] = left[j]
    BY <1>1, <1>6 DEF Look, Replace, Goes, local, TypeOK
  <2> QED
    BY <1>3, <1>5, <2>1 DEF Equipped, Commanding, Testing, Dropping
<1>7. CASE Reuse(j)
  <2>1. User(j) \in Users
    BY <1>3 DEF User, Creds
  <2>2. cache[User(j)] \in Sessions
    BY <1>1, <1>7, <2>1 DEF Reuse, Alive, TypeOK
  <2>3. /\ pc'[j] = "ready" /\ cred'[j] = cred[j] /\ left'[j] = left[j]
        /\ mine'[j] = cache[User(j)]
    BY <1>1, <1>7 DEF Reuse, Goes, TypeOK
  <2> QED
    BY <1>3, <1>5, <2>2, <2>3 DEF Equipped, Commanding, Testing, Dropping
<1>8. CASE Connect(j)
  <2>1. Fresh(j) \in Sessions
    BY <1>8, RoomToOpen DEF Connect
  <2>2. /\ pc'[j] = "ready" /\ cred'[j] = cred[j] /\ left'[j] = left[j]
        /\ mine'[j] = Fresh(j)
    BY <1>1, <1>8 DEF Connect, Opens, Goes, TypeOK
  <2> QED
    BY <1>3, <1>5, <2>1, <2>2 DEF Equipped, Commanding, Testing, Dropping
<1>9. CASE Take(j)
  <2>1. /\ pc'[j] = "sending" /\ cred'[j] = cred[j] /\ left'[j] = left[j]
        /\ mine'[j] = mine[j]
    BY <1>1, <1>9 DEF Take, Goes, local, TypeOK
  <2>2. mine[j] \in Sessions
    BY <1>1, <1>9 DEF Take, Equipped
  <2> QED
    BY <1>3, <1>5, <2>1, <2>2 DEF Equipped, Commanding, Testing, Dropping
<1>10. CASE ConnectFails(j) \/ NotConnected(j) \/ Answered(j)
  <2>1. Ended(j) /\ cred' = cred
    BY <1>10, EndsEnded DEF ConnectFails, NotConnected, Answered
  <2> QED
    BY <1>1, <1>3, <1>4, <2>1, EquippedEnd
<1>11. CASE CommandFails(j)
  <2>1. PICK modeFailed \in BOOLEAN, taken \in {0, 1} : CommandFails(j)!(modeFailed, taken)
    BY <1>11 DEF CommandFails
  <2>2. CASE Ends(j, FALSE)
    <3>1. Ended(j)
      BY <2>2, EndsEnded
    <3> QED
      BY <1>1, <1>3, <1>4, <2>1, <3>1, EquippedEnd
  <2>3. CASE /\ Kind(j) = "command" /\ left' = [left EXCEPT ![j] = 1]
             /\ Closes(j, <<User(j)>>, "entering")
    <3>1. <<User(j)>> # <<>>
      OBVIOUS
    <3>2. left'[j] = 1 /\ cred'[j] = cred[j]
      BY <1>1, <2>1, <2>3 DEF TypeOK
    <3> QED
      BY <1>1, <1>3, <1>5, <2>3, <3>1, <3>2, EquippedCloses DEF Resumes
  <2> QED
    BY <2>1, <2>2, <2>3
<1> QED
  BY <1>6, <1>7, <1>8, <1>9, <1>10, <1>11

\* A session leaves the cache, and is closed; the job then goes on.
LEMMA EquippedClosing ==
  ASSUME ConstantsOK, IInv, NEW j \in Jobs, Pop(j) \/ Close(j)
  PROVE  Equipped(j)'
<1>1. TypeOK /\ Equipped(j)
  BY DEF IInv
<1>2. Resumes(j)
  BY <1>1 DEF Equipped, Pop, Close, Dropping
<1>3. /\ Kind(j)' = Kind(j) /\ cred'[j] = cred[j] /\ old'[j] = old[j] /\ then'[j] = then[j]
      /\ left'[j] = left[j]
  BY DEF Pop, Close, Kind, ghosts
<1>4. Tester(j)' = Tester(j) /\ User(j)' = User(j)
  BY <1>3 DEF Tester, User
<1>5. CASE Pop(j)
  <2>1. /\ pc'[j] = "closing" /\ mine'[j] = cache[Head(drop[j])]
        /\ drop'[j] = Tail(drop[j]) /\ conn' = conn
    BY <1>1, <1>5 DEF Pop, Goes, TypeOK
  <2>2. drop[j] \in Seq(Users) /\ drop[j] # <<>>
    BY <1>1, <1>5 DEF Pop, TypeOK, Equipped
  <2>3. Head(drop[j]) \in Users
    BY <2>2
  <2>4. mine'[j] \in Sessions => conn'[mine'[j]] # "none"
    BY <2>1, <2>3 DEF IInv, Keyed
  <2>5. Kind(j) = "sweep" => drop'[j] = <<>>
    <3>1. Kind(j) = "sweep" => drop[j] = <<User(j)>>
      BY <1>2, <1>5 DEF Resumes, Pop
    <3>2. Tail(<<User(j)>>) = <<>>
      OBVIOUS
    <3> QED
      BY <2>1, <3>1, <3>2
  <2>6. Resumes(j)'
    BY <1>2, <1>3, <1>4, <2>1, <2>5 DEF Resumes
  <2> QED
    BY <2>1, <2>4, <2>6 DEF Equipped, Commanding, Testing, Dropping
<1>6. CASE Close(j)
  <2>1. pc'[j] = (IF drop[j] = <<>> THEN then[j] ELSE "dropping") /\ drop'[j] = drop[j]
    BY <1>1, <1>6 DEF Close, Goes, TypeOK
  <2>2. CASE drop[j] # <<>>
    <3>1. Kind(j) # "sweep"
      BY <1>2, <1>6, <2>2 DEF Resumes, Close
    <3>2. Resumes(j)'
      BY <1>2, <1>3, <1>4, <3>1 DEF Resumes
    <3> QED
      BY <2>1, <2>2, <3>2 DEF Equipped, Commanding, Testing, Dropping
  <2>3. CASE drop[j] = <<>>
    <3>1. pc'[j] = then[j]
      BY <2>1, <2>3
    <3>2. Kind(j) \in Kinds
      BY <1>1 DEF TypeOK, Kind, Ask
    <3>3. CASE Kind(j) = "command"
      BY <1>2, <1>3, <3>1, <3>3 DEF Resumes, Equipped, Commanding, Testing, Dropping
    <3>4. CASE Kind(j) \in {"sweep", "grant"}
      BY <1>2, <3>1, <3>4 DEF Resumes, Equipped, Commanding, Testing, Dropping
    <3>5. CASE Kind(j) = "add"
      BY <1>2, <1>3, <1>4, <3>1, <3>5 DEF Resumes, Equipped, Commanding, Testing, Dropping
    <3>6. CASE Kind(j) = "update"
      BY <1>2, <1>3, <1>4, <3>1, <3>6 DEF Resumes, Equipped, Commanding, Testing, Dropping
    <3>7. CASE Kind(j) = "delete"
      BY <1>2, <1>3, <3>1, <3>7 DEF Resumes, Equipped, Commanding, Testing, Dropping
    <3> QED
      BY <3>2, <3>3, <3>4, <3>5, <3>6, <3>7 DEF Kinds
  <2> QED
    BY <2>2, <2>3
<1> QED
  BY <1>5, <1>6

LEMMA EquippedTest ==
  ASSUME ConstantsOK, IInv, NEW j \in Jobs,
         Probe(j) \/ ProbeFails(j) \/ Insert(j) \/ Added(j) \/ UpdateTested(j) \/ Change(j)
  PROVE  Equipped(j)'
<1>1. TypeOK /\ Equipped(j)
  BY DEF IInv
<1>2. CASE ProbeFails(j) \/ Added(j) \/ Change(j)
  <2>1. pc'[j] \in {"done", "failed"}
    BY <1>1, <1>2 DEF ProbeFails, Added, Change, Goes, TypeOK
  <2> QED
    BY <2>1 DEF Equipped, Commanding, Testing, Dropping
<1>3. ASSUME pc[j] \in Testing
      PROVE  Kind(j) \in {"add", "update"} /\ Tester(j) /\ Tested(j) \in Creds
  BY <1>1, <1>3, TestedCreds DEF Equipped
<1>4. Kind(j)' = Kind(j) /\ cred'[j] = cred[j] /\ old'[j] = old[j]
  BY DEF Probe, ProbeFails, Insert, Added, UpdateTested, Change, Kind, ghosts
<1>5. Tester(j)' = Tester(j) /\ Tested(j)' = Tested(j)
  BY <1>4 DEF Tester, Tested
<1>6. CASE Probe(j)
  <2>1. Fresh(j) \in Sessions /\ Fresh(j)[1] = j
    BY <1>6, RoomToOpen DEF Probe
  <2>2. /\ pc'[j] = "inserting" /\ mine'[j] = Fresh(j)
        /\ conn'[Fresh(j)] = "open" /\ opened'[Fresh(j)] = Tested(j)
    BY <1>1, <1>6, <2>1 DEF Probe, Opens, Goes, TypeOK
  <2> QED
    BY <1>3, <1>4, <1>5, <1>6, <2>1, <2>2 DEF Probe, Equipped, Commanding, Testing, Dropping
<1>7. CASE Insert(j)
  <2>1. pc'[j] = "tested"
    BY <1>1, <1>7 DEF Insert, Goes, TypeOK
  <2> QED
    BY <1>3, <1>4, <1>5, <1>7, <2>1 DEF Insert, Equipped, Commanding, Testing, Dropping
<1>8. CASE UpdateTested(j)
  <2>1. cred[j] \in Creds /\ old[j] \in Creds /\ cred[j] # old[j]
    BY <1>3, <1>8 DEF UpdateTested, Testing, Tester
  <2>2. UpdateDrops(old[j], cred[j]) # <<>>
    BY <2>1, UpdateDropsUsers
  <2> QED
    BY <1>1, <1>4, <1>8, <2>1, <2>2, EquippedCloses DEF UpdateTested, Resumes
<1> QED
  BY <1>2, <1>6, <1>7, <1>8

LEMMA EquippedOwn ==
  ASSUME ConstantsOK, IInv, NEW j \in Jobs, StepOf(j)
  PROVE  Equipped(j)'
  BY EquippedBeginning, EquippedCommand, EquippedClosing, EquippedTest DEF StepOf, Step

\* A job that opens nothing has opened the same sessions.
LEMMA SameOpened ==
  ASSUME ConstantsOK, IInv, NEW j \in Jobs, StepOf(j), ~Made(j),
         NEW k \in 0..MaxReads, FirstOpened(j, k)
  PROVE  FirstOpened(j, k)'
<1>1. ASSUME NEW n \in 1..MaxReads
      PROVE  conn'[<<j, n>>] = "none" <=> conn[<<j, n>>] = "none"
  <2>1. <<j, n>> \in Sessions
    BY DEF Sessions
  <2>2. CASE Kept(j)
    BY <2>2 DEF Kept
  <2>3. CASE Shut(j)
    BY <2>1, <2>3, ConnsLast DEF Shut, Lasting
  <2> QED
    BY <2>2, <2>3, ConnSteps
<1> QED
  BY <1>1 DEF FirstOpened

\* A job that opens a session has opened one more.
LEMMA OneMoreOpened ==
  ASSUME ConstantsOK, IInv, NEW j \in Jobs, Made(j),
         NEW k \in 0..MaxReads, k < MaxReads, FirstOpened(j, k), Fresh(j) = <<j, k + 1>>
  PROVE  FirstOpened(j, k + 1)'
<1>1. TypeOK /\ Fresh(j) \in Sessions
  BY RoomToOpen DEF Made, IInv
<1>2. conn' = [conn EXCEPT ![<<j, k + 1>>] = "open"] /\ <<j, k + 1>> \in Sessions
  BY <1>1 DEF Made, Opens
<1>3. ASSUME NEW n \in 1..MaxReads
      PROVE  conn'[<<j, n>>] # "none" <=> n <= k + 1
  <2>1. <<j, n>> \in Sessions
    BY DEF Sessions
  <2>2. CASE n = k + 1
    BY <1>1, <1>2, <2>2 DEF TypeOK
  <2>3. CASE n # k + 1
    <3>1. <<j, n>> # <<j, k + 1>>
      BY <2>3
    <3>2. conn'[<<j, n>>] = conn[<<j, n>>]
      BY <1>1, <1>2, <2>1, <3>1 DEF TypeOK
    <3> QED
      BY <2>3, <3>2 DEF FirstOpened, ConstantsOK
  <2> QED
    BY <2>2, <2>3
<1> QED
  BY <1>3 DEF FirstOpened

\* The end of a command leaves room for the commands there still are.
LEMMA AffordsEnd ==
  ASSUME ConstantsOK, TypeOK, NEW j \in Jobs, left[j] >= 1, Ended(j),
         NEW k \in 0..MaxReads, k + left[j] <= MaxReads + 1
  PROVE  Affords(j, k)'
<1> USE DEF TypeOK
<1>1. left[j] \in 0..MaxReads /\ left'[j] = left[j] - 1
  BY DEF Ended
<1>2. CASE pc' = [pc EXCEPT ![j] = "entering"]
  <2>1. pc'[j] = "entering"
    BY <1>2
  <2> QED
    BY <1>1, <2>1, ConstantsOK DEF Affords, Dropping, ConstantsOK
<1>3. CASE Closes(j, <<User(j)>>, "done")
  <2>1. pc'[j] = "dropping" /\ then'[j] = "done"
    BY <1>3 DEF Closes, Goes
  <2> QED
    BY <2>1 DEF Affords, Dropping
<1>4. CASE pc' = [pc EXCEPT ![j] = "done"] \/ pc' = [pc EXCEPT ![j] = "failed"]
  <2>1. pc'[j] \in {"done", "failed"}
    BY <1>4
  <2> QED
    BY <2>1 DEF Affords, Dropping
<1> QED
  BY <1>2, <1>3, <1>4 DEF Ended

LEMMA AffordsBeginning ==
  ASSUME ConstantsOK, IInv, NEW j \in Jobs,
         \/ Resolve(j) \/ Delete(j) \/ NotFound(j)
         \/ \E c \in Creds : Add(j, c) \/ Update(j, c) \/ UpdateGranted(j, c),
         NEW k \in 0..MaxReads, Affords(j, k)
  PROVE  Affords(j, k)'
<1> USE DEF TypeOK, Goes
<1>1. TypeOK /\ pc[j] = "idle"
  BY DEF IInv, Resolve, Delete, NotFound, Add, Update, UpdateGranted, Begins
<1>2. k = 0
  BY <1>1 DEF Affords
<1>3. CASE Resolve(j)
  <2>1. pc'[j] \in {"looking", "entering"} /\ left'[j] <= MaxReads /\ left'[j] \in Nat
    BY <1>1, <1>3 DEF Resolve, ConstantsOK
  <2> QED
    BY <1>2, <2>1, ConstantsOK DEF Affords, Dropping, ConstantsOK
<1>4. CASE NotFound(j)
  <2>1. pc'[j] = "failed"
    BY <1>1, <1>4 DEF NotFound
  <2> QED
    BY <2>1 DEF Affords, Dropping
<1>5. ASSUME NEW users, NEW place, Closes(j, users, place), place # "entering"
      PROVE  Affords(j, k)'
  <2>1. pc'[j] = "dropping" /\ then'[j] = place
    BY <1>1, <1>5 DEF Closes
  <2> QED
    BY <1>2, <1>5, <2>1 DEF Affords, Dropping
<1>6. CASE Delete(j)
  BY <1>5, <1>6 DEF Delete
<1>7. ASSUME NEW c \in Creds, Add(j, c) \/ Update(j, c) \/ UpdateGranted(j, c)
      PROVE  Affords(j, k)'
  BY <1>5, <1>7 DEF Add, Update, UpdateGranted
<1> QED
  BY <1>3, <1>4, <1>6, <1>7

\* The other steps of a job that open nothing.
LEMMA AffordsStep ==
  ASSUME ConstantsOK, IInv, NEW j \in Jobs, Step(j), ~Connect(j), ~Probe(j),
         NEW k \in 0..MaxReads, Affords(j, k)
  PROVE  Affords(j, k)'
<1> USE DEF TypeOK, Goes
<1>1. TypeOK /\ Equipped(j) /\ left[j] \in 0..MaxReads
  BY DEF IInv
<1>2. CASE Look(j) \/ Reuse(j) \/ Replace(j) \/ Take(j)
  <2>1. pc[j] \in {"looking", "entering", "ready"} /\ left'[j] = left[j]
    BY <1>2 DEF Look, Reuse, Replace, Take, local
  <2>2. /\ pc'[j] \in {"entering", "connecting", "ready", "sending"}
        /\ pc'[j] \in {"entering", "connecting"} => pc[j] # "ready"
    BY <1>1, <1>2 DEF Look, Reuse, Replace, Take
  <2> QED
    BY <1>1, <2>1, <2>2, ConstantsOK DEF Affords, Dropping, ConstantsOK
<1>3. ASSUME pc[j] \in {"connecting", "ready", "sending"}, Ended(j)
      PROVE  Affords(j, k)'
  <2>1. left[j] >= 1 /\ k + left[j] <= MaxReads + 1
    BY <1>1, <1>3, ConstantsOK DEF Affords, Equipped, Commanding, ConstantsOK
  <2> QED
    BY <1>1, <1>3, <2>1, AffordsEnd
<1>4. CASE ConnectFails(j) \/ NotConnected(j) \/ Answered(j)
  BY <1>3, <1>4, EndsEnded DEF ConnectFails, NotConnected, Answered
<1>5. CASE CommandFails(j)
  <2>1. PICK modeFailed \in BOOLEAN, taken \in {0, 1} : CommandFails(j)!(modeFailed, taken)
    BY <1>5 DEF CommandFails
  <2>2. CASE Ends(j, FALSE)
    BY <1>3, <2>1, <2>2, EndsEnded
  <2>3. CASE /\ left[j] = 2 /\ left' = [left EXCEPT ![j] = 1]
             /\ Closes(j, <<User(j)>>, "entering")
    <3>1. k + 1 <= MaxReads
      BY <1>1, <2>1, <2>3, ConstantsOK DEF Affords, ConstantsOK
    <3>2. pc'[j] = "dropping" /\ left'[j] = 1 /\ then'[j] = "entering"
      BY <1>1, <2>3 DEF Closes
    <3> QED
      BY <3>1, <3>2 DEF Affords, Dropping
  <2> QED
    BY <2>1, <2>2, <2>3
<1>6. CASE Pop(j) \/ Close(j)
  <2>1. pc[j] \in Dropping /\ left'[j] = left[j] /\ then'[j] = then[j]
    BY <1>6 DEF Pop, Close, Dropping
  <2>2. pc'[j] \in Dropping \cup {then[j]}
    BY <1>1, <1>6 DEF Pop, Close, Dropping
  <2>3. then[j] \in {"entering", "probing", "changing", "done"}
    <3>1. Kind(j) \in Kinds
      BY <1>1 DEF Kind, Ask
    <3> QED
      BY <1>1, <2>1, <3>1 DEF Equipped, Resumes, Kinds
  <2> QED
    BY <2>1, <2>2, <2>3 DEF Affords, Dropping
<1>7. CASE ProbeFails(j) \/ Insert(j) \/ Added(j) \/ Change(j)
  <2>1. pc'[j] \in {"failed", "tested", "done"}
    BY <1>1, <1>7 DEF ProbeFails, Insert, Added, Change
  <2> QED
    BY <2>1 DEF Affords, Dropping
<1>8. CASE UpdateTested(j)
  <2>1. pc'[j] = "dropping" /\ then'[j] = "changing"
    BY <1>1, <1>8 DEF UpdateTested, Closes
  <2> QED
    BY <2>1 DEF Affords, Dropping
<1> QED
  BY <1>2, <1>4, <1>5, <1>6, <1>7, <1>8 DEF Step

LEMMA BudgetedOwn ==
  ASSUME ConstantsOK, IInv, NEW j \in Jobs, StepOf(j)
  PROVE  Budgeted(j)'
<1>1. TypeOK /\ Equipped(j) /\ left[j] \in 0..MaxReads
  BY DEF IInv, TypeOK
<1>2. CASE Connect(j) \/ Probe(j)
  <2>1. pc[j] \in {"connecting", "probing"} /\ Made(j)
    BY <1>1, <1>2, TestedCreds DEF Connect, Probe, Made, Equipped, Commanding, Testing
  <2>2. PICK k \in 0..MaxReads : /\ k < MaxReads /\ FirstOpened(j, k) /\ Affords(j, k)
                                 /\ Fresh(j) = <<j, k + 1>>
    BY <2>1, RoomToOpen
  <2>3. FirstOpened(j, k + 1)' /\ k + 1 \in 0..MaxReads
    BY <2>1, <2>2, OneMoreOpened, ConstantsOK DEF ConstantsOK
  <2>4. CASE Connect(j)
    <3>1. pc'[j] = "ready" /\ left'[j] = left[j] /\ k + left[j] <= MaxReads
      BY <1>1, <2>2, <2>4 DEF Connect, Goes, TypeOK, Affords
    <3>2. Affords(j, k + 1)'
      BY <1>1, <2>2, <3>1, ConstantsOK DEF Affords, Dropping, ConstantsOK
    <3> QED
      BY <2>3, <3>2 DEF Budgeted
  <2>5. CASE Probe(j)
    <3>1. pc'[j] = "inserting"
      BY <1>1, <2>5 DEF Probe, Goes, TypeOK
    <3>2. Affords(j, k + 1)'
      BY <3>1 DEF Affords, Dropping
    <3> QED
      BY <2>3, <3>2 DEF Budgeted
  <2> QED
    BY <1>2, <2>4, <2>5
<1>3. CASE ~Connect(j) /\ ~Probe(j)
  <2>1. PICK k \in 0..MaxReads : FirstOpened(j, k) /\ Affords(j, k)
    BY DEF IInv, Budgeted
  <2>2. Affords(j, k)'
    BY <1>3, <2>1, AffordsBeginning, AffordsStep DEF StepOf
  <2>3. CASE ~Made(j)
    BY <2>1, <2>2, <2>3, SameOpened DEF Budgeted
  <2>4. CASE Made(j)
    \* Then it is a step from a place where nothing else opens.
    <3>1. ConnectFails(j) \/ ProbeFails(j)
      BY <1>3, <2>4 DEF Made, StepOf, Step, Resolve, Delete, NotFound, Add, Update, UpdateGranted,
         Begins, Look, Reuse, Replace, Take, NotConnected, Answered, CommandFails, Pop, Close,
         Insert, Added, UpdateTested, Change
    <3>2. conn' = conn
      BY <3>1 DEF ConnectFails, ProbeFails
    <3> QED
      BY <2>1, <2>2, <3>2 DEF FirstOpened, Budgeted
  <2> QED
    BY <2>3, <2>4
<1> QED
  BY <1>2, <1>3

\* A retry is for a command of which nothing was sent.
LEMMA UnsentOwn ==
  ASSUME ConstantsOK, IInv, NEW j \in Jobs, StepOf(j)
  PROVE  Unsent(j)'
<1> USE DEF TypeOK, Goes
<1>1. TypeOK /\ Equipped(j) /\ Unsent(j) /\ sent[j] \in 0..2
  BY DEF IInv
<1>2. ASSUME pc[j] = "idle", sent'[j] = sent[j] PROVE Unsent(j)'
  BY <1>1, <1>2 DEF Unsent
<1>3. CASE Resolve(j) \/ Delete(j) \/ NotFound(j)
  BY <1>2, <1>3 DEF Resolve, Delete, NotFound, Begins, ghosts
<1>4. ASSUME NEW c \in Creds, Add(j, c) \/ Update(j, c) \/ UpdateGranted(j, c)
      PROVE  Unsent(j)'
  BY <1>2, <1>4 DEF Add, Update, UpdateGranted, Begins, ghosts
<1>5. CASE Look(j) \/ Reuse(j) \/ Replace(j) \/ Connect(j) \/ Take(j)
  <2>1. pc[j] \in Commanding /\ sent'[j] = sent[j]
    BY <1>5 DEF Look, Reuse, Replace, Connect, Take, Commanding, ghosts
  <2> QED
    BY <1>1, <2>1 DEF Unsent
<1>6. CASE ConnectFails(j) \/ NotConnected(j)
  <2>1. pc[j] \in Commanding /\ sent'[j] = sent[j]
    BY <1>6 DEF ConnectFails, NotConnected, Commanding, ghosts
  <2> QED
    BY <1>1, <2>1 DEF Unsent
<1>7. ASSUME pc[j] = "sending", NEW ok \in BOOLEAN, Ends(j, ok), NEW taken \in {0, 1},
             sent' = [sent EXCEPT ![j] = IF Kind(j) = "command" THEN @ + taken ELSE 0]
      PROVE  Unsent(j)'
  <2>1. sent[j] = 0
    BY <1>1, <1>7 DEF Unsent, Commanding
  <2>2. sent'[j] = IF Kind(j) = "command" THEN taken ELSE 0
    BY <1>1, <1>7, <2>1
  <2>3. Kind(j) = "command" => pc'[j] \in {"done", "failed"}
    BY <1>1, <1>7 DEF Ends, Continues, HandsBack
  <2> QED
    BY <2>2, <2>3 DEF Unsent, Commanding, Dropping
<1>8. CASE Answered(j)
  <2>1. sent' = [sent EXCEPT ![j] = IF Kind(j) = "command" THEN @ + 1 ELSE 0]
    BY <1>8 DEF Answered
  <2> QED
    BY <1>7, <1>8, <2>1 DEF Answered
<1>9. CASE CommandFails(j)
  <2>1. PICK modeFailed \in BOOLEAN, taken \in {0, 1} : CommandFails(j)!(modeFailed, taken)
    BY <1>9 DEF CommandFails
  <2>2. CASE Ends(j, FALSE)
    BY <1>7, <2>1, <2>2
  <2>3. CASE Retriable(modeFailed)
    <3>1. taken = 0
      BY <2>1, <2>3 DEF Retriable
    <3>2. sent'[j] = 0
      BY <1>1, <2>1, <3>1 DEF Unsent, Commanding
    <3> QED
      BY <3>2 DEF Unsent
  <2> QED
    BY <2>1, <2>2, <2>3
<1>10. CASE Pop(j) \/ Close(j)
  <2>1. pc[j] \in Dropping /\ sent'[j] = sent[j] /\ then'[j] = then[j]
    BY <1>10 DEF Pop, Close, Dropping, ghosts
  <2>2. pc'[j] \in Dropping \cup {then[j]}
    BY <1>1, <1>10 DEF Pop, Close, Dropping
  <2>3. then[j] \in {"entering", "probing", "changing", "done"}
    <3>1. Kind(j) \in Kinds
      BY <1>1 DEF Kind, Ask
    <3> QED
      BY <1>1, <2>1, <3>1 DEF Equipped, Resumes, Kinds
  <2> QED
    BY <1>1, <2>1, <2>2, <2>3 DEF Unsent, Commanding, Dropping
<1>11. CASE ProbeFails(j) \/ Probe(j) \/ Insert(j) \/ Added(j) \/ Change(j)
  <2>1. pc'[j] \in {"failed", "inserting", "tested", "done"} /\ sent'[j] = sent[j]
    BY <1>1, <1>11 DEF ProbeFails, Probe, Insert, Added, Change, ghosts
  <2> QED
    BY <1>1, <2>1 DEF Unsent, Commanding, Dropping
<1>12. CASE UpdateTested(j)
  <2>1. pc'[j] = "dropping" /\ then'[j] = "changing" /\ sent'[j] = sent[j]
    BY <1>1, <1>12 DEF UpdateTested, Closes, ghosts
  <2> QED
    BY <1>1, <2>1 DEF Unsent, Commanding
<1> QED
  BY <1>3, <1>4, <1>5, <1>6, <1>8, <1>9, <1>10, <1>11, <1>12 DEF StepOf, Step

-------------------------------------------------------------------------------
(* The locks *)

\* _lock is taken to connect and given up after it; nobody else takes it meanwhile.
LEMMA LockSteps ==
  ASSUME NEW j \in Jobs, StepOf(j)
  PROVE  \/ Replace(j)
         \/ Connect(j)
         \/ ConnectFails(j)
         \/ /\ lock' = lock /\ pc[j] # "connecting"
            /\ lock # Nobody => cache' = cache
<1>1. CASE Resolve(j) \/ Delete(j) \/ NotFound(j)
  BY <1>1 DEF Resolve, Delete, NotFound, Begins
<1>2. ASSUME NEW c \in Creds, Add(j, c) \/ Update(j, c) \/ UpdateGranted(j, c)
      PROVE  lock' = lock /\ pc[j] # "connecting" /\ cache' = cache
  BY <1>2 DEF Add, Update, UpdateGranted, Begins
<1>3. CASE Step(j)
  BY <1>3 DEF Step, Look, Reuse, Take, NotConnected, Answered, CommandFails, Pop, Close,
              Probe, ProbeFails, Insert, Added, UpdateTested, Change
<1> QED
  BY <1>1, <1>2, <1>3 DEF StepOf

\* _cmd_lock is taken to send and given up after it.
LEMMA BusySteps ==
  ASSUME NEW j \in Jobs, StepOf(j)
  PROVE  \/ Take(j)
         \/ pc[j] = "sending" /\ Leaves(j)
         \/ pc[j] # "sending" /\ busy' = busy
<1>1. CASE Resolve(j) \/ Delete(j) \/ NotFound(j)
  BY <1>1 DEF Resolve, Delete, NotFound, Begins
<1>2. ASSUME NEW c \in Creds, Add(j, c) \/ Update(j, c) \/ UpdateGranted(j, c)
      PROVE  pc[j] # "sending" /\ busy' = busy
  BY <1>2 DEF Add, Update, UpdateGranted, Begins
<1>3. CASE Step(j)
  BY <1>3 DEF Step, Look, Reuse, Replace, Connect, ConnectFails, NotConnected, Answered,
              CommandFails, Pop, Close, Probe, ProbeFails, Insert, Added, UpdateTested, Change
<1> QED
  BY <1>1, <1>2, <1>3 DEF StepOf

LEMMA LocksStep ==
  ASSUME ConstantsOK, IInv, NEW j \in Jobs, StepOf(j)
  PROVE  LocksAreGivenUp'
<1>1. TypeOK /\ LocksAreGivenUp /\ Nobody \notin Jobs
  BY DEF IInv, ConstantsOK
<1>2. \A i \in Jobs \ {j} : pc'[i] = pc[i] /\ mine'[i] = mine[i]
  BY <1>1, OthersUntouched DEF Untouched
<1>3. lock' # Nobody => pc'[lock'] = "connecting"
  <2>1. CASE Replace(j)
    BY <1>1, <2>1 DEF Replace, Goes, TypeOK
  <2>2. CASE Connect(j) \/ ConnectFails(j)
    BY <2>2 DEF Connect, ConnectFails, LockAfter
  <2>3. CASE lock' = lock /\ pc[j] # "connecting"
    BY <1>1, <1>2, <2>3 DEF LocksAreGivenUp, TypeOK
  <2> QED
    BY <2>1, <2>2, <2>3, LockSteps
<1>4. ASSUME NEW s \in Sessions, busy'[s] # Nobody
      PROVE  pc'[busy'[s]] = "sending" /\ mine'[busy'[s]] = s
  <2>1. CASE Take(j)
    <3>1. CASE s = mine[j]
      BY <1>1, <2>1, <3>1 DEF Take, Goes, local, TypeOK
    <3>2. CASE s # mine[j]
      <4>1. busy'[s] = busy[s] /\ busy[s] \in Jobs
        BY <1>1, <1>4, <2>1, <3>2 DEF Take, TypeOK
      <4>2. busy[s] # j
        BY <1>1, <1>4, <2>1, <4>1 DEF Take, LocksAreGivenUp
      <4> QED
        BY <1>1, <1>2, <1>4, <4>1, <4>2 DEF LocksAreGivenUp
    <3> QED
      BY <3>1, <3>2
  <2>2. CASE pc[j] = "sending" /\ Leaves(j)
    <3>1. s # mine[j]
      BY <1>1, <1>4, <2>2 DEF Leaves, TypeOK
    <3>2. busy'[s] = busy[s] /\ busy[s] \in Jobs
      BY <1>1, <1>4, <2>2, <3>1 DEF Leaves, TypeOK
    <3>3. busy[s] # j
      BY <1>1, <1>4, <3>1, <3>2 DEF LocksAreGivenUp
    <3> QED
      BY <1>1, <1>2, <1>4, <3>2, <3>3 DEF LocksAreGivenUp
  <2>3. CASE pc[j] # "sending" /\ busy' = busy
    BY <1>1, <1>2, <1>4, <2>3 DEF LocksAreGivenUp, TypeOK
  <2> QED
    BY <2>1, <2>2, <2>3, BusySteps
<1> QED
  BY <1>3, <1>4 DEF LocksAreGivenUp

\* While a job connects, what the cache has for its user stays dead.
LEMMA ConnectingStep ==
  ASSUME ConstantsOK, IInv, NEW j \in Jobs, StepOf(j), NEW i \in Jobs
  PROVE  Connecting(i)'
<1>1. TypeOK /\ Equipped(i) /\ Equipped(j) /\ Connecting(i) /\ Nobody \notin Jobs
  BY DEF IInv, ConstantsOK
<1>2. SUFFICES ASSUME pc'[i] = "connecting"
               PROVE  lock' = i /\ ~Alive(cache[User(i)])'
  BY DEF Connecting
<1>3. CASE i = j
  <2>1. Replace(j)
    <3>1. ASSUME Ended(j) PROVE pc'[j] # "connecting"
      BY <1>1, <3>1 DEF Ended, Closes, Goes, TypeOK
    <3>2. ~(ConnectFails(j) \/ NotConnected(j) \/ Answered(j) \/ CommandFails(j))
      <4>1. ~(ConnectFails(j) \/ NotConnected(j) \/ Answered(j))
        BY <1>2, <1>3, <3>1, EndsEnded DEF ConnectFails, NotConnected, Answered
      <4>2. ASSUME CommandFails(j) PROVE FALSE
        <5>1. PICK modeFailed \in BOOLEAN, taken \in {0, 1} : CommandFails(j)!(modeFailed, taken)
          BY <4>2 DEF CommandFails
        <5>2. ~Ends(j, FALSE)
          BY <1>2, <1>3, <3>1, EndsEnded
        <5> QED
          BY <1>1, <1>2, <1>3, <5>1, <5>2 DEF Closes, Goes, TypeOK
      <4> QED
        BY <4>1, <4>2
    <3>3. ~(Pop(j) \/ Close(j))
      <4>1. Kind(j) \in Kinds
        BY <1>1 DEF Kind, Ask, TypeOK
      <4>2. pc[j] = "closing" => then[j] # "connecting"
        BY <1>1, <4>1 DEF Equipped, Resumes, Kinds, Dropping
      <4> QED
        BY <1>1, <1>2, <1>3, <4>2 DEF Pop, Close, Goes, TypeOK
    <3>4. ~(Resolve(j) \/ Delete(j) \/ NotFound(j))
      BY <1>1, <1>2, <1>3 DEF Resolve, Delete, NotFound, Closes, Goes, TypeOK
    <3>5. \A c \in Creds : ~(Add(j, c) \/ Update(j, c) \/ UpdateGranted(j, c))
      BY <1>1, <1>2, <1>3 DEF Add, Update, UpdateGranted, Closes, Goes, TypeOK
    <3>6. ~(\/ Look(j) \/ Reuse(j) \/ Connect(j) \/ Take(j) \/ Probe(j) \/ ProbeFails(j)
            \/ Insert(j) \/ Added(j) \/ UpdateTested(j) \/ Change(j))
      BY <1>1, <1>2, <1>3 DEF Look, Reuse, Connect, Take, Probe, ProbeFails, Insert, Added,
         UpdateTested, Change, Closes, Goes, TypeOK
    <3> QED
      BY <3>2, <3>3, <3>4, <3>5, <3>6 DEF StepOf, Step
  <2>2. User(j) \in Users
    BY <1>1, <2>1 DEF Replace, Equipped, Commanding, User, Creds
  <2>3. cache[User(j)] # NoSession => conn'[cache[User(j)]] = "closed"
    BY <1>1, <2>1, <2>2 DEF Replace, TypeOK
  <2> QED
    BY <1>3, <2>1, <2>3 DEF Replace, Alive, User
<1>4. CASE i # j
  <2>1. Untouched(i)
    BY <1>1, <1>4, OthersUntouched
  <2>2. pc[i] = "connecting" /\ lock = i /\ ~Alive(cache[User(i)])
    BY <1>1, <1>2, <2>1 DEF Untouched, Connecting
  <2>3. pc[j] # "connecting"
    BY <1>4, <2>2 DEF IInv, Connecting
  <2>4. lock' = lock /\ cache' = cache
    BY <1>1, <2>2, <2>3, LockSteps DEF Replace, Connect, ConnectFails
  <2>5. User(i) \in Users /\ User(i)' = User(i)
    BY <1>1, <2>1, <2>2 DEF Equipped, Commanding, User, Creds, Untouched
  <2>6. cache[User(i)] \in Sessions => conn[cache[User(i)]] # "none"
    BY <2>5 DEF IInv, Keyed
  <2>7. cache[User(i)] \in Sessions => conn'[cache[User(i)]] # "open"
    BY <1>1, <2>2, <2>6, ConnsLast DEF Lasting, Alive, ConstantsOK
  <2> QED
    BY <1>1, <2>2, <2>4, <2>5, <2>7 DEF Alive, TypeOK
<1> QED
  BY <1>3, <1>4

-------------------------------------------------------------------------------
(* The cache *)

\* A job that has not begun, or is about to test, has opened nothing.
LEMMA NoneYet ==
  ASSUME ConstantsOK, IInv, NEW j \in Jobs, pc[j] \in {"idle", "probing"},
         NEW s \in Sessions, s[1] = j
  PROVE  conn[s] = "none"
<1>1. PICK k \in 0..MaxReads : FirstOpened(j, k) /\ Affords(j, k)
  BY DEF IInv, Budgeted
<1>2. k = 0
  BY <1>1 DEF Affords
<1>3. s[2] \in 1..MaxReads /\ s = <<j, s[2]>>
  BY DEF Sessions
<1> QED
  BY <1>1, <1>2, <1>3 DEF FirstOpened, ConstantsOK

\* The steps that change the cache.
LEMMA CacheSteps ==
  ASSUME NEW j \in Jobs, StepOf(j)
  PROVE  cache' = cache \/ Connect(j) \/ Pop(j) \/ Insert(j)
<1>1. CASE Resolve(j) \/ Delete(j) \/ NotFound(j)
  BY <1>1 DEF Resolve, Delete, NotFound
<1>2. ASSUME NEW c \in Creds, Add(j, c) \/ Update(j, c) \/ UpdateGranted(j, c)
      PROVE  cache' = cache
  BY <1>2 DEF Add, Update, UpdateGranted
<1>3. CASE Step(j)
  BY <1>3 DEF Step, Look, Reuse, Replace, ConnectFails, Take, NotConnected, Answered,
              CommandFails, Close, Probe, ProbeFails, Added, UpdateTested, Change
<1> QED
  BY <1>1, <1>2, <1>3 DEF StepOf

\* A sweep worker keeps the credentials it began with.
LEMMA SweepKeepsCred ==
  ASSUME NEW j \in Jobs, StepOf(j), Kind(j) = "sweep", pc[j] # "idle"
  PROVE  cred' = cred
  BY DEF StepOf, Resolve, Delete, NotFound, Add, Update, UpdateGranted, Begins, Step, Look, Reuse,
     Replace, Connect, ConnectFails, Take, NotConnected, Answered, CommandFails, Pop, Close,
     Probe, ProbeFails, Insert, Added, UpdateTested, Change

\* A session that is cached stays what it was opened as.
LEMMA KeyedStays ==
  ASSUME ConstantsOK, IInv, NEW j \in Jobs, StepOf(j), NEW u \in Users, cache'[u] = cache[u]
  PROVE  Keyed(u)'
<1>1. SUFFICES ASSUME cache[u] \in Sessions PROVE Keyed(u)'
  BY DEF Keyed
<1> DEFINE s == cache[u]
<1>2. Keyed(u) /\ TypeOK /\ s[1] \in Jobs
  BY <1>1 DEF IInv, Sessions
<1>3. conn[s] # "none" /\ conn'[s] # "none" /\ opened'[s] = opened[s]
  BY <1>1, <1>2, ConnsLast DEF Keyed, Lasting
<1>4. Kind(s[1])' = Kind(s[1])
  BY AskKept DEF Kind
<1>5. Kind(s[1]) = "sweep" => User(s[1])' = User(s[1])
  <2>1. CASE s[1] = j
    <3>1. pc[j] # "idle"
      BY <1>1, <1>3, <2>1, NoneYet
    <3> QED
      BY <2>1, <3>1, SweepKeepsCred DEF User
  <2>2. CASE s[1] # j
    BY <1>2, <2>2, OthersUntouched DEF Untouched, User
  <2> QED
    BY <2>1, <2>2
<1> QED
  BY <1>2, <1>3, <1>4, <1>5 DEF Keyed

LEMMA KeyedStep ==
  ASSUME ConstantsOK, IInv, NEW j \in Jobs, StepOf(j), NEW u \in Users
  PROVE  Keyed(u)'
<1>1. TypeOK /\ Equipped(j) /\ NoSession \notin Sessions
  BY DEF IInv, ConstantsOK
<1>2. CASE cache'[u] = cache[u]
  BY <1>2, KeyedStays
<1>3. CASE Connect(j) /\ cache'[u] # cache[u]
  <2>1. Fresh(j) \in Sessions /\ Fresh(j)[1] = j
    BY <1>3, RoomToOpen DEF Connect
  <2>2. cred[j] \in Creds /\ cred' = cred
    BY <1>1, <1>3 DEF Connect, Equipped, Commanding
  <2>3. u = User(j) /\ cache'[u] = Fresh(j)
    BY <1>1, <1>3 DEF Connect, TypeOK
  <2>4. conn'[Fresh(j)] = "open" /\ opened'[Fresh(j)] = cred[j]
    BY <1>1, <1>3, <2>1 DEF Connect, Opens, TypeOK
  <2> QED
    BY <2>1, <2>2, <2>3, <2>4 DEF Keyed, User
<1>4. CASE Pop(j) /\ cache'[u] # cache[u]
  BY <1>1, <1>4 DEF Pop, TypeOK, Keyed
<1>5. CASE Insert(j) /\ cache'[u] # cache[u]
  <2>1. /\ Kind(j) \in {"add", "update"} /\ Tested(j) \in Creds
        /\ mine[j] \in Sessions /\ mine[j][1] = j
        /\ conn[mine[j]] # "none" /\ opened[mine[j]] = Tested(j)
    BY <1>1, <1>5, TestedCreds DEF Insert, Equipped, Testing
  <2>2. u = Tested(j).user /\ cache'[u] = mine[j]
    BY <1>1, <1>5 DEF Insert, TypeOK
  <2>3. Kind(j)' = Kind(j) /\ conn' = conn /\ opened' = opened
    BY <1>5 DEF Insert, Kind
  <2> QED
    BY <2>1, <2>2, <2>3 DEF Keyed
<1> QED
  BY <1>2, <1>3, <1>4, <1>5, CacheSteps

\* An open session is in the cache, on its way, or was written over.
LEMMA NoStrayStep ==
  ASSUME ConstantsOK, IInv, NEW j \in Jobs, StepOf(j)
  PROVE  NoStraySession'
<1>1. TypeOK /\ Equipped(j) /\ NoStraySession /\ NoSession \notin Sessions
  BY DEF IInv, ConstantsOK
<1>2. stray \subseteq stray'
  BY DEF StepOf, Resolve, Delete, NotFound, Add, Update, UpdateGranted, Begins, Step, Look, Reuse,
     Replace, Connect, ConnectFails, Take, NotConnected, Answered, CommandFails, Pop, Close,
     Probe, ProbeFails, Insert, Added, UpdateTested, Change, ghosts
<1>3. SUFFICES ASSUME NEW s \in Sessions, conn'[s] = "open", s \notin stray'
               PROVE  Held(s)' \/ InHands(s)'
  BY DEF NoStraySession
<1>4. CASE conn[s] # "open"
  <2>1. s = Fresh(j) /\ conn[s] = "none" /\ pc[j] \in {"connecting", "probing"}
    BY <1>3, <1>4, ConnsLast DEF Lasting
  <2>2. Made(j)
    BY <1>3, <1>4, ConnSteps, <2>1 DEF Kept, Shut
  <2>3. Connect(j) \/ Probe(j)
    <3>1. ~(ConnectFails(j) \/ ProbeFails(j))
      BY <1>3, <1>4 DEF ConnectFails, ProbeFails
    <3> QED
      BY <2>1, <3>1 DEF StepOf, Step, Resolve, Delete, NotFound, Add, Update, UpdateGranted,
         Begins, Look, Reuse, Replace, Take, NotConnected, Answered, CommandFails, Pop, Close,
         Insert, Added, UpdateTested, Change
  <2>4. CASE Connect(j)
    <3>1. User(j) \in Users
      BY <1>1, <2>4 DEF Connect, Equipped, Commanding, User, Creds
    <3>2. cache'[User(j)] = s
      BY <1>1, <2>1, <2>4, <3>1 DEF Connect, TypeOK
    <3> QED
      BY <3>1, <3>2 DEF Held
  <2>5. CASE Probe(j)
    <3>1. mine'[j] = s /\ pc'[j] = "inserting"
      BY <1>1, <2>1, <2>5 DEF Probe, Opens, Goes, TypeOK
    <3> QED
      BY <3>1 DEF InHands
  <2> QED
    BY <2>3, <2>4, <2>5
<1>5. CASE conn[s] = "open" /\ Held(s)
  <2>1. PICK u \in Users : cache[u] = s
    BY <1>5 DEF Held
  <2>2. CASE cache'[u] = s
    BY <2>2 DEF Held
  <2>3. CASE Connect(j)
    <3>1. ~Alive(cache[User(j)])
      BY <2>3 DEF IInv, Connecting, Connect
    <3>2. u # User(j)
      BY <1>1, <1>5, <2>1, <3>1 DEF Alive
    <3> QED
      BY <1>1, <2>1, <2>3, <3>2 DEF Connect, TypeOK, Held
  <2>4. CASE Pop(j) /\ cache'[u] # s
    <3>1. u = Head(drop[j])
      BY <1>1, <2>1, <2>4 DEF Pop, TypeOK
    <3>2. mine'[j] = s /\ pc'[j] = "closing"
      BY <1>1, <2>1, <2>4, <3>1 DEF Pop, Goes, TypeOK
    <3> QED
      BY <3>2 DEF InHands
  <2>5. CASE Insert(j) /\ cache'[u] # s
    <3>1. u = Tested(j).user
      BY <1>1, <2>1, <2>5 DEF Insert, TypeOK
    <3>2. Alive(s)
      BY <1>1, <1>5 DEF Alive
    <3>3. s \in stray'
      BY <2>1, <2>5, <3>1, <3>2 DEF Insert
    <3> QED
      BY <1>3, <3>3
  <2> QED
    BY <2>1, <2>2, <2>3, <2>4, <2>5, CacheSteps
<1>6. CASE conn[s] = "open" /\ InHands(s)
  <2>1. PICK i \in Jobs : mine[i] = s /\ pc[i] \in {"inserting", "closing"}
    BY <1>6 DEF InHands
  <2>2. CASE i # j
    <3>1. mine'[i] = s /\ pc'[i] = pc[i]
      BY <1>1, <2>1, <2>2, OthersUntouched DEF Untouched
    <3> QED
      BY <2>1, <3>1 DEF InHands
  <2>3. CASE i = j
    <3>1. Close(j) \/ Insert(j)
      BY <2>1, <2>3 DEF StepOf, Step, Resolve, Delete, NotFound, Add, Update, UpdateGranted,
         Begins, Look, Reuse, Replace, Connect, ConnectFails, Take, NotConnected, Answered,
         CommandFails, Pop, Probe, ProbeFails, Added, UpdateTested, Change
    <3>2. ~Close(j)
      BY <1>3, <2>1, <2>3 DEF Close, Closed
    <3>3. Insert(j)
      BY <3>1, <3>2
    <3>4. Tested(j).user \in Users
      BY <1>1, <3>3, TestedCreds DEF Insert, Equipped, Testing, Creds
    <3>5. cache'[Tested(j).user] = s
      BY <1>1, <2>1, <2>3, <3>3, <3>4 DEF Insert, TypeOK
    <3> QED
      BY <3>4, <3>5 DEF Held
  <2> QED
    BY <2>2, <2>3
<1> QED
  BY <1>1, <1>2, <1>3, <1>4, <1>5, <1>6 DEF NoStraySession

-------------------------------------------------------------------------------
(* Sweep workers *)

\* What another job puts into the cache is its own.
LEMMA HandedBackOthers ==
  ASSUME ConstantsOK, IInv, NEW j \in Jobs, StepOf(j), NEW i \in Jobs \ {j}
  PROVE  HandedBack(i)'
<1>1. TypeOK /\ Equipped(j) /\ HandedBack(i) /\ NoSession \notin Sessions
  BY DEF IInv, ConstantsOK
<1>2. Untouched(i) /\ Kind(i)' = Kind(i)
  BY <1>1, OthersUntouched DEF Kind
<1>3. SUFFICES ASSUME Kind(i) = "sweep", i \notin had, pc[i] \in {"closing", "done", "failed"},
                      NEW u \in Users, cache'[u] \in Sessions
               PROVE  cache'[u][1] # i
  BY <1>2 DEF HandedBack, Untouched
<1>4. cache[u] \in Sessions => cache[u][1] # i
  BY <1>1, <1>3 DEF HandedBack
<1>5. CASE cache'[u] = cache[u]
  BY <1>3, <1>4, <1>5
<1>6. CASE Connect(j) /\ cache'[u] # cache[u]
  <2>1. Fresh(j)[1] = j
    BY <1>6, RoomToOpen DEF Connect
  <2>2. cache'[u] = Fresh(j)
    BY <1>1, <1>6 DEF Connect, TypeOK
  <2> QED
    BY <2>1, <2>2
<1>7. CASE Pop(j) /\ cache'[u] # cache[u]
  BY <1>1, <1>3, <1>7 DEF Pop, TypeOK
<1>8. CASE Insert(j) /\ cache'[u] # cache[u]
  <2>1. mine[j][1] = j
    BY <1>1, <1>8 DEF Insert, Equipped
  <2>2. cache'[u] = mine[j]
    BY <1>1, <1>8 DEF Insert, TypeOK
  <2> QED
    BY <2>1, <2>2
<1> QED
  BY <1>5, <1>6, <1>7, <1>8, CacheSteps

\* A worker that found no session pops the one user it has opened sessions for.
LEMMA HandedBackOwn ==
  ASSUME ConstantsOK, IInv, NEW j \in Jobs, StepOf(j)
  PROVE  HandedBack(j)'
<1> USE DEF Goes
<1>1. TypeOK /\ Equipped(j) /\ HandedBack(j) /\ Kind(j)' = Kind(j)
  BY AskKept DEF IInv, Kind
<1>2. SUFFICES ASSUME Kind(j) = "sweep", j \notin had', pc'[j] \in {"closing", "done", "failed"},
                      NEW u \in Users, cache'[u] \in Sessions
               PROVE  cache'[u][1] # j
  BY <1>1 DEF HandedBack
<1>3. CASE Resolve(j) \/ Delete(j)
  BY <1>1, <1>2, <1>3 DEF Resolve, Delete, Closes, TypeOK
<1>4. ASSUME NEW c \in Creds, Add(j, c) \/ Update(j, c) \/ UpdateGranted(j, c)
      PROVE  FALSE
  BY <1>2, <1>4 DEF Add, Update, UpdateGranted
<1>5. CASE NotFound(j)
  <2>1. cache'[u] = cache[u] /\ pc[j] = "idle"
    BY <1>5 DEF NotFound, Begins
  <2>2. conn[cache'[u]] # "none"
    BY <1>2, <2>1 DEF IInv, Keyed
  <2> QED
    BY <1>2, <2>1, <2>2, NoneYet
<1>6. CASE Look(j) \/ Reuse(j) \/ Replace(j) \/ Connect(j) \/ Take(j)
  BY <1>1, <1>2, <1>6 DEF Look, Reuse, Replace, Connect, Take, TypeOK
<1>7. ASSUME Ended(j), had' = had PROVE FALSE
  BY <1>1, <1>2, <1>7 DEF Ended, Closes, TypeOK
<1>8. CASE ConnectFails(j) \/ NotConnected(j) \/ Answered(j)
  BY <1>7, <1>8, EndsEnded DEF ConnectFails, NotConnected, Answered
<1>9. CASE CommandFails(j)
  <2>1. PICK modeFailed \in BOOLEAN, taken \in {0, 1} : CommandFails(j)!(modeFailed, taken)
    BY <1>9 DEF CommandFails
  <2> QED
    BY <1>2, <1>7, <2>1, EndsEnded
<1>10. CASE Pop(j)
  <2>1. drop[j] = <<User(j)>> /\ cred[j] \in Creds
    BY <1>1, <1>2, <1>10 DEF Pop, Equipped, Resumes, Dropping
  <2>2. Head(drop[j]) = User(j) /\ User(j) \in Users
    BY <2>1 DEF User, Creds
  <2>3. u # User(j) /\ cache'[u] = cache[u]
    BY <1>1, <1>2, <1>10, <2>2 DEF Pop, TypeOK, ConstantsOK
  <2>4. Keyed(u)
    BY DEF IInv
  <2> QED
    BY <1>2, <2>3, <2>4 DEF Keyed
<1>11. CASE Close(j)
  BY <1>1, <1>2, <1>11 DEF Close, HandedBack
<1>12. CASE Probe(j) \/ ProbeFails(j) \/ Insert(j) \/ Added(j) \/ UpdateTested(j) \/ Change(j)
  BY <1>1, <1>2, <1>12 DEF Probe, ProbeFails, Insert, Added, UpdateTested, Change, Equipped, Testing
<1> QED
  BY <1>3, <1>4, <1>5, <1>6, <1>8, <1>9, <1>10, <1>11, <1>12 DEF StepOf, Step

-------------------------------------------------------------------------------
(* A job alone *)

\* No step takes a job back to the start.
LEMMA NotIdle ==
  ASSUME ConstantsOK, IInv, NEW j \in Jobs, StepOf(j)
  PROVE  pc'[j] # "idle"
<1> USE DEF Goes, Closes, TypeOK
<1>1. TypeOK /\ Equipped(j)
  BY DEF IInv
<1>2. CASE Resolve(j) \/ Delete(j) \/ NotFound(j)
  BY <1>1, <1>2 DEF Resolve, Delete, NotFound
<1>3. ASSUME NEW c \in Creds, Add(j, c) \/ Update(j, c) \/ UpdateGranted(j, c)
      PROVE  pc'[j] # "idle"
  BY <1>1, <1>3 DEF Add, Update, UpdateGranted
<1>4. CASE \/ Look(j) \/ Reuse(j) \/ Replace(j) \/ Connect(j) \/ Take(j)
           \/ Pop(j) \/ Probe(j) \/ ProbeFails(j) \/ Insert(j)
           \/ Added(j) \/ UpdateTested(j) \/ Change(j)
  BY <1>1, <1>4 DEF Look, Reuse, Replace, Connect, Take, Pop, Probe, ProbeFails, Insert, Added,
     UpdateTested, Change
<1>5. ASSUME Ended(j) PROVE pc'[j] # "idle"
  BY <1>1, <1>5 DEF Ended
<1>6. CASE ConnectFails(j) \/ NotConnected(j) \/ Answered(j)
  BY <1>5, <1>6, EndsEnded DEF ConnectFails, NotConnected, Answered
<1>7. CASE CommandFails(j)
  <2>1. PICK modeFailed \in BOOLEAN, taken \in {0, 1} : CommandFails(j)!(modeFailed, taken)
    BY <1>7 DEF CommandFails
  <2>2. CASE Ends(j, FALSE)
    BY <1>5, <2>2, EndsEnded
  <2> QED
    BY <1>1, <2>1, <2>2
<1>8. CASE Close(j)
  <2>1. Kind(j) \in Kinds
    BY <1>1 DEF Kind, Ask
  <2>2. then[j] # "idle"
    BY <1>1, <1>8, <2>1 DEF Close, Equipped, Resumes, Kinds, Dropping
  <2> QED
    BY <1>1, <1>8, <2>2 DEF Close
<1> QED
  BY <1>2, <1>3, <1>4, <1>6, <1>7, <1>8 DEF StepOf, Step

\* A job that begins is alone if nobody is on the way; an update that begins
\* closes the session under the old user name first.
LEMMA AloneBegins ==
  ASSUME ConstantsOK, IInv, NEW j \in Jobs, StepOf(j), Begins(j), solo' \in Jobs
  PROVE  Alone(solo)'
<1>1. TypeOK /\ Nobody \notin Jobs
  BY DEF IInv, ConstantsOK
<1>2. solo' = j /\ \A i \in Jobs : pc[i] = "idle" \/ IsOver(i)
  BY <1>1 DEF Begins
<1>3. \A i \in Jobs \ {j} : pc'[i] = "idle" \/ IsOver(i)'
  BY <1>1, <1>2, OthersUntouched DEF Untouched, IsOver
<1>4. ASSUME Kind(j) = "update", pc'[j] # "failed"
      PROVE  pc'[j] = "dropping" /\ Head(drop'[j]) = old'[j].user
  <2>1. PICK c \in Creds : Update(j, c)
    <3>1. ~NotFound(j)
      BY <1>1, <1>4 DEF NotFound, Goes, TypeOK
    <3> QED
      BY <1>4, <3>1 DEF StepOf, Step, Begins, Resolve, Delete, Add, UpdateGranted, Look, Reuse,
         Replace, Connect, ConnectFails, Take, NotConnected, Answered, CommandFails, Pop, Close,
         Probe, ProbeFails, Insert, Added, UpdateTested, Change
  <2> DEFINE before == rows[Owner(j)]
  <2>2. before \in Creds /\ c # before /\ old'[j] = before
    BY <1>1, <2>1 DEF Update, TypeOK, Owner, Ask
  <2>3. CASE Closes(j, <<before.user, before.user>>, "probing")
    <3>1. Head(<<before.user, before.user>>) = before.user
      OBVIOUS
    <3> QED
      BY <1>1, <2>2, <2>3, <3>1 DEF Closes, Goes, TypeOK
  <2>4. CASE c.pass = before.pass /\ Closes(j, UpdateDrops(before, c), "changing")
    <3>1. c.user # before.user
      BY <2>2, <2>4 DEF Creds
    <3>2. Head(UpdateDrops(before, c)) = before.user
      BY <2>2, <3>1, UpdateDropsUsers
    <3> QED
      BY <1>1, <2>2, <2>4, <3>2 DEF Closes, Goes, TypeOK
  <2> QED
    BY <2>1, <2>3, <2>4 DEF Update
<1>5. Kind(j)' = Kind(j)
  BY AskKept DEF Kind
<1> QED
  BY <1>2, <1>3, <1>4, <1>5, NotIdle DEF Alone

\* The steps of a job that is on its way.
LEMMA OnItsWay ==
  ASSUME NEW j \in Jobs, StepOf(j), ~Begins(j)
  PROVE  pc[j] # "idle" /\ ~IsOver(j) /\ solo' = solo /\ old' = old
<1>1. Step(j)
  BY DEF StepOf, Resolve, Delete, NotFound, Add, Update, UpdateGranted
<1> QED
  BY <1>1 DEF Step, Look, Reuse, Replace, Connect, ConnectFails, Take, NotConnected, Answered,
     CommandFails, Pop, Close, Probe, ProbeFails, Insert, Added, UpdateTested, Change, IsOver,
     ghosts

\* The sessions of an update that is alone do not bring the old credentials back:
\* it tests with another password.
LEMMA CleanStays ==
  ASSUME ConstantsOK, IInv, NEW j \in Jobs, StepOf(j), ~Begins(j), Kind(j) = "update", Clean(j)
  PROVE  Clean(j)'
<1>1. TypeOK /\ Equipped(j) /\ NoSession \notin Sessions /\ old' = old
  BY OnItsWay DEF IInv, ConstantsOK
<1>2. SUFFICES ASSUME NEW u \in Users, cache'[u] \in Sessions, conn'[cache'[u]] = "open"
               PROVE  opened'[cache'[u]] # old[j]
  <2>1. ASSUME NEW u \in Users, Alive(cache[u])'
        PROVE  cache'[u] \in Sessions /\ conn'[cache'[u]] = "open"
    <3>1. cache'[u] \in Sessions \cup {NoSession}
      BY TypedStep DEF TypeOK
    <3> QED
      BY <2>1, <3>1 DEF Alive
  <2> QED
    BY <1>1, <1>2, <2>1 DEF Clean
<1>3. CASE cache'[u] = cache[u]
  <2>1. conn[cache[u]] # "none"
    BY <1>2, <1>3 DEF IInv, Keyed
  <2>2. conn[cache[u]] = "open" /\ opened'[cache[u]] = opened[cache[u]]
    BY <1>2, <1>3, <2>1, ConnsLast DEF Lasting
  <2> QED
    BY <1>1, <1>2, <1>3, <2>2 DEF Clean, Alive
<1>4. CASE Connect(j)
  BY <1>1, <1>4 DEF Connect, Equipped, Commanding
<1>5. CASE Pop(j) /\ cache'[u] # cache[u]
  BY <1>1, <1>2, <1>5 DEF Pop, TypeOK
<1>6. CASE Insert(j) /\ cache'[u] # cache[u]
  <2>1. cache'[u] = mine[j] /\ opened' = opened
    BY <1>1, <1>6 DEF Insert, TypeOK
  <2>2. opened[mine[j]] = Tested(j) /\ Tester(j)
    BY <1>1, <1>6 DEF Insert, Equipped, Testing
  <2> QED
    BY <2>1, <2>2, TestedCreds
<1> QED
  BY <1>3, <1>4, <1>5, <1>6, CacheSteps

\* Once the session under the old user name is out, none in the cache has the old
\* credentials.
LEMMA CleanAfterPop ==
  ASSUME ConstantsOK, IInv, NEW j \in Jobs, Pop(j), Head(drop[j]) = old[j].user,
         Kind(j) = "update"
  PROVE  Clean(j)'
<1>1. TypeOK /\ NoSession \notin Sessions
  BY DEF IInv, ConstantsOK
<1>2. SUFFICES ASSUME NEW u \in Users, cache'[u] # NoSession
               PROVE  opened[cache'[u]] # old[j]
  BY DEF Clean, Alive, Pop, ghosts
<1>3. cache'[u] = cache[u] /\ cache[u] \in Sessions /\ u # old[j].user
  BY <1>1, <1>2 DEF Pop, TypeOK
<1>4. opened[cache[u]].user = u
  BY <1>3 DEF IInv, Keyed
<1> QED
  BY <1>3, <1>4

LEMMA AloneGoesOn ==
  ASSUME ConstantsOK, IInv, NEW j \in Jobs, StepOf(j), ~Begins(j), solo' \in Jobs
  PROVE  Alone(solo)'
<1>1. TypeOK /\ solo' = solo /\ old' = old /\ pc[j] # "idle" /\ ~IsOver(j)
  BY OnItsWay DEF IInv
<1>2. Alone(solo) /\ solo = j
  BY <1>1 DEF IInv, Alone
<1>3. \A i \in Jobs \ {j} : pc'[i] = "idle" \/ IsOver(i)'
  BY <1>1, <1>2, OthersUntouched DEF Alone, Untouched, IsOver
<1>4. Kind(j)' = Kind(j)
  BY AskKept DEF Kind
<1>5. ASSUME Kind(j) = "update" PROVE Clean(j)'
  <2>1. pc[j] # "failed"
    BY <1>1 DEF IsOver
  <2>2. CASE Clean(j)
    BY <1>5, <2>2, CleanStays
  <2>3. CASE pc[j] = "dropping" /\ Head(drop[j]) = old[j].user
    <3>1. Pop(j)
      BY <2>3 DEF StepOf, Step, Begins, Resolve, Delete, NotFound, Add, Update, UpdateGranted,
         Look, Reuse, Replace, Connect, ConnectFails, Take, NotConnected, Answered, CommandFails,
         Close, Probe, ProbeFails, Insert, Added, UpdateTested, Change
    <3> QED
      BY <1>5, <2>3, <3>1, CleanAfterPop
  <2> QED
    BY <1>2, <1>5, <2>1, <2>2, <2>3 DEF Alone
<1>6. Alone(j)'
  BY <1>3, <1>4, <1>5, NotIdle DEF Alone
<1> QED
  BY <1>1, <1>2, <1>6 DEF Alone, IsOver, Clean, Kind

-------------------------------------------------------------------------------
(* All steps *)

\* Nothing but a connection changes when the switch ends it.
LEMMA LinkLostKeeps ==
  ASSUME ConstantsOK, IInv, NEW s \in Sessions, LinkLost(s)
  PROVE  IInv'
<1> USE DEF local, ghosts
<1>1. TypeOK /\ TypeOK' /\ NoSession \notin Sessions
  BY DEF IInv, LinkLost, TypeOK, ConstantsOK
<1>2. \A t \in Sessions : /\ conn'[t] # "none" <=> conn[t] # "none"
                          /\ conn'[t] = "open" => conn[t] = "open"
  BY <1>1 DEF LinkLost, TypeOK
<1>3. /\ \A t : Alive(t)' /\ t \in Sessions => Alive(t)
      /\ \A u \in Users : Alive(cache[u])' => Alive(cache[u])
  BY <1>1, <1>2 DEF Alive, LinkLost, TypeOK
<1>4. ASSUME NEW j \in Jobs
      PROVE  (Equipped(j) /\ Budgeted(j) /\ Connecting(j) /\ Unsent(j) /\ HandedBack(j))'
  <2>1. Equipped(j) /\ Budgeted(j) /\ Connecting(j) /\ Unsent(j) /\ HandedBack(j)
    BY DEF IInv
  <2>2. Tester(j)' = Tester(j) /\ Tested(j)' = Tested(j) /\ Resumes(j)' = Resumes(j)
    BY DEF LinkLost, Tester, Tested, Resumes, Kind, User
  <2>3. Equipped(j)'
    BY <1>2, <2>1, <2>2 DEF LinkLost, Equipped, Kind
  <2>4. \A n \in 1..MaxReads : <<j, n>> \in Sessions
    BY DEF Sessions
  <2>5. Budgeted(j)'
    BY <1>2, <2>1, <2>4 DEF LinkLost, Budgeted, FirstOpened, Affords
  <2>6. Connecting(j)'
    <3>1. SUFFICES ASSUME pc[j] = "connecting" PROVE lock' = j /\ ~Alive(cache[User(j)])'
      BY DEF Connecting, LinkLost
    <3>2. User(j) \in Users /\ User(j)' = User(j)
      BY <2>1, <3>1 DEF Equipped, Commanding, User, Creds, LinkLost
    <3> QED
      BY <1>3, <2>1, <3>1, <3>2 DEF LinkLost, Connecting
  <2>7. Unsent(j)' /\ HandedBack(j)'
    BY <2>1 DEF LinkLost, Unsent, HandedBack, Kind
  <2> QED
    BY <2>3, <2>5, <2>6, <2>7
<1>5. ASSUME NEW u \in Users PROVE Keyed(u)'
  BY <1>2 DEF IInv, LinkLost, Keyed, Kind, User
<1>6. LocksAreGivenUp'
  BY DEF IInv, LinkLost, LocksAreGivenUp
<1>7. NoStraySession'
  BY <1>2 DEF IInv, LinkLost, NoStraySession, Held, InHands
<1>8. ASSUME solo' \in Jobs PROVE Alone(solo)'
  <2>1. Alone(solo) /\ solo' = solo
    BY <1>8 DEF IInv, LinkLost
  <2>2. Clean(solo) => Clean(solo)'
    BY <1>3 DEF Clean, LinkLost
  <2> QED
    BY <2>1, <2>2 DEF Alone, IsOver, Kind, LinkLost
<1> QED
  BY <1>1, <1>4, <1>5, <1>6, <1>7, <1>8 DEF IInv

LEMMA InitIInv == ConstantsOK /\ Init => IInv
<1> SUFFICES ASSUME ConstantsOK, Init PROVE IInv
  OBVIOUS
<1>1. TypeOK /\ NoSession \notin Sessions /\ Nobody \notin Jobs
  BY TypedInit DEF ConstantsOK
<1>2. ASSUME NEW j \in Jobs
      PROVE  Equipped(j) /\ Budgeted(j) /\ Connecting(j) /\ Unsent(j) /\ HandedBack(j)
  <2>1. pc[j] = "idle" /\ sent[j] = 0
    BY DEF Init
  <2>2. Equipped(j) /\ Connecting(j) /\ Unsent(j) /\ HandedBack(j)
    BY <2>1 DEF Equipped, Connecting, Unsent, HandedBack, Commanding, Testing, Dropping
  <2>3. \A n \in 1..MaxReads : conn[<<j, n>>] = "none"
    BY DEF Init, Sessions
  <2>4. FirstOpened(j, 0) /\ Affords(j, 0)
    BY <2>1, <2>3 DEF FirstOpened, Affords, Dropping, ConstantsOK
  <2> QED
    BY <2>2, <2>4, ConstantsOK DEF Budgeted, ConstantsOK
<1>3. /\ \A u \in Users : Keyed(u)
      /\ LocksAreGivenUp /\ NoStraySession /\ solo \notin Jobs
  BY <1>1 DEF Init, Keyed, LocksAreGivenUp, NoStraySession
<1> QED
  BY <1>1, <1>2, <1>3 DEF IInv

LEMMA NextIInv == ConstantsOK /\ IInv /\ [Next]_vars => IInv'
<1> SUFFICES ASSUME ConstantsOK, IInv, [Next]_vars PROVE IInv'
  OBVIOUS
<1>1. ASSUME NEW j \in Jobs, StepOf(j) PROVE IInv'
  <2>1. TypeOK'
    BY <1>1, TypedStep
  <2>2. ASSUME NEW i \in Jobs
        PROVE  (Equipped(i) /\ Budgeted(i) /\ Connecting(i) /\ Unsent(i) /\ HandedBack(i))'
    <3>1. CASE i = j
      BY <1>1, <3>1, EquippedOwn, BudgetedOwn, ConnectingStep, UnsentOwn, HandedBackOwn
    <3>2. CASE i # j
      BY <1>1, <3>2, EquippedOthers, BudgetedOthers, ConnectingStep, UnsentOthers, HandedBackOthers
    <3> QED
      BY <3>1, <3>2
  <2>3. \A u \in Users : Keyed(u)'
    BY <1>1, KeyedStep
  <2>4. LocksAreGivenUp' /\ NoStraySession'
    BY <1>1, LocksStep, NoStrayStep
  <2>5. solo' \in Jobs => Alone(solo)'
    BY <1>1, AloneBegins, AloneGoesOn
  <2> QED
    BY <2>1, <2>2, <2>3, <2>4, <2>5 DEF IInv
<1>2. CASE UNCHANGED vars
  <2> USE <1>2 DEF IInv, vars, local, ghosts, Kind, User, Alive
  <2>1. TypeOK'
    BY DEF TypeOK
  <2>2. ASSUME NEW j \in Jobs
        PROVE  (Equipped(j) /\ Budgeted(j) /\ Connecting(j) /\ Unsent(j) /\ HandedBack(j))'
    <3>1. Equipped(j)'
      BY DEF Equipped, Tester, Resumes, Tested
    <3>2. Budgeted(j)'
      BY DEF Budgeted, FirstOpened, Affords
    <3>3. (Connecting(j) /\ Unsent(j) /\ HandedBack(j))'
      BY DEF Connecting, Unsent, HandedBack
    <3> QED
      BY <3>1, <3>2, <3>3
  <2>3. \A u \in Users : Keyed(u)'
    BY DEF Keyed
  <2>4. LocksAreGivenUp' /\ NoStraySession'
    BY DEF LocksAreGivenUp, NoStraySession, Held, InHands
  <2>5. solo' \in Jobs => Alone(solo)'
    BY DEF Alone, Clean, IsOver
  <2> QED
    BY <2>1, <2>2, <2>3, <2>4, <2>5
<1> QED
  BY <1>1, <1>2, LinkLostKeeps DEF Next, Finished, StepOf

-------------------------------------------------------------------------------
(* What holds of every behaviour *)

\* The inductive invariant holds, for every number of jobs, users and sessions.
THEOREM Invariance == Spec => []IInv
<1>1. Init => IInv
  BY InitIInv, ConstantsOK
<1>2. IInv /\ [Next]_vars => IInv'
  BY NextIInv, ConstantsOK
<1> QED
  BY <1>1, <1>2, PTL DEF Spec

\* Every variable keeps its type.
THEOREM TypeCorrect == Spec => []TypeOK
<1>1. IInv => TypeOK
  BY DEF IInv
<1> QED
  BY <1>1, Invariance, PTL

\* A session that is not in the cache is never closed: every open session is in the
\* cache or on its way into it or out, unless fetch_hostname wrote over it.
THEOREM OpenSessionsAreKnown == Spec => []NoStraySession
<1>1. IInv => NoStraySession
  BY DEF IInv
<1> QED
  BY <1>1, Invariance, PTL

\* Of a sweep worker that found no session none is left open when it is over,
\* whoever shared or replaced it and however its commands ended.
THEOREM SweepsHandBack == Spec => []SweepHandsBack
<1>1. IInv => SweepHandsBack
  <2>1. SUFFICES ASSUME IInv, NEW s \in Sessions, conn[s] = "open", Kind(s[1]) = "sweep",
                        s[1] \notin had, IsOver(s[1]), Held(s)
                 PROVE  FALSE
    BY DEF IInv, NoStraySession, SweepHandsBack
  <2>2. s[1] \in Jobs
    BY DEF Sessions
  <2>3. HandedBack(s[1])
    BY <2>1, <2>2 DEF IInv
  <2> QED
    BY <2>1, <2>3 DEF HandedBack, Held, IsOver
<1> QED
  BY <1>1, Invariance, PTL

\* However sessions are lost and closed, the switch takes the commands of a request
\* once at most.
THEOREM CommandsAreSentOnce == Spec => []SentOnce
<1>1. IInv => SentOnce
  BY DEF IInv, Unsent, SentOnce
<1> QED
  BY <1>1, Invariance, PTL

\* A user's own update, with nobody else on the way, leaves no session in the cache
\* that was opened with the credentials it replaced.
THEOREM UpdatesCloseOld == Spec => []UpdateClosesOld
<1>1. IInv => UpdateClosesOld
  <2>1. SUFFICES ASSUME IInv, solo # Nobody, Kind(solo) = "update", pc[solo] = "done"
                 PROVE  Clean(solo)
    BY DEF UpdateClosesOld, ClosesOld, Clean
  <2>2. Alone(solo)
    BY <2>1 DEF IInv, TypeOK
  <2> QED
    BY <2>1, <2>2 DEF Alone
<1> QED
  BY <1>1, Invariance, PTL

\* Neither lock is kept by a job that does not connect or send under it, whichever
\* way its connect or its command ended.
THEOREM NoLockIsKept == Spec => []LocksAreGivenUp
<1>1. IInv => LocksAreGivenUp
  BY DEF IInv
<1> QED
  BY <1>1, Invariance, PTL
=============================================================================
