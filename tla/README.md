# GIGACL in TLA+

GIGACL manages the access lists (ACLs) of Cisco switches over SSH. It is a
FastAPI backend in one process with one event loop; handlers are coroutines
that hand every switch operation to a thread and `await` it, so that between
two operations of one request any step of any other request, and of the switch,
may come. Its state lives in three places that change at different times: the
switches, the SQLite database, and module-level dictionaries of the process.
Most of what can go wrong lies between them, and that is what is modelled here.

Modules are read together with the source: the `map` of `PROJECT.json` names,
for every definition that models code, the lines it stands for.

## Inventory

| Part | State | Operations | Hard behaviour | What makes it correct |
|---|---|---|---|---|
| Writes to a list (`main.py` 4183-4717, `ssh_manager.py`, `switch_service.py`) | the list on the switch; what the handler read | apply, edit, delete, VPC sync | the list changes between the read and the write; lines refused, refused in unknown words, or lost with the session; rollback in pieces | success means the exact change; undo inverts; failure restores; remark after permit |
| Writes to bindings, lists, time ranges, object groups (`main.py` 4718-6163) | the configuration; what the handler read | attach, detach, flip, template, create, delete, change members | objects change between the read and the write; reads that fail silently; undo sets planned from what was read | as above, for every kind of object |
| SSH sessions (`ssh_manager.py`) | session cache, command lock, timeouts | open, reuse, invalidate, read, configure, save | two requests on one session; a session replaced or closed while in use; sweeps that close what they did not open | one set of lines at a time; no session leaks; none survives its credentials |
| Terminal workspaces (`terminal_service.py`, `main.py` 2611-2842) | registry, index by user, sockets, panes | reserve, claim, connect, bridge, close, expire | close or expiry while connecting; one pane of a pair dies; token used twice | at most three switches, none twice; no stray connection; handlers end |
| Undo, save and the UNSAVED signal (`main.py` 1130-1221, 2194-2240, 6164-6351) | the audit log; both configurations of the switch | write, save, undo from log, direct undo | switch and log change at different times and in different orders; entries deleted or lost | signal true exactly when there is something to save; each change undone once |
| Audit log and retention (`audit.py`, `log_retention.py`) | entries | insert, delete old | inserts fail silently; deleted entries carried an undo | what is left never lies |
| Accounts, lockout, tokens (`auth.py`, `lockout.py`, `main.py` 247-760) | users, failure counts, lock times, token cut-off | log in, reset, rename, change role, delete | windows and locks that end at different times; tokens of a renamed or deleted user | a locked user stays out; a revoked token is dead; one super admin is left |
| Access requests (`main.py` 807-1020) | requests, seen flags | ask, edit, cancel, done, dismiss, seen | answers that arrive while a page marks them seen | each answer is announced once |
| Switch inventory, grants, VPC pairs (`main.py` 1231-1592, 2300-2608) | switches by owner, peers | add, grant, update, delete, pair | a probe awaited between check and commit; numbers of rows given again | peers are mutual; write access is proven or granted |
| Health sweep (`health_collector.py`, `main.py` 2050-2190) | snapshots, sweep lock | collect, store, compare pairs | a switch deleted during the sweep | one sweep; sessions handed back |
| ACL algebra (`acl_parser.py`, `acl_service.py`, `rule_generator.py`, `main.py` 3588-4180) | none: it advises edits of a list | match, cover, overlap, summarise, reverse, look up, generate, choose a number | ports, groups, schedules, lines that are not understood | agrees with what a packet sees |
| Reports, TCAM, templates, shares, site labels, trusted hosts, crypto, migrations, frontend | - | single steps, rendering, start-up | - | not modelled, see below |

How they meet: a handler resolves its targets from the inventory, reads and
writes through the SSH sessions, and writes one audit entry when it is over; the
audit log feeds the UNSAVED signal and the undo; the response feeds the Undo
button of the page, which the server does not check again; terminals have SSH
sessions of their own outside the cache; the sweep shares the cache.

## Modules

### RuleWrites: writes to one access list

`acl` is the list on the switch (number -> rule, remark or `Free`), `holder` the
request inside `_cmd_lock` of each account's session, and per request `pc` (the
step of the handler), `seen` and `prev` (the list and the remark it read),
`todo` (the lines of the set it is sending), `err` (a refusal was noticed in
it), `undo`, `reply` and `logged`. Every read, every line sent and every
decision after an `await` is an action, so that the switch and the other request
may move in between.

* `ReadForApply`, `ReadRemarks`, `ReadForEdit`, `ReadForDelete`, `ReadForSync`
  are the reads with the checks that refuse a request; the sets of lines follow
  the source (`ApplySet`, `ApplyUndo`, `ApplyRemark`, `EditSet`, `EditUndo`,
  `ToRemove`, `ToAdd`). A sync reads both peers by `| section`, and where that gives
  nothing, by their rules alone (`main.py` 4508-4511): `bare` says of which peer the
  remarks were not seen, `Wanted` and `Found` are the two maps it then compares.
* `SendLine` sends one line. `Effects` are the ends it can have: obeyed, or
  refused, where a refusal is noticed (`detect_switch_error` knows the words) or
  not (it does not). `LinkLost` drops the session: lines sent stay, the lock is
  freed, the set has failed.
* `ConfigFailed`, `RemarkFailed`, `Rollback`, `RolledBack` are the error paths,
  `VerifyRule`, `VerifyRemark`, `VerifySync`, `RestoreVerify` the read-backs;
  where the handler catches the error of a read-back it sees an empty list.

Ghosts: `midSet` (requests between the first and last line of a set),
`disturbed` (another request changed the list since this one read it), `silent`
(a refusal of this request went unnoticed), `confirmed` (its rule was read back).

### Terminal and TerminalSlots: terminal workspaces

`registry`, `byUser`, `attached`, `old` and `conns` are the dictionaries and
fields of `terminal_service.py`; `pc`, `todo`, `outcome`, `panes` the progress
of the websocket handler, `live` the SSH sessions that are really open.
`Reserve` includes the clean-up of expired workspaces (of every user, as the
code does), `Register` the test under the lock whether the workspace is still
registered, `HandlerEnds` the whole `finally` clause. The accept
(`AcceptEnds`) stands before the `try`: a handler whose accept raises is `lost`, and its
workspace stays until it is deleted. `TerminalSlots` is the
promise to the user: selections acquired and given up as a whole, none twice,
at most `MaxTerminals` switches. The refinement maps a user's selections to the
`targets` of the workspaces in `byUser`.

### ChangeTracking: unsaved changes and undo

`running` and `startup` are the changes present in the two configurations, `torn` and
`tornSaved` those of which only some lines are there, `log` the audit entries of this
user and switch. A write, a save and an undo each have a step at the switch
(`WriteSent`, `SaveCopied`, `UndoSent`) and, later, a step at the log (`WriteLogged`,
`SaveLogged`, `UndoLogged`). A command that failed may have been obeyed all the same:
not at all, in part or wholly when a later line was refused (`WriteFailed`,
`UndoFailed`), or to the end after the handler gave up waiting (`SaveFailed`); no undo
and no checkpoint is logged then. `Pending` is `_switch_pending_changes`, `PostSave` the
decision whether an undo undoes what was saved, `Consume` the clearing of the undo
commands. `Prune` is retention, `Crash` a killed process, `LogFails` an insert that
`audit.log` swallows.

The signal cannot always be right with one record that is written late and only of
what succeeded. The ghost `excuses` names why it may be wrong until the next copy:
`misordered` (a save and another request were logged in the other order than the switch
took them), `again` (an undo was repeated), `pruned`, and a step that had its effect and
no entry, because it failed late or the entry was lost: `lostWrite`, `lostSave`,
`lostUndo`. `unsettled` are the changes whose own undo did that; no copy settles them.
Each property names the excuses it needs, and only those.

That a reported success did what was asked is left to `RuleWrites` and `ConfigObjects`;
what is configured without GIGACL is in no log and not modelled.

### SshSessions: the session cache

`cache`, `lock` and `busy` are `_sessions`, `_lock` and the `_cmd_lock` of each
session, for one switch, so that a session's key is an SSH user name. `conn`
says what became of each connection, `opened` with which credentials it was
made, `rows` what the switch entries say now. A job is a request that sends
commands (`run_command`, `run_config` with its one retry), a worker of a health
sweep, or a change of an entry that tests credentials (`fetch_hostname`) or
closes sessions (`invalidate_session`). Taking the session, connecting, sending,
popping and closing are separate actions, because other threads run in between;
only `_lock` and `_cmd_lock` order them. `disconnect` takes neither, so a session
can be closed under the job that is sending on it. Handlers run on the event
loop between two awaits, one at a time (`LoopFree`), worker threads beside them.

Ghosts: `sent` (times the switch took the commands of a request), `old` (the
credentials an update replaced), `solo` (the last job to begin while no other
was on its way), `stray` (open sessions that `fetch_hostname` wrote over).

### ConfigObjects: bindings, whole lists, time ranges, object groups

`conf` is the configuration: an object is a function from numbers to texts (the
lines of a list, members, entries, the list bound in each direction). A request
reads (`Read`: any list of groups or ranges may fail and look empty, or show names
only), makes a `plan` of two sets (`PlanFor`, one operator per handler: what is
sent and what undoes it), and then goes the common way: `SendLine`, `RefuseLine`,
`LinkLost`, `StartRollback`, `Verify`, `RestoreVerify`. Which handlers read back,
roll back and look again is in `ReadsBack`, `UndoesErrors`, `LooksAgain`; what the
read-back accepts in `Confirms` and `Restored`. Ghosts: `was` (what was there
when the request read), `blind` (one of its reads failed), `silent`, `disturbed`.
`RuleWrites` follows the lines of one list in detail, with locks and logging; here
the kinds of change are many and their handlers share a shape. The reads of lists and
bindings are modelled as reliable: `list_acl_names` and `get_acl_rules`
(`switch_service.py` 206-208, 240-242) would take an error message for a list that is
not there, and the handlers refuse to attach, detach or delete what is not there.

### AclRules, AclAnalysis, AclPlacement, AclAdvice: what is said of a list

A line is a record, a list a function from numbers to lines. `AclRules` is the
algebra: the form of lines (`Formed`: what the switch lets into a list and the
generator writes), which of them are understood on which platform with which
groups known (`Parses`, `Rule`), groups with references (`Expanded`), coverage by
text and by members (`Covers`), overlap (`TrafficOverlaps`). `AclAnalysis` is the
analysis pages: redundant and superseded rules, schedules that are over, rules on
the wrong side, summaries, reversal. `AclPlacement` is the request for access: what
the validators let through (`Question`, `Request`), the lookup, `GeneratePermit`, the
inspections of the preview, and the number of the rule and its remark. `AclAdvice` has the state: one list that is configured line
by line and then edited as one of the pages advises. `Hits` is the reference the
operators are compared with: which packets (protocol, hosts, both ports, ICMP
type, reply or not, schedules in force) a line takes, and `Permitted` what the list
lets through, first match. It is written from what the lines mean to the switch,
not from the code that compares them, and is marked external.

### Accounts

Rows of the `users` table by name, the bearer tokens in browsers and one clock, in
ticks finer than a second because revocation and expiry compare whole seconds. Every
handler runs without an `await`, so that one with a single commit is one action; the
interleaving is of requests, time and restarts. A change of role or password commits
twice (`main.py` 497/498, 630/634, 705/706): the change, and in a step of its own
(`RevokeTokens`) the new cut-off of the tokens. `revoking` is the change in between; a
`Restart` there is a kill, after which the second commit never comes. A token is
`Accepted` when it is not past its `exp` (`Expired`), not older than the cut-off and names an
account that exists. History: `serial` (which creation of the name), `epoch` (how
often the authority changed), `ended` (the epoch in which tokens were last ended), `cut` (a
kill came before that), `guesses` (the times of the wrong passwords answered since the
count was last cleared).

### Inventory

`rows` is the `switches` table by id; SQLite gives an id again after the largest
row was deleted (`NewId`), so an id kept over an `await` may come to mean another
row. Handlers that test credentials are two steps: `jobs` holds what they read
(role, row, holder) and `Finish` commits it, `update_switch` only the columns
whose value changed, as the ORM does. The others are one step each, among them
role changes and deletions of accounts. History: `serial`, `proven` (the holder's
own credentials were verified for this row), `allowed` (the granter's last word).

## Runs

| Run | Checks | Size |
|---|---|---|
| `rule_writes` | the properties of `RuleWrites`, two requests of each kind against each other, safety and liveness | 1.0 million states |
| `rule_writes_logged` | violation: a sync whose verification read is lost logs nothing (`main.py` 4595; PROJECT-OVERVIEW.md 61, "Everything is logged, success and failure") | |
| `terminal` | the properties of `Terminal`, the refinement, liveness | 228 thousand states |
| `change_tracking` | the properties of `ChangeTracking` | 2.0 million states |
| `save_race` | violation: a write between a copy and its log entry is not marked (`main.py` 6258; DOCUMENTATION.md 770, "Any successful write marks the switch as having unsaved changes.") | |
| `double_undo` | violation: two undos of one entry both reach the switch (`main.py` 1162-1215; comment at 1214) | |
| `ssh_sessions` | the properties of `SshSessions`; deadlock | 3.4 million states |
| `config_objects` | the properties of `ConfigObjects`: every kind of change against one that changes what it read | 282 thousand states |
| `acl_advice` | the properties of `AclAdvice`: every list of up to three lines, every piece of advice followed once, on both platforms | 89 thousand states |
| `accounts` | the properties of `Accounts` | 4.2 million states |
| `inventory` | the properties of `Inventory` | 1.6 million states |
| `granted_update` | violation: a granted switch gets a new SSH user name and the old session stays alive (`main.py` 1555-1558 and its comment) | |

What the passing runs show:

* `SuccessIsExact`: when apply or edit answers success and nobody else touched
  the list, it is what it was plus exactly the change asked for, whatever was
  refused on the way, in known words or not. `UnverifiedSuccessIsExact` says the
  same of delete, which reads nothing back, and of a verified sync, but needs
  refusals to be in known words: the peers then have the same rules, and the same list
  if both were read with their remarks. `UndoInverts` and `FailureRestores` cover the
  way back, to `Before`: what the handler read, but for the remarks it did not see and
  wrote over, for which the collision check (`main.py` 4217) looks at rules only and
  the fallback of a sync reads none. `RestoredIsBack` and `RemarkAfterPermit` are
  what the code's comments promise. `EveryRequestAnswered`: no lock is kept.
* `EndedIsDisconnected` excepts `CutShort`: a failed `send_json` between two
  results leaves the joining loop (`main.py` 2772-2788) before the later
  connection was registered, and nothing closes it. `SlotsAreServed`: what counts
  against a user is pending, or has a handler that releases it, by whichever return or
  exception it ends; the one exception is an accept that raised (`lost`).
* `UnsavedIsMarked`, `MarkedIsUnsaved`, `UndoOfferedIffPresent`: with the
  exceptions named, the signal and the Undo buttons tell the truth in every
  order of writes, saves and undos, whole, failed or obeyed in part, although an undo
  looks at the log that others changed while it waited. A failed write may leave a
  change without a mark or a button, but never a wrong button.
* `NoStraySession`, `SweepHandsBack`: every open session is in the cache or on its
  way into it or out of it, and a sweep leaves none of its own behind, however
  commands and connects failed and whoever shared or closed the session. Both
  except `stray`: `fetch_hostname` connects without the lock and writes over a
  session that was created meanwhile (`ssh_manager.py` 376-380), which nothing
  closes any more. A sweep does close a session that a request shares with it:
  that request fails and answers an error. `SentOnce`: the retry never repeats
  commands. `UpdateClosesOld` is what the comment at `main.py` 1555 asks for, for
  `update_switch`; for `update_granted_switch` it fails (`granted_update`).
  `LocksAreGivenUp` and the absence of deadlock: every job comes to its end.

* `UndoReturns`, `SuccessIsExact`, `RestoredIsBack` (of `ConfigObjects`): the
  promise of the Undo button and of the three answers, for the writes to bindings,
  whole lists, time ranges and object groups. (`summary-apply` and
  `reverse-direction-apply`, `main.py` 4954-5093, are in `AclAdvice` as what they change;
  their undo sets and their answers are not modelled.) They
  hold for a request nobody disturbed, whose refusals were in known words and
  whose reads worked; a success of a change that is read back entry by entry
  holds even with unknown refusals. What they except is under "Known limits".
* `RedundancyIsInvisible`: taking out all the rules a page calls redundant, at once,
  changes no packet. `SummaryAddsOnlyExtra`: a summary lets in what it lists as
  extra and nothing more. `ReversalMirrors`: a reversed list is the mirror of the
  list. `LookupMeansTraffic`: the Access Checker matches a line exactly when the
  line takes every packet of the connection, there or back, for connections of one
  protocol or of all. `PreviewGrants`: a permit put where the preview says is in front
  of every deny that stood in its way, and overwrites no rule. What both except of the
  lines is named (`ReadWhole`, `AnyWritten`, `Scheduled`, `InOneMember`).
  `FlaggedNeverFires`: what is reported as dead decides nothing.
* `SomeSuperAdmin`: no order of demotions, renames, deletions and restarts leaves
  the application without a super admin. `TokensFollowAuthority`: until it expires, a
  token works exactly when it was issued since tokens were last ended, or in that
  second, and that is since the last change of role or password unless the handler has
  its second commit still before it or was killed there (`cut`). `GuessesAreBounded`: windows and locks,
  which end at different times, let through at most `2 * MaxAttempts - 2` wrong
  passwords in any one window's time, not `MaxAttempts`.
* `PairsAreMutual`, `WriteIsEarned`: no order of additions, grants, takeovers,
  claims, retypings, pairings and deletions, with commits that come late, leaves
  half a pair or makes a read-only grant writable; `raced` marks the late commits
  of `update_switch` for which both fail.

`TypeOK` is checked where the state is richest (`rule_writes`) and proved for
`RuleWrites`, `Terminal`, `SshSessions`, `ChangeTracking` and `Inventory`; the
invariant of `AccountsProofs` types the rows.

### Bounds

`RuleWrites`: three sequence numbers (an occupied one, one free or holding a
remark, one free), two rules, two remarks, two requests. Two requests suffice
for a read made stale, a number taken meanwhile and a contended session; a
handler only ever compares the list with its own earlier view. The syncs of one
request have a rule or the same remark where the target may hold a remark. The jobs of
`MCAsks` share numbers so that each check passes, fails, and passes on a list
that then changes. Nothing is cut off: handlers have no loop.
`Terminal`: two users, three switches of which two are a pair, a limit of two
switches, so that a pair or two singles reach it; workspaces are as many as
there are identifiers. `ChangeTracking`: two writes, two saves, two undos; the
signal compares the newest entries of three kinds, and two of each kind are what
it takes to be newest and not to be. `MaxPruned` and `MaxLosses` (two each)
bound deletions and lost entries.
`ConfigObjects`: two requests, the second one of three that take away or change
what the first read; one object of each kind, a second list, group and range to
create or refer to; a list bound one way and both ways; lists with a gap and a
remark; platforms chosen at the start. Handlers have no loop: nothing is cut off.
`AclAdvice`: four addresses, three ports and nine lines per platform that contain,
meet and miss each other (four are enough for a host, a network with its neighbour, a
group of two and what is outside; the theorems have no width); three lines (`Numbers`) because a redundancy needs a
rule, its cover and one between; numbers 10, 30, 40 with room for remarks, not
after the last; one edit (`MaxEdits`). `Accounts`: two accounts and a free name, two
tokens (`MaxTokens`), two administrative requests (`MaxOps`; requests that only touch the
presence, sign-ins and restarts are free), four ticks (`FirstTick` to `MaxClock`) with windows
and locks of two, so that a window ends and a lock begins in the next; wrong passwords
for one name (`Guessed`), as the counts of names are independent. Two ticks make a
second and the first is the last of its second: a token lives to the end of the next
one (`Lifetime`), so that tokens issued before a change, in its second and after it can
all be alive, and the oldest expires.
`Inventory`: four requests (`MaxOps`), two of them waiting (`MaxJobs`): one that waits,
and three to change what it read; three rows (`MaxRows`), two super admins and one
holder (`Holders`), who starts with a switch of her own and a granted one.
`SshSessions`: three jobs, because a session overwritten or closed in use needs
one that has it, one that closes it and one that creates another; two SSH user
names and two passwords; three commands per sweep worker (`MaxReads`), so that
the first, a middle and the last can fail. Jobs end, so every behaviour is
finite and the deadlock check also shows that each job ends.

### Fairness

`RuleWrites`: weak fairness on the steps of a started handler. Reads and lines
end because Netmiko has timeouts (`ssh_manager.py` 91-101), the executor runs
what it was given, and the event loop resumes a coroutine whose await is over.
`Terminal`: weak fairness on the handler, on the pump of a pane whose session is
closed (it polls), and on the end of a bridge without panes; none on users, who
may keep a terminal for ever, close it or never claim it. `ChangeTracking`
`SshSessions`, `ConfigObjects`, `AclAdvice`, `Accounts` and `Inventory` state
safety only: the answer to each of their requests is one of the steps that
`RuleWrites` follows, or one step.

Deadlock is checked in `RuleWrites` and `SshSessions` (`Finished` is the intended
end). In the other runs a state where all requests, edits or ticks are spent is a
legitimate end, so they turn the check off.

## Proofs

Every theorem holds for all values of the constants under the named assumptions of
the modules: `ConstantsOK` (kinds of values are disjoint, a bound is a natural
number, requests are ones the endpoints accept), `NamesAssumption` (no name stands for "nobody", the seeded account is a
super admin), `LockAssumption`, `GuessedAssumption` and `ClockAssumption` (times are natural numbers, names are names), `BoundsAssumption`
and `OutsetAssumption` (the inventory at the outset is one the handlers can have
left). In `ConfigObjects`: `NamesAssumption` (the four kinds of objects are apart, as the
switch keeps them apart by their commands, and no text is empty), `AsksAssumption`
(`Accepted`: the request has the form its schema and validators let through) and
`OutsetAssumption` (a running-config: numbered entries, finitely many). In the ACL
algebra: `RulesAssumption` and `NumberAssumption` (the width of addresses, the
highest port and the highest number are natural numbers, a group has one of two
kinds, ends of schedules are times), `MembersAssumption` (a member of a group is a
range of addresses, or an operator with the ports it needs) and `ListsAssumption`
(packets are within the width, go both ways and between all the addresses that are
asked about, the lines typed have the form of lines, and questions and requests are ones
the validators accept; that a generated line has the form of lines is proved,
`GeneratedFormed`). There are finitely many groups. `LockAssumption` also says what `lockout.py` has as constants: more than one attempt,
and a lock no shorter than the window. No proof uses the size of a run. Each inductive invariant was checked by TLC
on the run of its module before it was proved.

`RuleWritesProofs`

* `TypeOK`, `OneSetPerSession`, `SuccessIsExact`, `RestoredIsBack`,
  `RemarkAfterPermit`. `SuccessIsExact` is far from inductive: that a confirmed rule
  means the exact list needs to know, at every step, which lines of the set are
  still to be sent and at which numbers the list may differ from what was read.
  `Local(r)` says so per request (`Framed`: undisturbed, the list differs from `seen`
  at the request's own numbers at most; `EditLines`, `OldGoes`, `Original`: what an
  edit has done to the old line; `RemarkWaits`, `Phased`, `Pending`, `Bounded`: which
  lines are left in which phase). A step of another request either leaves the list
  alone or makes this one disturbed (`OtherLocal`); a request's own steps are one
  lemma per action.
* `UndoInverts`, `FailureRestores`, `UnverifiedSuccessIsExact` compare the list with
  the effect of a whole sequence of lines. `Reaches(a, cs, T)` says without recursion
  that the list `a`, after `cs`, is `T`: at each number the last line of `cs` about it
  leaves what `T` has, or no line is about it and `a` has it already. That this is
  what `Run` computes is an induction on the length of `cs` (`RunReaches`). `UInv` adds
  to the first invariant one conjunct per request, `Reverses(r)`: whichever part of its
  lines was sent, obeyed or refused, and in whichever phase, the undo lines (and,
  while rolling back, what is left of them) still reach the list that was read
  (`Undoable`, `Rolling`, `Restoring`, `Going`, `Gone`), and are about no other
  numbers (`Scoped`, `CoversRemark`). The list they reach is `Before`, which the
  handlers compute from the maps they read (`AsRead`, `SyncPlan`); which of the sets
  were sent whole, so that something was overwritten at all, is told by `Waiting`,
  `Wrote` and `Verifies`.

`TerminalProofs`: the invariants of the run, `AttachesOnce`, and the refinement of
`TerminalSlots`. The invariant adds to those of the run where
connections can be (`LiveAccounted`: a live session belongs to a handler that is
connecting, still has to join it, or holds it in `conns`), because
`EndedIsDisconnected` says nothing of the states before the end.

`SshSessionsProofs`: `TypeOK`, `NoStraySession`, `SweepHandsBack`, `SentOnce`,
`UpdateClosesOld`, `LocksAreGivenUp`. The invariant adds what each place of a job says
of what it has in its hands (`Equipped`, `Connecting`), how many sessions it can have
opened by then, so that a new one is new (`Budgeted`), and that the cache keeps a
session under the user name it was opened with (`Keyed`). For `SentOnce`: nothing was
sent while a retry is still possible (`Unsent`); for `SweepHandsBack`: what a sweep
popped is nowhere in the cache (`HandedBack`); for `UpdateClosesOld`: from the moment an
update runs alone, no session with the old credentials is in the cache but the one it
is about to drop (`Alone`, `Clean`).

`ChangeTrackingProofs`: `TypeOK`, `UndoOfferedIffPresent`, `MarkedIsUnsaved`,
`UnsavedIsMarked`. The signal is computed from the log alone, by the places of its
entries, so the invariant says of every change where its entry stands against the
newest save and what the requests that are not logged yet will do to that. A change
that was copied has its entry before that save (`EntryBeforeSave`, `SaveIsLogged`), one
that was not has it after (`SentSince`, `EntryAfterSave`, `NewIsLogged`); an undo that
still has to be logged is going to be taken for the undo of a saved change only if it
is (`UndoOfNew`, `UndoOfSaved`), and one that is logged marks the switch for a reason
(`UndoneSavedMarks`, `SavedUndoIsRight`). What failed commands left is separate: a
change is there in part only by a failed write or an undo without an entry
(`TornIsFailed`, `TornIsExcused`), and an undo that may have taken a change away has
its entry where the change had it (`UnsettledBeforeSave`). Each conjunct names the excuses it needs, so
that the three properties need no more than they state.

`InventoryProofs`: `TypeOK`, `PairsAreMutual`, `WriteIsEarned`. The invariant adds
that no job and no row knows a serial number that was not given yet
(`SerialsAreOld`), by which a late commit can tell the row it read from another one
under its number, and that an own row stays one (`OwnStaysOwn`).

`AccountsProofs`

* `SomeSuperAdmin`. Rows and tokens are well typed (a token names a known name; its
  `sub` decides who acts). A role is taken from an account, or the account deleted,
  only by another one that may manage it, and only a super admin may manage a super
  admin, so the actor remains one; a rename moves the row as it is; a restart only
  promotes.
* `TokensFollowAuthority`: no two accounts share a serial, also after renames, and of a
  token and the account it was issued to, one issued since the epoch in which tokens were
  last ended is not older than the cut-off and one of an earlier epoch not younger
  (`TokensFollow`). Between the two commits of a change `Due` holds: the account that waits
  for the second one is the only one whose epoch is ahead of its `ended` without a kill
  (`ChangesEnd`, `RevokeDue`, `OneRevoke`). Expiry is in the statement itself and needs
  nothing. `GuessesAreBounded`:
  the last `attempts` wrong passwords are those of the present window, and all but
  `MaxAttempts - 1` of those before are a window older than its first (`WindowIsLast`,
  `EarlierAreOld`); a full window locks the account (`LockFollows`).

`ConfigObjectsProofs`: `SuccessIsExact`, `RestoredIsBack` and `UndoReturns`, in five parts.

* The switch: a configuration stays one under every line (`ObeyConfiguration`); a set is
  its first line and then its rest (`ObeyRest`, from the recursive function `ObeyAll`);
  numbers are sorted without gaps or repetition (`SortedLists`), and those of
  `FirstEmpty` are free (`FirstEmptyIsFree`).
* The plans, handler by handler (`AttachSends` to `EditMemberSends`): they send lines
  of their own object only (`PlanTyped`), and a list of groups or ranges that could not be
  read does not change the plan for a binding or a member (`CertainPlan`).
* What a line can do: obeyed or refused, a line of the job leaves the object as it was
  read but for what the job is about (`Alike`: the directions of a binding, the texts of a
  member), and before the rollback of an edit the other members have their numbers
  (`Kept`; on NX-OS the old member is taken out by its number). With what the read-back
  shows this fixes the whole object, whichever lines were refused (`ConfirmedBinding`,
  `ConfirmedMember`, `RestoredBinding`, `RestoredMember`).
* The invariant `IInv`: per request, what it read and planned (`Founded`), what is left of
  its set (`Placed`: the lines still to be sent lead to the target), `Bounded` and `Seen`.
  The last three hold while nobody else wrote (`Alone`); the steps of another request
  leave them alone or end that (`Passive`).
* The undo: `UndoReturns` is about the plans, not the states. What the lines after a
  header put into the entries, or take out, is told line by line (`HeadedPasses`); then
  each kind of change has its lemma (`CreationUndone`, `DeletionUndone`,
  `TemplateUndone`, `BindingUndone`, `MemberUndone`), and `ChangeUndone` joins them. A
  member that was there under the same text is why `MemberUndone` needs that the
  handlers refuse it, and a sequence number chosen by the switch why the undo names
  the text on IOS.

`AclAdviceProofs`: that advice agrees with what a packet sees, for every width of
addresses, every list, and groups however nested. The first part is about the comparisons of
the code, the second about lists and their edits, the third about questions.

* The algebra. Whether a line takes a packet (`Hits`) is what the ranges and clauses
  that the code compares say (`LineClauses`). Hence a covered rule takes no packet that
  its cover does not take (`CoveredIsTaken`), and rules that share a packet are not held
  to share none (`SharedIsOverlap`), with the exceptions `Plain` and `SameEnds`.
* Lists. A packet is decided by the first line that takes it (`Decides`), so what
  matters of an edit is which line comes first afterwards. `RedundancyHolds`: a
  redundant rule is never reached; a superseded one is, but whatever it decides the last
  of those that supersede it decides the same way, and nothing between takes a packet of
  both with the other action. All are removed at once, so both arguments go by the last
  and the first rule that stay. `FlaggedHolds`: a rule out of schedule, or on the wrong
  side of every interface, takes no packet that such an interface sees.
* `ReversalHolds`: reversed rules are sent without numbers, so the switch counts on from
  the last one. `SendAll` is told stage by stage: after `i` of the rules, the list holds
  them in their order behind one another (`Places`), each with its ends swapped
  (`Swapped`); first match over the new list is then first match over the old one with
  the packet turned round (`Mirror`).
* `SuggestionHolds`: a suggestion takes some neighbours of one group, in the order of
  their addresses, and a block that holds them all (`SuggestionIs`, from `Ordered`,
  `Clusters` and `BestSummary`). The summary takes the packets of its rules, and besides
  them only such as have an address in what it lists as extra (`Widens`); in the place of
  the first of them, with no deny among them (`Among`), it changes nothing else
  (`SummaryIsMore`).
* `LookupHolds`: the packets of a connection are the combinations of its addresses,
  ports and types (`ForwardIs`), so a line takes all of them when each of its parts takes
  all of its own (`TakesThere`, `TakesBack`). Part by part that is what the lookup compares
  (`InListIs`, `SatisfiesIs`, `FittingIs`; joined in `MatchesIs`), given that an operand
  for everything is written as one (`AnyWritten`). `LookupIsTraffic` is the equivalence for
  one line and one question, there or back.
* `PreviewHolds`: the samples of a request are themselves questions (`SamplesAsk`), so
  `LookupIsTraffic` is about them. A rule that takes a sample whole is considered by the
  lookup, and then the rule that blocks is not behind it (`BlockingIs`); the new line has
  a number below that (`PlaceIs`), takes every packet of the samples (`GrantTakes`), and
  is thereby the first to take them (`GrantedIs`).

The invariant is small (`ListsFormed`: numbered lines, all of the form of lines); the
work is in the operators. All the properties but `LookupMeansTraffic` compare the list
with the one before the last edit, so each holds after every edit by what that edit
does. `PowerOf2` and `SendAll` are recursive functions, which are shown to exist before
they are used.

A recursive function over a natural number is proved about through a minimal
counterexample (`WFMin` with `NatLessThanWellFounded`), as the induction theorems
themselves take an operator as a parameter.

Only model-checked: liveness (`EveryRequestAnswered`, `ConnectingEnds`, `ClosedEnds`),
which the prover does not reach. Every other property of every passing run is a theorem.

## Abstractions

A rule is a value; a remark is a value; whether a line in the list is the rule
asked for is equality (`_canonical_acl_rule` ignores spelling). Switch types
differ only in spelling. One list of one switch is modelled; handlers of other
lists share nothing but the session and its lock. The read of a list is one
step: it is one command under the lock. Prompts, enable mode and configuration
mode are part of a line being taken or refused.

Passwords, password rules and trusted hosts only refuse, and are not modelled in
`Accounts`; themes, mascots, locations and the order of the switches are left out.
In `AclRules` addresses and ports are short intervals; a wildcard with holes is
modelled as what it is to the parser, a line that is not understood.

Not modelled: rendering (reports, TCAM, frontend), the form of strings (validators,
request schemas), single-step edits of the database (templates, shares, site
labels, trusted hosts), the cache of one read-only request, and what runs once
before requests are served (migrations, encryption key). Access requests are
answered by a check and a commit in one step; their notifications are next in the
plan. Of the health sweep only the use of sessions is modelled.

## Known limits of the code

What the properties except, because the code behaves otherwise. Each exception is
a named part of the property or a named operator, so that dropping it shows the
behaviour in TLC.

Algebra (`AclAdvice`):

* A permit and a deny that name ports of different ends are held to share no
  traffic (`acl_parser.py` 1409-1417; `SameEnds`), and of a rule with two port
  clauses each alone may cover (`Plain`): a rule may be called superseded that is not. A
  reference to a port group without members counts as no clause at all
  (`acl_parser.py` 1241, 1398), while the switch matches nothing by it (`Plain`).
* Of two identical rules the later one is redundant and the earlier one superseded:
  taking out both lists at once takes out both rules.
* A rule with `eq a b` is written back with the first port (`WrittenWhole`); a time
  range behind `log` is not seen (`Plain`).
* A line that is not understood is ignored by every page, a deny included; groups
  that cannot be read are taken for none (`last.known`).
* A summary takes the first number of those it replaces, in front of a deny that
  stood among them (`Among`).
* The lookup passes over nested members, ranges of addresses but for the first, and
  members without a port (`ReadWhole`); it reads standard lists as not understood.
* It tells by how an operand is written whether it is for everything: `range 0 65535`
  is not any port to it (`acl_parser.py` 63-65), and an address with a wildcard of all ones
  is seen as a network (`AnyWritten`); a deny written so is passed over by the preview, too.
* A network it is asked about has to be in one member of a group, also when several
  members hold it together (`InOneMember`). A time range that the switch does not have
  counts as one in force (`acl_service.py` 62-70; `Scheduled`).
* The preview looks up only the ends of a range of ports and passes over a deny
  that takes part of what is asked (`whole`); without a wish for a remark it may
  choose the number of a remark.
* Reversed rules are sent without numbers and so go to the end, one by one; only the
  reversal of all rules is a mirror (`last.chosen`).

Writes, saves and undos (`RuleWrites`, `ChangeTracking`):

* A sync whose `| section` read is empty goes by the rules alone: it puts a rule over a
  remark of the target, and adds a remark the target has already (`main.py` 4508-4511;
  `bare`, `Overwritten`), where DOCUMENTATION.md 833 has it touch only what differs. Apply
  and edit write over a remark as well (`main.py` 4217), which their undo does not bring
  back, despite PROJECT-OVERVIEW.md 56.
* A write, save or undo that failed may have changed the switch and leaves no undo, no
  mark and no checkpoint (`main.py` 1192-1201, 4394-4400, 6181-6189, 6240-6249;
  `lostWrite`, `lostSave`, `lostUndo`). The button of an undo that failed half way stays,
  for a change of which a part is left, or nothing (`unsettled`).

Configuration (`ConfigObjects`):

* Changing a time range deletes it and makes it anew; the undo enters the old
  entries and leaves the new ones (`main.py` 5624-5630 against `DOCUMENTATION.md` 808;
  `EditsRange`).
* A list of groups or ranges that could not be read looks empty: a creation then
  goes to an existing object and its undo deletes it; a detach is believed when its
  read-back fails (`blind`).
* What is there already is written again and then undone: a member added or edited
  to a text that is one, a flip of a list bound both ways, a line of a template on
  the number of a remark (`Rewrites`).
* A flip removes the list before it binds it the other way, whatever
  `main.py` 4868 says; that it was restored is said from the answer of `configure` alone, and
  `og_create` says that it rolled back without looking. Deletion and creation of
  lists, templates and time ranges are neither verified nor rolled back.
* On NX-OS a member is deleted by the number it was read with, and comes back at
  another one.

Accounts:

* A token of the second of the change works on. A process killed between the change and
  the end of its tokens leaves all of them alive until they expire (`cut`), while
  PROJECT-OVERVIEW.md 207 says that they end immediately. A name that was deleted and created
  again, or left by a rename and taken by another account, makes an old token name
  another account (`serial`).
* A start of the server promotes the account called `admin` without ending its
  tokens. A rename moves neither the requests nor the switches recorded under the
  old name, despite `main.py` 510. Creation compares names with their case, renaming without.

Inventory:

* `update_switch` commits what it decided before its test (`main.py` 2464-2527): over a
  pairing made meanwhile it leaves a switch that is not Nexus paired, and when its row was deleted
  and the number given again it changes another row, also another holder's (`raced`).
* An addition that ends after its account was deleted leaves a row of nobody.
* A claim by enable password alone tests the granter's saved password (`main.py`
  2434-2443), which counts as proof. A claim of a plain user stays
  read-only, also after a promotion; one committed over a lowered grant may leave an
  own switch read-only.

## Plan

1. `AccessRequests`: asking, answering, the seen flags and the page that sets them
   (the hazard at `main.py` 884), with renames and deletions.
2. The health sweep: its lock, and snapshots stored for a switch that was deleted, or
   whose number was given again, during the sweep.
3. Proofs: the invariants of `AccessRequests`.
