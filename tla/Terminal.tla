------------------------------- MODULE Terminal -------------------------------
(***************************************************************************)
(* The switch terminal: the registry of workspaces in terminal_service.py  *)
(* and the websocket handler of main.py that serves one workspace.         *)
(*                                                                         *)
(* A workspace is reserved by POST /api/terminal/sessions for one switch   *)
(* or a VPC pair, claimed once by a websocket, and removed by whichever    *)
(* comes first: the DELETE request, the handler's end, or expiry. Registry *)
(* operations run on the event loop and are atomic; the handler awaits the *)
(* websocket and the SSH connects (worker threads), so everything else may *)
(* run between its steps.                                                  *)
(*                                                                         *)
(* A workspace is its number, the targets are switches; a workspace opens  *)
(* at most one SSH session per target, written <<workspace, switch>>.      *)
(***************************************************************************)
EXTENDS Naturals, Sequences, FiniteSets

CONSTANTS
  Users,
  Switches,
  Owns,           \* user -> switches granted with write and terminal access
  Pairs,          \* the VPC pairs of the inventory, sets of two switches
  MaxTerminals,   \* MAX_TERMINALS_PER_USER
  MaxWorkspaces   \* bound: workspaces ever reserved

Workspaces == 1..MaxWorkspaces

\* "Select one switch, or one configured VPC pair."
Selections(u) == {{s} : s \in Owns[u]} \cup {p \in Pairs : p \subseteq Owns[u]}

ASSUME ConstantsOK ==
  /\ Users # {} /\ IsFiniteSet(Switches)
  /\ MaxTerminals \in Nat /\ MaxWorkspaces \in Nat
  /\ Owns \in [Users -> SUBSET Switches]
  /\ \A p \in Pairs : p \subseteq Switches /\ Cardinality(p) = 2

VARIABLES
  reserved,   \* how many workspaces were ever reserved (the ids in use)
  registry,   \* _workspaces
  byUser,     \* _by_user
  owner,      \* workspace.username
  targets,    \* workspace.targets
  old,        \* workspaces older than PENDING_TTL_SECONDS
  attached,   \* workspaces whose token was consumed
  conns,      \* workspace.connections
  pc,         \* where the websocket handler of a workspace is
  outcome,    \* what connect_target returned for a target of a workspace
  todo,       \* targets whose result the handler has not looked at
  panes,      \* targets the handler serves: its `connections', then its pumps
  live        \* open SSH sessions

vars == <<reserved, registry, byUser, owner, targets, old, attached, conns, pc,
          outcome, todo, panes, live>>

\* The handler is under way, and its finally clause will release the workspace.
\* "lost" is a handler whose accept raised: it has not entered its try.
Guarded  == {"greeting", "connecting", "joining", "bridging", "ending"}
Phases   == Guarded \cup {"none", "accepting", "lost", "ended"}
Outcomes == {"none", "waiting", "connected", "failed"}

TypeOK ==
  /\ reserved \in 0..MaxWorkspaces
  /\ registry \subseteq Workspaces
  /\ byUser \in [Users -> SUBSET Workspaces]
  /\ owner \in [Workspaces -> Users]
  /\ targets \in [Workspaces -> SUBSET Switches]
  /\ old \subseteq Workspaces
  /\ attached \subseteq Workspaces
  /\ conns \in [Workspaces -> SUBSET Switches]
  /\ \A w \in Workspaces : conns[w] \subseteq targets[w]
  /\ pc \in [Workspaces -> Phases]
  /\ outcome \in [Workspaces -> [Switches -> Outcomes]]
  /\ todo \in [Workspaces -> SUBSET Switches]
  /\ panes \in [Workspaces -> SUBSET Switches]
  /\ live \subseteq {c \in Workspaces \X Switches : c[2] \in targets[c[1]]}

Init ==
  /\ reserved = 0
  /\ registry = {} /\ old = {} /\ attached = {} /\ live = {}
  /\ byUser = [u \in Users |-> {}]
  /\ owner = [w \in Workspaces |-> CHOOSE u \in Users : TRUE]
  /\ targets = [w \in Workspaces |-> {}]
  /\ conns = [w \in Workspaces |-> {}]
  /\ pc = [w \in Workspaces |-> "none"]
  /\ outcome = [w \in Workspaces |-> [s \in Switches |-> "none"]]
  /\ todo = [w \in Workspaces |-> {}]
  /\ panes = [w \in Workspaces |-> {}]

handler == <<pc, outcome, todo, panes>>

-------------------------------------------------------------------------------
(* The registry *)

\* _remove_locked, for a set of workspaces.
Without_Stale(W) == byUser
Without(W) == [u \in Users |-> byUser[u] \ W]
Removed(W) == registry' = registry \ W /\ byUser' = Without(W)

\* _disconnect: every connection appended so far is closed and forgotten.
SessionsOf_First(w) == IF conns[w] = {} THEN {} ELSE {<<w, CHOOSE s \in conns[w] : TRUE>>}
SessionsOf(w) == {<<w, s>> : s \in conns[w]}
Disconnect(w) ==
  /\ live' = live \ SessionsOf(w)
  /\ conns' = [conns EXCEPT ![w] = {}]

Expired == {w \in registry : w \notin attached /\ w \in old}

\* The switches a user has terminals on once expired workspaces are gone.
Active(u) == UNION {targets[w] : w \in byUser[u] \ Expired}

Admissible_NoDuplicateCheck(u, T) == Cardinality(Active(u) \cup T) <= MaxTerminals
Admissible(u, T) ==
  /\ Active(u) \cap T = {}
  /\ Cardinality(Active(u)) + Cardinality(T) <= MaxTerminals

\* uuid4: an id never given before.
NewId(used) == used + 1

\* reserve. Expired workspaces leave the registry whether or not the request is
\* accepted; they have no connections to close.
Reserve(u, T) ==
  /\ reserved < MaxWorkspaces
  /\ Admissible(u, T)
  /\ LET w == NewId(reserved) IN
     /\ reserved' = reserved + 1
     /\ registry' = (registry \ Expired) \cup {w}
     /\ byUser' = [Without(Expired) EXCEPT ![u] = @ \cup {w}]
     /\ owner' = [owner EXCEPT ![w] = u]
     /\ targets' = [targets EXCEPT ![w] = T]
  /\ UNCHANGED <<old, attached, conns, handler, live>>

ReserveRefused(u, T) ==
  /\ ~Admissible(u, T)
  /\ Expired # {}
  /\ Removed(Expired)
  /\ UNCHANGED <<reserved, owner, targets, old, attached, conns, handler, live>>

\* Thirty seconds pass.
Age(w) ==
  /\ w \in registry /\ w \notin old
  /\ old' = old \cup {w}
  /\ UNCHANGED <<reserved, registry, byUser, owner, targets, attached, conns,
                 handler, live>>

\* claim, by the websocket of a client that knows the id; the handler then
\* awaits the accept.
Claimable_Again(w) == w \in registry
Claimable(w) == w \in registry /\ w \notin attached

Claim(w) ==
  /\ Claimable(w) /\ w \notin old
  /\ attached' = attached \cup {w}
  /\ pc' = [pc EXCEPT ![w] = "accepting"]
  /\ UNCHANGED <<reserved, registry, byUser, owner, targets, old, conns, outcome,
                 todo, panes, live>>

ClaimTooLate(w) ==
  /\ Claimable(w) /\ w \in old
  /\ Removed({w})
  /\ Disconnect(w)
  /\ UNCHANGED <<reserved, owner, targets, old, attached, handler>>

\* DELETE /api/terminal/sessions/{id} by the owner.
CloseOwned(w) ==
  /\ w \in registry
  /\ Removed({w})
  /\ Disconnect(w)
  /\ UNCHANGED <<reserved, owner, targets, old, attached, handler>>

-------------------------------------------------------------------------------
(* The websocket handler *)

\* The handshake is over. The accept stands before the try whose finally releases
\* the workspace: when it raises, the handler is gone and the claim stays.
AcceptEnds(w) ==
  /\ pc[w] = "accepting"
  /\ pc' \in {[pc EXCEPT ![w] = p] : p \in {"greeting", "lost"}}
  /\ UNCHANGED <<reserved, registry, byUser, owner, targets, old, attached, conns,
                 outcome, todo, panes, live>>

\* The greeting and the "connecting" messages are out: every connect starts.
Greeted(w) ==
  /\ pc[w] = "greeting"
  /\ pc' = [pc EXCEPT ![w] = "connecting"]
  /\ outcome' = [outcome EXCEPT ![w] =
                   [s \in Switches |-> IF s \in targets[w] THEN "waiting" ELSE "none"]]
  /\ UNCHANGED <<reserved, registry, byUser, owner, targets, old, attached, conns,
                 todo, panes, live>>

Connected(w, s) ==
  /\ pc[w] = "connecting" /\ outcome[w][s] = "waiting"
  /\ outcome' = [outcome EXCEPT ![w][s] = "connected"]
  /\ live' = live \cup {<<w, s>>}
  /\ UNCHANGED <<reserved, registry, byUser, owner, targets, old, attached, conns,
                 pc, todo, panes>>

ConnectFailed(w, s) ==
  /\ pc[w] = "connecting" /\ outcome[w][s] = "waiting"
  /\ outcome' = [outcome EXCEPT ![w][s] = "failed"]
  /\ UNCHANGED <<reserved, registry, byUser, owner, targets, old, attached, conns,
                 pc, todo, panes, live>>

\* gather returns when the last connect has.
Settled_AllConnected(w) == \A s \in targets[w] : outcome[w][s] = "connected"
Settled(w) == \A s \in Switches : outcome[w][s] # "waiting"

Gathered(w) ==
  /\ pc[w] = "connecting" /\ Settled(w)
  /\ pc' = [pc EXCEPT ![w] = "joining"]
  /\ todo' = [todo EXCEPT ![w] = targets[w]]
  /\ UNCHANGED <<reserved, registry, byUser, owner, targets, old, attached, conns,
                 outcome, panes, live>>

\* register_connection: a workspace closed in the meantime takes no connection.
Takes_Always(w) == TRUE
Takes(w) == w \in registry

Register(w, s) ==
  IF Takes(w)
  THEN conns' = [conns EXCEPT ![w] = @ \cup {s}] /\ UNCHANGED live
  ELSE live' = live \ {<<w, s>>} /\ UNCHANGED conns

\* The handler looks at one result, registers it if it is a connection, and
\* sends the target's status.
Join(w, s) ==
  /\ pc[w] = "joining" /\ s \in todo[w]
  /\ todo' = [todo EXCEPT ![w] = @ \ {s}]
  /\ IF outcome[w][s] = "connected"
     THEN Register(w, s) /\ panes' = [panes EXCEPT ![w] = @ \cup {s}]
     ELSE UNCHANGED <<conns, live, panes>>
  /\ UNCHANGED <<reserved, registry, byUser, owner, targets, old, attached, pc, outcome>>

\* All results are looked at: bridge what there is, or end.
Joined_NoRelease(w) ==
  /\ pc[w] = "joining" /\ todo[w] = {}
  /\ pc' = [pc EXCEPT ![w] = IF panes[w] = {} THEN "ended" ELSE "bridging"]
  /\ outcome' = [outcome EXCEPT ![w] = [s \in Switches |-> "none"]]
  /\ UNCHANGED <<reserved, registry, byUser, owner, targets, old, attached, conns,
                 todo, panes, live>>
Joined(w) ==
  /\ pc[w] = "joining" /\ todo[w] = {}
  /\ pc' = [pc EXCEPT ![w] = IF panes[w] = {} THEN "ending" ELSE "bridging"]
  /\ outcome' = [outcome EXCEPT ![w] = [s \in Switches |-> "none"]]
  /\ UNCHANGED <<reserved, registry, byUser, owner, targets, old, attached, conns,
                 todo, panes, live>>

\* A send raises because the browser is gone. The first send of the joining
\* loop comes after the first result.
SendFails(w) ==
  /\ \/ pc[w] = "greeting"
     \/ pc[w] = "joining" /\ todo[w] # targets[w]
  /\ pc' = [pc EXCEPT ![w] = "ending"]
  /\ UNCHANGED <<reserved, registry, byUser, owner, targets, old, attached, conns,
                 outcome, todo, panes, live>>

\* The pump of one pane ends: the switch closed the session, it was disconnected
\* here, or the browser cannot be written to.
PaneEnds(w, s) ==
  /\ pc[w] = "bridging" /\ s \in panes[w]
  /\ panes' = [panes EXCEPT ![w] = @ \ {s}]
  /\ live' \in {live, live \ {<<w, s>>}}
  /\ UNCHANGED <<reserved, registry, byUser, owner, targets, old, attached, conns,
                 pc, outcome, todo>>

\* The last pump ended, or the browser closed or left.
BridgeEnds(w) ==
  /\ pc[w] = "bridging"
  /\ pc' = [pc EXCEPT ![w] = "ending"]
  /\ UNCHANGED <<reserved, registry, byUser, owner, targets, old, attached, conns,
                 outcome, todo, panes, live>>

\* The finally clause: release. The workspace is removed if it is still there,
\* and its connections are closed either way.
HandlerEnds(w) ==
  /\ pc[w] = "ending"
  /\ Removed({w})
  /\ Disconnect(w)
  /\ pc' = [pc EXCEPT ![w] = "ended"]
  /\ panes' = [panes EXCEPT ![w] = {}]
  /\ UNCHANGED <<reserved, owner, targets, old, attached, outcome, todo>>

-------------------------------------------------------------------------------
Serve(w) ==
  \/ AcceptEnds(w) \/ Greeted(w) \/ Gathered(w) \/ Joined(w) \/ SendFails(w)
  \/ HandlerEnds(w)
  \/ \E s \in Switches : \/ Connected(w, s) \/ ConnectFailed(w, s) \/ Join(w, s)

Next ==
  \/ \E u \in Users : \E T \in Selections(u) : Reserve(u, T) \/ ReserveRefused(u, T)
  \/ \E w \in Workspaces :
       \/ Age(w) \/ Claim(w) \/ ClaimTooLate(w) \/ CloseOwned(w)
       \/ Serve(w) \/ BridgeEnds(w)
       \/ \E s \in Switches : PaneEnds(w, s)

Spec == Init /\ [][Next]_vars

\* SSH connects end (Netmiko's timeouts), and the event loop resumes a handler
\* whose await is over. The user may keep a terminal open for ever, but a pump
\* notices within a second that its session is closed (is_interactive_alive), and
\* when no pane is left the handler ends.
FairSpec ==
  /\ Spec
  /\ \A w \in Workspaces :
       /\ WF_vars(Serve(w))
       /\ WF_vars(\E s \in Switches : <<w, s>> \notin live /\ PaneEnds(w, s))
       /\ WF_vars(panes[w] = {} /\ BridgeEnds(w))

-------------------------------------------------------------------------------
(* Properties *)

\* _by_user is the registry seen by owner; in particular no id of a removed
\* workspace keeps counting against a user.
IndexAgrees ==
  \A u \in Users : byUser[u] = {w \in registry : owner[w] = u}

\* "You can have at most three switch terminals open", on distinct switches:
\* whatever expires, is closed or ends in which order.
DistinctTerminals ==
  \A u \in Users :
    /\ \A v, w \in byUser[u] : v # w => targets[v] \cap targets[w] = {}
    /\ Cardinality(UNION {targets[w] : w \in byUser[u]}) <= MaxTerminals

\* A workspace holds connections only while it is registered: one that connects
\* after its workspace was closed is never kept (register_connection), and a
\* handler that ended left none.
ConnectionsAreRegistered ==
  \A w \in Workspaces : conns[w] # {} => w \in registry /\ pc[w] \in {"joining", "bridging", "ending"}

\* The joining loop was left by a failed send before it reached a connection.
CutShort(w) == \E s \in todo[w] : outcome[w][s] = "connected"

\* "SSH connections closed." (the audit entry of the handler's end): once the
\* handler has ended, no SSH session of the workspace is open, unless its
\* joining loop was cut short.
EndedIsDisconnected ==
  \A w \in Workspaces : pc[w] = "ended" /\ ~CutShort(w) => \A s \in Switches : <<w, s>> \notin live

\* "Consume a pending workspace token. It can only attach once": a handler never
\* starts over for a workspace.
AttachesOnce ==
  [][\A w \in Workspaces : pc'[w] = "accepting" /\ pc[w] # "accepting" => pc[w] = "none"]_vars

\* Whatever counts against a user can still go away by itself: a workspace is
\* pending, and expires, or its handler will release it, by whichever of its
\* returns and exceptions it ends. The one workspace that keeps its switches
\* until somebody deletes it is the one whose accept failed.
SlotsAreServed ==
  \A u \in Users : \A w \in byUser[u] :
    w \notin attached \/ pc[w] \in Guarded \cup {"accepting", "lost"}

\* A handler that starts connecting comes to an end or bridges a session; it
\* hangs on no pane of the pair.
ConnectingEnds ==
  \A w \in Workspaces : pc[w] = "connecting" ~> pc[w] \in {"bridging", "ended"}

\* The DELETE request ends a terminal for good: the handler of a workspace that
\* left the registry, at whatever point it was, ends and leaves no connection.
\* One lost in its accept has none, and the DELETE takes its workspace too.
ClosedEnds ==
  \A w \in Workspaces :
    pc[w] # "none" /\ w \notin registry ~> pc[w] \in {"ended", "lost"} /\ conns[w] = {}

\* The registry, with everything that runs on top of it, implements the promise
\* of TerminalSlots: a user's selections are those of the user's workspaces.
Slots == INSTANCE TerminalSlots WITH
           Offers <- [u \in Users |-> Selections(u)],
           held   <- [u \in Users |-> {targets[w] : w \in byUser[u]}]

ImplementsSlots == Slots!Spec
==============================================================================
