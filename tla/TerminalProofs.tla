---------------------------- MODULE TerminalProofs ----------------------------
(***************************************************************************)
(* The safety properties of Terminal hold for any number of users,         *)
(* switches and workspaces and any limit. The inductive invariant adds to  *)
(* them who may hold an SSH session: a live session is in its workspace's  *)
(* connections, or the handler has yet to look at its result.              *)
(***************************************************************************)
EXTENDS Terminal, FiniteSetTheorems, TLAPS

\* Ids are given in order, and nothing happens to one that was not given.
Unused ==
  \A w \in Workspaces : w > reserved => w \notin registry /\ w \notin attached

\* A handler runs for the attached workspaces and for no other.
Attachment == \A w \in Workspaces : pc[w] = "none" <=> w \notin attached

\* Results exist between the start of the connects and the end of the joining.
Results ==
  \A w \in Workspaces : \A s \in Switches :
    /\ outcome[w][s] # "none" => s \in targets[w]
    /\ pc[w] \in {"none", "accepting", "greeting"} => outcome[w][s] = "none"

LiveAccounted ==
  \A w \in Workspaces : \A s \in Switches :
    <<w, s>> \in live =>
      \/ s \in conns[w]
      \/ /\ outcome[w][s] = "connected"
         /\ \/ pc[w] = "connecting"
            \/ pc[w] \in {"joining", "ending", "ended"} /\ s \in todo[w]

IInv ==
  /\ TypeOK
  /\ IndexAgrees
  /\ DistinctTerminals
  /\ ConnectionsAreRegistered
  /\ Unused
  /\ Attachment
  /\ Results
  /\ LiveAccounted
  /\ SlotsAreServed

\* A live session of a workspace whose handler ended is one the joining loop
\* never reached.
LEMMA EndedFromAccounted ==
  ASSUME TypeOK, ConnectionsAreRegistered, LiveAccounted
  PROVE  EndedIsDisconnected
BY DEF TypeOK, ConnectionsAreRegistered, LiveAccounted, EndedIsDisconnected, CutShort

LEMMA InitInv == Init => IInv
<1> SUFFICES ASSUME Init PROVE IInv
  OBVIOUS
<1>1. TypeOK
  BY ConstantsOK DEF Init, TypeOK, Workspaces, Phases, Guarded, Outcomes
<1>2. Cardinality({}) <= MaxTerminals
  BY ConstantsOK, FS_EmptySet
<1>3. DistinctTerminals
  <2> SUFFICES ASSUME NEW u \in Users
               PROVE  Cardinality(UNION {targets[w] : w \in byUser[u]}) <= MaxTerminals
    BY DEF Init, DistinctTerminals
  <2>1. UNION {targets[w] : w \in byUser[u]} = {}
    BY DEF Init
  <2> QED BY <1>2, <2>1
<1> QED BY <1>1, <1>3 DEF Init, IInv, IndexAgrees, ConnectionsAreRegistered, Unused,
             Attachment, Results, LiveAccounted, SlotsAreServed, Workspaces

-------------------------------------------------------------------------------
\* The switches of any set of workspaces are finitely many.
LEMMA TargetsFinite ==
  ASSUME TypeOK, NEW W \in SUBSET Workspaces
  PROVE  /\ UNION {targets[w] : w \in W} \subseteq Switches
         /\ IsFiniteSet(UNION {targets[w] : w \in W})
<1>1. UNION {targets[w] : w \in W} \subseteq Switches
  BY DEF TypeOK
<1> QED BY <1>1, ConstantsOK, FS_Subset

\* Fewer workspaces of a user have no more switches.
LEMMA FewerTerminals ==
  ASSUME TypeOK, DistinctTerminals, NEW u \in Users, NEW W \in SUBSET byUser[u]
  PROVE  /\ \A v, w \in W : v # w => targets[v] \cap targets[w] = {}
         /\ Cardinality(UNION {targets[w] : w \in W}) <= MaxTerminals
<1> DEFINE all  == UNION {targets[w] : w \in byUser[u]}
           some == UNION {targets[w] : w \in W}
<1>1. byUser[u] \in SUBSET Workspaces /\ W \in SUBSET Workspaces
  BY DEF TypeOK
<1>2. IsFiniteSet(all) /\ IsFiniteSet(some)
  BY <1>1, TargetsFinite
<1>3. some \in SUBSET all
  OBVIOUS
<1>4. Cardinality(some) <= Cardinality(all)
  BY <1>2, <1>3, FS_Subset
<1>5. Cardinality(all) \in Nat /\ Cardinality(some) \in Nat
  BY <1>2, FS_CardinalityType
<1>6. Cardinality(all) <= MaxTerminals
  BY DEF DistinctTerminals
<1> HIDE DEF all, some
<1>7. Cardinality(some) <= MaxTerminals
  BY <1>4, <1>5, <1>6, ConstantsOK
<1> QED BY <1>7 DEF DistinctTerminals, some

\* Taking workspaces out of the registry keeps the index and the limit.
LEMMA RemovalKeepsTerminals ==
  ASSUME TypeOK, IndexAgrees, DistinctTerminals, NEW W, Removed(W),
         UNCHANGED <<owner, targets>>
  PROVE  IndexAgrees' /\ DistinctTerminals'
<1>1. IndexAgrees'
  BY DEF IndexAgrees, Removed, Without, TypeOK
<1>2. ASSUME NEW u \in Users PROVE byUser'[u] \in SUBSET byUser[u]
  BY <1>2 DEF Removed, Without
<1>3. targets' = targets
  OBVIOUS
<1>4. ASSUME NEW u \in Users
      PROVE  /\ \A v, w \in byUser'[u] : v # w => targets[v] \cap targets[w] = {}
             /\ Cardinality(UNION {targets[w] : w \in byUser'[u]}) <= MaxTerminals
  BY <1>2, FewerTerminals
<1>5. DistinctTerminals'
  BY <1>3, <1>4 DEF DistinctTerminals
<1> QED BY <1>1, <1>5

\* An admitted selection keeps a user's terminals distinct and within the limit.
LEMMA ReserveKeepsTerminals ==
  ASSUME IInv, NEW u \in Users, NEW T \in Selections(u), Reserve(u, T)
  PROVE  IndexAgrees' /\ DistinctTerminals'
<1> DEFINE w == reserved + 1
<1> USE DEF IInv
<1>1. w \in Workspaces /\ w \notin registry
  BY ConstantsOK DEF Reserve, Unused, TypeOK, Workspaces
<1>2. \A v \in Users : w \notin byUser[v]
  BY <1>1 DEF IndexAgrees
<1>3. \A v \in Workspaces : v # w => targets'[v] = targets[v] /\ owner'[v] = owner[v]
  BY DEF Reserve, NewId, TypeOK
<1>4. targets'[w] = T /\ owner'[w] = u
  BY <1>1 DEF Reserve, NewId, TypeOK
<1>5. \A v \in Users : byUser'[v] = IF v = u THEN (byUser[u] \ Expired) \cup {w}
                                    ELSE byUser[v] \ Expired
  BY DEF Reserve, NewId, Without
<1>6. IndexAgrees'
  <2> SUFFICES ASSUME NEW v \in Users
               PROVE  byUser'[v] = {x \in registry' : owner'[x] = v}
    BY DEF IndexAgrees
  <2>1. registry' = (registry \ Expired) \cup {w}
    BY DEF Reserve, NewId
  <2>2. byUser[v] = {x \in registry : owner[x] = v} /\ registry \subseteq Workspaces
    BY DEF IndexAgrees, TypeOK
  <2>3. \A x \in registry : owner'[x] = owner[x]
    BY <1>1, <1>3, <2>2
  <2> QED BY <1>4, <1>5, <2>1, <2>2, <2>3
<1>7. ASSUME NEW v \in Users, v # u
      PROVE  /\ \A x, y \in byUser'[v] : x # y => targets'[x] \cap targets'[y] = {}
             /\ Cardinality(UNION {targets'[x] : x \in byUser'[v]}) <= MaxTerminals
  <2>1. byUser'[v] \in SUBSET byUser[v]
    BY <1>5, <1>7
  <2>2. \A x \in byUser'[v] : targets'[x] = targets[x]
    BY <1>2, <1>3, <2>1 DEF TypeOK
  <2>3. {targets'[x] : x \in byUser'[v]} = {targets[x] : x \in byUser'[v]}
    BY <2>2
  <2> QED BY <2>1, <2>2, <2>3, FewerTerminals
<1>8. /\ \A x, y \in byUser'[u] : x # y => targets'[x] \cap targets'[y] = {}
      /\ Cardinality(UNION {targets'[x] : x \in byUser'[u]}) <= MaxTerminals
  <2> DEFINE rest == byUser[u] \ Expired
  <2>1. rest \in SUBSET byUser[u] /\ rest \in SUBSET Workspaces /\ w \notin rest
    BY <1>2 DEF TypeOK
  <2>2. \A x \in rest : targets'[x] = targets[x]
    BY <1>3, <2>1
  <2>3. Active(u) = UNION {targets[x] : x \in rest}
    BY DEF Active
  <2>4. Active(u) \cap T = {} /\ Cardinality(Active(u)) + Cardinality(T) <= MaxTerminals
    BY DEF Reserve, Admissible
  <2>5. UNION {targets'[x] : x \in byUser'[u]} = Active(u) \cup T
    <3>1. byUser'[u] = rest \cup {w}
      BY <1>5
    <3>2. {targets'[x] : x \in byUser'[u]} = {targets[x] : x \in rest} \cup {T}
      BY <3>1, <2>2, <1>4
    <3> QED BY <3>2, <2>3
  <2>6. \A x, y \in byUser'[u] : x # y => targets'[x] \cap targets'[y] = {}
    <3>1. \A x, y \in rest : x # y => targets[x] \cap targets[y] = {}
      BY <2>1, FewerTerminals
    <3>2. \A x \in rest : targets[x] \cap T = {}
      BY <2>3, <2>4
    <3>3. byUser'[u] = rest \cup {w}
      BY <1>5
    <3> TAKE x, y \in byUser'[u]
    <3>4. CASE x \in rest /\ y \in rest
      BY <3>1, <3>4, <2>2
    <3>5. CASE x \in rest /\ y = w
      BY <3>2, <3>5, <2>2, <1>4
    <3>6. CASE x = w /\ y \in rest
      BY <3>2, <3>6, <2>2, <1>4
    <3> QED BY <3>3, <3>4, <3>5, <3>6
  <2>7. T \in SUBSET Switches
    BY ConstantsOK DEF Selections
  <2>8. IsFiniteSet(T) /\ IsFiniteSet(Active(u))
    BY <2>7, <2>3, <2>1, TargetsFinite, ConstantsOK, FS_Subset
  <2>9. Cardinality(Active(u) \cup T) = Cardinality(Active(u)) + Cardinality(T) - Cardinality({})
    BY <2>4, <2>8, FS_Union
  <2>10. Cardinality({}) = 0 /\ Cardinality(Active(u)) \in Nat /\ Cardinality(T) \in Nat
    BY <2>8, FS_EmptySet, FS_CardinalityType
  <2>11. Cardinality(Active(u) \cup T) <= MaxTerminals
    BY <2>4, <2>9, <2>10
  <2> QED BY <2>5, <2>6, <2>11
<1> QED BY <1>6, <1>7, <1>8 DEF DistinctTerminals

-------------------------------------------------------------------------------
\* Most steps change nothing the index and the limit are about.
LEMMA SameTerminals ==
  ASSUME TypeOK, IndexAgrees, DistinctTerminals,
         UNCHANGED <<registry, byUser, owner, targets>>
  PROVE  IndexAgrees' /\ DistinctTerminals'
BY DEF IndexAgrees, DistinctTerminals

\* Closing the connections of a workspace that leaves the registry.
LEMMA CloseKeepsInv ==
  ASSUME IInv, NEW w \in Workspaces, Removed({w}), Disconnect(w),
         UNCHANGED <<reserved, owner, targets, old, attached, outcome, todo>>,
         \/ UNCHANGED <<pc, panes>>
         \/ /\ pc[w] = "ending" /\ pc' = [pc EXCEPT ![w] = "ended"]
            /\ panes' = [panes EXCEPT ![w] = {}]
  PROVE  IInv'
<1> USE DEF IInv
<1>1. TypeOK'
  BY DEF TypeOK, Removed, Without, Disconnect, Phases, Guarded
<1>2. IndexAgrees' /\ DistinctTerminals'
  BY RemovalKeepsTerminals
<1>3. ConnectionsAreRegistered'
  BY DEF ConnectionsAreRegistered, Disconnect, Removed, TypeOK
<1>4. Unused' /\ Attachment' /\ Results'
  BY DEF Unused, Attachment, Results, Removed, TypeOK
<1>5. LiveAccounted'
  BY DEF LiveAccounted, Disconnect, SessionsOf, TypeOK
<1>6. SlotsAreServed'
  BY DEF SlotsAreServed, Removed, Without, TypeOK
<1> QED BY <1>1, <1>2, <1>3, <1>4, <1>5, <1>6

LEMMA ReserveKeepsInv ==
  ASSUME IInv, NEW u \in Users, NEW T \in Selections(u), Reserve(u, T)
  PROVE  IInv'
<1> DEFINE w == reserved + 1
<1> USE DEF IInv
<1>1. w \in Workspaces /\ w \notin registry /\ w \notin attached
  BY ConstantsOK DEF Reserve, Unused, TypeOK, Workspaces
<1>2. pc[w] = "none" /\ conns[w] = {} /\ \A s \in Switches : outcome[w][s] = "none"
  BY <1>1 DEF Attachment, ConnectionsAreRegistered, Results
<1>3. \A s \in Switches : <<w, s>> \notin live
  BY <1>1, <1>2 DEF LiveAccounted
<1>4. T \in SUBSET Switches
  BY ConstantsOK DEF Selections
<1>5. \A v \in Workspaces : v # w => targets'[v] = targets[v]
  BY DEF Reserve, NewId, TypeOK
<1>6. TypeOK'
  <2>1. reserved' \in 0..MaxWorkspaces
    BY ConstantsOK DEF Reserve, TypeOK
  <2>2. registry' \subseteq Workspaces /\ byUser' \in [Users -> SUBSET Workspaces]
    BY <1>1 DEF Reserve, NewId, Without, TypeOK
  <2>3. owner' \in [Workspaces -> Users] /\ targets' \in [Workspaces -> SUBSET Switches]
    BY <1>4 DEF Reserve, NewId, TypeOK
  <2>4. \A v \in Workspaces : conns'[v] \subseteq targets'[v]
    BY <1>2, <1>5 DEF Reserve, TypeOK
  <2>5. live' \subseteq {c \in Workspaces \X Switches : c[2] \in targets'[c[1]]}
    BY <1>3, <1>5 DEF Reserve, TypeOK
  <2> QED BY <2>1, <2>2, <2>3, <2>4, <2>5 DEF Reserve, TypeOK, handler
<1>7. IndexAgrees' /\ DistinctTerminals'
  BY ReserveKeepsTerminals
<1>8. registry \cap attached \subseteq registry'
  BY DEF Reserve, Expired
<1>9. ConnectionsAreRegistered'
  BY <1>8 DEF ConnectionsAreRegistered, Reserve, Attachment, handler
<1>10. Unused' /\ Attachment'
  BY <1>1 DEF Unused, Attachment, Reserve, NewId, TypeOK, Workspaces, handler
<1>11. Results'
  BY <1>2, <1>5 DEF Results, Reserve, handler
<1>12. LiveAccounted'
  BY DEF LiveAccounted, Reserve, handler
<1>13. SlotsAreServed'
  BY <1>1 DEF SlotsAreServed, Reserve, NewId, Without, handler
<1> QED BY <1>6, <1>7, <1>9, <1>10, <1>11, <1>12, <1>13

LEMMA NextKeepsInv == IInv /\ [Next]_vars => IInv'
<1> SUFFICES ASSUME IInv, [Next]_vars PROVE IInv'
  OBVIOUS
<1> USE DEF IInv
<1>1. ASSUME NEW u \in Users, NEW T \in Selections(u), Reserve(u, T) PROVE IInv'
  BY <1>1, ReserveKeepsInv
<1>2. ASSUME NEW u \in Users, NEW T \in Selections(u), ReserveRefused(u, T) PROVE IInv'
  <2>1. TypeOK'
    BY <1>2 DEF ReserveRefused, Removed, Without, TypeOK, handler
  <2>2. IndexAgrees' /\ DistinctTerminals'
    BY <1>2, RemovalKeepsTerminals DEF ReserveRefused
  <2>3. ConnectionsAreRegistered'
    BY <1>2 DEF ReserveRefused, Removed, Expired, ConnectionsAreRegistered, Attachment, handler
  <2>4. Unused' /\ Attachment' /\ Results' /\ LiveAccounted'
    BY <1>2 DEF ReserveRefused, Removed, Unused, Attachment, Results, LiveAccounted, handler
  <2>5. SlotsAreServed'
    BY <1>2 DEF ReserveRefused, Removed, Without, SlotsAreServed, handler
  <2> QED BY <2>1, <2>2, <2>3, <2>4, <2>5
<1>3. ASSUME NEW w \in Workspaces, Age(w) PROVE IInv'
  <2>1. IndexAgrees' /\ DistinctTerminals'
    BY <1>3, SameTerminals DEF Age
  <2> QED BY <1>3, <2>1 DEF Age, TypeOK, ConnectionsAreRegistered, Unused, Attachment,
               Results, LiveAccounted, SlotsAreServed, handler
<1>4. ASSUME NEW w \in Workspaces, Claim(w) PROVE IInv'
  <2>1. IndexAgrees' /\ DistinctTerminals'
    BY <1>4, SameTerminals DEF Claim
  <2>2. TypeOK' /\ Unused'
    BY <1>4 DEF Claim, Claimable, TypeOK, Unused, Phases, Guarded
  <2>3. pc[w] = "none"
    BY <1>4 DEF Claim, Claimable, Attachment
  <2>4. SlotsAreServed'
    BY <1>4 DEF Claim, SlotsAreServed, TypeOK
  <2> QED BY <1>4, <2>1, <2>2, <2>3, <2>4 DEF Claim, TypeOK, ConnectionsAreRegistered,
               Attachment, Results, LiveAccounted
<1>5. ASSUME NEW w \in Workspaces, ClaimTooLate(w) \/ CloseOwned(w) PROVE IInv'
  BY <1>5, CloseKeepsInv DEF ClaimTooLate, CloseOwned, handler
<1>6. ASSUME NEW w \in Workspaces, HandlerEnds(w) PROVE IInv'
  BY <1>6, CloseKeepsInv DEF HandlerEnds
<1>7. ASSUME NEW w \in Workspaces,
             \/ AcceptEnds(w) \/ Greeted(w) \/ Gathered(w) \/ Joined(w) \/ SendFails(w)
             \/ BridgeEnds(w)
             \/ \E s \in Switches : \/ Connected(w, s) \/ ConnectFailed(w, s)
                                    \/ Join(w, s) \/ PaneEnds(w, s)
      PROVE  IInv'
  <2>1. UNCHANGED <<reserved, registry, byUser, owner, targets, old, attached>>
    BY <1>7 DEF AcceptEnds, Greeted, Gathered, Joined, SendFails, BridgeEnds, Connected,
                ConnectFailed, Join, PaneEnds
  <2>2. IndexAgrees' /\ DistinctTerminals' /\ Unused'
    BY <2>1, SameTerminals DEF Unused
  <2>12. byUser' = byUser /\ attached' = attached
    BY <2>1
  <2>13. SlotsAreServed'
    <3> SUFFICES ASSUME NEW v \in Workspaces, pc[v] \in Guarded \cup {"accepting", "lost"}
                 PROVE  pc'[v] \in Guarded \cup {"accepting", "lost"}
      BY <2>12 DEF SlotsAreServed, TypeOK
    <3> QED BY <1>7 DEF AcceptEnds, Greeted, Gathered, Joined, SendFails, BridgeEnds,
                 Connected, ConnectFailed, Join, PaneEnds, Guarded, TypeOK
  <2>14. CASE AcceptEnds(w)
    <3>1. PICK p \in {"greeting", "lost"} : pc' = [pc EXCEPT ![w] = p]
      BY <2>14 DEF AcceptEnds
    <3>2. TypeOK'
      BY <2>1, <2>14, <3>1 DEF AcceptEnds, TypeOK, Phases, Guarded
    <3>3. ConnectionsAreRegistered' /\ Attachment' /\ Results' /\ LiveAccounted'
      BY <2>1, <2>14, <3>1 DEF AcceptEnds, TypeOK, ConnectionsAreRegistered, Attachment,
                 Results, LiveAccounted
    <3> QED BY <2>2, <2>13, <3>2, <3>3
  <2>3. CASE Greeted(w)
    BY <2>1, <2>2, <2>13, <2>3 DEF Greeted, TypeOK, Phases, Guarded, Outcomes, ConnectionsAreRegistered,
               Attachment, Results, LiveAccounted
  <2>4. CASE Gathered(w)
    BY <2>1, <2>2, <2>13, <2>4 DEF Gathered, TypeOK, Phases, Guarded, ConnectionsAreRegistered,
               Attachment, Results, LiveAccounted
  <2>5. CASE Joined(w)
    BY <2>1, <2>2, <2>13, <2>5 DEF Joined, TypeOK, Phases, Guarded, Outcomes, ConnectionsAreRegistered,
               Attachment, Results, LiveAccounted
  <2>6. CASE SendFails(w)
    BY <2>1, <2>2, <2>13, <2>6 DEF SendFails, TypeOK, Phases, Guarded, ConnectionsAreRegistered,
               Attachment, Results, LiveAccounted
  <2>7. CASE BridgeEnds(w)
    BY <2>1, <2>2, <2>13, <2>7 DEF BridgeEnds, TypeOK, Phases, Guarded, ConnectionsAreRegistered,
               Attachment, Results, LiveAccounted
  <2>8. ASSUME NEW s \in Switches, Connected(w, s) PROVE IInv'
    BY <2>1, <2>2, <2>13, <2>8 DEF Connected, TypeOK, Outcomes, ConnectionsAreRegistered,
               Attachment, Results, LiveAccounted
  <2>9. ASSUME NEW s \in Switches, ConnectFailed(w, s) PROVE IInv'
    BY <2>1, <2>2, <2>13, <2>9 DEF ConnectFailed, TypeOK, Outcomes, ConnectionsAreRegistered,
               Attachment, Results, LiveAccounted
  <2>10. ASSUME NEW s \in Switches, Join(w, s) PROVE IInv'
    <3>1. TypeOK'
      <4>1. CASE outcome[w][s] = "connected"
        <5>1. s \in targets[w]
          BY <4>1 DEF Results
        <5>2. /\ conns' \in {conns, [conns EXCEPT ![w] = @ \cup {s}]}
              /\ live' \subseteq live
              /\ todo' = [todo EXCEPT ![w] = @ \ {s}]
              /\ panes' = [panes EXCEPT ![w] = @ \cup {s}]
          BY <2>10, <4>1 DEF Join, Register
        <5>3. conns' \in [Workspaces -> SUBSET Switches]
          BY <5>2 DEF TypeOK
        <5>4. \A v \in Workspaces : conns'[v] \subseteq targets[v]
          BY <5>1, <5>2 DEF TypeOK
        <5>5. todo' \in [Workspaces -> SUBSET Switches] /\ panes' \in [Workspaces -> SUBSET Switches]
          BY <5>2 DEF TypeOK
        <5> QED BY <2>1, <2>10, <5>2, <5>3, <5>4, <5>5 DEF Join, TypeOK
      <4>2. CASE outcome[w][s] # "connected"
        BY <2>1, <2>10, <4>2 DEF Join, TypeOK
      <4> QED BY <4>1, <4>2
    <3>2. ConnectionsAreRegistered' /\ Attachment' /\ Results'
      BY <2>1, <2>10 DEF Join, Register, Takes, TypeOK, ConnectionsAreRegistered, Attachment, Results
    <3>3. LiveAccounted'
      BY <2>1, <2>10 DEF Join, Register, TypeOK, LiveAccounted
    <3> QED BY <2>2, <2>13, <3>1, <3>2, <3>3
  <2>11. ASSUME NEW s \in Switches, PaneEnds(w, s) PROVE IInv'
    BY <2>1, <2>2, <2>13, <2>11 DEF PaneEnds, TypeOK, ConnectionsAreRegistered,
               Attachment, Results, LiveAccounted
  <2> QED BY <1>7, <2>14, <2>3, <2>4, <2>5, <2>6, <2>7, <2>8, <2>9, <2>10, <2>11
<1>8. CASE UNCHANGED vars
  <2>1. IndexAgrees' /\ DistinctTerminals'
    BY <1>8, SameTerminals DEF vars
  <2> QED BY <1>8, <2>1 DEF vars, handler, TypeOK, ConnectionsAreRegistered, Unused,
               Attachment, Results, LiveAccounted, SlotsAreServed
<1> QED BY <1>1, <1>2, <1>3, <1>4, <1>5, <1>6, <1>7, <1>8 DEF Next, Serve

THEOREM Invariance == Spec => []IInv
<1> QED BY InitInv, NextKeepsInv, PTL DEF Spec

-------------------------------------------------------------------------------
\* Every variable of the registry and of the handlers keeps its type; a
\* workspace has sessions and connections to its own targets only.
THEOREM TypeCorrect == Spec => []TypeOK
BY Invariance, PTL DEF IInv

\* _by_user lists exactly the registered workspaces of each user: no id of a
\* closed or expired workspace counts against its owner for ever.
THEOREM IndexCorrect == Spec => []IndexAgrees
BY Invariance, PTL DEF IInv

\* However many users reserve, close, claim and let expire, a user's terminals
\* are on distinct switches and within MAX_TERMINALS_PER_USER.
THEOREM TerminalsLimited == Spec => []DistinctTerminals
BY Invariance, PTL DEF IInv

\* No connection is kept for a workspace that was closed while it connected.
THEOREM NoStrayConnection == Spec => []ConnectionsAreRegistered
BY Invariance, PTL DEF IInv

\* An ended handler left no SSH session open, unless a send cut its joining
\* loop short of a connection.
THEOREM EndLeavesNoSession == Spec => []EndedIsDisconnected
<1>1. IInv => EndedIsDisconnected
  BY EndedFromAccounted DEF IInv
<1> QED BY <1>1, Invariance, PTL

\* A workspace is served by at most one websocket, ever.
THEOREM ServedOnce == Spec => AttachesOnce
<1>1. IInv /\ [Next]_vars =>
        [\A w \in Workspaces : pc'[w] = "accepting" /\ pc[w] # "accepting" => pc[w] = "none"]_vars
  <2> SUFFICES ASSUME IInv, Next, NEW w \in Workspaces,
                      pc'[w] = "accepting", pc[w] # "accepting"
               PROVE  pc[w] = "none"
    OBVIOUS
  <2>1. PICK v \in Workspaces : Claim(v)
    BY DEF Next, Serve, Reserve, ReserveRefused, Age, ClaimTooLate, CloseOwned, AcceptEnds,
           Greeted, Gathered, Joined, SendFails, HandlerEnds, Connected, ConnectFailed, Join,
           BridgeEnds, PaneEnds, handler, IInv, TypeOK
  <2> QED BY <2>1 DEF Claim, Claimable, IInv, TypeOK, Attachment
<1> QED BY <1>1, Invariance, PTL DEF Spec, AttachesOnce

\* No workspace counts against its owner after its handler: only a failed accept
\* keeps one that neither expires nor is released.
THEOREM SlotsServed == Spec => []SlotsAreServed
BY Invariance, PTL DEF IInv

-------------------------------------------------------------------------------
held == [u \in Users |-> {targets[w] : w \in byUser[u]}]

\* The instance counts with the same Cardinality.
LEMMA SameCardinality == \A S : Slots!Cardinality(S) = Cardinality(S)
BY DEF Slots!Cardinality, Cardinality

\* A step that only takes workspaces out of the registry gives terminals up.
LEMMA RemovalGivesUp ==
  ASSUME NEW W, Removed(W) \/ UNCHANGED byUser, UNCHANGED targets
  PROVE  Slots!Next \/ UNCHANGED held
<1>1. CASE Removed(W)
  <2>1. held' = [u \in Users |-> held'[u]] /\ \A u \in Users : held'[u] \subseteq held[u]
    BY <1>1 DEF held, Removed, Without
  <2> QED BY <2>1 DEF held, Slots!Next, Slots!GiveUp
<1>2. CASE UNCHANGED byUser
  BY <1>2 DEF held
<1> QED BY <1>1, <1>2

\* An accepted reservation acquires its selection, and expired ones are given up.
LEMMA ReserveAcquires ==
  ASSUME IInv, NEW u \in Users, NEW T \in Selections(u), Reserve(u, T)
  PROVE  Slots!Next
<1> DEFINE w == reserved + 1
           rest(v) == byUser[v] \ Expired
           kept == {targets[x] : x \in rest(u)}
<1> USE DEF IInv
<1>1. w \in Workspaces /\ w \notin registry
  BY ConstantsOK DEF Reserve, Unused, TypeOK, Workspaces
<1>2. \A v \in Users : \A x \in byUser[v] : x \in Workspaces /\ x # w
  BY <1>1 DEF IndexAgrees, TypeOK
<1>3. targets'[w] = T /\ \A v \in Workspaces : v # w => targets'[v] = targets[v]
  BY <1>1 DEF Reserve, NewId, TypeOK
<1>4. \A v \in Users : byUser'[v] = IF v = u THEN rest(u) \cup {w} ELSE rest(v)
  BY DEF Reserve, NewId, Without
<1>5. \A v \in Users \ {u} : held'[v] \subseteq held[v]
  BY <1>2, <1>3, <1>4 DEF held
<1>6. held'[u] = kept \cup {T}
  <2>1. \A x \in rest(u) : targets'[x] = targets[x]
    BY <1>2, <1>3
  <2>2. held'[u] = {targets'[x] : x \in rest(u) \cup {w}}
    BY <1>4 DEF held
  <2> QED BY <2>1, <2>2, <1>3
<1>7. kept \in SUBSET held[u]
  BY DEF held
<1>8. (UNION kept) \cap T = {} /\ Cardinality(UNION kept) + Cardinality(T) <= MaxTerminals
  BY DEF Reserve, Admissible, Active
<1>9. Slots!Acquire(u, T)
  BY SameCardinality, <1>6, <1>7, <1>8 DEF Slots!Acquire, held
<1>10. held' = [v \in Users |-> held'[v]]
  BY DEF held
<1> QED BY <1>5, <1>9, <1>10 DEF Slots!Next, Slots!GiveUp, held

\* The terminal registry implements the abstract promise: every step of it is a
\* step of TerminalSlots on the selections the users hold, or leaves them alone.
THEOREM Refinement == Spec => ImplementsSlots
<1>1. Init => Slots!Init
  BY DEF Init, Slots!Init
<1>2. IInv /\ [Next]_vars => Slots!Next \/ UNCHANGED held
  <2> SUFFICES ASSUME IInv, [Next]_vars PROVE Slots!Next \/ UNCHANGED held
    OBVIOUS
  <2>1. ASSUME NEW u \in Users, NEW T \in Selections(u), Reserve(u, T)
        PROVE  Slots!Next
    BY <2>1, ReserveAcquires
  <2>2. ASSUME NEW u \in Users, NEW T \in Selections(u), ReserveRefused(u, T)
        PROVE  Slots!Next \/ UNCHANGED held
    BY <2>2, RemovalGivesUp DEF ReserveRefused
  <2>3. ASSUME NEW w \in Workspaces, ClaimTooLate(w) \/ CloseOwned(w) \/ HandlerEnds(w)
        PROVE  Slots!Next \/ UNCHANGED held
    BY <2>3, RemovalGivesUp DEF ClaimTooLate, CloseOwned, HandlerEnds
  <2>4. CASE UNCHANGED <<byUser, targets>>
    BY <2>4 DEF held
  <2> QED BY <2>1, <2>2, <2>3, <2>4 DEF Next, Serve, vars, Age, Claim, AcceptEnds, Greeted,
             Gathered, Joined, SendFails, Connected, ConnectFailed, Join, BridgeEnds, PaneEnds
<1>3. IInv /\ [Next]_vars => [Slots!Next]_held
  BY <1>2
<1> QED BY <1>1, <1>3, Invariance, PTL DEF Spec, ImplementsSlots, Slots!Spec, held
==============================================================================
