------------------------------- MODULE Inventory -------------------------------
(***************************************************************************)
(* The switch inventory (main.py, /api/switches): who holds which switch,    *)
(* with what access, and which two are a VPC pair.  A switch is added by     *)
(* its holder, or granted by a super admin, who may take it back, change it  *)
(* or take it over from another super admin; a holder who proves to have     *)
(* credentials makes a granted switch their own.                             *)
(*                                                                          *)
(* A handler that tests credentials waits for the switch between its checks  *)
(* and its commit: it is two steps, with anything of the others in between.  *)
(* What it read before is kept in its job; the commit writes the columns     *)
(* whose value differs from the one it read.                                 *)
(***************************************************************************)
EXTENDS Naturals, FiniteSets, FiniteSetsExt

CONSTANTS
    Names,          \* accounts
    Outset,         \* their roles and the rows at the start
    Ips,            \* switches
    \* bounds
    Holders,        \* accounts that switches are added for
    MaxRows,        \* rows at once
    MaxJobs,        \* handlers waiting for a switch at once
    MaxOps          \* requests

Nobody == "nobody"
Gone == "none"                  \* the role of a deleted account
NoPeer == 0
Ids == 1 .. MaxRows
Types == {"nexus", "ios"}
Levels == {"read", "write"}

Roles == {"user", "admin", "super_admin", Gone}

ASSUME NamesAssumption == Nobody \notin Names /\ Holders \subseteq Names

ASSUME BoundsAssumption == MaxRows \in Nat

VARIABLES
    roles,          \* account -> role, or Gone
    rows,           \* id -> row of the switches table, or NoRow
    jobs,           \* handlers waiting for a switch
    created,        \* rows created so far
    raced,          \* an update was committed over a row or pairing it had not read
    ops             \* requests so far

vars == <<roles, rows, jobs, created, raced, ops>>

-----------------------------------------------------------------------------
(* Rows.  serial, proven and allowed are history: which row of the table     *)
(* this is (an id is given again), whether its holder's own credentials were *)
(* verified for it, and the level its granter last chose.                    *)

NoRow == [here |-> FALSE]

Row == [here : {TRUE}, owner : Names, ip : Ips, type : Types, peer : Ids \cup {NoPeer},
        grantor : Names \cup {Nobody}, access : Levels, serial : Nat,
        proven : BOOLEAN, allowed : Levels]

Table == [Ids -> Row \cup {NoRow}]

OwnedBy(p) == {i \in Ids : rows[i].here /\ rows[i].owner = p}

\* The row of this switch among those of p: at most one (filter(...).first()).
RowOf(p, ip) == {i \in OwnedBy(p) : rows[i].ip = ip}

\* SQLite gives a new row the number after the largest one in the table.
NewId == 1 + Max({0} \cup {i \in Ids : rows[i].here})

\* A row somebody added for themselves.
OwnRow(p, ip, type) ==
    [here    |-> TRUE,    owner    |-> p,       ip      |-> ip,
     type    |-> type,    peer     |-> NoPeer,  grantor |-> Nobody,
     access  |-> "write", serial   |-> created + 1,
     proven  |-> TRUE,    allowed  |-> "read"]

\* _access_for, for a holder of this role.
AccessFor(role, level) == IF role = "user" THEN "read" ELSE level

GrantedRow(j) ==
    [OwnRow(j.holder, j.ip, j.type) EXCEPT
        !.grantor = j.by, !.access = AccessFor(j.holderRole, j.level),
        !.proven = FALSE, !.allowed = j.level]

\* _conflict_for: nothing stands in the way of writing this row for a holder.
NoConflict(row, j) ==
    \/ j.holder = j.by
    \/ row.grantor = j.by
    \/ row.grantor # Nobody /\ j.overwrite

\* _claim_if_granted.
Claimed(row, role) ==
    IF row.grantor = Nobody THEN row
    ELSE [row EXCEPT !.grantor = Nobody,
                     !.access = AccessFor(role, "write")]

\* A change of type away from Nexus ends the pairing, on both sides.
Retyped(rs, i, type) ==
    LET peer == rs[i].peer
        typed == [rs EXCEPT ![i].type = type,
                            ![i].peer = IF type = "nexus" THEN @ ELSE NoPeer]
    IN IF type # "nexus" /\ peer # NoPeer /\ rs[peer].here
       THEN [typed EXCEPT ![peer].peer = NoPeer] ELSE typed

\* The rows without those of gone, and without references to them.
Removed(gone) ==
    [i \in Ids |-> IF i \in gone \/ ~rows[i].here THEN NoRow
                   ELSE IF rows[i].peer \in gone THEN [rows[i] EXCEPT !.peer = NoPeer]
                   ELSE rows[i]]

-----------------------------------------------------------------------------
(* Tables that are in order. *)

\* Pairs are mutual, between two Nexus switches of one holder.
Mutual(rs) ==
    \A i \in Ids : rs[i].here /\ rs[i].peer # NoPeer =>
        /\ rs[i].peer # i
        /\ rs[rs[i].peer].here
        /\ rs[rs[i].peer].peer = i
        /\ rs[rs[i].peer].owner = rs[i].owner
        /\ rs[i].type = "nexus"

\* Write access has its reason, and only unproven rows are a grant.
Earned(rs) ==
    \A i \in Ids : rs[i].here =>
        /\ rs[i].access = "write" => rs[i].proven \/ rs[i].allowed = "write"
        /\ rs[i].proven <=> rs[i].grantor = Nobody

OutsetTable == [i \in Ids |-> IF i \in DOMAIN Outset.rows THEN Outset.rows[i] ELSE NoRow]

\* The table is in order when the model takes it over.
ASSUME OutsetAssumption ==
    /\ Outset.roles \in [Names -> Roles]
    /\ OutsetTable \in Table /\ Mutual(OutsetTable) /\ Earned(OutsetTable)
    /\ \A i \in Ids : OutsetTable[i].here => OutsetTable[i].serial <= MaxRows

Init ==
    /\ roles = Outset.roles
    /\ rows = OutsetTable
    /\ jobs = {}
    /\ created = MaxRows
    /\ raced = FALSE
    /\ ops = 0

\* A handler that will test credentials begins to wait for the switch.
Begin(j) ==
    /\ Cardinality(jobs) < MaxJobs
    /\ jobs' = jobs \cup {j}
    /\ UNCHANGED <<roles, rows, created, raced>>

BeginAdd(p, ip, type) ==
    Begin([kind |-> "add", by |-> p, role |-> roles[p], ip |-> ip, type |-> type])

\* bulk_add_switches, for one holder: the caller, or somebody else's account
\* when the caller is a super admin.  The holders are read here.
BeginBulk(p, holder, ip, type, level, overwrite) ==
    /\ holder # p => roles[p] = "super_admin" /\ roles[holder] # Gone
    /\ Begin([kind |-> "bulk", by |-> p, role |-> roles[p],
              holder |-> holder, holderRole |-> roles[holder], ip |-> ip, type |-> type,
              level |-> level, overwrite |-> overwrite])

\* update_switch with a password, or with the enable password switched on: the
\* row as it is now is what the rest of the handler sees.
BeginUpdate(p, i, type) ==
    Begin([kind |-> "update", by |-> p, role |-> roles[p], id |-> i,
           was |-> rows[i], type |-> type])

\* The test fails: nothing was changed.
Refused(j) ==
    /\ jobs' = jobs \ {j}
    /\ UNCHANGED <<roles, rows, created, raced, ops>>

Insert(row) ==
    /\ NewId <= MaxRows
    /\ rows' = [rows EXCEPT ![NewId] = row]
    /\ created' = created + 1

\* add_switch, and bulk_add_switches for oneself, after the test: an existing
\* row is looked for now.
FinishOwn(j) ==
    IF RowOf(j.by, j.ip) = {} THEN Insert(OwnRow(j.by, j.ip, j.type))
    ELSE \E i \in RowOf(j.by, j.ip) :
            LET claimed == [Claimed(rows[i], j.role) EXCEPT !.proven = TRUE]
                own     == IF j.kind = "add" THEN claimed
                           ELSE [claimed EXCEPT !.access = "write"]
            IN /\ rows' = Retyped([rows EXCEPT ![i] = own], i, j.type)
               /\ UNCHANGED created

\* bulk_add_switches for another holder, after the test.
FinishGrant(j) ==
    IF RowOf(j.holder, j.ip) = {} THEN Insert(GrantedRow(j))
    ELSE \E i \in RowOf(j.holder, j.ip) :
            /\ NoConflict(rows[i], j)
            /\ rows' = Retyped([rows EXCEPT ![i] =
                           [GrantedRow(j) EXCEPT !.type = rows[i].type,
                                                 !.peer = rows[i].peer,
                                                 !.serial = rows[i].serial]],
                           i, j.type)
            /\ UNCHANGED created

\* The columns that update_switch changes, from the row it read to now.
Columns(was, now) == {c \in DOMAIN now : now[c] # was[c]}

\* The row with the changed columns written over what it is by now.
Committed(i, was, now) ==
    [rows EXCEPT ![i] = [c \in DOMAIN @ |-> IF c \in Columns(was, now) THEN now[c] ELSE @[c]]]

\* update_switch after the test.  A row deleted meanwhile fails the commit; one
\* that was given its number since is written to instead.
FinishUpdate(j) ==
    LET typed == [j.was EXCEPT !.type = j.type,
                               !.peer = IF j.type = "nexus" \/ j.type = j.was.type THEN @
                                        ELSE NoPeer]
        now   == Claimed(typed, j.role)
        wrote == Committed(j.id, j.was, now)
        same  == rows[j.id].serial = j.was.serial
        other == IF typed.peer # j.was.peer THEN {j.was.peer} \cap {i \in Ids : rows[i].here}
                 ELSE {}
    IN /\ rows[j.id].here
       /\ rows' = [i \in Ids |-> IF i \in other THEN [wrote[i] EXCEPT !.peer = NoPeer]
                                 ELSE IF i = j.id /\ same
                                      THEN [wrote[i] EXCEPT !.proven = TRUE] ELSE wrote[i]]
       /\ raced' = (raced \/ ~same
                    \/ (j.type # "nexus" /\ j.type # j.was.type
                        /\ rows[j.id].peer # j.was.peer))
       /\ UNCHANGED created

\* A handler whose test succeeded commits.
Finish(j) ==
    /\ jobs' = jobs \ {j}
    /\ UNCHANGED <<roles, ops>>
    /\ \/ /\ j.kind = "update"
          /\ FinishUpdate(j)
       \/ /\ j.kind = "add" \/ (j.kind = "bulk" /\ j.holder = j.by)
          /\ FinishOwn(j)
          /\ UNCHANGED raced
       \/ /\ j.kind = "bulk" /\ j.holder # j.by
          /\ FinishGrant(j)
          /\ UNCHANGED raced

-----------------------------------------------------------------------------
(* Handlers that wait for nothing. *)

Change(rs) ==
    /\ rs # rows
    /\ rows' = rs
    /\ UNCHANGED <<roles, jobs, created, raced>>

\* Mutant: the switch is claimed although no credentials were tested.
UpdateType_Claims(p, i, type) ==
    /\ type # rows[i].type
    /\ Change(Retyped([rows EXCEPT ![i] = Claimed(@, roles[p])], i, type))

\* update_switch without a test: the type, among what the model keeps.
UpdateType(p, i, type) ==
    /\ type # rows[i].type
    /\ Change(Retyped(rows, i, type))

\* Mutant: the earlier pairs of the two are left.
VpcPair_Second(p, i, k) ==
    /\ k \in OwnedBy(p) \ {i}
    /\ rows[i].type = "nexus" /\ rows[k].type = "nexus"
    /\ Change([rows EXCEPT ![i].peer = k, ![k].peer = i])

\* vpc_pair: earlier pairs of the two are ended.
VpcPair(p, i, k) ==
    /\ k \in OwnedBy(p) \ {i}
    /\ rows[i].type = "nexus" /\ rows[k].type = "nexus"
    /\ LET left == {rows[i].peer, rows[k].peer} \ {i, k}
       IN Change([n \in Ids |->
                     IF n = i THEN [rows[n] EXCEPT !.peer = k]
                     ELSE IF n = k THEN [rows[n] EXCEPT !.peer = i]
                     ELSE IF n \in left /\ rows[n].here THEN [rows[n] EXCEPT !.peer = NoPeer]
                     ELSE rows[n]])

\* vpc_pair without a peer.
VpcUnpair(p, i) ==
    /\ rows[i].type = "nexus" /\ rows[i].peer # NoPeer
    /\ Change([n \in Ids |-> IF n \in {i, rows[i].peer} /\ rows[n].here
                             THEN [rows[n] EXCEPT !.peer = NoPeer] ELSE rows[n]])

\* delete_switch.
DeleteSwitch(p, i) == Change(Removed({i}))

\* update_granted_switch.
UpdateGrantedSwitch(p, i, level) ==
    /\ roles[p] = "super_admin"
    /\ rows[i].here /\ rows[i].grantor = p
    /\ roles[rows[i].owner] # Gone
    /\ Change([rows EXCEPT ![i].access = AccessFor(roles[rows[i].owner], level),
                           ![i].allowed = level])

\* delete_granted_switch.
DeleteGrantedSwitch(p, i) ==
    /\ roles[p] = "super_admin"
    /\ rows[i].here /\ rows[i].grantor = p
    /\ Change(Removed({i}))

\* update_role and delete_user, as far as switches are concerned.
UpdateRole(n, role) ==
    /\ roles[n] \notin {Gone, role}
    /\ roles' = [roles EXCEPT ![n] = role]
    /\ UNCHANGED <<rows, jobs, created, raced>>

DeleteUser(n) ==
    /\ roles[n] # Gone
    /\ roles' = [roles EXCEPT ![n] = Gone]
    /\ rows' = Removed(OwnedBy(n))
    /\ UNCHANGED <<jobs, created, raced>>

\* A request of the account p.
Ask(p) ==
    \/ \E ip \in Ips, type \in Types :
          p \in Holders /\ (BeginAdd(p, ip, type) \/ BeginBulk(p, p, ip, type, "write", FALSE))
    \/ \E holder \in Holders \ {p}, ip \in Ips, type \in Types, level \in Levels,
          overwrite \in BOOLEAN : BeginBulk(p, holder, ip, type, level, overwrite)
    \/ \E i \in OwnedBy(p), type \in Types : BeginUpdate(p, i, type)
    \/ \E i \in OwnedBy(p), type \in Types : UpdateType(p, i, type)
    \/ \E i, k \in OwnedBy(p) : VpcPair(p, i, k)
    \/ \E i \in OwnedBy(p) : VpcUnpair(p, i)
    \/ \E i \in OwnedBy(p) : DeleteSwitch(p, i)
    \/ \E i \in Ids, level \in Levels : UpdateGrantedSwitch(p, i, level)
    \/ \E i \in Ids : DeleteGrantedSwitch(p, i)

Administer ==
    \/ \E n \in Names, role \in {"user", "admin"} : UpdateRole(n, role)
    \/ \E n \in Names : DeleteUser(n)

Next ==
    \/ /\ ops < MaxOps
       /\ ops' = ops + 1
       /\ Administer \/ \E p \in Names : roles[p] # Gone /\ Ask(p)
    \/ \E j \in jobs : Refused(j) \/ Finish(j)

Spec == Init /\ [][Next]_vars

-----------------------------------------------------------------------------
(* Properties *)

\* Pairs are mutual, between two Nexus switches of one holder, whatever is
\* added, retyped, deleted, granted or taken back meanwhile: nothing refers to
\* a row that is gone or was replaced.  Excepted are the rows after an update
\* that committed over a pairing it had not read (update_switch, after its
\* wait).
PairsAreMutual == ~raced => Mutual(rows)

\* A switch is writable only for a holder whose credentials were verified for
\* it, or by the last word of its granter: no order of grants, takeovers,
\* claims and late commits widens a read-only grant (bulk_add_switches,
\* update_granted_switch, _claim_if_granted).  And nobody else's grant lies on
\* a switch its holder has proven to be theirs.
WriteIsEarned == ~raced => Earned(rows)

=============================================================================
