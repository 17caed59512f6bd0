---------------------------- MODULE InventoryProofs ----------------------------
(***************************************************************************)
(* Pairs of switches and write access, for every number of accounts, rows,   *)
(* waiting handlers and requests.  A handler that waits holds a row as it    *)
(* was; the proof follows what can have happened to that row since.          *)
(***************************************************************************)
EXTENDS Inventory, WellFoundedInduction, TLAPS

AddJob == [kind : {"add"}, by : Names, role : Roles, ip : Ips, type : Types]

BulkJob == [kind : {"bulk"}, by : Names, role : Roles, holder : Names, holderRole : Roles,
            ip : Ips, type : Types, level : Levels, overwrite : BOOLEAN]

UpdateJob == [kind : {"update"}, by : Names, role : Roles, id : Ids, was : Row, type : Types]

TypeOK ==
    /\ roles \in [Names -> Roles]
    /\ rows \in Table
    /\ jobs \subseteq AddJob \cup BulkJob \cup UpdateJob
    /\ created \in Nat
    /\ raced \in BOOLEAN

\* A row is as old as its serial says.
SerialsAreOld ==
    /\ \A i \in Ids : rows[i].here => rows[i].serial <= created
    /\ \A j \in jobs : j.kind = "update" => j.was.serial <= created

\* A switch that was its holder's own when an update read it is so still.
OwnStaysOwn ==
    \A j \in jobs :
        /\ j.kind = "update"
        /\ rows[j.id].here /\ rows[j.id].serial = j.was.serial /\ j.was.grantor = Nobody
        => rows[j.id].grantor = Nobody

IInv == TypeOK /\ SerialsAreOld /\ OwnStaysOwn /\ PairsAreMutual /\ WriteIsEarned

-----------------------------------------------------------------------------
(* Tables *)

\* A row that is there has all its columns.
LEMMA RowsHaveColumns ==
    ASSUME NEW rs \in Table, NEW i \in Ids
    PROVE  /\ rs[i].here => rs[i] \in Row
           /\ ~rs[i].here => rs[i] = NoRow
<1>1. rs[i] \in Row \/ rs[i] = NoRow
  BY DEF Table
<1>2. NoRow.here = FALSE
  BY DEF NoRow
<1>3. \A r \in Row : r.here = TRUE
  BY DEF Row
<1> QED
  BY <1>1, <1>2, <1>3

\* What stays the same about every row when only its type or peer changes.
SameHolders(rs, ts) ==
    \A n \in Ids :
        ts[n].here =>
             /\ rs[n].here
             /\ ts[n].owner = rs[n].owner /\ ts[n].serial = rs[n].serial
             /\ ts[n].grantor = rs[n].grantor /\ ts[n].access = rs[n].access
             /\ ts[n].proven = rs[n].proven /\ ts[n].allowed = rs[n].allowed

LEMMA SameHoldersEarned ==
    ASSUME NEW rs, NEW ts, SameHolders(rs, ts), Earned(rs)
    PROVE  Earned(ts)
    BY DEF SameHolders, Earned

\* A row with another peer is the same row otherwise.
WithPeer(r, q) == [r EXCEPT !.peer = q]

LEMMA AnotherPeer ==
    ASSUME NEW r \in Row, NEW q \in Ids \cup {NoPeer}
    PROVE  /\ WithPeer(r, q) \in Row /\ WithPeer(r, q).here /\ WithPeer(r, q).peer = q
           /\ WithPeer(r, q).type = r.type /\ WithPeer(r, q).owner = r.owner
           /\ WithPeer(r, q).serial = r.serial /\ WithPeer(r, q).grantor = r.grantor
           /\ WithPeer(r, q).access = r.access /\ WithPeer(r, q).proven = r.proven
           /\ WithPeer(r, q).allowed = r.allowed
    BY DEF Row, WithPeer

\* A change of type keeps the pairs mutual, and everything else as it was.
LEMMA RetypedKeeps ==
    ASSUME NEW rs \in Table, NEW i \in Ids, rs[i].here, NEW type \in Types
    PROVE  /\ Retyped(rs, i, type) \in Table
           /\ SameHolders(rs, Retyped(rs, i, type))
           /\ Mutual(rs) => Mutual(Retyped(rs, i, type))
<1> DEFINE ts == Retyped(rs, i, type)
<1>1. /\ rs[i] \in Row /\ rs[i].peer \in Ids \cup {NoPeer}
      /\ \A n \in Ids : rs[n].here => rs[n] \in Row
  BY RowsHaveColumns DEF Row
<1> DEFINE p == rs[i].peer
           r == [rs[i] EXCEPT !.type = type, !.peer = IF type = "nexus" THEN @ ELSE NoPeer]
           ends == type # "nexus" /\ p # NoPeer /\ rs[p].here
<1>2. ts = IF ends THEN [[rs EXCEPT ![i] = r] EXCEPT ![p].peer = NoPeer] ELSE [rs EXCEPT ![i] = r]
  BY DEF Retyped
<1>3. r \in Row /\ (type # "nexus" => r.peer = NoPeer) /\ (type = "nexus" => r.peer = p)
      /\ r.type = type /\ r.owner = rs[i].owner /\ r.serial = rs[i].serial
      /\ r.grantor = rs[i].grantor /\ r.access = rs[i].access
      /\ r.proven = rs[i].proven /\ r.allowed = rs[i].allowed /\ r.here
  BY <1>1 DEF Row
<1> HIDE DEF r, ts
<1>4. \A n \in Ids : rs[n].here /\ n # i => rs[n] \in Row /\ rs[n].peer \in Ids \cup {NoPeer}
  BY <1>1 DEF Row
<1>5. CASE ~ends
  <2>1. ts[i] = r /\ \A n \in Ids \ {i} : ts[n] = rs[n]
    BY <1>2, <1>5 DEF Table
  <2>2. ts \in Table
    BY <1>2, <1>3, <1>5 DEF Table
  <2>3. SameHolders(rs, ts)
    BY <1>3, <2>1 DEF SameHolders
  <2>4. ASSUME Mutual(rs) PROVE Mutual(ts)
    <3>1. SUFFICES ASSUME NEW n \in Ids, ts[n].here, ts[n].peer # NoPeer
                   PROVE  /\ ts[n].peer # n /\ ts[ts[n].peer].here
                          /\ ts[ts[n].peer].peer = n /\ ts[ts[n].peer].owner = ts[n].owner
                          /\ ts[n].type = "nexus"
      BY DEF Mutual
    <3>2. CASE n = i
      <4>1. type = "nexus" /\ r.peer = p /\ p # NoPeer /\ p \in Ids
        BY <1>1, <1>3, <2>1, <3>1, <3>2
      <4>2. p # i /\ rs[p].here /\ rs[p].peer = i /\ rs[p].owner = rs[i].owner
        BY <2>4, <4>1 DEF Mutual
      <4> QED
        BY <1>3, <2>1, <3>2, <4>1, <4>2
    <3>3. CASE n # i
      <4>1. ts[n] = rs[n] /\ rs[n].peer \in Ids
        BY <1>4, <2>1, <3>1, <3>3
      <4>2. /\ rs[n].peer # n /\ rs[rs[n].peer].here /\ rs[rs[n].peer].peer = n
            /\ rs[rs[n].peer].owner = rs[n].owner /\ rs[n].type = "nexus"
        BY <2>4, <3>1, <4>1 DEF Mutual
      <4>3. rs[n].peer = i => r.peer = n
        BY <1>3, <1>5, <3>1, <4>1, <4>2
      <4> QED
        BY <1>3, <2>1, <4>1, <4>2, <4>3
    <3> QED
      BY <3>2, <3>3
  <2> QED
    BY <2>2, <2>3, <2>4 DEF ts
<1>6. CASE ends
  <2> DEFINE us == [rs EXCEPT ![i] = r]
             s == [us[p] EXCEPT !.peer = NoPeer]
  <2>1. p \in Ids /\ us \in Table /\ us[p] \in Row
    BY <1>1, <1>3, <1>6 DEF Table
  <2>2. /\ s \in Row /\ s.here /\ s.peer = NoPeer /\ s.type = us[p].type
        /\ s.owner = us[p].owner /\ s.serial = us[p].serial /\ s.grantor = us[p].grantor
        /\ s.access = us[p].access /\ s.proven = us[p].proven /\ s.allowed = us[p].allowed
    <3> HIDE DEF us
    <3>1. NoPeer \in Ids \cup {NoPeer} /\ s = WithPeer(us[p], NoPeer)
      BY DEF WithPeer
    <3> HIDE DEF s
    <3> QED
      BY <2>1, <3>1, AnotherPeer
  <2>3. ts = [us EXCEPT ![p] = s]
    BY <1>2, <1>6
  <2>4. us[i] = r /\ \A n \in Ids \ {i} : us[n] = rs[n]
    BY DEF Table
  <2> HIDE DEF us, s
  <2>5. ts \in Table /\ ts[p] = s /\ \A n \in Ids \ {p} : ts[n] = us[n]
    BY <2>1, <2>2, <2>3 DEF Table
  <2>6. SameHolders(rs, ts)
    <3>1. SUFFICES ASSUME NEW n \in Ids
                   PROVE  ts[n].here =>
                               /\ rs[n].here
                               /\ ts[n].owner = rs[n].owner /\ ts[n].serial = rs[n].serial
                               /\ ts[n].grantor = rs[n].grantor /\ ts[n].access = rs[n].access
                               /\ ts[n].proven = rs[n].proven /\ ts[n].allowed = rs[n].allowed
      BY DEF SameHolders
    <3>2. /\ us[n].here <=> rs[n].here
          /\ us[n].owner = rs[n].owner /\ us[n].serial = rs[n].serial
          /\ us[n].grantor = rs[n].grantor /\ us[n].access = rs[n].access
          /\ us[n].proven = rs[n].proven /\ us[n].allowed = rs[n].allowed
      BY <1>3, <2>4
    <3> QED
      BY <1>6, <2>2, <2>5, <3>2
  <2>7. ASSUME Mutual(rs) PROVE Mutual(ts)
    <3>1. SUFFICES ASSUME NEW n \in Ids, ts[n].here, ts[n].peer # NoPeer
                   PROVE  /\ ts[n].peer # n /\ ts[ts[n].peer].here
                          /\ ts[ts[n].peer].peer = n /\ ts[ts[n].peer].owner = ts[n].owner
                          /\ ts[n].type = "nexus"
      BY DEF Mutual
    <3>2. p # i /\ rs[p].peer = i
      BY <1>6, <2>1, <2>7 DEF Mutual
    <3>3. n # p /\ n # i
      BY <1>3, <1>6, <2>2, <2>4, <2>5, <3>1, <3>2
    <3>4. ts[n] = rs[n] /\ rs[n].peer \in Ids
      BY <1>4, <2>4, <2>5, <3>1, <3>3
    <3>5. /\ rs[n].peer # n /\ rs[rs[n].peer].here /\ rs[rs[n].peer].peer = n
          /\ rs[rs[n].peer].owner = rs[n].owner /\ rs[n].type = "nexus"
      BY <2>7, <3>1, <3>4 DEF Mutual
    <3>6. rs[n].peer # p /\ rs[n].peer # i
      BY <3>2, <3>3, <3>5
    <3> QED
      BY <2>4, <2>5, <3>4, <3>5, <3>6
  <2> QED
    BY <2>5, <2>6, <2>7 DEF ts
<1> QED
  BY <1>5, <1>6

\* A row that is written over keeps the pairs when it keeps its holder, type and peer.
LEMMA RewrittenKeeps ==
    ASSUME NEW rs \in Table, NEW i \in Ids, rs[i].here, NEW r \in Row,
           r.owner = rs[i].owner, r.type = rs[i].type, r.peer = rs[i].peer,
           NEW ts, ts = [rs EXCEPT ![i] = r]
    PROVE  /\ ts \in Table /\ ts[i] = r /\ \A n \in Ids \ {i} : ts[n] = rs[n]
           /\ Mutual(rs) => Mutual(ts)
<1>1. ts \in Table /\ ts[i] = r /\ \A n \in Ids \ {i} : ts[n] = rs[n]
  BY DEF Table
<1>2. \A n \in Ids : /\ ts[n].here => rs[n].here
                     /\ rs[n].here => /\ ts[n].here /\ ts[n].owner = rs[n].owner
                                      /\ ts[n].type = rs[n].type /\ ts[n].peer = rs[n].peer
                                      /\ rs[n].peer \in Ids \cup {NoPeer}
  <2>1. r.here /\ \A n \in Ids : rs[n].here => rs[n].peer \in Ids \cup {NoPeer}
    BY RowsHaveColumns DEF Row
  <2> QED
    BY <1>1, <2>1
<1>3. ASSUME Mutual(rs) PROVE Mutual(ts)
  <2>1. SUFFICES ASSUME NEW n \in Ids, ts[n].here, ts[n].peer # NoPeer
                 PROVE  /\ ts[n].peer # n /\ ts[ts[n].peer].here
                        /\ ts[ts[n].peer].peer = n /\ ts[ts[n].peer].owner = ts[n].owner
                        /\ ts[n].type = "nexus"
    BY DEF Mutual
  <2>2. /\ rs[n].here /\ rs[n].peer # NoPeer /\ rs[n].peer = ts[n].peer
        /\ rs[n].owner = ts[n].owner /\ rs[n].type = ts[n].type /\ rs[n].peer \in Ids
    BY <1>2, <2>1
  <2>3. /\ rs[n].peer # n /\ rs[rs[n].peer].here /\ rs[rs[n].peer].peer = n
        /\ rs[rs[n].peer].owner = rs[n].owner /\ rs[n].type = "nexus"
    BY <1>3, <2>2 DEF Mutual
  <2> QED
    BY <1>2, <2>2, <2>3
<1> QED
  BY <1>1, <1>3

\* Rows are removed with the references to them.
LEMMA RemovedKeeps ==
    ASSUME rows \in Table, NEW gone \in SUBSET Ids
    PROVE  /\ Removed(gone) \in Table
           /\ SameHolders(rows, Removed(gone))
           /\ Mutual(rows) => Mutual(Removed(gone))
<1> DEFINE ts == Removed(gone)
           Left(n) == n \notin gone /\ rows[n].here
<1>1. \A n \in Ids :
        /\ ~Left(n) => ts[n] = NoRow
        /\ Left(n) /\ rows[n].peer \in gone => ts[n] = [rows[n] EXCEPT !.peer = NoPeer]
        /\ Left(n) /\ rows[n].peer \notin gone => ts[n] = rows[n]
  BY DEF Removed
<1>2. NoRow.here = FALSE
  BY DEF NoRow
<1>3. \A n \in Ids : Left(n) => /\ rows[n] \in Row /\ rows[n].peer \in Ids \cup {NoPeer}
  BY RowsHaveColumns DEF Row
<1>4. NoPeer \in Ids \cup {NoPeer}
  OBVIOUS
<1>5. \A n \in Ids : Left(n) =>
        /\ ts[n] \in Row /\ ts[n].here /\ ts[n].type = rows[n].type
        /\ ts[n].peer = IF rows[n].peer \in gone THEN NoPeer ELSE rows[n].peer
        /\ ts[n].owner = rows[n].owner /\ ts[n].serial = rows[n].serial
        /\ ts[n].grantor = rows[n].grantor /\ ts[n].access = rows[n].access
        /\ ts[n].proven = rows[n].proven /\ ts[n].allowed = rows[n].allowed
  <2>1. SUFFICES ASSUME NEW n \in Ids, Left(n)
                 PROVE  /\ ts[n] \in Row /\ ts[n].here /\ ts[n].type = rows[n].type
                        /\ ts[n].peer = IF rows[n].peer \in gone THEN NoPeer ELSE rows[n].peer
                        /\ ts[n].owner = rows[n].owner /\ ts[n].serial = rows[n].serial
                        /\ ts[n].grantor = rows[n].grantor /\ ts[n].access = rows[n].access
                        /\ ts[n].proven = rows[n].proven /\ ts[n].allowed = rows[n].allowed
    OBVIOUS
  <2>2. CASE rows[n].peer \in gone
    <3>1. ts[n] = WithPeer(rows[n], NoPeer) /\ rows[n] \in Row
      BY <1>1, <1>3, <2>1, <2>2 DEF WithPeer
    <3> HIDE DEF ts, Left
    <3> QED
      BY <1>4, <2>2, <3>1, AnotherPeer
  <2>3. CASE rows[n].peer \notin gone
    <3>1. ts[n] = rows[n] /\ rows[n] \in Row
      BY <1>1, <1>3, <2>1, <2>3
    <3> HIDE DEF ts
    <3> QED
      BY <2>1, <2>3, <3>1
  <2> QED
    BY <2>2, <2>3
<1>6. ts \in Table
  <2>1. \A n \in Ids : ts[n] \in Row \cup {NoRow}
    BY <1>1, <1>5
  <2>2. ts = [n \in Ids |-> ts[n]]
    BY DEF Removed
  <2> HIDE DEF ts
  <2> QED
    BY <2>1, <2>2 DEF Table
<1> HIDE DEF ts
<1>7. \A n \in Ids : ts[n].here => Left(n)
  BY <1>1, <1>2
<1>8. SameHolders(rows, ts)
  BY <1>5, <1>7 DEF SameHolders
<1>9. ASSUME Mutual(rows) PROVE Mutual(ts)
  <2>1. SUFFICES ASSUME NEW n \in Ids, ts[n].here, ts[n].peer # NoPeer
                 PROVE  /\ ts[n].peer # n /\ ts[ts[n].peer].here
                        /\ ts[ts[n].peer].peer = n /\ ts[ts[n].peer].owner = ts[n].owner
                        /\ ts[n].type = "nexus"
    BY DEF Mutual
  <2>2. /\ Left(n) /\ rows[n].peer \notin gone /\ ts[n].peer = rows[n].peer
        /\ rows[n].peer \in Ids
    BY <1>3, <1>5, <1>7, <2>1
  <2>3. /\ rows[n].peer # n /\ rows[rows[n].peer].here /\ rows[rows[n].peer].peer = n
        /\ rows[rows[n].peer].owner = rows[n].owner /\ rows[n].type = "nexus"
    BY <1>9, <2>1, <2>2 DEF Mutual
  <2>4. Left(rows[n].peer)
    BY <2>2, <2>3
  <2> QED
    BY <1>5, <2>2, <2>3, <2>4
<1> QED
  BY <1>6, <1>8, <1>9 DEF ts

\* The largest of some numbers up to n is one of them.
LEMMA MaxIsMax ==
    ASSUME NEW n \in Nat, NEW P \in SUBSET (0 .. n), P # {}
    PROVE  Max(P) \in P /\ \A p \in P : p <= Max(P)
<1> DEFINE T == {n - p : p \in P}
<1>1. T \subseteq Nat /\ T # {}
  <2>1. \A p \in P : n - p \in Nat
    OBVIOUS
  <2>2. PICK p \in P : TRUE
    OBVIOUS
  <2>3. n - p \in T
    BY <2>2
  <2> QED
    BY <2>1, <2>3
<1>2. PICK x \in T : \A y \in T : ~(<<y, x>> \in OpToRel(<, Nat))
  BY <1>1, WFMin, NatLessThanWellFounded
<1>3. \A y \in T : ~(y < x)
  BY <1>1, <1>2 DEF OpToRel
<1>4. PICK p \in P : x = n - p
  BY <1>2
<1>5. ASSUME NEW q \in P PROVE p >= q
  <2>1. ~(n - q < x)
    BY <1>3
  <2> QED
    BY <1>4, <2>1
<1>6. Max(P) \in P /\ \A q \in P : Max(P) >= q
  BY <1>5 DEF Max
<1> QED
  BY <1>6

\* A new row gets a number that no row has.
LEMMA NewIdIsFree ==
    ASSUME NewId <= MaxRows
    PROVE  NewId \in Ids /\ ~rows[NewId].here
<1> DEFINE P == {0} \cup {i \in Ids : rows[i].here}
<1>1. Max(P) \in P /\ \A p \in P : p <= Max(P)
  <2>1. MaxRows \in Nat
    BY BoundsAssumption
  <2>2. P \in SUBSET (0 .. MaxRows) /\ P # {}
    BY <2>1 DEF Ids
  <2> HIDE DEF P
  <2> QED
    BY <2>1, <2>2, MaxIsMax
<1>2. NewId = 1 + Max(P)
  BY DEF NewId
<1>3. \A p \in P : p \in Nat
  BY BoundsAssumption DEF Ids
<1>4. NewId \in Nat /\ NewId >= 1 /\ NewId \notin P
  <2> HIDE DEF P
  <2>1. Max(P) \in Nat
    BY <1>1, <1>3
  <2>2. ~(1 + Max(P) <= Max(P)) /\ 1 + Max(P) \in Nat /\ 1 + Max(P) >= 1
    BY <2>1
  <2> QED
    BY <1>1, <1>2, <2>2
<1>5. NewId \in Ids
  BY <1>4, BoundsAssumption DEF Ids
<1> QED
  BY <1>4, <1>5

-----------------------------------------------------------------------------
(* What every handler does to the table. *)

\* A row is the one it was, and its holder's own if it was that, or it is new.
Aged ==
    \A n \in Ids : rows'[n].here =>
        \/ /\ rows[n].here /\ rows'[n].serial = rows[n].serial
           /\ rows[n].grantor = Nobody => rows'[n].grantor = Nobody
        \/ ~rows[n].here /\ rows'[n].serial = created + 1 /\ created' = created + 1

InOrder ==
    /\ rows' \in Table /\ created' \in {created, created + 1} /\ Aged
    /\ ~raced' /\ Mutual(rows) => Mutual(rows')
    /\ ~raced' /\ Mutual(rows) /\ Earned(rows) => Earned(rows')

\* Handlers that only change types and pairs, or remove rows.
LEMMA SameHoldersInOrder ==
    ASSUME rows' \in Table, SameHolders(rows, rows'), created' = created,
           Mutual(rows) => Mutual(rows')
    PROVE  InOrder
<1>1. Aged
  BY DEF SameHolders, Aged
<1> QED
  BY <1>1, SameHoldersEarned DEF InOrder

\* The row that is inserted is new, alone, and has its reason for write access.
LEMMA InsertInOrder ==
    ASSUME rows \in Table, NEW row \in Row, row.peer = NoPeer, row.serial = created + 1,
           row.access = "write" => row.proven \/ row.allowed = "write",
           row.proven <=> row.grantor = Nobody,
           Insert(row)
    PROVE  InOrder
<1>1. NewId \in Ids /\ ~rows[NewId].here
  BY NewIdIsFree DEF Insert
<1> DEFINE i == NewId
<1>2. rows' = [rows EXCEPT ![i] = row] /\ created' = created + 1
  BY DEF Insert
<1> HIDE DEF i
<1>3. /\ rows' \in Table /\ rows'[i] = row /\ \A n \in Ids \ {i} : rows'[n] = rows[n]
      /\ row.here
  BY <1>1, <1>2 DEF Table, i, Row
<1>4. i \in Ids /\ ~rows[i].here
  BY <1>1 DEF i
<1>5. Aged
  BY <1>2, <1>3, <1>4 DEF Aged
<1>6. Earned(rows) => Earned(rows')
  BY <1>3, <1>4 DEF Earned
<1>7. ASSUME Mutual(rows) PROVE Mutual(rows')
  <2>1. SUFFICES ASSUME NEW n \in Ids, rows'[n].here, rows'[n].peer # NoPeer
                 PROVE  /\ rows'[n].peer # n /\ rows'[rows'[n].peer].here
                        /\ rows'[rows'[n].peer].peer = n
                        /\ rows'[rows'[n].peer].owner = rows'[n].owner
                        /\ rows'[n].type = "nexus"
    BY DEF Mutual
  <2>2. n # i /\ rows'[n] = rows[n]
    BY <1>3, <2>1
  <2>3. rows[n].peer \in Ids
    <3>1. rows[n] \in Row
      BY <2>1, <2>2, RowsHaveColumns
    <3>2. rows[n].peer \in Ids \cup {NoPeer}
      BY <3>1 DEF Row
    <3> QED
      BY <2>1, <2>2, <3>2
  <2>4. /\ rows[n].peer # n /\ rows[rows[n].peer].here /\ rows[rows[n].peer].peer = n
        /\ rows[rows[n].peer].owner = rows[n].owner /\ rows[n].type = "nexus"
    BY <1>7, <2>1, <2>2 DEF Mutual
  <2> QED
    BY <1>3, <1>4, <2>2, <2>3, <2>4
<1> QED
  BY <1>2, <1>3, <1>5, <1>6, <1>7 DEF InOrder

\* A row whose type is set after it was written over.
LEMMA RewrittenInOrder ==
    ASSUME rows \in Table, NEW i \in Ids, rows[i].here, NEW r \in Row,
           r.owner = rows[i].owner, r.type = rows[i].type, r.peer = rows[i].peer,
           r.serial = rows[i].serial,
           rows[i].grantor = Nobody => r.grantor = Nobody,
           r.access = "write" => r.proven \/ r.allowed = "write",
           r.proven <=> r.grantor = Nobody,
           NEW type \in Types,
           rows' = Retyped([rows EXCEPT ![i] = r], i, type), created' = created
    PROVE  InOrder
<1> DEFINE us == [rows EXCEPT ![i] = r]
<1>1. /\ us \in Table /\ us[i] = r /\ \A n \in Ids \ {i} : us[n] = rows[n]
      /\ Mutual(rows) => Mutual(us)
  BY RewrittenKeeps
<1>2. r.here
  BY DEF Row
<1> HIDE DEF us
<1>3. /\ rows' \in Table /\ SameHolders(us, rows') /\ (Mutual(us) => Mutual(rows'))
  BY <1>1, <1>2, RetypedKeeps DEF us
<1>4. Earned(rows) => Earned(us)
  BY <1>1 DEF Earned
<1>5. Earned(us) => Earned(rows')
  BY <1>3, SameHoldersEarned
<1>6. Aged
  BY <1>1, <1>3 DEF Aged, SameHolders
<1> QED
  BY <1>1, <1>3, <1>4, <1>5, <1>6 DEF InOrder

LEMMA ClaimedRow ==
    ASSUME NEW r \in Row, NEW role
    PROVE  /\ Claimed(r, role) \in Row /\ Claimed(r, role).grantor = Nobody
           /\ Claimed(r, role).owner = r.owner /\ Claimed(r, role).type = r.type
           /\ Claimed(r, role).peer = r.peer /\ Claimed(r, role).serial = r.serial
           /\ Claimed(r, role).proven = r.proven /\ Claimed(r, role).allowed = r.allowed
           /\ r.grantor = Nobody => Claimed(r, role).access = r.access
<1>1. AccessFor(role, "write") \in Levels
  BY DEF AccessFor, Levels
<1>2. CASE r.grantor = Nobody
  BY <1>2 DEF Claimed
<1>3. CASE r.grantor # Nobody
  <2>1. Claimed(r, role) = [r EXCEPT !.grantor = Nobody, !.access = AccessFor(role, "write")]
    BY <1>3 DEF Claimed
  <2> QED
    BY <1>1, <1>3, <2>1 DEF Row
<1> QED
  BY <1>2, <1>3

LEMMA OwnRowIsRow ==
    ASSUME created \in Nat, NEW p \in Names, NEW ip \in Ips, NEW type \in Types
    PROVE  /\ OwnRow(p, ip, type) \in Row
           /\ OwnRow(p, ip, type).peer = NoPeer /\ OwnRow(p, ip, type).serial = created + 1
           /\ OwnRow(p, ip, type).proven /\ OwnRow(p, ip, type).grantor = Nobody
           /\ OwnRow(p, ip, type).owner = p
    BY DEF OwnRow, Row, Levels

\* add_switch, and bulk_add_switches for oneself.
LEMMA FinishOwnInOrder ==
    ASSUME rows \in Table, created \in Nat, NEW j, j.by \in Names, j.ip \in Ips,
           j.type \in Types, FinishOwn(j)
    PROVE  InOrder
<1>1. CASE RowOf(j.by, j.ip) = {}
  <2>1. Insert(OwnRow(j.by, j.ip, j.type))
    BY <1>1 DEF FinishOwn
  <2> QED
    BY <2>1, OwnRowIsRow, InsertInOrder
<1>2. CASE RowOf(j.by, j.ip) # {}
  <2>1. PICK i \in RowOf(j.by, j.ip) :
          LET claimed == [Claimed(rows[i], j.role) EXCEPT !.proven = TRUE]
              own     == IF j.kind = "add" THEN claimed
                         ELSE [claimed EXCEPT !.access = "write"]
          IN /\ rows' = Retyped([rows EXCEPT ![i] = own], i, j.type)
             /\ UNCHANGED created
    BY <1>2 DEF FinishOwn
  <2> DEFINE k       == Claimed(rows[i], j.role)
             claimed == [k EXCEPT !.proven = TRUE]
             own     == IF j.kind = "add" THEN claimed
                        ELSE [claimed EXCEPT !.access = "write"]
  <2>2. i \in Ids /\ rows[i].here
    BY DEF RowOf, OwnedBy
  <2>3. rows[i] \in Row
    BY <2>2, RowsHaveColumns
  <2>4. /\ claimed \in Row /\ claimed.grantor = Nobody /\ claimed.proven
        /\ claimed.owner = rows[i].owner /\ claimed.type = rows[i].type
        /\ claimed.peer = rows[i].peer /\ claimed.serial = rows[i].serial
    <3>1. /\ k \in Row /\ k.grantor = Nobody /\ k.owner = rows[i].owner
          /\ k.type = rows[i].type /\ k.peer = rows[i].peer /\ k.serial = rows[i].serial
      BY <2>3, ClaimedRow
    <3> HIDE DEF k
    <3> QED
      BY <3>1 DEF Row
  <2>5. /\ own \in Row /\ own.grantor = Nobody /\ own.proven
        /\ own.owner = rows[i].owner /\ own.type = rows[i].type
        /\ own.peer = rows[i].peer /\ own.serial = rows[i].serial
    BY <2>4 DEF Row, Levels
  <2>6. rows' = Retyped([rows EXCEPT ![i] = own], i, j.type) /\ created' = created
    BY <2>1
  <2> HIDE DEF own
  <2> QED
    BY <2>2, <2>5, <2>6, RewrittenInOrder
<1> QED
  BY <1>1, <1>2

\* bulk_add_switches for another holder: a switch that is the holder's own stays so.
LEMMA FinishGrantInOrder ==
    ASSUME rows \in Table, created \in Nat, NEW j \in BulkJob, j.holder # j.by, FinishGrant(j)
    PROVE  InOrder
<1> DEFINE g == GrantedRow(j)
<1>1. /\ j.by \in Names /\ j.holder \in Names /\ j.ip \in Ips /\ j.type \in Types
      /\ j.level \in Levels
  BY DEF BulkJob
<1>2. j.by # Nobody
  BY <1>1, NamesAssumption
<1>3. /\ AccessFor(j.holderRole, j.level) \in Levels
      /\ AccessFor(j.holderRole, j.level) = "write" => j.level = "write"
  BY <1>1 DEF AccessFor, Levels
<1>4. /\ g \in Row /\ g.peer = NoPeer /\ g.serial = created + 1 /\ g.owner = j.holder
      /\ ~g.proven /\ g.grantor = j.by
      /\ g.access = "write" => g.allowed = "write"
  <2> DEFINE own == OwnRow(j.holder, j.ip, j.type)
  <2>1. /\ own \in Row /\ own.peer = NoPeer /\ own.serial = created + 1
        /\ own.owner = j.holder
    BY <1>1, OwnRowIsRow
  <2>2. g = [own EXCEPT !.grantor = j.by, !.access = AccessFor(j.holderRole, j.level),
                        !.proven = FALSE, !.allowed = j.level]
    BY DEF GrantedRow
  <2> HIDE DEF own, g
  <2> QED
    BY <1>1, <1>3, <2>1, <2>2 DEF Row
<1> HIDE DEF g
<1>5. CASE RowOf(j.holder, j.ip) = {}
  <2>1. Insert(g)
    BY <1>5 DEF FinishGrant, g
  <2> QED
    BY <1>2, <1>4, <2>1, InsertInOrder
<1>6. CASE RowOf(j.holder, j.ip) # {}
  <2>1. PICK i \in RowOf(j.holder, j.ip) :
            /\ NoConflict(rows[i], j)
            /\ rows' = Retyped([rows EXCEPT ![i] =
                           [g EXCEPT !.type = rows[i].type, !.peer = rows[i].peer,
                                     !.serial = rows[i].serial]], i, j.type)
            /\ UNCHANGED created
    BY <1>6 DEF FinishGrant, g
  <2> DEFINE r == [g EXCEPT !.type = rows[i].type, !.peer = rows[i].peer,
                            !.serial = rows[i].serial]
  <2>2. i \in Ids /\ rows[i].here /\ rows[i].owner = j.holder
    BY DEF RowOf, OwnedBy
  <2>3. rows[i] \in Row
    BY <2>2, RowsHaveColumns
  <2>4. /\ r \in Row /\ r.owner = rows[i].owner /\ r.type = rows[i].type
        /\ r.peer = rows[i].peer /\ r.serial = rows[i].serial
        /\ ~r.proven /\ r.grantor = j.by /\ (r.access = "write" => r.allowed = "write")
    BY <1>4, <2>2, <2>3 DEF Row
  <2>5. rows[i].grantor # Nobody
    BY <1>2, <2>1 DEF NoConflict
  <2>6. rows' = Retyped([rows EXCEPT ![i] = r], i, j.type) /\ created' = created
    BY <2>1
  <2> HIDE DEF r
  <2> QED
    BY <1>1, <1>2, <2>2, <2>4, <2>5, <2>6, RewrittenInOrder
<1> QED
  BY <1>5, <1>6

\* The columns that an update changed, over a row as it is by now.
Cols == {"here", "owner", "ip", "type", "peer", "grantor", "access", "serial", "proven", "allowed"}

LEMMA CommittedRow ==
    ASSUME NEW x \in Row, NEW was \in Row, NEW now \in Row,
           NEW y, y = [c \in DOMAIN x |-> IF c \in Columns(was, now) THEN now[c] ELSE x[c]],
           now.owner = was.owner, now.serial = was.serial, now.proven = was.proven,
           now.allowed = was.allowed
    PROVE  /\ y \in Row /\ y.here
           /\ y.owner = x.owner /\ y.serial = x.serial
           /\ y.proven = x.proven /\ y.allowed = x.allowed
           /\ y.type = IF now.type # was.type THEN now.type ELSE x.type
           /\ y.peer = IF now.peer # was.peer THEN now.peer ELSE x.peer
           /\ y.grantor = IF now.grantor # was.grantor THEN now.grantor ELSE x.grantor
           /\ y.access = IF now.access # was.access THEN now.access ELSE x.access
<1>1. DOMAIN x = Cols /\ DOMAIN now = Cols
  BY DEF Row, Cols
<1>2. y = [c \in Cols |-> IF c \in Columns(was, now) THEN now[c] ELSE x[c]]
  BY <1>1
<1>3. \A c \in Cols : c \in Columns(was, now) <=> now[c] # was[c]
  BY <1>1 DEF Columns
<1>4. /\ y.owner = x.owner /\ y.serial = x.serial
      /\ y.proven = x.proven /\ y.allowed = x.allowed
      /\ y.type = IF now.type # was.type THEN now.type ELSE x.type
      /\ y.peer = IF now.peer # was.peer THEN now.peer ELSE x.peer
      /\ y.grantor = IF now.grantor # was.grantor THEN now.grantor ELSE x.grantor
      /\ y.access = IF now.access # was.access THEN now.access ELSE x.access
      /\ y.ip = IF now.ip # was.ip THEN now.ip ELSE x.ip
      /\ y.here = IF now.here # was.here THEN now.here ELSE x.here
  BY <1>2, <1>3 DEF Cols
<1>5. y \in Row
  <2>1. y = [here |-> y.here, owner |-> y.owner, ip |-> y.ip, type |-> y.type,
             peer |-> y.peer, grantor |-> y.grantor, access |-> y.access,
             serial |-> y.serial, proven |-> y.proven, allowed |-> y.allowed]
    BY <1>2 DEF Cols
  <2>2. /\ y.here = TRUE /\ y.owner \in Names /\ y.ip \in Ips /\ y.type \in Types
        /\ y.peer \in Ids \cup {NoPeer} /\ y.grantor \in Names \cup {Nobody}
        /\ y.access \in Levels /\ y.serial \in Nat /\ y.proven \in BOOLEAN
        /\ y.allowed \in Levels
    BY <1>4 DEF Row
  <2> QED
    BY <2>1, <2>2 DEF Row
<1> QED
  BY <1>4, <1>5 DEF Row

\* update_switch after its wait: what it ends is what it read, or the update raced.
LEMMA FinishUpdateInOrder ==
    ASSUME rows \in Table, OwnStaysOwn, NEW j \in jobs, j \in UpdateJob, FinishUpdate(j)
    PROVE  InOrder
<1> DEFINE i     == j.id
           w     == j.was
           typed == [w EXCEPT !.type = j.type,
                              !.peer = IF j.type = "nexus" \/ j.type = w.type THEN @ ELSE NoPeer]
           now   == Claimed(typed, j.role)
           wrote == Committed(i, w, now)
           same  == rows[i].serial = w.serial
           other == IF typed.peer # w.peer THEN {w.peer} \cap {n \in Ids : rows[n].here} ELSE {}
           ends  == j.type # "nexus" /\ j.type # w.type
<1>1. /\ i \in Ids /\ w \in Row /\ j.type \in Types /\ j.kind = "update" /\ rows[i].here
      /\ rows[i] \in Row
  BY RowsHaveColumns DEF UpdateJob, FinishUpdate
<1>2. /\ rows' = [n \in Ids |-> IF n \in other THEN [wrote[n] EXCEPT !.peer = NoPeer]
                                ELSE IF n = i /\ same
                                     THEN [wrote[n] EXCEPT !.proven = TRUE] ELSE wrote[n]]
      /\ raced' = (raced \/ ~same \/ (ends /\ rows[i].peer # w.peer))
      /\ created' = created
  BY DEF FinishUpdate
<1>3. /\ typed \in Row /\ typed.type = j.type /\ typed.owner = w.owner
      /\ typed.serial = w.serial /\ typed.proven = w.proven /\ typed.allowed = w.allowed
      /\ typed.grantor = w.grantor
      /\ typed.peer = IF ends THEN NoPeer ELSE w.peer
  BY <1>1 DEF Row
<1> HIDE DEF typed
<1>4. /\ now \in Row /\ now.grantor = Nobody /\ now.type = j.type /\ now.owner = w.owner
      /\ now.serial = w.serial /\ now.proven = w.proven /\ now.allowed = w.allowed
      /\ now.peer = IF ends THEN NoPeer ELSE w.peer
  BY <1>3, ClaimedRow
<1> HIDE DEF now
<1>5. /\ wrote[i] = [c \in DOMAIN rows[i] |->
                       IF c \in Columns(w, now) THEN now[c] ELSE rows[i][c]]
      /\ \A n \in Ids \ {i} : wrote[n] = rows[n]
  BY <1>1 DEF Committed, Table
<1> DEFINE y == wrote[i]
<1>6. /\ y \in Row /\ y.here
      /\ y.owner = rows[i].owner /\ y.serial = rows[i].serial
      /\ y.proven = rows[i].proven /\ y.allowed = rows[i].allowed
      /\ y.type = IF j.type # w.type THEN j.type ELSE rows[i].type
      /\ y.peer = IF ends /\ w.peer # NoPeer THEN NoPeer ELSE rows[i].peer
      /\ y.grantor = IF w.grantor # Nobody THEN Nobody ELSE rows[i].grantor
  <2> HIDE DEF wrote
  <2>1. /\ y \in Row /\ y.here
        /\ y.owner = rows[i].owner /\ y.serial = rows[i].serial
        /\ y.proven = rows[i].proven /\ y.allowed = rows[i].allowed
        /\ y.type = IF now.type # w.type THEN now.type ELSE rows[i].type
        /\ y.peer = IF now.peer # w.peer THEN now.peer ELSE rows[i].peer
        /\ y.grantor = IF now.grantor # w.grantor THEN now.grantor ELSE rows[i].grantor
    BY <1>1, <1>4, <1>5, CommittedRow
  <2> QED
    BY <1>4, <2>1
<1> HIDE DEF wrote
<1>7. /\ \A n \in Ids : wrote[n].here <=> rows[n].here
      /\ \A n \in Ids : rows[n].here => wrote[n] \in Row
      /\ \A n \in Ids : ~rows[n].here => wrote[n] = NoRow
  BY <1>1, <1>5, <1>6, RowsHaveColumns
<1>8. other \subseteq Ids /\ \A n \in other : rows[n].here /\ n = w.peer /\ ends
  BY <1>1, <1>3
<1>9. ends /\ w.peer \in Ids /\ rows[w.peer].here => w.peer \in other
  <2>1. \A n \in Ids : n # NoPeer
    BY BoundsAssumption DEF Ids, NoPeer
  <2> QED
    BY <1>3, <2>1
<1> HIDE DEF other
<1>10. \A n \in Ids :
         /\ rows'[n].here <=> rows[n].here
         /\ ~rows[n].here => rows'[n] = NoRow
         /\ rows[n].here =>
              /\ rows'[n] \in Row
              /\ rows'[n].peer = IF n \in other THEN NoPeer ELSE wrote[n].peer
              /\ rows'[n].type = wrote[n].type /\ rows'[n].owner = wrote[n].owner
              /\ rows'[n].serial = wrote[n].serial /\ rows'[n].grantor = wrote[n].grantor
              /\ rows'[n].access = wrote[n].access /\ rows'[n].allowed = wrote[n].allowed
              /\ n = i /\ same /\ n \notin other => rows'[n].proven = TRUE
              /\ ~(n = i /\ same /\ n \notin other) => rows'[n].proven = wrote[n].proven
  <2>1. SUFFICES ASSUME NEW n \in Ids
                 PROVE /\ rows'[n].here <=> rows[n].here
                       /\ ~rows[n].here => rows'[n] = NoRow
                       /\ rows[n].here =>
                            /\ rows'[n] \in Row
                            /\ rows'[n].peer = IF n \in other THEN NoPeer ELSE wrote[n].peer
                            /\ rows'[n].type = wrote[n].type
                            /\ rows'[n].owner = wrote[n].owner
                            /\ rows'[n].serial = wrote[n].serial
                            /\ rows'[n].grantor = wrote[n].grantor
                            /\ rows'[n].access = wrote[n].access
                            /\ rows'[n].allowed = wrote[n].allowed
                            /\ n = i /\ same /\ n \notin other => rows'[n].proven = TRUE
                            /\ ~(n = i /\ same /\ n \notin other)
                                 => rows'[n].proven = wrote[n].proven
    OBVIOUS
  <2>2. CASE n \in other
    <3>1. rows'[n] = [wrote[n] EXCEPT !.peer = NoPeer] /\ wrote[n] \in Row /\ rows[n].here
      BY <1>2, <1>7, <1>8, <2>2
    <3> QED
      BY <2>2, <3>1 DEF Row
  <2>3. CASE n \notin other /\ n = i /\ same
    <3>1. rows'[n] = [wrote[n] EXCEPT !.proven = TRUE] /\ wrote[n] \in Row /\ rows[n].here
      BY <1>1, <1>2, <1>7, <2>3
    <3> QED
      BY <2>3, <3>1 DEF Row
  <2>4. CASE n \notin other /\ ~(n = i /\ same)
    <3>1. rows'[n] = wrote[n]
      BY <1>2, <2>4
    <3> QED
      BY <1>7, <2>4, <3>1
  <2> QED
    BY <2>2, <2>3, <2>4
<1>11. rows' \in Table
  <2>1. rows' = [n \in Ids |-> rows'[n]]
    BY <1>2
  <2>2. \A n \in Ids : rows'[n] \in Row \cup {NoRow}
    BY <1>10
  <2> QED
    BY <2>1, <2>2 DEF Table
<1>12. Aged
  BY <1>5, <1>6, <1>10 DEF Aged
<1>13. ASSUME ~raced', Mutual(rows) PROVE Mutual(rows')
  <2>1. ends => rows[i].peer = w.peer
    BY <1>2, <1>13
  <2>2. \A n \in Ids : rows[n].here => rows[n].peer \in Ids \cup {NoPeer}
    BY RowsHaveColumns DEF Row
  <2>3. SUFFICES ASSUME NEW n \in Ids, rows'[n].here, rows'[n].peer # NoPeer
                 PROVE  /\ rows'[n].peer # n /\ rows'[rows'[n].peer].here
                        /\ rows'[rows'[n].peer].peer = n
                        /\ rows'[rows'[n].peer].owner = rows'[n].owner
                        /\ rows'[n].type = "nexus"
    BY DEF Mutual
  <2>4. rows[n].here /\ n \notin other /\ rows'[n].peer = wrote[n].peer
    BY <1>10, <2>3
  <2>5. n = i => ~ends
    BY <1>6, <2>1, <2>3, <2>4
  <2>6. rows'[n].peer = rows[n].peer /\ rows[n].peer \in Ids
    BY <1>5, <1>6, <2>2, <2>3, <2>4, <2>5
  <2> DEFINE q == rows[n].peer
  <2>7. /\ q # n /\ rows[q].here /\ rows[q].peer = n /\ rows[q].owner = rows[n].owner
        /\ rows[n].type = "nexus"
    BY <1>13, <2>3, <2>4, <2>6 DEF Mutual
  <2>8. ends => q # i /\ q \notin other
    <3>1. ends /\ q = i => n \in other
      BY <1>9, <2>1, <2>4, <2>7
    <3>2. ends /\ q \in other => n = i
      <4>1. ASSUME ends, q \in other PROVE n = i
        <5>1. q = rows[i].peer
          BY <1>8, <2>1, <4>1
        <5>2. rows[q].peer = i
          BY <1>1, <1>13, <2>6, <5>1, BoundsAssumption DEF Mutual, Ids, NoPeer
        <5> QED
          BY <2>7, <5>2
      <4> QED
        BY <4>1
    <3> QED
      BY <2>4, <2>5, <3>1, <3>2
  <2>9. \A m \in Ids : rows[m].here =>
          /\ rows'[m].here /\ rows'[m].owner = rows[m].owner
          /\ m # i => rows'[m].type = rows[m].type
          /\ ~ends => rows'[m].type \in {rows[m].type, "nexus"}
          /\ m \notin other /\ (m # i \/ ~ends) => rows'[m].peer = rows[m].peer
    BY <1>5, <1>6, <1>10
  <2>10. q \notin other /\ (q # i \/ ~ends)
    BY <1>8, <2>8
  <2> QED
    BY <2>4, <2>5, <2>6, <2>7, <2>9, <2>10
<1>14. ASSUME ~raced', Mutual(rows), Earned(rows) PROVE Earned(rows')
  <2>1. same /\ i \notin other
    <3>1. same /\ (ends => rows[i].peer = w.peer)
      BY <1>2, <1>14
    <3>2. i \in other => rows[i].peer = i
      BY <1>8, <3>1
    <3>3. i # NoPeer
      BY <1>1, BoundsAssumption DEF Ids, NoPeer
    <3> QED
      BY <1>1, <1>14, <3>1, <3>2, <3>3 DEF Mutual
  <2>2. rows'[i].proven /\ rows'[i].grantor = Nobody
    <3>1. w.grantor = Nobody => rows[i].grantor = Nobody
      BY <1>1, <2>1 DEF OwnStaysOwn
    <3> QED
      BY <1>1, <1>6, <1>10, <2>1, <3>1
  <2>3. ASSUME NEW n \in Ids \ {i}, rows'[n].here
        PROVE  /\ rows'[n].access = "write" => rows'[n].proven \/ rows'[n].allowed = "write"
               /\ rows'[n].proven <=> rows'[n].grantor = Nobody
    <3>1. rows[n].here /\ rows[n].proven \in BOOLEAN
      BY <1>10, <2>3, RowsHaveColumns DEF Row
    <3> QED
      BY <1>5, <1>10, <1>14, <2>3, <3>1 DEF Earned
  <2> QED
    BY <2>2, <2>3 DEF Earned
<1> QED
  BY <1>2, <1>11, <1>12, <1>13, <1>14 DEF InOrder

\* Pairs are made, and ended on both sides.
LEMMA PairsInOrder ==
    ASSUME rows \in Table, NEW p, NEW i \in OwnedBy(p),
           VpcUnpair(p, i) \/ \E k \in OwnedBy(p) : VpcPair(p, i, k)
    PROVE  InOrder
<1>1. i \in Ids /\ rows[i].here /\ rows[i].owner = p
  BY DEF OwnedBy
<1>2. \A n \in Ids : rows[n].here => rows[n] \in Row /\ rows[n].peer \in Ids \cup {NoPeer}
  BY RowsHaveColumns DEF Row
<1>3. \A n \in Ids : ~rows[n].here => rows[n] = NoRow
  BY RowsHaveColumns
<1>4. \A n \in Ids : n # NoPeer
  BY BoundsAssumption DEF Ids, NoPeer
\* A table that differs in peers only.
<1>5. ASSUME NEW P, P \in [Ids -> Ids \cup {NoPeer}],
             \A n \in Ids : \/ rows'[n] = rows[n] /\ (rows[n].here => P[n] = rows[n].peer)
                            \/ rows[n].here /\ rows'[n] = WithPeer(rows[n], P[n]),
             rows' = [n \in Ids |-> rows'[n]]
      PROVE  /\ rows' \in Table /\ SameHolders(rows, rows')
             /\ \A n \in Ids : /\ rows'[n].here <=> rows[n].here
                               /\ rows[n].here => /\ rows'[n].peer = P[n]
                                                  /\ rows'[n].type = rows[n].type
                                                  /\ rows'[n].owner = rows[n].owner
  <2>1. \A n \in Ids : rows[n].here =>
          /\ rows'[n] \in Row /\ rows'[n].here /\ rows'[n].peer = P[n]
          /\ rows'[n].type = rows[n].type /\ rows'[n].owner = rows[n].owner
          /\ rows'[n].serial = rows[n].serial /\ rows'[n].grantor = rows[n].grantor
          /\ rows'[n].access = rows[n].access /\ rows'[n].proven = rows[n].proven
          /\ rows'[n].allowed = rows[n].allowed
    <3>1. SUFFICES ASSUME NEW n \in Ids, rows[n].here
                   PROVE  /\ rows'[n] \in Row /\ rows'[n].here /\ rows'[n].peer = P[n]
                          /\ rows'[n].type = rows[n].type /\ rows'[n].owner = rows[n].owner
                          /\ rows'[n].serial = rows[n].serial
                          /\ rows'[n].grantor = rows[n].grantor
                          /\ rows'[n].access = rows[n].access
                          /\ rows'[n].proven = rows[n].proven
                          /\ rows'[n].allowed = rows[n].allowed
      OBVIOUS
    <3>2. rows[n] \in Row /\ P[n] \in Ids \cup {NoPeer}
      BY <1>2, <1>5, <3>1
    <3>3. CASE rows'[n] = rows[n] /\ P[n] = rows[n].peer
      BY <3>1, <3>2, <3>3
    <3>4. CASE rows'[n] = WithPeer(rows[n], P[n])
      BY <3>2, <3>4, AnotherPeer
    <3> QED
      BY <1>5, <3>1, <3>3, <3>4
  <2>2. \A n \in Ids : ~rows[n].here => rows'[n] = NoRow /\ ~rows'[n].here
    BY <1>3, <1>5
  <2>3. rows' \in Table
    BY <1>5, <2>1, <2>2 DEF Table
  <2> QED
    BY <2>1, <2>2, <2>3 DEF SameHolders
<1>6. CASE VpcUnpair(p, i)
  <2> DEFINE ended == {i, rows[i].peer}
             P == [n \in Ids |-> IF n \in ended \/ ~rows[n].here THEN NoPeer ELSE rows[n].peer]
  <2>1. /\ rows[i].peer \in Ids /\ created' = created
        /\ rows' = [n \in Ids |-> IF n \in ended /\ rows[n].here
                                  THEN WithPeer(rows[n], NoPeer) ELSE rows[n]]
    BY <1>1, <1>2, <1>6 DEF VpcUnpair, Change, WithPeer
  <2>2. P \in [Ids -> Ids \cup {NoPeer}]
    BY <1>2
  <2>3. /\ rows' = [n \in Ids |-> rows'[n]]
        /\ \A n \in Ids : \/ rows'[n] = rows[n] /\ (rows[n].here => P[n] = rows[n].peer)
                          \/ rows[n].here /\ rows'[n] = WithPeer(rows[n], P[n])
    BY <2>1
  <2>4. \A n \in Ids : rows[n].here => P[n] = IF n \in ended THEN NoPeer ELSE rows[n].peer
    OBVIOUS
  <2> HIDE DEF P
  <2>5. /\ rows' \in Table /\ SameHolders(rows, rows')
        /\ \A n \in Ids : /\ rows'[n].here <=> rows[n].here
                          /\ rows[n].here => /\ rows'[n].peer = P[n]
                                             /\ rows'[n].type = rows[n].type
                                             /\ rows'[n].owner = rows[n].owner
    BY <1>5, <2>2, <2>3
  <2>6. ASSUME Mutual(rows) PROVE Mutual(rows')
    <3>1. SUFFICES ASSUME NEW n \in Ids, rows'[n].here, rows'[n].peer # NoPeer
                   PROVE  /\ rows'[n].peer # n /\ rows'[rows'[n].peer].here
                          /\ rows'[rows'[n].peer].peer = n
                          /\ rows'[rows'[n].peer].owner = rows'[n].owner
                          /\ rows'[n].type = "nexus"
      BY DEF Mutual
    <3> DEFINE q == rows[n].peer
    <3>2. rows[n].here /\ n \notin ended /\ rows'[n].peer = q /\ q \in Ids
      BY <1>2, <2>4, <2>5, <3>1
    <3>3. /\ q # n /\ rows[q].here /\ rows[q].peer = n /\ rows[q].owner = rows[n].owner
          /\ rows[n].type = "nexus"
      BY <2>6, <3>1, <3>2 DEF Mutual
    <3>4. q \notin ended
      <4>1. rows[rows[i].peer].peer = i
        BY <1>1, <1>4, <2>1, <2>6 DEF Mutual
      <4> QED
        BY <3>2, <3>3, <4>1
    <3> QED
      BY <2>4, <2>5, <3>2, <3>3, <3>4
  <2> QED
    BY <2>1, <2>5, <2>6, SameHoldersInOrder
<1>7. ASSUME NEW k \in OwnedBy(p), VpcPair(p, i, k) PROVE InOrder
  <2>1. /\ k \in Ids /\ k # i /\ rows[k].here /\ rows[k].owner = p
        /\ rows[i].type = "nexus" /\ rows[k].type = "nexus" /\ created' = created
    BY <1>7 DEF OwnedBy, VpcPair, Change
  <2> DEFINE left == {rows[i].peer, rows[k].peer} \ {i, k}
             P == [n \in Ids |-> IF n = i THEN k ELSE IF n = k THEN i
                                 ELSE IF n \in left \/ ~rows[n].here THEN NoPeer
                                 ELSE rows[n].peer]
  <2>2. rows' = [n \in Ids |-> IF n = i THEN WithPeer(rows[n], k)
                               ELSE IF n = k THEN WithPeer(rows[n], i)
                               ELSE IF n \in left /\ rows[n].here
                                    THEN WithPeer(rows[n], NoPeer) ELSE rows[n]]
    BY <1>7 DEF VpcPair, Change, WithPeer
  <2>3. P \in [Ids -> Ids \cup {NoPeer}]
    BY <1>1, <1>2, <2>1
  <2>4. /\ rows' = [n \in Ids |-> rows'[n]]
        /\ \A n \in Ids : \/ rows'[n] = rows[n] /\ (rows[n].here => P[n] = rows[n].peer)
                          \/ rows[n].here /\ rows'[n] = WithPeer(rows[n], P[n])
    BY <1>1, <2>1, <2>2
  <2>5. /\ P[i] = k /\ P[k] = i
        /\ \A n \in Ids \ {i, k} : rows[n].here =>
             P[n] = IF n \in left THEN NoPeer ELSE rows[n].peer
    BY <1>1, <2>1
  <2> HIDE DEF P
  <2>6. /\ rows' \in Table /\ SameHolders(rows, rows')
        /\ \A n \in Ids : /\ rows'[n].here <=> rows[n].here
                          /\ rows[n].here => /\ rows'[n].peer = P[n]
                                             /\ rows'[n].type = rows[n].type
                                             /\ rows'[n].owner = rows[n].owner
    BY <1>5, <2>3, <2>4
  <2>7. ASSUME Mutual(rows) PROVE Mutual(rows')
    <3>1. SUFFICES ASSUME NEW n \in Ids, rows'[n].here, rows'[n].peer # NoPeer
                   PROVE  /\ rows'[n].peer # n /\ rows'[rows'[n].peer].here
                          /\ rows'[rows'[n].peer].peer = n
                          /\ rows'[rows'[n].peer].owner = rows'[n].owner
                          /\ rows'[n].type = "nexus"
      BY DEF Mutual
    <3>2. CASE n \in {i, k}
      BY <1>1, <2>1, <2>5, <2>6, <3>2
    <3>3. CASE n \notin {i, k}
      <4> DEFINE q == rows[n].peer
      <4>1. rows[n].here /\ n \notin left /\ rows'[n].peer = q /\ q \in Ids
        BY <1>2, <2>5, <2>6, <3>1, <3>3
      <4>2. /\ q # n /\ rows[q].here /\ rows[q].peer = n /\ rows[q].owner = rows[n].owner
            /\ rows[n].type = "nexus"
        BY <2>7, <3>1, <4>1 DEF Mutual
      <4>3. q \notin {i, k}
        BY <3>3, <4>1, <4>2
      <4>4. q \notin left
        <5>1. ASSUME NEW m \in {i, k}, q = rows[m].peer PROVE FALSE
          <6>1. rows[q].peer = m
            BY <1>1, <1>4, <2>1, <2>7, <4>1, <5>1 DEF Mutual
          <6> QED
            BY <3>3, <4>2, <5>1, <6>1
        <5> QED
          BY <5>1
      <4> QED
        BY <2>5, <2>6, <3>3, <4>1, <4>2, <4>3, <4>4
    <3> QED
      BY <3>2, <3>3
  <2> QED
    BY <2>1, <2>6, <2>7, SameHoldersInOrder
<1> QED
  BY <1>6, <1>7

\* update_granted_switch: the granter's last word, on a row that is not proven.
LEMMA UpdateGrantedInOrder ==
    ASSUME rows \in Table, NEW p \in Names, NEW i \in Ids, NEW level \in Levels,
           UpdateGrantedSwitch(p, i, level)
    PROVE  InOrder
<1> DEFINE a == AccessFor(roles[rows[i].owner], level)
           r == [rows[i] EXCEPT !.access = a, !.allowed = level]
<1>1. /\ rows[i].here /\ rows[i].grantor = p /\ created' = created
      /\ rows' = [rows EXCEPT ![i] = r]
  BY DEF UpdateGrantedSwitch, Change, Table
<1>2. a \in Levels /\ (a = "write" => level = "write")
  BY DEF AccessFor, Levels
<1> HIDE DEF a
<1>3. rows[i] \in Row
  BY <1>1, RowsHaveColumns
<1>4. /\ r \in Row /\ r.owner = rows[i].owner /\ r.type = rows[i].type
      /\ r.peer = rows[i].peer /\ r.serial = rows[i].serial /\ r.here
      /\ r.proven = rows[i].proven /\ r.grantor = rows[i].grantor
      /\ r.access = "write" => r.allowed = "write"
  BY <1>2, <1>3 DEF Row
<1> HIDE DEF r
<1>5. /\ rows' \in Table /\ rows'[i] = r /\ \A n \in Ids \ {i} : rows'[n] = rows[n]
      /\ Mutual(rows) => Mutual(rows')
  <2> DEFINE ts == [rows EXCEPT ![i] = r]
  <2>1. /\ ts \in Table /\ ts[i] = r /\ \A n \in Ids \ {i} : ts[n] = rows[n]
        /\ Mutual(rows) => Mutual(ts)
    BY <1>1, <1>4, RewrittenKeeps
  <2>2. rows' = ts
    BY <1>1
  <2> HIDE DEF ts
  <2> QED
    BY <2>1, <2>2
<1>6. Earned(rows) => Earned(rows')
  BY <1>1, <1>4, <1>5 DEF Earned
<1>7. Aged
  BY <1>1, <1>4, <1>5 DEF Aged
<1> QED
  BY <1>1, <1>5, <1>6, <1>7 DEF InOrder

LEMMA RemovedInOrder ==
    ASSUME rows \in Table, NEW gone \in SUBSET Ids, rows' = Removed(gone), created' = created
    PROVE  InOrder
    BY RemovedKeeps, SameHoldersInOrder

-----------------------------------------------------------------------------
(* The invariant *)

LEMMA InOrderKeeps ==
    ASSUME IInv, InOrder, roles' \in [Names -> Roles], jobs' \subseteq jobs,
           raced' \in BOOLEAN, raced => raced'
    PROVE  IInv'
<1>1. TypeOK /\ SerialsAreOld /\ OwnStaysOwn /\ PairsAreMutual /\ WriteIsEarned
  BY DEF IInv
<1>2. TypeOK'
  BY <1>1 DEF TypeOK, InOrder
<1>3. created \in Nat /\ created' \in Nat /\ created <= created'
  BY <1>1 DEF TypeOK, InOrder
<1>4. \A j \in jobs : j.kind = "update" => j \in UpdateJob
  BY <1>1 DEF TypeOK, AddJob, BulkJob
<1>5. \A j \in jobs : j.kind = "update" => j.was.serial \in Nat /\ j.id \in Ids
  BY <1>4 DEF UpdateJob, Row
<1>6. \A n \in Ids : rows[n].here => rows[n].serial \in Nat
  BY <1>1, RowsHaveColumns DEF TypeOK, Row
<1>7. SerialsAreOld'
  <2>1. ASSUME NEW n \in Ids, rows'[n].here PROVE rows'[n].serial <= created'
    <3>1. \/ rows[n].here /\ rows'[n].serial = rows[n].serial
          \/ rows'[n].serial = created + 1 /\ created' = created + 1
      BY <2>1 DEF InOrder, Aged
    <3> QED
      BY <1>1, <1>3, <1>6, <3>1 DEF SerialsAreOld
  <2>2. ASSUME NEW j \in jobs', j.kind = "update" PROVE j.was.serial <= created'
    BY <1>1, <1>3, <1>5, <2>2 DEF SerialsAreOld
  <2> QED
    BY <2>1, <2>2 DEF SerialsAreOld
<1>8. OwnStaysOwn'
  <2>1. SUFFICES ASSUME NEW j \in jobs', j.kind = "update", rows'[j.id].here,
                        rows'[j.id].serial = j.was.serial, j.was.grantor = Nobody
                 PROVE  rows'[j.id].grantor = Nobody
    BY DEF OwnStaysOwn
  <2>2. j \in jobs /\ j.id \in Ids /\ j.was.serial \in Nat /\ j.was.serial <= created
    BY <1>1, <1>5, <2>1 DEF SerialsAreOld
  <2>3. rows'[j.id].serial # created + 1
    BY <1>3, <2>1, <2>2
  <2> QED
    BY <1>1, <2>1, <2>2, <2>3 DEF InOrder, Aged, OwnStaysOwn
<1>9. PairsAreMutual' /\ WriteIsEarned'
  BY <1>1 DEF InOrder, PairsAreMutual, WriteIsEarned
<1> QED
  BY <1>2, <1>7, <1>8, <1>9 DEF IInv

\* A handler that begins to wait holds what it has just read.
LEMMA BeginKeeps ==
    ASSUME IInv, NEW j \in AddJob \cup BulkJob \cup UpdateJob, Begin(j),
           j.kind = "update" => rows[j.id].here /\ j.was = rows[j.id] /\ j.id \in Ids
    PROVE  IInv'
<1>1. TypeOK /\ SerialsAreOld /\ OwnStaysOwn /\ PairsAreMutual /\ WriteIsEarned
  BY DEF IInv
<1>2. jobs' = jobs \cup {j} /\ UNCHANGED <<roles, rows, created, raced>>
  BY DEF Begin
<1>3. TypeOK'
  BY <1>1, <1>2 DEF TypeOK
<1>4. SerialsAreOld'
  BY <1>1, <1>2 DEF SerialsAreOld
<1>5. OwnStaysOwn'
  BY <1>1, <1>2 DEF OwnStaysOwn
<1>6. PairsAreMutual' /\ WriteIsEarned'
  BY <1>1, <1>2 DEF PairsAreMutual, WriteIsEarned
<1> QED
  BY <1>3, <1>4, <1>5, <1>6 DEF IInv

\* Whatever an account asks for.
LEMMA AskKeeps ==
    ASSUME IInv, NEW p \in Names, Ask(p)
    PROVE  IInv'
<1>1. TypeOK
  BY DEF IInv
<1>2. roles[p] \in Roles /\ \A n \in Names : roles[n] \in Roles
  BY <1>1 DEF TypeOK
<1>3. ASSUME Change(rows'), InOrder PROVE IInv'
  BY <1>1, <1>3, InOrderKeeps DEF Change, TypeOK
<1>4. CASE \E ip \in Ips, type \in Types : p \in Holders /\ BeginAdd(p, ip, type)
  <2>1. PICK ip \in Ips, type \in Types : BeginAdd(p, ip, type)
    BY <1>4
  <2> DEFINE j == [kind |-> "add", by |-> p, role |-> roles[p], ip |-> ip, type |-> type]
  <2>2. j \in AddJob /\ j.kind # "update" /\ Begin(j)
    BY <1>2, <2>1 DEF AddJob, BeginAdd
  <2> HIDE DEF j
  <2> QED
    BY <2>2, BeginKeeps
<1>5. ASSUME NEW holder \in Holders, NEW ip \in Ips, NEW type \in Types, NEW level \in Levels,
             NEW overwrite \in BOOLEAN, BeginBulk(p, holder, ip, type, level, overwrite)
      PROVE  IInv'
  <2> DEFINE j == [kind |-> "bulk", by |-> p, role |-> roles[p], holder |-> holder,
                   holderRole |-> roles[holder], ip |-> ip, type |-> type,
                   level |-> level, overwrite |-> overwrite]
  <2>1. holder \in Names
    BY NamesAssumption
  <2>2. j \in BulkJob /\ j.kind # "update" /\ Begin(j)
    BY <1>2, <1>5, <2>1 DEF BulkJob, BeginBulk
  <2> HIDE DEF j
  <2> QED
    BY <2>2, BeginKeeps
<1>6. ASSUME NEW i \in OwnedBy(p), NEW type \in Types, BeginUpdate(p, i, type) PROVE IInv'
  <2> DEFINE j == [kind |-> "update", by |-> p, role |-> roles[p], id |-> i,
                   was |-> rows[i], type |-> type]
  <2>1. i \in Ids /\ rows[i].here /\ rows[i] \in Row
    BY <1>1, RowsHaveColumns DEF OwnedBy, TypeOK
  <2>2. j \in UpdateJob /\ j.id = i /\ j.was = rows[i] /\ Begin(j)
    BY <1>2, <1>6, <2>1 DEF UpdateJob, BeginUpdate
  <2> HIDE DEF j
  <2> QED
    BY <2>1, <2>2, BeginKeeps
<1>7. ASSUME NEW i \in OwnedBy(p), NEW type \in Types, UpdateType(p, i, type) PROVE IInv'
  <2>1. i \in Ids /\ rows[i].here
    BY DEF OwnedBy
  <2>2. rows' = Retyped(rows, i, type) /\ created' = created /\ Change(rows')
    BY <1>7 DEF UpdateType, Change
  <2> QED
    BY <1>1, <1>3, <2>1, <2>2, RetypedKeeps, SameHoldersInOrder DEF TypeOK
<1>8. CASE \E i \in OwnedBy(p) : VpcUnpair(p, i) \/ \E k \in OwnedBy(p) : VpcPair(p, i, k)
  <2>1. Change(rows')
    BY <1>8 DEF VpcUnpair, VpcPair, Change
  <2> QED
    BY <1>1, <1>3, <1>8, <2>1, PairsInOrder DEF TypeOK
<1>9. ASSUME NEW i \in Ids, DeleteSwitch(p, i) \/ DeleteGrantedSwitch(p, i) PROVE IInv'
  <2>1. rows' = Removed({i}) /\ created' = created /\ Change(rows')
    BY <1>9 DEF DeleteSwitch, DeleteGrantedSwitch, Change
  <2> QED
    BY <1>1, <1>3, <2>1, RemovedInOrder DEF TypeOK
<1>10. ASSUME NEW i \in Ids, NEW level \in Levels, UpdateGrantedSwitch(p, i, level) PROVE IInv'
  <2>1. Change(rows')
    BY <1>10 DEF UpdateGrantedSwitch, Change
  <2> QED
    BY <1>1, <1>3, <1>10, <2>1, UpdateGrantedInOrder DEF TypeOK
<1>11. OwnedBy(p) \subseteq Ids
  BY DEF OwnedBy
<1>12. p \in Holders => \A ip \in Ips, type \in Types :
         BeginBulk(p, p, ip, type, "write", FALSE) => IInv'
  BY <1>5 DEF Levels
<1> QED
  BY <1>4, <1>5, <1>6, <1>7, <1>8, <1>9, <1>10, <1>11, <1>12 DEF Ask

\* A handler whose test succeeded or failed.
LEMMA JobKeeps ==
    ASSUME IInv, NEW j \in jobs, Refused(j) \/ Finish(j)
    PROVE  IInv'
<1>1. TypeOK /\ OwnStaysOwn
  BY DEF IInv
<1>2. jobs' \subseteq jobs /\ roles' \in [Names -> Roles]
  BY <1>1 DEF TypeOK, Refused, Finish
<1>3. CASE Refused(j)
  <2>1. InOrder
    BY <1>1, <1>3 DEF Refused, TypeOK, InOrder, Aged
  <2> QED
    BY <1>1, <1>2, <1>3, <2>1, InOrderKeeps DEF Refused, TypeOK
<1>4. CASE j.kind = "update" /\ FinishUpdate(j)
  <2>1. j \in UpdateJob
    BY <1>1, <1>4 DEF TypeOK, AddJob, BulkJob
  <2>2. InOrder
    BY <1>1, <1>4, <2>1, FinishUpdateInOrder DEF TypeOK
  <2>3. (raced => raced') /\ raced' \in BOOLEAN
    BY <1>1, <1>4 DEF FinishUpdate, TypeOK
  <2> QED
    BY <1>2, <2>2, <2>3, InOrderKeeps
<1>5. CASE (j.kind = "add" \/ (j.kind = "bulk" /\ j.holder = j.by)) /\ FinishOwn(j) /\ raced' = raced
  <2>1. j.by \in Names /\ j.ip \in Ips /\ j.type \in Types
    BY <1>1, <1>5 DEF TypeOK, AddJob, BulkJob, UpdateJob
  <2>2. InOrder
    BY <1>1, <1>5, <2>1, FinishOwnInOrder DEF TypeOK
  <2> QED
    BY <1>1, <1>2, <1>5, <2>2, InOrderKeeps DEF TypeOK
<1>6. CASE j.kind = "bulk" /\ j.holder # j.by /\ FinishGrant(j) /\ raced' = raced
  <2>1. j \in BulkJob
    BY <1>1, <1>6 DEF TypeOK, AddJob, UpdateJob
  <2>2. InOrder
    BY <1>1, <1>6, <2>1, FinishGrantInOrder DEF TypeOK
  <2> QED
    BY <1>1, <1>2, <1>6, <2>2, InOrderKeeps DEF TypeOK
<1> QED
  BY <1>3, <1>4, <1>5, <1>6 DEF Finish

LEMMA AdministerKeeps ==
    ASSUME IInv, Administer
    PROVE  IInv'
<1>1. TypeOK
  BY DEF IInv
<1>2. ASSUME NEW n \in Names, NEW role \in {"user", "admin"}, UpdateRole(n, role) PROVE IInv'
  <2>1. roles' \in [Names -> Roles] /\ UNCHANGED <<rows, jobs, created, raced>>
    BY <1>1, <1>2 DEF UpdateRole, TypeOK, Roles
  <2>2. InOrder
    BY <1>1, <2>1 DEF TypeOK, InOrder, Aged
  <2> QED
    BY <1>1, <2>1, <2>2, InOrderKeeps DEF TypeOK
<1>3. ASSUME NEW n \in Names, DeleteUser(n) PROVE IInv'
  <2>1. /\ roles' \in [Names -> Roles] /\ UNCHANGED <<jobs, created, raced>>
        /\ rows' = Removed(OwnedBy(n)) /\ OwnedBy(n) \in SUBSET Ids
    BY <1>1, <1>3 DEF DeleteUser, TypeOK, Roles, OwnedBy
  <2>2. InOrder
    BY <1>1, <2>1, RemovedInOrder DEF TypeOK
  <2> QED
    BY <1>1, <2>1, <2>2, InOrderKeeps DEF TypeOK
<1> QED
  BY <1>2, <1>3 DEF Administer

LEMMA InitIInv ==
    ASSUME Init
    PROVE  IInv
<1>1. TypeOK
  BY OutsetAssumption, BoundsAssumption DEF Init, TypeOK
<1>2. SerialsAreOld /\ OwnStaysOwn
  BY OutsetAssumption DEF Init, SerialsAreOld, OwnStaysOwn
<1>3. PairsAreMutual /\ WriteIsEarned
  BY OutsetAssumption DEF Init, PairsAreMutual, WriteIsEarned
<1> QED
  BY <1>1, <1>2, <1>3 DEF IInv

LEMMA NextIInv ==
    ASSUME IInv, [Next]_vars
    PROVE  IInv'
<1>1. CASE Next
  BY <1>1, AskKeeps, AdministerKeeps, JobKeeps DEF Next
<1>2. CASE UNCHANGED vars
  <2>1. InOrder
    BY <1>2 DEF IInv, TypeOK, vars, InOrder, Aged
  <2> QED
    BY <1>2, <2>1, InOrderKeeps DEF IInv, TypeOK, vars
<1> QED
  BY <1>1, <1>2

\* The invariant holds in every state of every run of the inventory.
THEOREM Invariance == Spec => []IInv
<1>1. Init => IInv
  BY InitIInv
<1>2. IInv /\ [Next]_vars => IInv'
  BY NextIInv
<1> QED
  BY <1>1, <1>2, PTL DEF Spec

\* Every variable keeps to its type.
THEOREM TypeCorrect == Spec => []TypeOK
<1>1. IInv => TypeOK
  BY DEF IInv
<1> QED
  BY <1>1, Invariance, PTL

\* Until an update races, a peer names its peer back: a switch of the same holder,
\* also a Nexus, and one that is there.
THEOREM PairsStayMutual == Spec => []PairsAreMutual
<1>1. IInv => PairsAreMutual
  BY DEF IInv
<1> QED
  BY <1>1, Invariance, PTL

\* Until an update races, a switch is writable only for a holder with credentials of
\* their own or by its granter's last word, and no grant lies on a proven switch.
THEOREM WriteStaysEarned == Spec => []WriteIsEarned
<1>1. IInv => WriteIsEarned
  BY DEF IInv
<1> QED
  BY <1>1, Invariance, PTL
=============================================================================
