---------------------------- MODULE AccountsProofs ----------------------------
(***************************************************************************)
(* A super admin is always left (SomeSuperAdmin), for any number of names,   *)
(* tokens and requests.  The invariant adds what the rank comparison of      *)
(* _can_manage needs: every account has one of the three roles, and every    *)
(* token was issued under a name.                                            *)
(***************************************************************************)
EXTENDS Accounts, TLAPS

USE DEF Exists, IsSuper, IsAdmin

\* A row of the table has the columns that the argument is about.
Row(a) ==
    /\ "here" \in DOMAIN a
    /\ a.here => /\ "role" \in DOMAIN a
                 /\ a.role \in Roles

RowsTyped ==
    /\ DOMAIN accounts = Names
    /\ \A n \in Names : Row(accounts[n])

TokensNamed == \A t \in tokens : t.sub \in Names

IInv == RowsTyped /\ TokensNamed /\ SomeSuperAdmin

\* The tokens that have yet to be ended are those of an account that is there.
RevokingNamed == \A r \in revoking : r.of \in Names /\ accounts[r.of].here

-----------------------------------------------------------------------------
(* A step keeps the invariant when the table keeps its names and rows, a     *)
(* super admin of before the step is one after it or another one is, and     *)
(* new tokens are issued under a name.                                       *)

\* The row b of an account, changed in columns other than the role.
Alike(a, b) == b.here = a.here /\ (a.here => b.role = a.role) /\ (Row(a) => Row(b))

\* Clearing the failed attempts of an account leaves its role.
LEMMA ClearedAlike == ASSUME NEW a, Row(a), a.here PROVE Alike(a, Cleared(a))
  BY DEF Row, Alike, Cleared

\* Counting a failed attempt leaves the account's role.
LEMMA FailureAlike == ASSUME NEW a, Row(a), a.here PROVE Alike(a, RegisterFailure(a))
  BY DEF Row, Alike, RegisterFailure

\* A change of an account's authority leaves its role, but for that change.
LEMMA ChangedAlike == ASSUME NEW a, Row(a), a.here PROVE Alike(a, Changed(a))
  BY DEF Row, Alike, Changed

\* A kill before the tokens of an account were ended leaves its role.
LEMMA CutAlike == ASSUME NEW a, Row(a) PROVE Alike(a, [a EXCEPT !.cut = TRUE])
  BY DEF Row, Alike

\* Revoking the tokens of an account leaves its role.
LEMMA RevokedAlike == ASSUME NEW a, Row(a), a.here PROVE Alike(a, Revoked(a))
  BY DEF Row, Alike, Revoked

\* Marking an account present or absent leaves its role.
LEMMA PresentAlike ==
  ASSUME NEW a, Row(a), a.here, NEW p PROVE Alike(a, [a EXCEPT !.present = p])
  BY DEF Row, Alike

\* A new account has the role it was created with.
LEMMA NewRow ==
  ASSUME NEW role \in Roles, NEW serial
  PROVE  /\ Row(NewAccount(role, serial))
         /\ NewAccount(role, serial).here
         /\ NewAccount(role, serial).role = role
  BY DEF Row, NewAccount

\* The absence of an account is a row of the table too.
LEMMA NoRow == Row(NoAccount) /\ ~NoAccount.here
  BY DEF Row, NoAccount

\* Only a super admin may manage a super admin.
LEMMA SuperManagesSuper ==
  ASSUME NEW a, NEW n,
         accounts[a].role \in Roles, accounts[n].role = "super_admin",
         CanManage(a, n)
  PROVE  accounts[a].role = "super_admin"
  BY DEF CanManage, ROLE_RANK, Roles

\* Marking the actor present keeps the table, up to that mark.
LEMMA TouchedAlike ==
  ASSUME NEW as, DOMAIN as = Names, NEW m \in Names, Row(as[m]), as[m].here
  PROVE  /\ DOMAIN Touched(as, m) = Names
         /\ Alike(as[m], Touched(as, m)[m])
         /\ \A n \in Names \ {m} : Touched(as, m)[n] = as[n]
<1>1. Touched(as, m) = [as EXCEPT ![m] = [as[m] EXCEPT !.present = TRUE]]
  BY DEF Touched
<1>2. Alike(as[m], [as[m] EXCEPT !.present = TRUE])
  BY PresentAlike
<1> QED
  BY <1>1, <1>2

\* A table in which one row is replaced and the actor is marked present.
LEMMA ReplacedRow ==
  ASSUME IInv, NEW m \in Names, accounts[m].here, NEW n \in Names, NEW row, Row(row),
         n = m => Alike(accounts[m], row),
         accounts' = Touched([accounts EXCEPT ![n] = row], m)
  PROVE  /\ RowsTyped'
         /\ Alike(accounts[m], accounts'[m])
         /\ n # m => accounts'[n] = row
         /\ \A k \in Names \ {m, n} : accounts'[k] = accounts[k]
<1> DEFINE as == [accounts EXCEPT ![n] = row]
<1>1. /\ DOMAIN as = Names
      /\ as[n] = row
      /\ \A k \in Names \ {n} : as[k] = accounts[k]
  BY DEF IInv, RowsTyped
<1>2. Alike(accounts[m], as[m]) /\ Row(as[m]) /\ as[m].here
  BY <1>1 DEF IInv, RowsTyped, Alike
<1>3. /\ DOMAIN accounts' = Names
      /\ Alike(as[m], accounts'[m])
      /\ \A k \in Names \ {m} : accounts'[k] = as[k]
  <2>1. accounts' = Touched(as, m)
    OBVIOUS
  <2> HIDE DEF as
  <2>2. /\ DOMAIN Touched(as, m) = Names
        /\ Alike(as[m], Touched(as, m)[m])
        /\ \A k \in Names \ {m} : Touched(as, m)[k] = as[k]
    BY <1>1, <1>2, TouchedAlike
  <2> QED
    BY <2>1, <2>2
<1>4. Alike(accounts[m], accounts'[m]) /\ Row(accounts'[m])
  BY <1>2, <1>3 DEF Alike
<1>5. \A k \in Names : Row(accounts'[k])
  BY <1>1, <1>3, <1>4 DEF IInv, RowsTyped
<1> QED
  BY <1>1, <1>3, <1>4, <1>5 DEF RowsTyped

\* A step that leaves every role alone keeps the super admin there is.
LEMMA AlikeKeeps ==
  ASSUME IInv, TokensNamed', DOMAIN accounts' = Names,
         \A n \in Names : Alike(accounts[n], accounts'[n])
  PROVE  IInv'
<1>1. RowsTyped'
  BY DEF IInv, RowsTyped, Alike
<1>2. SomeSuperAdmin'
  BY DEF IInv, SomeSuperAdmin, Alike
<1> QED
  BY <1>1, <1>2 DEF IInv

\* A step of the actor m that replaces the row n keeps a super admin, when m
\* is one, or n was none, or n still is one.
LEMMA ReplacementKeeps ==
  ASSUME IInv, TokensNamed', NEW m \in Names, accounts[m].here,
         NEW n \in Names, NEW row, Row(row),
         accounts' = Touched([accounts EXCEPT ![n] = row], m),
         n = m => Alike(accounts[m], row),
         \/ n # m /\ accounts[n].here => accounts[m].role = "super_admin"
                                         \/ accounts[n].role # "super_admin"
         \/ Alike(accounts[n], row)
  PROVE  IInv'
<1>1. /\ RowsTyped'
      /\ Alike(accounts[m], accounts'[m])
      /\ n # m => accounts'[n] = row
      /\ \A k \in Names \ {m, n} : accounts'[k] = accounts[k]
  BY ReplacedRow
<1>2. PICK s \in Names : accounts[s].here /\ accounts[s].role = "super_admin"
  BY DEF IInv, SomeSuperAdmin
<1>3. SomeSuperAdmin'
  <2>1. CASE s = m
    BY <1>1, <1>2, <2>1 DEF SomeSuperAdmin, Alike
  <2>2. CASE s \notin {m, n}
    BY <1>1, <1>2, <2>2 DEF SomeSuperAdmin
  <2>3. CASE s = n /\ n # m /\ accounts[m].role = "super_admin"
    BY <1>1, <2>3 DEF SomeSuperAdmin, Alike
  <2>4. CASE s = n /\ n # m /\ Alike(accounts[n], row)
    BY <1>1, <1>2, <2>4 DEF SomeSuperAdmin, Alike
  <2> QED
    BY <1>2, <2>1, <2>2, <2>3, <2>4
<1> QED
  BY <1>1, <1>3 DEF IInv

-----------------------------------------------------------------------------
\* The table at the start has a super admin, the first account.
LEMMA InitIInv == Init => IInv
<1> SUFFICES ASSUME Init PROVE IInv
  OBVIOUS
<1>1. \A n \in Names : accounts[n] = IF Initial[n] = NoRole THEN NoAccount
                                     ELSE NewAccount(Initial[n], <<n, 0>>)
  BY DEF Init
<1>2. ASSUME NEW n \in Names PROVE Row(accounts[n])
  <2>1. CASE Initial[n] = NoRole
    BY <1>1, <2>1, NoRow
  <2>2. CASE Initial[n] # NoRole
    <3>1. Initial[n] \in Roles
      BY <2>2, NamesAssumption
    <3>2. Row(NewAccount(Initial[n], <<n, 0>>))
      BY <3>1, NewRow
    <3> QED
      BY <1>1, <2>2, <3>2
  <2> QED
    BY <2>1, <2>2
<1>3. accounts[Seed].here /\ accounts[Seed].role = "super_admin"
  <2>1. "super_admin" \in Roles
    BY DEF Roles
  <2>2. /\ NewAccount("super_admin", <<Seed, 0>>).here
        /\ NewAccount("super_admin", <<Seed, 0>>).role = "super_admin"
    BY <2>1, NewRow
  <2>3. accounts[Seed] = NewAccount("super_admin", <<Seed, 0>>)
    BY <1>1, <2>1, NamesAssumption
  <2> QED
    BY <2>2, <2>3
<1> QED
  BY <1>2, <1>3, NamesAssumption DEF Init, IInv, RowsTyped, TokensNamed, SomeSuperAdmin

\* Signing in, with either outcome, leaves every role alone.
LEMMA LoginKeeps ==
  ASSUME IInv, NEW n \in Names, LoginFails(n) \/ LoginSucceeds(n)
  PROVE  IInv'
<1>1. Row(accounts[n]) /\ accounts[n].here
  BY DEF IInv, RowsTyped, LoginFails, LoginSucceeds
<1>2. PICK row : accounts' = [accounts EXCEPT ![n] = row] /\ Alike(accounts[n], row)
  <2>1. CASE LoginFails(n)
    BY <1>1, <2>1, FailureAlike DEF LoginFails
  <2>2. CASE LoginSucceeds(n)
    <3>1. Alike(accounts[n], accounts[n])
      BY DEF Alike
    <3> QED
      BY <1>1, <2>2, <3>1, ClearedAlike DEF LoginSucceeds
  <2> QED
    BY <2>1, <2>2
<1>3. DOMAIN accounts' = Names /\ \A k \in Names : Alike(accounts[k], accounts'[k])
  BY <1>2 DEF IInv, RowsTyped, Alike
<1>4. TokensNamed'
  BY DEF IInv, TokensNamed, LoginFails, LoginSucceeds, TokenFor
<1> QED
  BY <1>3, <1>4, AlikeKeeps

\* A mark of presence set, or taken away, leaves every role alone.
LEMMA PresenceKeeps ==
  ASSUME IInv, TokensNamed', NEW n \in Names, accounts[n].here, NEW p,
         accounts' = [accounts EXCEPT ![n].present = p]
  PROVE  IInv'
<1>1. Alike(accounts[n], [accounts[n] EXCEPT !.present = p])
  BY PresentAlike DEF IInv, RowsTyped
<1>2. DOMAIN accounts' = Names /\ \A k \in Names : Alike(accounts[k], accounts'[k])
  BY <1>1 DEF IInv, RowsTyped, Alike
<1> QED
  BY <1>2, AlikeKeeps

\* The restart can only make the first account a super admin.
LEMMA RestartKeeps == ASSUME IInv, Restart PROVE IInv'
<1> DEFINE left == [n \in Names |->
                       IF \E r \in revoking : r.of = n
                       THEN [accounts[n] EXCEPT !.cut = TRUE] ELSE accounts[n]]
<1>1. PICK s \in Names : accounts[s].here /\ accounts[s].role = "super_admin"
  BY DEF IInv, SomeSuperAdmin
<1>2. accounts' = IF accounts[Seed].here
                  THEN [left EXCEPT ![Seed].role = "super_admin"]
                  ELSE left
  BY <1>1 DEF Restart
<1>3. Seed \in Names
  BY NamesAssumption
<1>4. ASSUME NEW k \in Names
      PROVE  Row(left[k]) /\ Alike(accounts[k], left[k])
  <2>1. Row(accounts[k])
    BY DEF IInv, RowsTyped
  <2>2. Alike(accounts[k], accounts[k])
    BY DEF Alike
  <2>3. Alike(accounts[k], [accounts[k] EXCEPT !.cut = TRUE])
    BY <2>1, CutAlike
  <2>4. Alike(accounts[k], left[k])
    BY <2>2, <2>3
  <2> QED
    BY <2>1, <2>4 DEF Alike
<1>5. DOMAIN left = Names
  OBVIOUS
<1> HIDE DEF left
<1>6. TokensNamed'
  BY DEF IInv, TokensNamed, Restart
<1>7. CASE accounts[Seed].here
  <2> DEFINE row == [left[Seed] EXCEPT !.role = "super_admin"]
  <2>1. Row(left[Seed]) /\ left[Seed].here
    BY <1>3, <1>4, <1>7 DEF Alike
  <2>2. Row(row) /\ row.here /\ row.role = "super_admin"
    BY <2>1 DEF Row, Roles
  <2>3. /\ DOMAIN accounts' = Names
        /\ accounts'[Seed] = row
        /\ \A k \in Names \ {Seed} : accounts'[k] = left[k]
    BY <1>2, <1>3, <1>5, <1>7
  <2> HIDE DEF row
  <2>4. RowsTyped' /\ SomeSuperAdmin'
    BY <1>3, <1>4, <2>2, <2>3 DEF RowsTyped, SomeSuperAdmin
  <2> QED
    BY <1>6, <2>4 DEF IInv
<1>8. CASE ~accounts[Seed].here
  BY <1>2, <1>4, <1>5, <1>6, <1>8, AlikeKeeps
<1> QED
  BY <1>7, <1>8

\* The end of the old tokens leaves every role alone.
LEMMA RevokeKeeps == ASSUME IInv, RevokingNamed, RevokeTokens PROVE IInv'
<1>1. PICK r \in revoking :
          /\ accounts' = [accounts EXCEPT ![r.of] = Revoked(accounts[r.of])]
          /\ tokens' = (tokens \ r.spent)
                          \cup {TokenFor(r.of, accounts[r.of]) : t \in r.spent}
  BY DEF RevokeTokens
<1>2. r.of \in Names /\ accounts[r.of].here /\ Row(accounts[r.of])
  BY DEF RevokingNamed, IInv, RowsTyped
<1>3. Alike(accounts[r.of], Revoked(accounts[r.of]))
  BY <1>2, RevokedAlike
<1>4. DOMAIN accounts' = Names /\ \A k \in Names : Alike(accounts[k], accounts'[k])
  BY <1>1, <1>3 DEF IInv, RowsTyped, Alike
<1>5. TokensNamed'
  BY <1>1, <1>2 DEF IInv, TokensNamed, TokenFor
<1> QED
  BY <1>4, <1>5, AlikeKeeps

\* A request about accounts keeps a super admin: the row it replaces is not
\* the actor's, or keeps its role, and only a super admin may touch one.
LEMMA AdministerKeeps ==
  ASSUME IInv, NEW t \in tokens, Accepted(t), Administer(t)
  PROVE  IInv'
<1> DEFINE m == t.sub
<1>1. m \in Names /\ accounts[m].here /\ Row(accounts[m]) /\ accounts[m].role \in Roles
  BY DEF IInv, TokensNamed, RowsTyped, Row, Accepted
<1>2. ASSUME NEW n \in Names, accounts[n].here
      PROVE  Row(accounts[n]) /\ accounts[n].role \in Roles
  BY <1>2 DEF IInv, RowsTyped, Row
<1>3. ASSUME NEW n \in Names, accounts[n].here, CanManage(m, n),
             accounts[n].role = "super_admin"
      PROVE  accounts[m].role = "super_admin"
  BY <1>1, <1>3, SuperManagesSuper
<1>4. ASSUME UNCHANGED tokens PROVE TokensNamed'
  BY <1>4 DEF IInv, TokensNamed
<1>5. ASSUME NEW n \in Names, UnlockUser(t, n) PROVE IInv'
  <2>1. Alike(accounts[n], Cleared(accounts[n])) /\ Row(Cleared(accounts[n]))
    BY <1>2, <1>5, ClearedAlike DEF UnlockUser, Alike
  <2>2. accounts' = Touched([accounts EXCEPT ![n] = Cleared(accounts[n])], m)
    BY <1>5 DEF UnlockUser
  <2> QED
    BY <1>1, <1>4, <1>5, <2>1, <2>2, ReplacementKeeps DEF UnlockUser
<1>6. ASSUME NEW n \in Names, NEW role \in Roles, CreateUser(t, n, role) PROVE IInv'
  <2>1. Row(NewAccount(role, <<n, ops + 1>>))
    BY NewRow
  <2>2. accounts' = Touched([accounts EXCEPT ![n] = NewAccount(role, <<n, ops + 1>>)], m)
    BY <1>6 DEF CreateUser
  <2>3. ~accounts[n].here /\ n # m
    BY <1>1, <1>6 DEF CreateUser
  <2> QED
    BY <1>1, <1>4, <1>6, <2>1, <2>2, <2>3, ReplacementKeeps DEF CreateUser
<1>7. ASSUME NEW n \in Names, NEW role \in Roles, UpdateRole(t, n, role) PROVE IInv'
  <2> DEFINE row == Changed([accounts[n] EXCEPT !.role = role])
  <2>1. Row([accounts[n] EXCEPT !.role = role]) /\ [accounts[n] EXCEPT !.role = role].here
    BY <1>2, <1>7 DEF UpdateRole, Row
  <2>2. Row(row)
    BY <2>1, ChangedAlike DEF Alike
  <2>3. accounts' = Touched([accounts EXCEPT ![n] = row], m)
    BY <1>7 DEF UpdateRole
  <2>4. n # m /\ (accounts[m].role = "super_admin" \/ accounts[n].role # "super_admin")
    BY <1>3, <1>7 DEF UpdateRole
  <2> HIDE DEF row
  <2> QED
    BY <1>1, <1>4, <1>7, <2>2, <2>3, <2>4, ReplacementKeeps DEF UpdateRole
<1>8. ASSUME NEW n \in Names, DeleteUser(t, n) PROVE IInv'
  <2>1. n # m /\ accounts[n].here /\ CanManage(m, n) /\ UNCHANGED tokens
    BY <1>8 DEF DeleteUser
  <2>2. accounts' = [Touched(accounts, m) EXCEPT ![n] = NoAccount]
    BY <1>8 DEF DeleteUser
  <2>3. /\ DOMAIN Touched(accounts, m) = Names
        /\ Alike(accounts[m], Touched(accounts, m)[m])
        /\ \A k \in Names \ {m} : Touched(accounts, m)[k] = accounts[k]
    BY <1>1, TouchedAlike DEF IInv, RowsTyped
  <2>4. /\ DOMAIN accounts' = Names
        /\ accounts'[n] = NoAccount
        /\ Alike(accounts[m], accounts'[m])
        /\ \A k \in Names \ {m, n} : accounts'[k] = accounts[k]
    BY <1>1, <2>1, <2>2, <2>3
  <2>5. RowsTyped'
    BY <1>1, <2>4, NoRow DEF IInv, RowsTyped, Alike
  <2>6. SomeSuperAdmin'
    BY <1>1, <1>3, <2>1, <2>4 DEF IInv, SomeSuperAdmin, Alike
  <2> QED
    BY <1>4, <2>1, <2>5, <2>6 DEF IInv
<1>9. ASSUME ChangePassword(t) PROVE IInv'
  <2>1. Alike(accounts[m], Changed(accounts[m])) /\ Row(Changed(accounts[m]))
    BY <1>1, ChangedAlike DEF Alike
  <2>2. accounts' = Touched([accounts EXCEPT ![m] = Changed(accounts[m])], m)
    BY <1>9 DEF ChangePassword
  <2> QED
    BY <1>1, <1>4, <1>9, <2>1, <2>2, ReplacementKeeps DEF ChangePassword
<1>10. ASSUME NEW n \in Names, ResetPassword(t, n) PROVE IInv'
  <2>1. Alike(accounts[n], Changed(accounts[n])) /\ Row(Changed(accounts[n]))
    BY <1>2, <1>10, ChangedAlike DEF ResetPassword, Alike
  <2>2. accounts' = Touched([accounts EXCEPT ![n] = Changed(accounts[n])], m)
    BY <1>10 DEF ResetPassword
  <2> QED
    BY <1>1, <1>4, <1>10, <2>1, <2>2, ReplacementKeeps DEF ResetPassword
<1>11. ASSUME NEW n \in Names, NEW new \in Names, UpdateUsername(t, n, new) PROVE IInv'
  <2> DEFINE touched == Touched(accounts, m)
  <2>1. /\ DOMAIN touched = Names
        /\ Alike(accounts[m], touched[m])
        /\ \A k \in Names \ {m} : touched[k] = accounts[k]
    BY <1>1, TouchedAlike DEF IInv, RowsTyped
  <2>2. /\ accounts' = [touched EXCEPT ![new] = touched[n], ![n] = NoAccount]
        /\ accounts[n].here /\ ~accounts[new].here
        /\ n # m => accounts[n].role # "super_admin"
        /\ accounts[m].role = "super_admin"
    BY <1>11 DEF UpdateUsername
  <2> HIDE DEF touched
  <2>3. new # n /\ new # m
    BY <1>1, <2>2
  <2>4. /\ DOMAIN accounts' = Names
        /\ accounts'[new] = touched[n]
        /\ accounts'[n] = NoAccount
        /\ \A k \in Names \ {n, new} : accounts'[k] = touched[k]
    BY <2>1, <2>2, <2>3
  <2>5. RowsTyped'
    BY <1>1, <2>1, <2>3, <2>4, NoRow DEF IInv, RowsTyped, Alike
  <2>6. SomeSuperAdmin'
    <3>1. touched[m].here /\ touched[m].role = "super_admin"
      BY <1>1, <2>1, <2>2 DEF Alike
    <3>2. CASE n = m
      BY <2>4, <3>1, <3>2 DEF SomeSuperAdmin
    <3>3. CASE n # m
      BY <1>1, <2>3, <2>4, <3>1, <3>3 DEF SomeSuperAdmin
    <3> QED
      BY <3>2, <3>3
  <2>7. TokensNamed'
    BY <1>11 DEF UpdateUsername, IInv, TokensNamed, TokenFor
  <2> QED
    BY <2>5, <2>6, <2>7 DEF IInv
<1> QED
  BY <1>5, <1>6, <1>7, <1>8, <1>9, <1>10, <1>11 DEF Administer

\* A change whose old tokens are still to be ended is one of an account that
\* is there: nothing else happens in between but the passing of time.
LEMMA NamedKeeps == IInv /\ RevokingNamed /\ [Next]_vars => RevokingNamed'
<1> SUFFICES ASSUME IInv, RevokingNamed, [Next]_vars PROVE RevokingNamed'
  OBVIOUS
<1>1. CASE revoking' = {}
  BY <1>1 DEF RevokingNamed
<1>2. ASSUME NEW m \in Names, accounts[m].here, NEW n \in Names, NEW row,
             Row(row), row.here, n = m => Alike(accounts[m], row),
             accounts' = Touched([accounts EXCEPT ![n] = row], m),
             NEW spent, revoking' = {[of |-> n, spent |-> spent]}
      PROVE  RevokingNamed'
  <2>1. Alike(accounts[m], accounts'[m]) /\ (n # m => accounts'[n] = row)
    <3>1. /\ Row(row) /\ accounts[m].here /\ (n = m => Alike(accounts[m], row))
          /\ accounts' = Touched([accounts EXCEPT ![n] = row], m)
      BY <1>2
    <3> QED
      BY <3>1, ReplacedRow
  <2>2. accounts'[n].here
    BY <1>2, <2>1 DEF Alike
  <2> QED
    BY <1>2, <2>2 DEF RevokingNamed
<1>3. ASSUME NEW t \in tokens, Accepted(t), NEW n \in Names, NEW role \in Roles,
             UpdateRole(t, n, role)
      PROVE  RevokingNamed'
  <2> DEFINE row == Changed([accounts[n] EXCEPT !.role = role])
  <2>1. /\ accounts[n].here /\ n # t.sub /\ t.sub \in Names /\ accounts[t.sub].here
        /\ accounts' = Touched([accounts EXCEPT ![n] = row], t.sub)
        /\ revoking' = {[of |-> n, spent |-> {}]}
    BY <1>3 DEF UpdateRole, IInv, TokensNamed, Accepted
  <2>2. Row([accounts[n] EXCEPT !.role = role]) /\ [accounts[n] EXCEPT !.role = role].here
    BY <2>1 DEF IInv, RowsTyped, Row
  <2>3. Row(row) /\ row.here
    BY <2>2, ChangedAlike DEF Alike
  <2> HIDE DEF row
  <2> QED
    BY <1>2, <1>3, <2>1, <2>3
<1>4. ASSUME NEW n \in Names, accounts[n].here
      PROVE  /\ Row(Changed(accounts[n])) /\ Changed(accounts[n]).here
             /\ Alike(accounts[n], Changed(accounts[n]))
  <2>1. Row(accounts[n])
    BY DEF IInv, RowsTyped
  <2>2. Alike(accounts[n], Changed(accounts[n]))
    BY <1>4, <2>1, ChangedAlike
  <2> QED
    BY <1>4, <2>1, <2>2 DEF Alike
<1>5. ASSUME NEW t \in tokens, Accepted(t), NEW n \in Names, ResetPassword(t, n)
      PROVE  RevokingNamed'
  <2>1. /\ accounts[n].here /\ t.sub \in Names /\ accounts[t.sub].here
        /\ accounts' = Touched([accounts EXCEPT ![n] = Changed(accounts[n])], t.sub)
        /\ revoking' = {[of |-> n, spent |-> {}]}
    BY <1>5 DEF ResetPassword, IInv, TokensNamed, Accepted
  <2> QED
    BY <1>2, <1>4, <1>5, <2>1
<1>6. ASSUME NEW t \in tokens, Accepted(t), ChangePassword(t) PROVE RevokingNamed'
  <2>1. /\ t.sub \in Names /\ accounts[t.sub].here
        /\ accounts' = Touched([accounts EXCEPT ![t.sub] = Changed(accounts[t.sub])], t.sub)
        /\ revoking' = {[of |-> t.sub, spent |-> {t}]}
    BY <1>6 DEF ChangePassword, IInv, TokensNamed, Accepted
  <2> QED
    BY <1>2, <1>4, <1>6, <2>1
<1>7. ASSUME revoking = {}, NEW t \in tokens, Accepted(t), Administer(t)
      PROVE  RevokingNamed'
  <2>1. ASSUME UNCHANGED revoking PROVE RevokingNamed'
    BY <1>1, <1>7, <2>1
  <2> QED
    BY <1>3, <1>5, <1>6, <1>7, <2>1
       DEF Administer, UnlockUser, CreateUser, UpdateUsername, DeleteUser
<1>8. ASSUME revoking = {}, UNCHANGED revoking PROVE RevokingNamed'
  BY <1>1, <1>8
<1>9. ASSUME NEW n \in Names, GoesIdle(n) PROVE RevokingNamed'
  <2>1. Alike(accounts[n], [accounts[n] EXCEPT !.present = FALSE])
    BY <1>9, PresentAlike DEF GoesIdle, IInv, RowsTyped
  <2>2. \A k \in Names : accounts'[k].here = accounts[k].here
    BY <1>9, <2>1 DEF GoesIdle, IInv, RowsTyped, Alike
  <2> QED
    BY <1>9, <2>2 DEF RevokingNamed, GoesIdle
<1>10. CASE Restart \/ RevokeTokens
  BY <1>1, <1>10 DEF Restart, RevokeTokens
<1>11. CASE Tick \/ UNCHANGED vars
  BY <1>11 DEF Tick, vars, RevokingNamed
<1> QED
  BY <1>7, <1>8, <1>9, <1>10, <1>11
     DEF Next, LoginFails, LoginSucceeds, Request, Logout

\* Every step keeps the invariant.
LEMMA NextKeeps == IInv /\ RevokingNamed /\ [Next]_vars => IInv'
<1> SUFFICES ASSUME IInv, RevokingNamed, [Next]_vars PROVE IInv'
  OBVIOUS
<1>1. ASSUME NEW n \in Guessed, n \in Names, LoginFails(n) PROVE IInv'
  BY <1>1, LoginKeeps
<1>2. ASSUME NEW n \in Names, LoginSucceeds(n) PROVE IInv'
  BY <1>2, LoginKeeps
<1>3. ASSUME NEW t \in tokens, Accepted(t), Administer(t) PROVE IInv'
  BY <1>3, AdministerKeeps
<1>4. ASSUME NEW t \in tokens, Accepted(t), Request(t) \/ Logout(t) PROVE IInv'
  <2>1. t.sub \in Names /\ accounts[t.sub].here
    BY <1>4 DEF IInv, TokensNamed, Accepted
  <2>2. TokensNamed'
    BY <1>4 DEF IInv, TokensNamed, Request, Logout
  <2>3. PICK p : accounts' = [accounts EXCEPT ![t.sub].present = p]
    BY <1>4 DEF Request, Logout, Touched
  <2> QED
    BY <2>1, <2>2, <2>3, PresenceKeeps
<1>5. ASSUME NEW n \in Names, GoesIdle(n) PROVE IInv'
  <2>1. TokensNamed'
    BY <1>5 DEF IInv, TokensNamed, GoesIdle
  <2> QED
    BY <1>5, <2>1, PresenceKeeps DEF GoesIdle
<1>6. CASE Restart
  BY <1>6, RestartKeeps
<1>7. CASE RevokeTokens
  BY <1>7, RevokeKeeps
<1>8. CASE Tick \/ UNCHANGED vars
  BY <1>8 DEF Tick, vars, IInv, RowsTyped, TokensNamed, SomeSuperAdmin
<1> QED
  BY <1>1, <1>2, <1>3, <1>4, <1>5, <1>6, <1>7, <1>8, GuessedAssumption DEF Next

\* The invariant holds in every state of every behaviour.
THEOREM Invariance == Spec => [](IInv /\ RevokingNamed)
<1>1. Init => RevokingNamed
  BY DEF Init, RevokingNamed
<1> QED
  BY <1>1, InitIInv, NextKeeps, NamedKeeps, PTL DEF Spec

\* update_role, delete_user and the others never leave the application
\* without a super admin, however many requests and restarts interleave.
THEOREM SuperAdminStays == Spec => []SomeSuperAdmin
<1>1. IInv => SomeSuperAdmin
  BY DEF IInv
<1> QED
  BY Invariance, <1>1, PTL

-----------------------------------------------------------------------------
(***************************************************************************)
(* Tokens follow the authority of their account (TokensFollowAuthority) and  *)
(* the lock bounds the wrong passwords an account answers                    *)
(* (GuessesAreBounded), for any number of names, tokens, requests and ticks. *)
(*                                                                          *)
(* What the invariant adds for the first: no two accounts share a serial,    *)
(* also after renames, and for every token and the account of its serial,    *)
(* whatever it is called now, a token of the epoch at which tokens were last *)
(* ended, or of a later one, is not older than validFrom and one of an       *)
(* earlier epoch is not younger; and while a change has yet to end tokens,   *)
(* its account has none of the new epoch.  For the second:                   *)
(* the answered guesses of the present window are the last `attempts' ones,  *)
(* and all but MaxAttempts - 1 of those before it are a Window older than    *)
(* its first.                                                               *)
(***************************************************************************)

Moments == {Never} \cup Nat

AccountRow ==
    [here         : {TRUE},   role        : Roles,
     validFrom    : Moments,  attempts    : Nat,
     firstFailed  : Moments,  lockedUntil : Moments,
     present      : BOOLEAN,  serial      : Names \X Nat,
     epoch        : Nat,      ended       : Nat,
     cut          : BOOLEAN,  guesses     : Seq(Nat)]

Token == [sub : Names, iat : Nat, serial : Names \X Nat, epoch : Nat]

Typed ==
    /\ accounts \in [Names -> AccountRow \cup {NoAccount}]
    /\ tokens \subseteq Token
    /\ clock \in Nat
    /\ ops \in Nat

\* The guesses of an account, in the order of their times.
InOrder(a, now) ==
    /\ \A i \in 1 .. Len(a.guesses) : a.guesses[i] <= now
    /\ \A i, j \in 1 .. Len(a.guesses) : i <= j => a.guesses[i] <= a.guesses[j]

\* The last `attempts' of them are those of the window that firstFailed opened.
WindowIsLast(a) ==
    /\ a.attempts <= Len(a.guesses)
    /\ a.attempts = 0 => Len(a.guesses) = 0 /\ a.firstFailed = Never
    /\ a.attempts > 0 => a.firstFailed = a.guesses[Len(a.guesses) - a.attempts + 1]

\* All but MaxAttempts - 1 of those before that window are a Window older.
EarlierAreOld(a) ==
    \A i \in 1 .. Len(a.guesses) :
        i <= Len(a.guesses) - a.attempts - MaxAttempts + 2
            => a.guesses[i] + Window <= a.firstFailed

\* A window that reached its limit locks the account from its last guess on.
LockFollows(a) ==
    a.attempts >= MaxAttempts
        => a.guesses[Len(a.guesses)] + LockFor <= a.lockedUntil

\* At most 2 * MaxAttempts - 2 of the guesses are within a Window.
Bounded(a) ==
    \A i \in 1 .. Len(a.guesses) - (2 * MaxAttempts - 2) :
        a.guesses[i + (2 * MaxAttempts - 2)] - a.guesses[i] >= Window

Counted(a, now) ==
    /\ InOrder(a, now)
    /\ WindowIsLast(a)
    /\ EarlierAreOld(a)
    /\ LockFollows(a)
    /\ Bounded(a)

\* What holds of a row of the table at a time, after a number of requests.
Sound(a, now, k) ==
    /\ a.validFrom <= now
    /\ a.ended <= a.epoch
    /\ a.serial[2] <= k
    /\ Counted(a, now)

Sounds == \A n \in Names : accounts[n].here => Sound(accounts[n], clock, ops)

SerialsDiffer ==
    \A n, m \in Names :
        accounts[n].here /\ accounts[m].here /\ n # m
            => accounts[n].serial # accounts[m].serial

TokensDated == \A t \in tokens : t.iat <= clock /\ t.serial[2] <= ops

\* The token t and the account a that it was issued to.
Follows(t, a) ==
    /\ t.epoch <= a.epoch
    /\ t.epoch >= a.ended => a.validFrom = Never \/ t.iat >= a.validFrom
    /\ t.epoch < a.ended => a.validFrom # Never /\ t.iat <= a.validFrom

TokensFollow ==
    \A t \in tokens : \A n \in Names :
        accounts[n].here /\ accounts[n].serial = t.serial => Follows(t, accounts[n])

SInv == Typed /\ Sounds /\ SerialsDiffer /\ TokensDated /\ TokensFollow

-----------------------------------------------------------------------------
(* What each change of a row keeps. *)

\* The authority of the row is as it was.
SameAuthority(a, b) ==
    /\ b.serial = a.serial /\ b.epoch = a.epoch
    /\ b.ended = a.ended /\ b.validFrom = a.validFrom

\* The row b is the account of the row a, at a later moment: its authority is
\* as it was, or has changed, or the tokens of before that change are ended.
Descends(a, b) ==
    /\ b.serial = a.serial
    /\ \/ /\ b.epoch \in {a.epoch, a.epoch + 1}
          /\ b.ended = a.ended /\ b.validFrom = a.validFrom
       \/ /\ b.epoch = a.epoch /\ b.ended = a.epoch /\ b.validFrom = clock
          /\ \A t \in tokens : t.serial = a.serial => t.epoch < a.epoch

\* Whole seconds pass in the order of the ticks.
LEMMA SecondsInOrder ==
  ASSUME NEW s \in Nat, NEW t \in Nat, s <= t PROVE Second(s) <= Second(t)
  BY LockAssumption DEF Second

\* Clearing the count leaves nothing to bound.
LEMMA ClearedSound ==
  ASSUME NEW now \in Nat, NEW k \in Nat, NEW a \in AccountRow, Sound(a, now, k)
  PROVE  /\ Cleared(a) \in AccountRow
         /\ Sound(Cleared(a), now, k)
         /\ SameAuthority(a, Cleared(a))
<1>1. /\ Cleared(a).attempts = 0 /\ Cleared(a).firstFailed = Never
      /\ Cleared(a).guesses = <<>> /\ SameAuthority(a, Cleared(a))
  BY DEF Cleared, AccountRow, SameAuthority
<1>2. Cleared(a) \in AccountRow
  <2>1. <<>> \in Seq(Nat) /\ 0 \in Nat /\ Never \in Moments
    BY DEF Moments
  <2> QED
    BY <2>1 DEF Cleared, AccountRow
<1>3. Counted(Cleared(a), now)
  BY <1>1, LockAssumption
     DEF Counted, InOrder, WindowIsLast, EarlierAreOld, LockFollows, Bounded
<1> QED
  BY <1>1, <1>2, <1>3 DEF Sound, SameAuthority

\* A new account has answered nothing.
LEMMA NewSound ==
  ASSUME NEW now \in Nat, NEW k \in Nat, NEW role \in Roles, NEW n \in Names
  PROVE  /\ NewAccount(role, <<n, k>>) \in AccountRow
         /\ NewAccount(role, <<n, k>>).serial = <<n, k>>
         /\ Sound(NewAccount(role, <<n, k>>), now, k)
<1> DEFINE a == NewAccount(role, <<n, k>>)
<1>1. /\ a.attempts = 0 /\ a.firstFailed = Never /\ a.guesses = <<>>
      /\ a.validFrom = Never /\ a.serial = <<n, k>>
      /\ a.ended = 0 /\ a.epoch = 0
  BY DEF NewAccount
<1>2. a \in AccountRow
  BY DEF NewAccount, AccountRow, Moments
<1> HIDE DEF a
<1>3. Counted(a, now)
  BY <1>1, LockAssumption
     DEF Counted, InOrder, WindowIsLast, EarlierAreOld, LockFollows, Bounded
<1>4. Sound(a, now, k)
  BY <1>1, <1>3 DEF Sound, Never
<1> QED
  BY <1>1, <1>2, <1>4 DEF a

\* A row that differs in columns the lock does not read is as sound.
LEMMA OtherColumns ==
  ASSUME NEW now \in Nat, NEW k \in Nat, NEW a, NEW b,
         Counted(a, now),
         b.guesses = a.guesses, b.attempts = a.attempts,
         b.firstFailed = a.firstFailed, b.lockedUntil = a.lockedUntil
  PROVE  Counted(b, now)
  BY DEF Counted, InOrder, WindowIsLast, EarlierAreOld, LockFollows, Bounded

\* Marking an account present or absent.
LEMMA PresentSound ==
  ASSUME NEW now \in Nat, NEW k \in Nat, NEW a \in AccountRow, Sound(a, now, k),
         NEW p \in BOOLEAN
  PROVE  /\ [a EXCEPT !.present = p] \in AccountRow
         /\ Sound([a EXCEPT !.present = p], now, k)
         /\ SameAuthority(a, [a EXCEPT !.present = p])
<1> DEFINE b == [a EXCEPT !.present = p]
<1>1. /\ b \in AccountRow /\ SameAuthority(a, b)
      /\ b.guesses = a.guesses /\ b.attempts = a.attempts
      /\ b.firstFailed = a.firstFailed /\ b.lockedUntil = a.lockedUntil
  BY DEF AccountRow, SameAuthority
<1> HIDE DEF b
<1>2. Sound(b, now, k)
  BY <1>1, OtherColumns DEF Sound, SameAuthority
<1> QED
  BY <1>1, <1>2 DEF b

\* Giving an account another role.
LEMMA RoleSound ==
  ASSUME NEW now \in Nat, NEW k \in Nat, NEW a \in AccountRow, Sound(a, now, k),
         NEW role \in Roles
  PROVE  /\ [a EXCEPT !.role = role] \in AccountRow
         /\ Sound([a EXCEPT !.role = role], now, k)
         /\ SameAuthority(a, [a EXCEPT !.role = role])
<1> DEFINE b == [a EXCEPT !.role = role]
<1>1. /\ b \in AccountRow /\ SameAuthority(a, b)
      /\ b.guesses = a.guesses /\ b.attempts = a.attempts
      /\ b.firstFailed = a.firstFailed /\ b.lockedUntil = a.lockedUntil
  BY DEF AccountRow, SameAuthority
<1> HIDE DEF b
<1>2. Sound(b, now, k)
  BY <1>1, OtherColumns DEF Sound, SameAuthority
<1> QED
  BY <1>1, <1>2 DEF b

\* A kill before the tokens of an account were ended.
LEMMA CutSound ==
  ASSUME NEW now \in Nat, NEW k \in Nat, NEW a \in AccountRow, Sound(a, now, k)
  PROVE  /\ [a EXCEPT !.cut = TRUE] \in AccountRow
         /\ Sound([a EXCEPT !.cut = TRUE], now, k)
         /\ SameAuthority(a, [a EXCEPT !.cut = TRUE])
<1> DEFINE b == [a EXCEPT !.cut = TRUE]
<1>1. /\ b \in AccountRow /\ SameAuthority(a, b)
      /\ b.guesses = a.guesses /\ b.attempts = a.attempts
      /\ b.firstFailed = a.firstFailed /\ b.lockedUntil = a.lockedUntil
  BY DEF AccountRow, SameAuthority
<1> HIDE DEF b
<1>2. Sound(b, now, k)
  BY <1>1, OtherColumns DEF Sound, SameAuthority
<1> QED
  BY <1>1, <1>2 DEF b

\* Changing the authority of an account.
LEMMA ChangedSound ==
  ASSUME NEW now \in Nat, NEW k \in Nat, NEW a \in AccountRow, Sound(a, now, k)
  PROVE  /\ Changed(a) \in AccountRow
         /\ Sound(Changed(a), now, k)
         /\ Descends(a, Changed(a))
         /\ Changed(a).epoch = a.epoch + 1
<1> DEFINE b == Changed(a)
<1>1. /\ b \in AccountRow
      /\ b.serial = a.serial /\ b.epoch = a.epoch + 1 /\ b.validFrom = a.validFrom
      /\ b.ended = a.ended /\ b.guesses = a.guesses /\ b.attempts = a.attempts
      /\ b.firstFailed = a.firstFailed /\ b.lockedUntil = a.lockedUntil
  <2>1. a.epoch + 1 \in Nat
    BY DEF AccountRow
  <2>2. b \in AccountRow
    BY <2>1 DEF AccountRow, Changed
  <2> QED
    BY <2>2 DEF AccountRow, Changed
<1>2. a.epoch \in Nat /\ a.ended \in Nat
  BY DEF AccountRow
<1> HIDE DEF b
<1>3. Sound(b, now, k)
  BY <1>1, <1>2, OtherColumns DEF Sound
<1> QED
  BY <1>1, <1>3 DEF b, Descends

\* Ending the tokens of an account.
LEMMA RevokedSound ==
  ASSUME clock \in Nat, NEW k \in Nat, NEW a \in AccountRow, Sound(a, clock, k),
         \A t \in tokens : t.serial = a.serial => t.epoch < a.epoch
  PROVE  /\ Revoked(a) \in AccountRow
         /\ Sound(Revoked(a), clock, k)
         /\ Descends(a, Revoked(a))
         /\ Revoked(a).serial = a.serial /\ Revoked(a).epoch = a.epoch
<1> DEFINE b == Revoked(a)
<1>1. /\ b \in AccountRow
      /\ b.serial = a.serial /\ b.epoch = a.epoch /\ b.validFrom = clock
      /\ b.ended = a.epoch /\ b.guesses = a.guesses /\ b.attempts = a.attempts
      /\ b.firstFailed = a.firstFailed /\ b.lockedUntil = a.lockedUntil
  <2>1. a.epoch \in Nat /\ clock \in Moments
    BY DEF AccountRow, Moments
  <2>2. b \in AccountRow
    BY <2>1 DEF AccountRow, Revoked
  <2> QED
    BY <2>2 DEF AccountRow, Revoked
<1>2. a.epoch \in Nat
  BY DEF AccountRow
<1> HIDE DEF b
<1>3. Sound(b, clock, k)
  BY <1>1, <1>2, OtherColumns DEF Sound
<1> QED
  BY <1>1, <1>3 DEF b, Descends

\* Later, and after more requests, the row is as sound.
LEMMA LaterSound ==
  ASSUME NEW now \in Nat, NEW k \in Nat, NEW later \in Nat, NEW more \in Nat,
         now <= later, k <= more, NEW a \in AccountRow, Sound(a, now, k)
  PROVE  Sound(a, later, more)
<1>1. a.validFrom \in Moments /\ a.serial[2] \in Nat /\ a.guesses \in Seq(Nat)
  BY DEF AccountRow
<1>2. InOrder(a, later)
  <2>1. InOrder(a, now)
    BY DEF Sound, Counted
  <2>2. \A i \in 1 .. Len(a.guesses) : a.guesses[i] \in Nat
    BY <1>1
  <2> QED
    BY <2>1, <2>2 DEF InOrder
<1>3. a.validFrom <= later /\ a.serial[2] <= more
  BY <1>1 DEF Sound, Moments, Never
<1> QED
  BY <1>2, <1>3 DEF Sound, Counted

-----------------------------------------------------------------------------
(* A wrong password that an unlocked account answers. *)

\* The columns that register_failure leaves, and those that it sets.
LEMMA FailureColumns ==
  ASSUME clock \in Nat, NEW a \in AccountRow
  PROVE  LET b == RegisterFailure(a)
         IN /\ b \in AccountRow
            /\ SameAuthority(a, b)
            /\ b.attempts = Attempts(a)
            /\ b.guesses = Append(a.guesses, clock)
            /\ WindowIsOver(a) => b.firstFailed = clock
            /\ ~WindowIsOver(a) => b.firstFailed = a.firstFailed
            /\ Attempts(a) >= MaxAttempts => b.lockedUntil = clock + LockFor
<1> DEFINE b == RegisterFailure(a)
<1>1. Attempts(a) \in Nat
  BY DEF Attempts, AccountRow
<1>2. clock \in Moments /\ clock + LockFor \in Moments
  BY LockAssumption DEF Moments
<1>3. Append(a.guesses, clock) \in Seq(Nat)
  BY DEF AccountRow
<1>4. b \in AccountRow
  BY <1>1, <1>2, <1>3 DEF AccountRow, RegisterFailure
<1>5. SameAuthority(a, b)
  BY DEF AccountRow, RegisterFailure, SameAuthority
<1>6. /\ b.attempts = Attempts(a)
      /\ b.guesses = Append(a.guesses, clock)
      /\ WindowIsOver(a) => b.firstFailed = clock
      /\ ~WindowIsOver(a) => b.firstFailed = a.firstFailed
      /\ Attempts(a) >= MaxAttempts => b.lockedUntil = clock + LockFor
  BY DEF AccountRow, RegisterFailure
<1> HIDE DEF b
<1> QED
  BY <1>4, <1>5, <1>6 DEF b

\* The count that bounds the guesses goes on holding.
LEMMA FailureCounted ==
  ASSUME clock \in Nat, NEW a \in AccountRow, Counted(a, clock), ~IsLocked(a),
         NEW b \in AccountRow,
         b.attempts = Attempts(a),
         b.guesses = Append(a.guesses, clock),
         WindowIsOver(a) => b.firstFailed = clock,
         ~WindowIsOver(a) => b.firstFailed = a.firstFailed,
         Attempts(a) >= MaxAttempts => b.lockedUntil = clock + LockFor
  PROVE  Counted(b, clock)
<1> DEFINE g == a.guesses
           h == b.guesses
           n == Len(a.guesses)
           most == 2 * MaxAttempts - 2
<1>1. /\ g \in Seq(Nat) /\ n \in Nat
      /\ a.attempts \in Nat /\ a.lockedUntil \in Int /\ a.firstFailed \in Int
      /\ a.firstFailed = Never \/ a.firstFailed \in Nat
  BY DEF AccountRow, Moments, Never
<1>2. /\ Len(h) = n + 1
      /\ h[n + 1] = clock
      /\ \A i \in 1 .. n : h[i] = g[i] /\ g[i] \in Nat /\ g[i] <= clock
  BY <1>1 DEF Counted, InOrder
<1>3. a.lockedUntil <= clock
  BY <1>1 DEF IsLocked
<1>4. \A i, j \in 1 .. n : i <= j => g[i] <= g[j]
  BY DEF Counted, InOrder
<1>5. /\ a.attempts <= n
      /\ a.attempts = 0 => n = 0 /\ a.firstFailed = Never
      /\ a.attempts > 0 => /\ n - a.attempts + 1 \in 1 .. n
                           /\ a.firstFailed = g[n - a.attempts + 1]
                           /\ a.firstFailed \in Nat
  <2>1. a.attempts > 0 => n - a.attempts + 1 \in 1 .. n
    BY <1>1 DEF Counted, WindowIsLast
  <2> QED
    BY <1>1, <1>2, <2>1 DEF Counted, WindowIsLast
<1>6. /\ MaxAttempts \in Nat /\ MaxAttempts >= 2
      /\ Window \in Nat /\ LockFor \in Nat /\ Window <= LockFor
  BY LockAssumption
\* The guesses before the present window are old, and all of them after a lock.
<1>7. \A i \in 1 .. n : i <= n - a.attempts - MaxAttempts + 2
                          => g[i] + Window <= a.firstFailed
  BY DEF Counted, EarlierAreOld
<1>8. ASSUME a.attempts >= MaxAttempts, NEW i \in 1 .. n
      PROVE  g[i] + Window <= clock
  <2>1. n \in 1 .. n /\ g[n] \in Nat
    BY <1>1, <1>2, <1>8
  <2>2. g[i] <= g[n] /\ g[i] \in Nat
    BY <1>2, <1>4, <2>1
  <2>3. g[n] + LockFor <= a.lockedUntil
    BY <1>8 DEF Counted, LockFollows
  <2> QED
    BY <1>1, <1>3, <1>6, <2>1, <2>2, <2>3
<1>12. most \in Nat /\ most >= MaxAttempts /\ most = MaxAttempts + MaxAttempts - 2
  BY <1>6
<1>13. Bounded(b) <=> \A i \in 1 .. Len(h) - most : h[i + most] - h[i] >= Window
  BY DEF Bounded
<1>14. \A i \in 1 .. n - most : g[i + most] - g[i] >= Window
  BY DEF Counted, Bounded
<1> HIDE DEF g, h, n, most
<1>15. \A j \in Int : j <= n + 1 => j = n + 1 \/ j <= n
  BY <1>1
<1>9. InOrder(b, clock)
  <2>1. \A i \in 1 .. Len(h) : h[i] <= clock
    BY <1>1, <1>2
  <2>2. \A i, j \in 1 .. Len(h) : i <= j => h[i] <= h[j]
    BY <1>1, <1>2, <1>4
  <2> QED
    BY <2>1, <2>2 DEF InOrder, h
<1>10. CASE WindowIsOver(a)
  <2>1. b.attempts = 1 /\ b.firstFailed = clock
    BY <1>10 DEF Attempts
  <2>2. WindowIsLast(b)
    BY <1>1, <1>2, <2>1 DEF WindowIsLast, h
  <2>3. ASSUME NEW i \in 1 .. n, i <= n - MaxAttempts + 2
        PROVE  g[i] + Window <= clock
    <3>1. CASE a.attempts >= MaxAttempts
      BY <1>8, <3>1
    <3>2. CASE a.attempts < MaxAttempts
      <4>1. a.attempts > 0 /\ clock - a.firstFailed > Window
        BY <1>1, <1>5, <1>10 DEF WindowIsOver, Never
      <4>2. n - a.attempts + 1 \in 1 .. n
        BY <1>5, <4>1
      <4>4. i <= n - a.attempts + 1
        BY <1>1, <1>6, <2>3, <3>2
      <4>3. g[i] <= a.firstFailed
        BY <1>4, <1>5, <4>1, <4>2, <4>4
      <4> QED
        BY <1>1, <1>2, <1>6, <4>1, <4>3
    <3> QED
      BY <1>1, <1>6, <3>1, <3>2
  <2>4. EarlierAreOld(b)
    <3>1. ASSUME NEW i \in 1 .. Len(h), i <= Len(h) - 1 - MaxAttempts + 2
          PROVE  h[i] + Window <= clock
      <4>1. i \in 1 .. n /\ i <= n - MaxAttempts + 2
        BY <1>1, <1>2, <1>6, <3>1
      <4> QED
        BY <1>2, <2>3, <4>1
    <3> QED
      BY <2>1, <3>1 DEF EarlierAreOld, h
  <2>5. LockFollows(b)
    BY <1>6, <2>1 DEF LockFollows
  <2>6. Bounded(b)
    <3>1. ASSUME NEW i \in 1 .. Len(h) - most
          PROVE  h[i + most] - h[i] >= Window
      <4> DEFINE j == i + most
      <4>1. i \in 1 .. n /\ j \in Int /\ j <= n + 1 /\ j >= 1 /\ i <= n - MaxAttempts + 2
        BY <1>1, <1>2, <1>6, <1>12
      <4>2. CASE j = n + 1
        BY <1>1, <1>2, <1>6, <2>3, <4>1, <4>2
      <4>3. CASE j <= n
        <5>1. j \in 1 .. n /\ i \in 1 .. n - most
          BY <1>1, <1>12, <4>1, <4>3
        <5>2. g[j] - g[i] >= Window
          BY <1>14, <5>1
        <5> QED
          BY <1>2, <4>1, <5>1, <5>2
      <4>4. j = n + 1 \/ j <= n
        BY <1>15, <4>1
      <4> QED
        BY <4>2, <4>3, <4>4
    <3> QED
      BY <1>13, <3>1
  <2> QED
    BY <1>9, <2>2, <2>4, <2>5, <2>6 DEF Counted
<1>11. CASE ~WindowIsOver(a)
  <2>1. b.attempts = a.attempts + 1 /\ b.firstFailed = a.firstFailed /\ a.attempts > 0
    BY <1>1, <1>5, <1>11 DEF Attempts, WindowIsOver
  <2>2. WindowIsLast(b)
    <3>1. n - a.attempts + 1 \in 1 .. n
      BY <1>5, <2>1
    <3>4. Len(h) - b.attempts + 1 = n - a.attempts + 1
      BY <1>1, <1>2, <2>1
    <3>2. b.firstFailed = h[Len(h) - b.attempts + 1]
      BY <1>2, <1>5, <2>1, <3>1, <3>4
    <3>3. b.attempts <= Len(h) /\ b.attempts > 0
      BY <1>1, <1>2, <1>5, <2>1
    <3> QED
      BY <1>1, <2>1, <3>2, <3>3 DEF WindowIsLast, h
  <2>3. EarlierAreOld(b)
    <3>1. ASSUME NEW i \in 1 .. Len(h), i <= Len(h) - b.attempts - MaxAttempts + 2
          PROVE  h[i] + Window <= b.firstFailed
      <4>1. i \in 1 .. n /\ i <= n - a.attempts - MaxAttempts + 2
        BY <1>1, <1>2, <1>6, <2>1, <3>1
      <4> QED
        BY <1>2, <1>7, <2>1, <4>1
    <3> QED
      BY <3>1 DEF EarlierAreOld, h
  <2>4. LockFollows(b)
    BY <1>1, <1>2, <1>6 DEF LockFollows, h
  <2>5. Bounded(b)
    <3>1. ASSUME NEW i \in 1 .. Len(h) - most
          PROVE  h[i + most] - h[i] >= Window
      <4> DEFINE j == i + most
      <4>1. i \in 1 .. n /\ j \in Int /\ j <= n + 1 /\ j >= 1
        BY <1>1, <1>2, <1>6, <1>12
      <4>2. CASE j = n + 1
        <5>1. g[i] + Window <= clock
          <6>1. CASE a.attempts >= MaxAttempts
            BY <1>8, <4>1, <6>1
          <6>2. CASE a.attempts < MaxAttempts
            <7>1. i <= n - a.attempts - MaxAttempts + 2
              BY <1>1, <1>6, <1>12, <4>1, <4>2, <6>2
            <7>2. g[i] + Window <= a.firstFailed
              BY <1>7, <4>1, <7>1
            <7>3. a.firstFailed <= clock
              <8>1. n - a.attempts + 1 \in 1 .. n
                BY <1>5, <2>1
              <8> QED
                BY <1>2, <1>5, <2>1, <8>1
            <7> QED
              BY <1>1, <1>2, <1>6, <4>1, <7>2, <7>3
          <6> QED
            BY <1>1, <1>6, <6>1, <6>2
        <5> QED
          BY <1>2, <1>6, <4>1, <4>2, <5>1
      <4>3. CASE j <= n
        <5>1. j \in 1 .. n /\ i \in 1 .. n - most
          BY <1>1, <1>12, <4>1, <4>3
        <5>2. g[j] - g[i] >= Window
          BY <1>14, <5>1
        <5> QED
          BY <1>2, <4>1, <5>1, <5>2
      <4>4. j = n + 1 \/ j <= n
        BY <1>15, <4>1
      <4> QED
        BY <4>2, <4>3, <4>4
    <3> QED
      BY <1>13, <3>1
  <2> QED
    BY <1>9, <2>2, <2>3, <2>4, <2>5 DEF Counted
<1> QED
  BY <1>10, <1>11

\* A wrong password keeps the row sound, and its authority.
LEMMA FailureSound ==
  ASSUME clock \in Nat, NEW k \in Nat, NEW a \in AccountRow, Sound(a, clock, k),
         ~IsLocked(a)
  PROVE  /\ RegisterFailure(a) \in AccountRow
         /\ Sound(RegisterFailure(a), clock, k)
         /\ SameAuthority(a, RegisterFailure(a))
<1> DEFINE b == RegisterFailure(a)
<1>1. /\ b \in AccountRow
      /\ SameAuthority(a, b)
      /\ b.attempts = Attempts(a)
      /\ b.guesses = Append(a.guesses, clock)
      /\ WindowIsOver(a) => b.firstFailed = clock
      /\ ~WindowIsOver(a) => b.firstFailed = a.firstFailed
      /\ Attempts(a) >= MaxAttempts => b.lockedUntil = clock + LockFor
  BY FailureColumns
<1> HIDE DEF b
<1>2. Counted(b, clock)
  BY <1>1, FailureCounted DEF Sound
<1>3. Sound(b, clock, k)
  BY <1>1, <1>2 DEF Sound, SameAuthority
<1> QED
  BY <1>1, <1>3 DEF b

-----------------------------------------------------------------------------
(* A step in which every account comes from one that was there, or is new.  *)

\* The row b, after requests number up to k, is the account of the row a.
Succeeds(a, b, k) ==
    a.here /\ b \in AccountRow /\ Sound(b, clock, k) /\ Descends(a, b)

\* The row b is an account that the request number k made.
IsNew(b, k) == b \in AccountRow /\ Sound(b, clock, k) /\ b.serial[2] > ops

\* The token t was issued in this step to the account of the row b.
IsIssued(t, b) ==
    b.here /\ t.iat = clock /\ t.serial = b.serial /\ t.epoch = b.epoch

\* An account of the table is a typed and sound row.
LEMMA RowOfTable ==
  ASSUME SInv, NEW n \in Names, accounts[n].here
  PROVE  accounts[n] \in AccountRow /\ Sound(accounts[n], clock, ops)
<1>1. accounts[n] # NoAccount
  BY DEF NoAccount
<1> QED
  BY <1>1 DEF SInv, Typed, Sounds

\* An account that a step leaves alone succeeds itself.
LEMMA SelfSucceeds ==
  ASSUME SInv, NEW n \in Names, accounts[n].here, NEW k \in Nat, ops <= k
  PROVE  Succeeds(accounts[n], accounts[n], k)
<1>1. accounts[n] \in AccountRow /\ Sound(accounts[n], clock, ops)
  BY RowOfTable
<1>2. clock \in Nat /\ ops \in Nat /\ clock <= clock
  BY DEF SInv, Typed
<1>3. Sound(accounts[n], clock, k)
  BY <1>1, <1>2, LaterSound
<1> QED
  BY <1>1, <1>3 DEF Succeeds, Descends

\* A row of the table whose authority is left succeeds the one before.
LEMMA SameSucceeds ==
  ASSUME SInv, NEW a, a.here, NEW b \in AccountRow, Sound(b, clock, ops),
         SameAuthority(a, b) \/ Descends(a, b), NEW k \in Nat, ops <= k
  PROVE  Succeeds(a, b, k)
<1>1. clock \in Nat /\ ops \in Nat /\ clock <= clock
  BY DEF SInv, Typed
<1>2. Sound(b, clock, k)
  BY <1>1, LaterSound
<1> QED
  BY <1>2 DEF Succeeds, Descends, SameAuthority

\* The mark of presence does not matter to either.
LEMMA PresenceSucceeds ==
  ASSUME clock \in Nat, NEW k \in Nat, NEW a, NEW b, NEW p \in BOOLEAN
  PROVE  /\ Succeeds(a, b, k) => Succeeds(a, [b EXCEPT !.present = p], k)
         /\ IsNew(b, k) => IsNew([b EXCEPT !.present = p], k)
<1>1. ASSUME b \in AccountRow, Sound(b, clock, k)
      PROVE  /\ [b EXCEPT !.present = p] \in AccountRow
             /\ Sound([b EXCEPT !.present = p], clock, k)
             /\ SameAuthority(b, [b EXCEPT !.present = p])
  BY <1>1, PresentSound
<1> QED
  BY <1>1 DEF Succeeds, IsNew, SameAuthority, Descends

\* The account of a token after the step still follows it.
LEMMA DescendantFollows ==
  ASSUME clock \in Nat, NEW t \in tokens, t \in Token, t.iat <= clock,
         NEW a \in AccountRow, NEW b \in AccountRow, a.validFrom <= clock,
         t.serial = a.serial, Descends(a, b), Follows(t, a)
  PROVE  Follows(t, b)
<1>1. /\ t.iat \in Nat /\ t.epoch \in Nat /\ a.epoch \in Nat
      /\ a.validFrom = -1 \/ a.validFrom \in Nat
  BY DEF Token, AccountRow, Moments, Never
<1>2. CASE /\ b.epoch \in {a.epoch, a.epoch + 1}
           /\ b.ended = a.ended /\ b.validFrom = a.validFrom
  BY <1>1, <1>2 DEF Follows
<1>3. CASE /\ b.epoch = a.epoch /\ b.ended = a.epoch /\ b.validFrom = clock
           /\ \A u \in tokens : u.serial = a.serial => u.epoch < a.epoch
  <2>1. t.epoch < b.ended /\ ~(t.epoch >= b.ended) /\ t.epoch <= b.epoch
    BY <1>1, <1>3 DEF Follows
  <2>2. clock # Never
    BY DEF Never
  <2> QED
    BY <1>3, <2>1, <2>2 DEF Follows
<1> QED
  BY <1>2, <1>3 DEF Descends

\* What a step must do to keep the invariant: every account of the table after
\* it succeeds one of its own from before, or is the new one of f, and every
\* new token is issued to an account of the table after it.
LEMMA StepKeeps ==
  ASSUME SInv, Typed', clock' = clock, ops <= ops',
         NEW f \in Names, NEW org \in [Names -> Names],
         \A n \in Names : accounts'[n].here =>
             \/ Succeeds(accounts[org[n]], accounts'[n], ops')
             \/ n = f /\ IsNew(accounts'[n], ops'),
         \A n, m \in Names : accounts'[n].here /\ accounts'[m].here /\ n # m
             => org[n] # org[m],
         \A t \in tokens' : t \in tokens \/ \E n \in Names : IsIssued(t, accounts'[n])
  PROVE  SInv'
<1>1. /\ clock \in Nat /\ ops \in Nat /\ ops' \in Nat
      /\ tokens \subseteq Token /\ tokens' \subseteq Token
  BY DEF SInv, Typed
<1>2. ASSUME NEW n \in Names, accounts'[n].here
      PROVE  /\ accounts'[n] \in AccountRow
             /\ Sound(accounts'[n], clock, ops')
             /\ accounts'[n].serial[2] \in Nat
             /\ accounts'[n].validFrom <= clock
             /\ accounts'[n].ended <= accounts'[n].epoch
             /\ accounts'[n].serial[2] <= ops'
  <2>1. accounts'[n] \in AccountRow /\ Sound(accounts'[n], clock, ops')
    BY <1>2 DEF Succeeds, IsNew
  <2> QED
    BY <2>1 DEF AccountRow, Sound
<1>3. Sounds'
  BY <1>2 DEF Sounds, Sound, Counted, InOrder, WindowIsLast, EarlierAreOld,
              LockFollows, Bounded
<1>4. ASSUME NEW n \in Names, accounts'[n].here,
             Succeeds(accounts[org[n]], accounts'[n], ops')
      PROVE  /\ org[n] \in Names
             /\ accounts[org[n]].here
             /\ accounts[org[n]] \in AccountRow
             /\ accounts[org[n]].validFrom <= clock
             /\ accounts[org[n]].serial[2] <= ops
             /\ accounts'[n].serial = accounts[org[n]].serial
             /\ Descends(accounts[org[n]], accounts'[n])
  <2>1. org[n] \in Names /\ accounts[org[n]].here
    BY <1>4 DEF Succeeds
  <2>2. accounts[org[n]] \in AccountRow /\ Sound(accounts[org[n]], clock, ops)
    BY <2>1, RowOfTable
  <2> QED
    BY <1>4, <2>1, <2>2 DEF Succeeds, Descends, Sound
<1>5. SerialsDiffer'
  <2>1. ASSUME NEW n \in Names, NEW m \in Names, n # m,
               accounts'[n].here, accounts'[m].here,
               accounts'[n].serial = accounts'[m].serial
        PROVE  FALSE
    <3>1. CASE /\ Succeeds(accounts[org[n]], accounts'[n], ops')
               /\ Succeeds(accounts[org[m]], accounts'[m], ops')
      <4>1. org[n] # org[m]
        BY <2>1
      <4> QED
        BY <1>4, <2>1, <3>1, <4>1 DEF SInv, SerialsDiffer
    <3>2. CASE IsNew(accounts'[n], ops') /\ Succeeds(accounts[org[m]], accounts'[m], ops')
      <4>1. accounts'[m].serial[2] <= ops
        BY <1>4, <2>1, <3>2
      <4> QED
        BY <1>1, <1>2, <2>1, <3>2, <4>1 DEF IsNew
    <3>3. CASE IsNew(accounts'[m], ops') /\ Succeeds(accounts[org[n]], accounts'[n], ops')
      <4>1. accounts'[n].serial[2] <= ops
        BY <1>4, <2>1, <3>3
      <4> QED
        BY <1>1, <1>2, <2>1, <3>3, <4>1 DEF IsNew
    <3> QED
      BY <2>1, <3>1, <3>2, <3>3
  <2> QED
    BY <2>1 DEF SerialsDiffer
<1>6. ASSUME NEW t \in tokens', t \notin tokens
      PROVE  \E n \in Names : IsIssued(t, accounts'[n])
  BY <1>6
<1>7. TokensDated'
  <2>1. ASSUME NEW t \in tokens' PROVE t.iat <= clock /\ t.serial[2] <= ops'
    <3>1. CASE t \in tokens
      <4>1. t.iat <= clock /\ t.serial[2] <= ops /\ t.serial[2] \in Nat
        BY <1>1, <3>1 DEF SInv, TokensDated, Token
      <4> QED
        BY <1>1, <4>1
    <3>2. CASE t \notin tokens
      <4>1. PICK n \in Names : IsIssued(t, accounts'[n])
        BY <1>6, <3>2
      <4> QED
        BY <1>1, <1>2, <4>1 DEF IsIssued
    <3> QED
      BY <3>1, <3>2
  <2> QED
    BY <2>1 DEF TokensDated
<1>8. TokensFollow'
  <2>1. ASSUME NEW t \in tokens', NEW n \in Names, accounts'[n].here,
               accounts'[n].serial = t.serial
        PROVE  Follows(t, accounts'[n])
    <3>1. CASE t \in tokens
      <4>1. t \in Token /\ t.iat <= clock /\ t.serial[2] <= ops
        BY <1>1, <3>1 DEF SInv, TokensDated
      <4>2. ~IsNew(accounts'[n], ops')
        BY <1>1, <1>2, <2>1, <4>1 DEF IsNew
      <4>3. Succeeds(accounts[org[n]], accounts'[n], ops')
        BY <2>1, <4>2
      <4>4. Follows(t, accounts[org[n]])
        BY <1>4, <2>1, <3>1, <4>3 DEF SInv, TokensFollow
      <4>5. /\ accounts[org[n]] \in AccountRow /\ accounts'[n] \in AccountRow
            /\ accounts[org[n]].validFrom <= clock
            /\ t.serial = accounts[org[n]].serial
            /\ Descends(accounts[org[n]], accounts'[n])
        BY <1>2, <1>4, <2>1, <4>3
      <4> QED
        BY <1>1, <3>1, <4>1, <4>4, <4>5, DescendantFollows
    <3>2. CASE t \notin tokens
      <4>1. PICK m \in Names : IsIssued(t, accounts'[m])
        BY <1>6, <3>2
      <4>2. m = n
        BY <1>5, <2>1, <4>1 DEF SerialsDiffer, IsIssued
      <4>3. /\ t.iat = clock /\ t.epoch = accounts'[n].epoch
            /\ accounts'[n].epoch \in Nat /\ accounts'[n].ended \in Nat
            /\ accounts'[n].validFrom <= clock
            /\ accounts'[n].ended <= accounts'[n].epoch
        BY <1>2, <2>1, <4>1, <4>2 DEF IsIssued, AccountRow
      <4>4. accounts'[n].validFrom = Never \/ accounts'[n].validFrom \in Nat
        BY <1>2, <2>1 DEF AccountRow, Moments
      <4> QED
        BY <1>1, <4>3, <4>4 DEF Follows
    <3> QED
      BY <3>1, <3>2
  <2> QED
    BY <2>1 DEF TokensFollow, Follows
<1> QED
  BY <1>3, <1>5, <1>7, <1>8 DEF SInv

-----------------------------------------------------------------------------
(* The steps. *)

\* A step that moves no account keeps the invariant, when each of them succeeds
\* itself or is new.
LEMMA OwnRowsKeep ==
  ASSUME SInv, DOMAIN accounts' = Names,
         accounts' = [n \in Names |-> accounts'[n]],
         clock' = clock, ops' \in Nat, ops <= ops',
         tokens' \subseteq Token,
         NEW f \in Names,
         \A n \in Names :
             \/ accounts'[n] = NoAccount
             \/ Succeeds(accounts[n], accounts'[n], ops')
             \/ n = f /\ IsNew(accounts'[n], ops'),
         \A t \in tokens' : t \in tokens \/ \E n \in Names : IsIssued(t, accounts'[n])
  PROVE  SInv'
<1> DEFINE own == [n \in Names |-> n]
<1>1. own \in [Names -> Names] /\ \A n \in Names : own[n] = n
  OBVIOUS
<1>2. Typed'
  <2>1. \A n \in Names : accounts'[n] \in AccountRow \cup {NoAccount}
    BY DEF Succeeds, IsNew
  <2>2. accounts' \in [Names -> AccountRow \cup {NoAccount}]
    BY <2>1
  <2> QED
    BY <2>2 DEF SInv, Typed
<1>3. \A n \in Names : accounts'[n].here =>
          \/ Succeeds(accounts[own[n]], accounts'[n], ops')
          \/ n = f /\ IsNew(accounts'[n], ops')
  <2>1. ~NoAccount.here
    BY DEF NoAccount
  <2> QED
    BY <1>1, <2>1
<1>4. \A n, m \in Names : accounts'[n].here /\ accounts'[m].here /\ n # m
          => own[n] # own[m]
  BY <1>1
<1> HIDE DEF own
<1> QED
  BY <1>1, <1>2, <1>3, <1>4, StepKeeps

\* A request of the account m that replaces the row of n.
LEMMA ReplacedRowKeeps ==
  ASSUME SInv, NEW m \in Names, accounts[m].here, NEW n \in Names, NEW row,
         accounts' = Touched([accounts EXCEPT ![n] = row], m),
         clock' = clock, ops' \in Nat, ops <= ops',
         \/ accounts[n].here /\ Succeeds(accounts[n], row, ops')
         \/ ~accounts[n].here /\ IsNew(row, ops'),
         tokens' \subseteq Token,
         \A t \in tokens' : t \in tokens \/ \E k \in Names : IsIssued(t, accounts'[k])
  PROVE  SInv'
<1>1. /\ DOMAIN accounts = Names /\ clock \in Nat
      /\ \A k \in Names : accounts[k] \in AccountRow \cup {NoAccount}
  BY DEF SInv, Typed
<1> DEFINE as == [accounts EXCEPT ![n] = row]
<1>2. /\ DOMAIN as = Names
      /\ as = [k \in Names |-> as[k]]
      /\ as[n] = row
      /\ \A k \in Names \ {n} : as[k] = accounts[k]
  BY <1>1
<1>3. accounts' = [as EXCEPT ![m] = [as[m] EXCEPT !.present = TRUE]]
  BY <1>2 DEF Touched
<1> HIDE DEF as
<1>4. /\ DOMAIN accounts' = Names
      /\ accounts' = [k \in Names |-> accounts'[k]]
      /\ accounts'[m] = [as[m] EXCEPT !.present = TRUE]
      /\ \A k \in Names \ {m} : accounts'[k] = as[k]
  BY <1>2, <1>3
<1>5. \A k \in Names :
          \/ as[k] = NoAccount
          \/ Succeeds(accounts[k], as[k], ops')
          \/ k = n /\ IsNew(as[k], ops')
  <2>1. ASSUME NEW k \in Names, accounts[k].here
        PROVE  Succeeds(accounts[k], accounts[k], ops')
    BY <2>1, SelfSucceeds
  <2>2. ASSUME NEW k \in Names, ~accounts[k].here PROVE accounts[k] = NoAccount
    BY <1>1, <2>2 DEF AccountRow
  <2> QED
    BY <1>2, <2>1, <2>2
<1>6. Succeeds(accounts[m], as[m], ops')
  BY <1>2, <1>4, SelfSucceeds
<1>7. Succeeds(accounts[m], accounts'[m], ops')
  <2>1. TRUE \in BOOLEAN
    OBVIOUS
  <2>2. Succeeds(accounts[m], [as[m] EXCEPT !.present = TRUE], ops')
    BY <1>1, <1>6, <2>1, PresenceSucceeds
  <2> QED
    BY <1>4, <2>2
<1>8. \A k \in Names :
          \/ accounts'[k] = NoAccount
          \/ Succeeds(accounts[k], accounts'[k], ops')
          \/ k = n /\ IsNew(accounts'[k], ops')
  <2>1. ASSUME NEW k \in Names, k # m PROVE accounts'[k] = as[k]
    BY <1>4, <2>1
  <2> QED
    BY <1>5, <1>7, <2>1
<1> QED
  <2>1. DOMAIN accounts' = Names /\ accounts' = [k \in Names |-> accounts'[k]]
    BY <1>4
  <2>2. /\ clock' = clock /\ ops' \in Nat /\ ops <= ops' /\ tokens' \subseteq Token
        /\ \A t \in tokens' : t \in tokens \/ \E k \in Names : IsIssued(t, accounts'[k])
    OBVIOUS
  <2> QED
    BY <1>8, <2>1, <2>2, OwnRowsKeep

\* A step without an actor that changes the row of n.
LEMMA ChangedRowKeeps ==
  ASSUME SInv, NEW n \in Names, accounts[n].here, NEW row,
         accounts' = [accounts EXCEPT ![n] = row],
         Succeeds(accounts[n], row, ops),
         UNCHANGED <<clock, ops>>, tokens' \subseteq Token,
         \A t \in tokens' : t \in tokens \/ IsIssued(t, row)
  PROVE  SInv'
<1>1. /\ DOMAIN accounts = Names /\ ops' \in Nat /\ ops <= ops' /\ ops' = ops
      /\ \A k \in Names : accounts[k] \in AccountRow \cup {NoAccount}
  BY DEF SInv, Typed
<1>2. /\ DOMAIN accounts' = Names
      /\ accounts' = [k \in Names |-> accounts'[k]]
      /\ accounts'[n] = row
      /\ \A k \in Names \ {n} : accounts'[k] = accounts[k]
  BY <1>1
<1>3. ASSUME NEW k \in Names
      PROVE  accounts'[k] = NoAccount \/ Succeeds(accounts[k], accounts'[k], ops')
  <2>1. CASE k = n
    BY <1>1, <1>2, <2>1
  <2>2. CASE k # n /\ accounts[k].here
    BY <1>1, <1>2, <2>2, SelfSucceeds
  <2>3. CASE k # n /\ ~accounts[k].here
    BY <1>1, <1>2, <2>3 DEF AccountRow
  <2> QED
    BY <2>1, <2>2, <2>3
<1>4. \A t \in tokens' : t \in tokens \/ \E k \in Names : IsIssued(t, accounts'[k])
  BY <1>2
<1>5. clock' = clock
  OBVIOUS
<1> QED
  BY <1>1, <1>2, <1>3, <1>4, <1>5, OwnRowsKeep

\* A token made for an account is typed, and issued to it when the account's
\* serial and epoch are those it was made from.
LEMMA TokenIssued ==
  ASSUME clock \in Nat, NEW n \in Names, NEW a \in AccountRow, NEW b,
         b.here, b.serial = a.serial, b.epoch = a.epoch
  PROVE  TokenFor(n, a) \in Token /\ IsIssued(TokenFor(n, a), b)
  BY DEF TokenFor, Token, AccountRow, IsIssued

\* The accounts at the start have had nothing happen to them.
LEMMA InitSInv == Init => SInv
<1> SUFFICES ASSUME Init PROVE SInv
  OBVIOUS
<1>1. ASSUME NEW n \in Names
      PROVE  \/ accounts[n] = NoAccount /\ ~accounts[n].here
             \/ /\ accounts[n] \in AccountRow /\ accounts[n].serial = <<n, 0>>
                /\ Sound(accounts[n], FirstTick, 0)
  <2>1. accounts[n] = IF Initial[n] = NoRole THEN NoAccount
                      ELSE NewAccount(Initial[n], <<n, 0>>)
    BY DEF Init
  <2>2. CASE Initial[n] = NoRole
    BY <2>1, <2>2 DEF NoAccount
  <2>3. CASE Initial[n] # NoRole
    <3>1. Initial[n] \in Roles /\ 0 \in Nat /\ FirstTick \in Nat
      BY <2>3, NamesAssumption, ClockAssumption
    <3> QED
      BY <2>1, <2>3, <3>1, NewSound
  <2> QED
    BY <2>2, <2>3
<1>2. clock = FirstTick /\ ops = 0 /\ tokens = {}
  BY DEF Init
<1>3. Typed
  <2>1. DOMAIN accounts = Names /\ accounts = [n \in Names |-> accounts[n]]
    BY DEF Init
  <2>2. accounts \in [Names -> AccountRow \cup {NoAccount}]
    BY <1>1, <2>1
  <2> QED
    BY <1>2, <2>2, ClockAssumption DEF Typed
<1>4. Sounds
  BY <1>1, <1>2 DEF Sounds
<1>5. SerialsDiffer
  <2>1. ASSUME NEW n \in Names, NEW m \in Names, accounts[n].here, accounts[m].here, n # m
        PROVE  accounts[n].serial # accounts[m].serial
    <3>1. accounts[n].serial = <<n, 0>> /\ accounts[m].serial = <<m, 0>>
      BY <1>1, <2>1
    <3> QED
      BY <2>1, <3>1
  <2> QED
    BY <2>1 DEF SerialsDiffer
<1> QED
  BY <1>2, <1>3, <1>4, <1>5 DEF SInv, TokensDated, TokensFollow

\* A sign-in, with either outcome.
LEMMA SignInKeeps ==
  ASSUME SInv, NEW n \in Names, LoginFails(n) \/ LoginSucceeds(n)
  PROVE  SInv'
<1>1. /\ clock \in Nat /\ ops \in Nat /\ ops <= ops /\ tokens \subseteq Token
      /\ DOMAIN accounts = Names
  BY DEF SInv, Typed
<1>2. accounts[n].here /\ UNCHANGED <<clock, ops>> /\ ~IsLocked(accounts[n])
  BY DEF LoginFails, LoginSucceeds
<1>3. accounts[n] \in AccountRow /\ Sound(accounts[n], clock, ops)
  BY <1>2, RowOfTable
<1>4. CASE LoginFails(n)
  <2> DEFINE row == RegisterFailure(accounts[n])
  <2>1. row \in AccountRow /\ Sound(row, clock, ops) /\ SameAuthority(accounts[n], row)
    BY <1>1, <1>2, <1>3, FailureSound
  <2>2. accounts' = [accounts EXCEPT ![n] = row] /\ tokens' = tokens
    BY <1>4 DEF LoginFails
  <2> HIDE DEF row
  <2>3. Succeeds(accounts[n], row, ops)
    BY <1>1, <1>2, <2>1, SameSucceeds
  <2> QED
    BY <1>1, <1>2, <2>2, <2>3, ChangedRowKeeps
<1>5. CASE LoginSucceeds(n)
  <2> DEFINE row == IF accounts[n].attempts > 0 \/ accounts[n].lockedUntil # Never
                    THEN Cleared(accounts[n]) ELSE accounts[n]
             new == TokenFor(n, accounts[n])
  <2>1. row \in AccountRow /\ Sound(row, clock, ops) /\ SameAuthority(accounts[n], row)
    <3>1. SameAuthority(accounts[n], accounts[n])
      BY DEF SameAuthority
    <3>2. /\ Cleared(accounts[n]) \in AccountRow
          /\ Sound(Cleared(accounts[n]), clock, ops)
          /\ SameAuthority(accounts[n], Cleared(accounts[n]))
      BY <1>1, <1>3, ClearedSound
    <3> QED
      BY <1>3, <3>1, <3>2
  <2>2. accounts' = [accounts EXCEPT ![n] = row] /\ tokens' = tokens \cup {new}
    BY <1>5 DEF LoginSucceeds
  <2> HIDE DEF row
  <2>3. Succeeds(accounts[n], row, ops)
    BY <1>1, <1>2, <2>1, SameSucceeds
  <2>4. row.here /\ row.serial = accounts[n].serial /\ row.epoch = accounts[n].epoch
    BY <2>1 DEF SameAuthority, AccountRow
  <2>5. new \in Token /\ IsIssued(new, row)
    BY <1>1, <1>3, <2>4, TokenIssued
  <2> HIDE DEF new
  <2> QED
    BY <1>1, <1>2, <2>2, <2>3, <2>5, ChangedRowKeeps
<1> QED
  BY <1>4, <1>5

\* The mark of presence comes and goes.
LEMMA PresentKeeps ==
  ASSUME SInv, NEW n \in Names, accounts[n].here, NEW p \in BOOLEAN,
         accounts' = [accounts EXCEPT ![n].present = p],
         UNCHANGED <<clock, ops>>, tokens' \subseteq tokens
  PROVE  SInv'
<1>1. clock \in Nat /\ ops \in Nat /\ ops <= ops /\ tokens' \subseteq Token
  BY DEF SInv, Typed
<1> DEFINE row == [accounts[n] EXCEPT !.present = p]
<1>2. accounts' = [accounts EXCEPT ![n] = row]
  OBVIOUS
<1>3. Succeeds(accounts[n], row, ops)
  BY <1>1, SelfSucceeds, PresenceSucceeds
<1> HIDE DEF row
<1> QED
  BY <1>1, <1>2, <1>3, ChangedRowKeeps

\* What a kill leaves of a row, and what the start then makes of it.
LEMMA RestartedRow ==
  ASSUME SInv, NEW n \in Names, accounts[n].here, NEW cut \in BOOLEAN,
         NEW row, row = IF cut THEN [accounts[n] EXCEPT !.cut = TRUE] ELSE accounts[n]
  PROVE  /\ Succeeds(accounts[n], row, ops)
         /\ Succeeds(accounts[n], [row EXCEPT !.role = "super_admin"], ops)
<1>1. /\ clock \in Nat /\ ops \in Nat /\ ops <= ops
      /\ accounts[n] \in AccountRow /\ Sound(accounts[n], clock, ops)
  BY RowOfTable DEF SInv, Typed
<1>2. row \in AccountRow /\ Sound(row, clock, ops) /\ SameAuthority(accounts[n], row)
  <2>1. /\ [accounts[n] EXCEPT !.cut = TRUE] \in AccountRow
        /\ Sound([accounts[n] EXCEPT !.cut = TRUE], clock, ops)
        /\ SameAuthority(accounts[n], [accounts[n] EXCEPT !.cut = TRUE])
    BY <1>1, CutSound
  <2>2. SameAuthority(accounts[n], accounts[n])
    BY DEF SameAuthority
  <2> QED
    BY <1>1, <2>1, <2>2
<1> DEFINE super == [row EXCEPT !.role = "super_admin"]
<1>3. super \in AccountRow /\ Sound(super, clock, ops) /\ SameAuthority(row, super)
  <2>1. "super_admin" \in Roles
    BY DEF Roles
  <2> QED
    BY <1>1, <1>2, <2>1, RoleSound
<1> HIDE DEF super
<1>4. SameAuthority(accounts[n], super)
  BY <1>2, <1>3 DEF SameAuthority
<1>5. Succeeds(accounts[n], row, ops)
  BY <1>1, <1>2, SameSucceeds
<1>6. Succeeds(accounts[n], super, ops)
  BY <1>1, <1>3, <1>4, SameSucceeds
<1> QED
  BY <1>5, <1>6 DEF super

\* A restart changes no authority of which tokens are ended: there is always
\* an account, and the first one's role is as the start makes it.
LEMMA RestartKeepsTokens == ASSUME SInv, IInv, RevokingNamed, Restart PROVE SInv'
<1> DEFINE left == [n \in Names |->
                       IF \E r \in revoking : r.of = n
                       THEN [accounts[n] EXCEPT !.cut = TRUE] ELSE accounts[n]]
<1>1. /\ clock \in Nat /\ ops \in Nat /\ ops <= ops /\ tokens \subseteq Token
      /\ Seed \in Names /\ UNCHANGED <<tokens, clock, ops>>
      /\ \A n \in Names : accounts[n] \in AccountRow \cup {NoAccount}
  BY NamesAssumption DEF SInv, Typed, Restart
<1>2. PICK s \in Names : accounts[s].here
  BY DEF IInv, SomeSuperAdmin
<1>3. accounts' = IF accounts[Seed].here
                  THEN [left EXCEPT ![Seed].role = "super_admin"]
                  ELSE left
  BY <1>2 DEF Restart
<1>4. ASSUME NEW n \in Names, accounts[n].here
      PROVE  /\ Succeeds(accounts[n], left[n], ops)
             /\ Succeeds(accounts[n], [left[n] EXCEPT !.role = "super_admin"], ops)
  <2> DEFINE cut == \E r \in revoking : r.of = n
             row == left[n]
  <2>1. row = IF cut THEN [accounts[n] EXCEPT !.cut = TRUE] ELSE accounts[n]
    OBVIOUS
  <2>2. cut \in BOOLEAN
    OBVIOUS
  <2>3. /\ Succeeds(accounts[n], row, ops)
        /\ Succeeds(accounts[n], [row EXCEPT !.role = "super_admin"], ops)
    <3> HIDE DEF cut, row
    <3> QED
      BY <1>4, <2>1, <2>2, RestartedRow
  <2> QED
    BY <2>3
<1>5. ASSUME NEW n \in Names, ~accounts[n].here PROVE left[n] = NoAccount
  <2>1. accounts[n] = NoAccount
    BY <1>1, <1>5 DEF AccountRow
  <2>2. ~ \E r \in revoking : r.of = n
    BY <1>5 DEF RevokingNamed
  <2> QED
    BY <2>1, <2>2
<1>6. DOMAIN left = Names /\ left = [n \in Names |-> left[n]]
  OBVIOUS
<1> HIDE DEF left
<1>7. /\ DOMAIN accounts' = Names
      /\ accounts' = [n \in Names |-> accounts'[n]]
      /\ \A n \in Names : \/ accounts'[n] = left[n]
                          \/ /\ accounts[n].here
                             /\ accounts'[n] = [left[n] EXCEPT !.role = "super_admin"]
  BY <1>1, <1>3, <1>6
<1>8. ASSUME NEW n \in Names
      PROVE  accounts'[n] = NoAccount \/ Succeeds(accounts[n], accounts'[n], ops')
  <2>1. CASE accounts[n].here
    BY <1>1, <1>4, <1>7, <2>1
  <2>2. CASE ~accounts[n].here
    BY <1>5, <1>7, <2>2
  <2> QED
    BY <2>1, <2>2
<1>9. /\ clock' = clock /\ ops' \in Nat /\ ops <= ops' /\ tokens' \subseteq Token
      /\ \A t \in tokens' : t \in tokens
  BY <1>1
<1> QED
  BY <1>1, <1>7, <1>8, <1>9, OwnRowsKeep

\* Time passes, and nothing becomes younger.
LEMMA TickKeeps == ASSUME SInv, Tick PROVE SInv'
<1>1. /\ clock \in Nat /\ clock' = clock + 1 /\ clock' \in Nat /\ clock <= clock'
      /\ UNCHANGED <<accounts, tokens, ops>> /\ ops \in Nat /\ ops <= ops
      /\ tokens \subseteq Token
  BY DEF SInv, Typed, Tick
<1>2. ASSUME NEW n \in Names, accounts[n].here PROVE Sound(accounts[n], clock', ops)
  BY <1>1, <1>2, RowOfTable, LaterSound
<1>3. Typed' /\ SerialsDiffer' /\ TokensFollow'
  BY <1>1 DEF SInv, Typed, SerialsDiffer, TokensFollow, Follows
<1>4. Sounds'
  BY <1>1, <1>2 DEF Sounds, Sound, Counted, InOrder, WindowIsLast, EarlierAreOld,
                    LockFollows, Bounded
<1>5. TokensDated'
  <2>1. ASSUME NEW t \in tokens PROVE t.iat <= clock'
    BY <1>1, <2>1 DEF SInv, TokensDated, Token
  <2> QED
    BY <1>1, <2>1 DEF SInv, TokensDated
<1> QED
  BY <1>3, <1>4, <1>5 DEF SInv

-----------------------------------------------------------------------------
(* The requests about accounts. *)

\* A rename moves the row of n to the name new; its tokens keep its serial.
LEMMA RenameKeeps ==
  ASSUME SInv, NEW t \in tokens, t.sub \in Names, accounts[t.sub].here,
         NEW n \in Names, NEW new \in Names, UpdateUsername(t, n, new),
         clock' = clock, ops' = ops + 1
  PROVE  SInv'
<1> DEFINE m == t.sub
           touched == Touched(accounts, m)
           org == [k \in Names |-> IF k = new THEN n ELSE k]
<1>1. /\ DOMAIN accounts = Names /\ clock \in Nat /\ ops \in Nat
      /\ ops' \in Nat /\ ops <= ops' /\ tokens \subseteq Token
      /\ \A k \in Names : accounts[k] \in AccountRow \cup {NoAccount}
  BY DEF SInv, Typed
<1>2. /\ accounts[n].here /\ ~accounts[new].here
      /\ accounts' = [touched EXCEPT ![new] = touched[n], ![n] = NoAccount]
      /\ tokens' = IF n = m THEN (tokens \ {t}) \cup {TokenFor(new, accounts[n])}
                   ELSE tokens
  BY DEF UpdateUsername
<1>3. new # n /\ new # m /\ m \in Names /\ accounts[m].here
  BY <1>2
<1>4. /\ DOMAIN touched = Names
      /\ touched[m] = [accounts[m] EXCEPT !.present = TRUE]
      /\ \A k \in Names \ {m} : touched[k] = accounts[k]
  BY <1>1, <1>3 DEF Touched
<1>5. ASSUME NEW k \in Names, accounts[k].here
      PROVE  Succeeds(accounts[k], touched[k], ops')
  <2>1. Succeeds(accounts[k], accounts[k], ops')
    BY <1>1, <1>5, SelfSucceeds
  <2>2. TRUE \in BOOLEAN
    OBVIOUS
  <2>3. Succeeds(accounts[k], [accounts[k] EXCEPT !.present = TRUE], ops')
    BY <1>1, <2>1, <2>2, PresenceSucceeds
  <2> HIDE DEF touched
  <2> QED
    BY <1>4, <2>1, <2>3
<1> HIDE DEF m, touched
<1>6. /\ DOMAIN accounts' = Names
      /\ accounts' = [k \in Names |-> accounts'[k]]
      /\ accounts'[new] = touched[n]
      /\ accounts'[n] = NoAccount
      /\ \A k \in Names \ {n, new} : accounts'[k] = touched[k]
  BY <1>2, <1>3, <1>4
<1>7. org \in [Names -> Names] /\ org[new] = n /\ \A k \in Names \ {new} : org[k] = k
  OBVIOUS
<1> HIDE DEF org
<1>8. ASSUME NEW k \in Names
      PROVE  accounts'[k] = NoAccount \/ Succeeds(accounts[org[k]], accounts'[k], ops')
  <2>1. CASE k = new
    BY <1>2, <1>5, <1>6, <1>7, <2>1
  <2>2. CASE k = n
    BY <1>6, <2>2
  <2>3. CASE k \notin {n, new} /\ accounts[k].here
    BY <1>5, <1>6, <1>7, <2>3
  <2>4. CASE k \notin {n, new} /\ ~accounts[k].here
    <3>1. accounts[k] = NoAccount
      BY <1>1, <2>4 DEF AccountRow
    <3> QED
      BY <1>3, <1>4, <1>6, <2>4, <3>1
  <2> QED
    BY <2>1, <2>2, <2>3, <2>4
<1>9. ~NoAccount.here
  BY DEF NoAccount
<1>10. n = m => /\ TokenFor(new, accounts[n]) \in Token
                /\ IsIssued(TokenFor(new, accounts[n]), accounts'[new])
  <2>1. CASE n = m
    <3>1. accounts[n] \in AccountRow
      BY <1>2, RowOfTable
    <3>2. accounts'[new] = [accounts[n] EXCEPT !.present = TRUE]
      BY <1>4, <1>6, <2>1
    <3>3. /\ accounts'[new].here /\ accounts'[new].serial = accounts[n].serial
          /\ accounts'[new].epoch = accounts[n].epoch
      BY <3>1, <3>2 DEF AccountRow
    <3> QED
      BY <1>1, <3>1, <3>3, TokenIssued
  <2> QED
    BY <2>1
<1>11. tokens' \subseteq Token
  BY <1>1, <1>2, <1>10
<1>12. \A u \in tokens' : u \in tokens \/ \E k \in Names : IsIssued(u, accounts'[k])
  BY <1>2, <1>10
<1>13. Typed'
  <2>1. ASSUME NEW k \in Names PROVE accounts'[k] \in AccountRow \cup {NoAccount}
    BY <1>8 DEF Succeeds
  <2>2. accounts' \in [Names -> AccountRow \cup {NoAccount}]
    BY <1>6, <2>1
  <2> QED
    BY <1>1, <1>11, <2>2 DEF Typed
<1>14. \A k \in Names : accounts'[k].here =>
           \/ Succeeds(accounts[org[k]], accounts'[k], ops')
           \/ k = n /\ IsNew(accounts'[k], ops')
  BY <1>8, <1>9
<1>15. \A k, l \in Names : accounts'[k].here /\ accounts'[l].here /\ k # l
           => org[k] # org[l]
  BY <1>6, <1>7, <1>9
<1> QED
  BY <1>1, <1>7, <1>12, <1>13, <1>14, <1>15, StepKeeps

\* A deletion leaves the other accounts, and the actor's.
LEMMA DeleteKeeps ==
  ASSUME SInv, NEW t \in tokens, t.sub \in Names, accounts[t.sub].here,
         NEW n \in Names, DeleteUser(t, n), clock' = clock, ops' = ops + 1
  PROVE  SInv'
<1> DEFINE m == t.sub
           touched == Touched(accounts, m)
<1>1. /\ DOMAIN accounts = Names /\ clock \in Nat /\ ops \in Nat
      /\ ops' \in Nat /\ ops <= ops' /\ tokens \subseteq Token
      /\ \A k \in Names : accounts[k] \in AccountRow \cup {NoAccount}
  BY DEF SInv, Typed
<1>2. /\ accounts' = [touched EXCEPT ![n] = NoAccount] /\ tokens' = tokens
      /\ m \in Names /\ accounts[m].here
  BY DEF DeleteUser
<1>3. /\ DOMAIN touched = Names
      /\ touched[m] = [accounts[m] EXCEPT !.present = TRUE]
      /\ \A k \in Names \ {m} : touched[k] = accounts[k]
  BY <1>1, <1>2 DEF Touched
<1>4. Succeeds(accounts[m], touched[m], ops')
  <2>1. Succeeds(accounts[m], accounts[m], ops') /\ TRUE \in BOOLEAN
    BY <1>1, <1>2, SelfSucceeds
  <2>2. Succeeds(accounts[m], [accounts[m] EXCEPT !.present = TRUE], ops')
    BY <1>1, <2>1, PresenceSucceeds
  <2> HIDE DEF touched
  <2> QED
    BY <1>3, <2>2
<1> HIDE DEF m, touched
<1>5. /\ DOMAIN accounts' = Names
      /\ accounts' = [k \in Names |-> accounts'[k]]
      /\ accounts'[n] = NoAccount
      /\ \A k \in Names \ {n} : accounts'[k] = touched[k]
  BY <1>2, <1>3
<1>6. ASSUME NEW k \in Names
      PROVE  accounts'[k] = NoAccount \/ Succeeds(accounts[k], accounts'[k], ops')
  <2>1. CASE k = n
    BY <1>5, <2>1
  <2>2. CASE k # n /\ k = m
    BY <1>4, <1>5, <2>2
  <2>3. CASE k \notin {n, m} /\ accounts[k].here
    BY <1>1, <1>3, <1>5, <2>3, SelfSucceeds
  <2>4. CASE k \notin {n, m} /\ ~accounts[k].here
    <3>1. accounts[k] = NoAccount
      BY <1>1, <2>4 DEF AccountRow
    <3> QED
      BY <1>3, <1>5, <2>4, <3>1
  <2> QED
    BY <2>1, <2>2, <2>3, <2>4
<1>7. tokens' \subseteq Token /\ \A u \in tokens' : u \in tokens
  BY <1>1, <1>2
<1> QED
  BY <1>1, <1>5, <1>6, <1>7, OwnRowsKeep

\* A request about accounts.
LEMMA AdministerKeepsTokens ==
  ASSUME SInv, IInv, NEW t \in tokens, Accepted(t), Administer(t)
  PROVE  SInv'
<1> DEFINE m == t.sub
<1>1. m \in Names /\ accounts[m].here
  BY DEF IInv, TokensNamed, Accepted
<1>2. /\ clock' = clock /\ clock \in Nat /\ ops' = ops + 1
      /\ ops \in Nat /\ ops' \in Nat /\ ops <= ops' /\ tokens \subseteq Token
  BY DEF SInv, Typed, Administer
<1>3. ASSUME NEW n \in Names, accounts[n].here
      PROVE  accounts[n] \in AccountRow /\ Sound(accounts[n], clock, ops)
  BY <1>3, RowOfTable
<1>4. ASSUME UNCHANGED tokens
      PROVE  tokens' \subseteq Token /\ \A u \in tokens' : u \in tokens
  BY <1>2, <1>4
<1>5. ASSUME NEW n \in Names, UnlockUser(t, n) PROVE SInv'
  <2> DEFINE row == Cleared(accounts[n])
  <2>1. /\ accounts' = Touched([accounts EXCEPT ![n] = row], m)
        /\ accounts[n].here /\ UNCHANGED tokens
    BY <1>5 DEF UnlockUser
  <2>2. row \in AccountRow /\ Sound(row, clock, ops) /\ SameAuthority(accounts[n], row)
    BY <1>2, <1>3, <2>1, ClearedSound
  <2> HIDE DEF row
  <2>3. Succeeds(accounts[n], row, ops')
    BY <1>2, <2>1, <2>2, SameSucceeds
  <2> QED
    BY <1>1, <1>2, <1>4, <2>1, <2>3, ReplacedRowKeeps
<1>6. ASSUME NEW n \in Names, NEW role \in Roles, CreateUser(t, n, role) PROVE SInv'
  <2> DEFINE row == NewAccount(role, <<n, ops + 1>>)
  <2>1. /\ accounts' = Touched([accounts EXCEPT ![n] = row], m)
        /\ ~accounts[n].here /\ UNCHANGED tokens
    BY <1>6 DEF CreateUser
  <2>2. /\ row \in AccountRow /\ row.serial = <<n, ops + 1>>
        /\ Sound(row, clock, ops + 1)
    BY <1>2, NewSound
  <2> HIDE DEF row
  <2>3. IsNew(row, ops')
    BY <1>2, <2>2 DEF IsNew
  <2> QED
    BY <1>1, <1>2, <1>4, <2>1, <2>3, ReplacedRowKeeps
<1>7. ASSUME NEW n \in Names, NEW role \in Roles, UpdateRole(t, n, role) PROVE SInv'
  <2> DEFINE mid == [accounts[n] EXCEPT !.role = role]
             row == Changed(mid)
  <2>1. /\ accounts' = Touched([accounts EXCEPT ![n] = row], m)
        /\ accounts[n].here /\ UNCHANGED tokens
    BY <1>7 DEF UpdateRole
  <2>2. mid \in AccountRow /\ Sound(mid, clock, ops) /\ SameAuthority(accounts[n], mid)
    BY <1>2, <1>3, <2>1, RoleSound
  <2> HIDE DEF mid
  <2>3. row \in AccountRow /\ Sound(row, clock, ops) /\ Descends(mid, row)
    BY <1>2, <2>2, ChangedSound
  <2> HIDE DEF row
  <2>4. Descends(accounts[n], row)
    BY <2>2, <2>3 DEF Descends, SameAuthority
  <2>5. Succeeds(accounts[n], row, ops')
    BY <1>2, <2>1, <2>3, <2>4, SameSucceeds
  <2> QED
    BY <1>1, <1>2, <1>4, <2>1, <2>5, ReplacedRowKeeps
<1>8. ASSUME NEW n \in Names, accounts[n].here, UNCHANGED tokens,
             accounts' = Touched([accounts EXCEPT ![n] = Changed(accounts[n])], m)
      PROVE  SInv'
  <2> DEFINE row == Changed(accounts[n])
  <2>1. row \in AccountRow /\ Sound(row, clock, ops) /\ Descends(accounts[n], row)
    BY <1>2, <1>3, <1>8, ChangedSound
  <2>2. accounts' = Touched([accounts EXCEPT ![n] = row], m)
    BY <1>8
  <2> HIDE DEF row
  <2>3. Succeeds(accounts[n], row, ops')
    BY <1>2, <1>8, <2>1, SameSucceeds
  <2> QED
    BY <1>1, <1>2, <1>4, <1>8, <2>2, <2>3, ReplacedRowKeeps
<1>9. ASSUME ChangePassword(t) \/ \E n \in Names : ResetPassword(t, n) PROVE SInv'
  BY <1>1, <1>8, <1>9 DEF ChangePassword, ResetPassword
<1>10. ASSUME NEW n \in Names, NEW new \in Names, UpdateUsername(t, n, new) PROVE SInv'
  BY <1>1, <1>2, <1>10, RenameKeeps
<1>11. ASSUME NEW n \in Names, DeleteUser(t, n) PROVE SInv'
  BY <1>1, <1>2, <1>11, DeleteKeeps
<1> QED
  BY <1>5, <1>6, <1>7, <1>8, <1>9, <1>10, <1>11 DEF Administer

-----------------------------------------------------------------------------
(* Changes whose old tokens are still to be ended. *)

\* No token of the account is of the epoch that the change began.
RevokeDue ==
    \A r \in revoking : \A t \in tokens :
        t.serial = accounts[r.of].serial => t.epoch < accounts[r.of].epoch

\* The last change of the row's authority ended tokens, or a kill came first.
Settled(a) == a.here => a.ended = a.epoch \/ a.cut

ChangesEnd ==
    \A n \in Names : Settled(accounts[n]) \/ \E r \in revoking : r.of = n

OneRevoke == \A r, s \in revoking : r.of = s.of

Due == RevokeDue /\ ChangesEnd /\ OneRevoke

\* The mark of presence does not matter.
LEMMA PresentSettled ==
  ASSUME NEW a \in AccountRow \cup {NoAccount}, NEW p \in BOOLEAN
  PROVE  /\ [a EXCEPT !.present = p].here = a.here
         /\ a.here => /\ [a EXCEPT !.present = p].epoch = a.epoch
                      /\ [a EXCEPT !.present = p].serial = a.serial
         /\ Settled(a) => Settled([a EXCEPT !.present = p])
<1>1. CASE a \in AccountRow
  BY <1>1 DEF AccountRow, Settled
<1>2. CASE a = NoAccount
  BY <1>2 DEF NoAccount, Settled
<1> QED
  BY <1>1, <1>2

\* A request of the account m that replaces the row of n.
LEMMA ReplacedSettled ==
  ASSUME SInv, Due, revoking = {}, NEW m \in Names, NEW n \in Names,
         NEW row \in AccountRow \cup {NoAccount},
         accounts' = Touched([accounts EXCEPT ![n] = row], m)
  PROVE  /\ \A k \in Names \ {n} : Settled(accounts'[k])
         /\ accounts'[n].here = row.here
         /\ row.here => /\ accounts'[n].epoch = row.epoch
                        /\ accounts'[n].serial = row.serial
         /\ Settled(row) => Settled(accounts'[n])
<1> DEFINE as == [accounts EXCEPT ![n] = row]
<1>1. /\ DOMAIN accounts = Names
      /\ \A k \in Names : accounts[k] \in AccountRow \cup {NoAccount}
  BY DEF SInv, Typed
<1>2. /\ DOMAIN as = Names /\ as[n] = row
      /\ \A k \in Names \ {n} : as[k] = accounts[k]
  BY <1>1
<1>3. accounts' = [as EXCEPT ![m] = [as[m] EXCEPT !.present = TRUE]]
  BY <1>2 DEF Touched
<1> HIDE DEF as
<1>4. \A k \in Names :
          \/ accounts'[k] = as[k]
          \/ accounts'[k] = [as[k] EXCEPT !.present = TRUE]
  BY <1>2, <1>3
<1>5. \A k \in Names : as[k] \in AccountRow \cup {NoAccount}
  BY <1>1, <1>2
<1>6. \A k \in Names \ {n} : Settled(as[k])
  BY <1>2 DEF Due, ChangesEnd
<1>7. \A k \in Names :
          /\ accounts'[k].here = as[k].here
          /\ as[k].here => /\ accounts'[k].epoch = as[k].epoch
                           /\ accounts'[k].serial = as[k].serial
          /\ Settled(as[k]) => Settled(accounts'[k])
  <2>1. ASSUME NEW k \in Names
        PROVE  /\ accounts'[k].here = as[k].here
               /\ as[k].here => /\ accounts'[k].epoch = as[k].epoch
                                /\ accounts'[k].serial = as[k].serial
               /\ Settled(as[k]) => Settled(accounts'[k])
    <3>1. CASE accounts'[k] = as[k]
      BY <3>1
    <3>2. CASE accounts'[k] = [as[k] EXCEPT !.present = TRUE]
      <4> DEFINE a == as[k]
      <4>1. a \in AccountRow \cup {NoAccount} /\ accounts'[k] = [a EXCEPT !.present = TRUE]
        BY <1>5, <3>2
      <4> HIDE DEF a
      <4>2. /\ accounts'[k].here = a.here
            /\ a.here => accounts'[k].epoch = a.epoch /\ accounts'[k].serial = a.serial
            /\ Settled(a) => Settled(accounts'[k])
        <5>1. TRUE \in BOOLEAN
          OBVIOUS
        <5> QED
          BY <4>1, <5>1, PresentSettled
      <4> QED
        BY <4>2 DEF a
    <3> QED
      BY <1>4, <3>1, <3>2
  <2> QED
    BY <2>1
<1> QED
  BY <1>2, <1>6, <1>7

\* With nothing to end, what remains is that every row is settled.
LEMMA NothingDue ==
  ASSUME revoking' = {}, \A n \in Names : Settled(accounts'[n])
  PROVE  Due'
BY DEF Due, RevokeDue, ChangesEnd, OneRevoke, Settled

\* A change of the authority of n: its tokens are of earlier epochs.
LEMMA ChangeIsDue ==
  ASSUME SInv, Due, revoking = {}, NEW m \in Names, NEW n \in Names, accounts[n].here,
         NEW row \in AccountRow,
         row.epoch = accounts[n].epoch + 1, row.serial = accounts[n].serial,
         accounts' = Touched([accounts EXCEPT ![n] = row], m),
         NEW spent, revoking' = {[of |-> n, spent |-> spent]}, UNCHANGED tokens
  PROVE  Due'
<1>1. row \in AccountRow \cup {NoAccount} /\ row.here
  BY DEF AccountRow
<1>2. /\ \A k \in Names \ {n} : Settled(accounts'[k])
      /\ accounts'[n].epoch = accounts[n].epoch + 1
      /\ accounts'[n].serial = accounts[n].serial
  BY <1>1, ReplacedSettled
<1>3. ASSUME NEW t \in tokens, t.serial = accounts[n].serial
      PROVE  t.epoch < accounts[n].epoch + 1
  <2>1. accounts[n] \in AccountRow /\ t \in Token /\ Follows(t, accounts[n])
    BY <1>3, RowOfTable DEF SInv, Typed, TokensFollow
  <2>2. /\ accounts[n].epoch \in Nat /\ t.epoch \in Nat
        /\ t.epoch <= accounts[n].epoch
    BY <2>1 DEF Follows, AccountRow, Token
  <2> QED
    BY <2>2
<1>4. RevokeDue'
  BY <1>2, <1>3 DEF RevokeDue
<1>5. ChangesEnd' /\ OneRevoke'
  BY <1>2 DEF ChangesEnd, OneRevoke, Settled
<1> QED
  BY <1>4, <1>5 DEF Due

\* Clearing the count, or a wrong password, settles nothing and undoes nothing.
LEMMA CountSettled ==
  ASSUME NEW a \in AccountRow, Settled(a)
  PROVE  Settled(Cleared(a)) /\ Settled(RegisterFailure(a))
BY DEF Settled, Cleared, RegisterFailure, AccountRow

\* A request about accounts.
LEMMA AdministerDue ==
  ASSUME SInv, IInv, Due, revoking = {}, NEW t \in tokens, Accepted(t), Administer(t)
  PROVE  Due'
<1> DEFINE m == t.sub
<1>1. /\ m \in Names /\ accounts[m].here /\ clock \in Nat /\ ops \in Nat
      /\ \A n \in Names : accounts[n] \in AccountRow \cup {NoAccount}
      /\ \A n \in Names : Settled(accounts[n])
  BY DEF IInv, TokensNamed, Accepted, SInv, Typed, Due, ChangesEnd
<1>2. ASSUME NEW n \in Names, NEW row \in AccountRow \cup {NoAccount}, Settled(row),
             accounts' = Touched([accounts EXCEPT ![n] = row], m), UNCHANGED revoking
      PROVE  Due'
  <2>1. accounts' = Touched([accounts EXCEPT ![n] = row], m) /\ Settled(row)
    BY <1>2
  <2>2. \A k \in Names : Settled(accounts'[k])
    BY <1>1, <2>1, ReplacedSettled
  <2> QED
    BY <1>2, <2>2, NothingDue
<1>3. ASSUME NEW n \in Names, UnlockUser(t, n) PROVE Due'
  <2>1. accounts[n] \in AccountRow /\ Sound(accounts[n], clock, ops)
    BY <1>3, RowOfTable DEF UnlockUser
  <2>2. Cleared(accounts[n]) \in AccountRow /\ Settled(Cleared(accounts[n]))
    BY <1>1, <2>1, ClearedSound, CountSettled
  <2>3. /\ accounts' = Touched([accounts EXCEPT ![n] = Cleared(accounts[n])], m)
        /\ UNCHANGED revoking
    BY <1>3 DEF UnlockUser
  <2> QED
    BY <1>2, <2>2, <2>3
<1>4. ASSUME NEW n \in Names, NEW role \in Roles, CreateUser(t, n, role) PROVE Due'
  <2> DEFINE row == NewAccount(role, <<n, ops + 1>>)
  <2>1. row \in AccountRow
    BY <1>1, NewSound
  <2>2. Settled(row)
    BY DEF Settled, NewAccount
  <2>3. accounts' = Touched([accounts EXCEPT ![n] = row], m) /\ UNCHANGED revoking
    BY <1>4 DEF CreateUser
  <2> HIDE DEF row
  <2> QED
    BY <1>2, <2>1, <2>2, <2>3
<1>5. ASSUME NEW n \in Names, NEW role \in Roles, UpdateRole(t, n, role) PROVE Due'
  <2> DEFINE mid == [accounts[n] EXCEPT !.role = role]
             row == Changed(mid)
  <2>1. /\ accounts' = Touched([accounts EXCEPT ![n] = row], m)
        /\ accounts[n].here /\ UNCHANGED tokens
        /\ revoking' = {[of |-> n, spent |-> {}]}
    BY <1>5 DEF UpdateRole
  <2>2. accounts[n] \in AccountRow /\ Sound(accounts[n], clock, ops)
    BY <2>1, RowOfTable
  <2>3. mid \in AccountRow /\ Sound(mid, clock, ops) /\ SameAuthority(accounts[n], mid)
    BY <1>1, <2>2, RoleSound
  <2> HIDE DEF mid
  <2>4. row \in AccountRow /\ Descends(mid, row) /\ row.epoch = mid.epoch + 1
    BY <1>1, <2>3, ChangedSound
  <2>5. row.epoch = accounts[n].epoch + 1 /\ row.serial = accounts[n].serial
    BY <2>3, <2>4 DEF SameAuthority, Descends
  <2> HIDE DEF row
  <2> QED
    BY <1>1, <2>1, <2>4, <2>5, ChangeIsDue
<1>6. ASSUME NEW n \in Names, accounts[n].here, UNCHANGED tokens, NEW spent,
             accounts' = Touched([accounts EXCEPT ![n] = Changed(accounts[n])], m),
             revoking' = {[of |-> n, spent |-> spent]}
      PROVE  Due'
  <2> DEFINE row == Changed(accounts[n])
  <2>1. accounts[n] \in AccountRow /\ Sound(accounts[n], clock, ops)
    BY <1>6, RowOfTable
  <2>2. /\ row \in AccountRow /\ row.epoch = accounts[n].epoch + 1
        /\ row.serial = accounts[n].serial
    BY <1>1, <2>1, ChangedSound DEF Descends
  <2>3. accounts' = Touched([accounts EXCEPT ![n] = row], m)
    BY <1>6
  <2> HIDE DEF row
  <2> QED
    BY <1>1, <1>6, <2>2, <2>3, ChangeIsDue
<1>7. ASSUME ChangePassword(t) \/ \E n \in Names : ResetPassword(t, n) PROVE Due'
  BY <1>1, <1>6, <1>7 DEF ChangePassword, ResetPassword
<1>8. /\ DOMAIN Touched(accounts, m) = Names
      /\ \A k \in Names : Settled(Touched(accounts, m)[k])
  <2>1. Touched(accounts, m) = [accounts EXCEPT ![m] = [accounts[m] EXCEPT !.present = TRUE]]
    BY DEF Touched
  <2>2. DOMAIN accounts = Names
    BY DEF SInv, Typed
  <2>3. Settled([accounts[m] EXCEPT !.present = TRUE])
    <3>1. TRUE \in BOOLEAN
      OBVIOUS
    <3> QED
      BY <1>1, <3>1, PresentSettled
  <2> QED
    BY <1>1, <2>1, <2>2, <2>3
<1>9. Settled(NoAccount)
  BY DEF Settled, NoAccount
<1>10. ASSUME NEW n \in Names, NEW new \in Names, UpdateUsername(t, n, new) PROVE Due'
  <2>1. /\ accounts' = [Touched(accounts, m) EXCEPT ![new] = Touched(accounts, m)[n],
                                                    ![n] = NoAccount]
        /\ UNCHANGED revoking
    BY <1>10 DEF UpdateUsername
  <2>2. \A k \in Names : Settled(accounts'[k])
    BY <1>8, <1>9, <2>1
  <2> QED
    BY <2>1, <2>2, NothingDue
<1>11. ASSUME NEW n \in Names, DeleteUser(t, n) PROVE Due'
  <2>1. /\ accounts' = [Touched(accounts, m) EXCEPT ![n] = NoAccount]
        /\ UNCHANGED revoking
    BY <1>11 DEF DeleteUser
  <2>2. \A k \in Names : Settled(accounts'[k])
    BY <1>8, <1>9, <2>1
  <2> QED
    BY <2>1, <2>2, NothingDue
<1> QED
  BY <1>3, <1>4, <1>5, <1>7, <1>10, <1>11 DEF Administer

\* A step that changes one row in columns that do not matter here.
LEMMA ColumnsDue ==
  ASSUME SInv, Due, revoking = {}, UNCHANGED revoking, NEW n \in Names, NEW row,
         Settled(accounts[n]) => Settled(row), accounts' = [accounts EXCEPT ![n] = row]
  PROVE  Due'
<1>1. \A k \in Names : Settled(accounts[k])
  BY DEF Due, ChangesEnd
<1>2. \A k \in Names : Settled(accounts'[k])
  BY <1>1 DEF SInv, Typed
<1> QED
  BY <1>2, NothingDue

\* Presence may lapse while tokens are still to be ended.
LEMMA IdleDue == ASSUME SInv, RevokingNamed, Due, NEW n \in Names, GoesIdle(n) PROVE Due'
<1> DEFINE row == [accounts[n] EXCEPT !.present = FALSE]
<1>1. /\ DOMAIN accounts = Names /\ accounts[n] \in AccountRow \cup {NoAccount}
      /\ accounts[n].here /\ accounts' = [accounts EXCEPT ![n] = row]
      /\ UNCHANGED <<tokens, revoking>>
  BY DEF SInv, Typed, GoesIdle
<1>2. /\ row.epoch = accounts[n].epoch /\ row.serial = accounts[n].serial
      /\ Settled(accounts[n]) => Settled(row)
  BY <1>1, PresentSettled
<1> HIDE DEF row
<1>3. \A k \in Names : /\ accounts'[k].epoch = accounts[k].epoch
                       /\ accounts'[k].serial = accounts[k].serial
                       /\ Settled(accounts[k]) => Settled(accounts'[k])
  BY <1>1, <1>2
<1>4. RevokeDue'
  BY <1>1, <1>3 DEF Due, RevokeDue, RevokingNamed
<1>5. ChangesEnd' /\ OneRevoke'
  BY <1>1, <1>3 DEF Due, ChangesEnd, OneRevoke, Settled
<1> QED
  BY <1>4, <1>5 DEF Due

\* The end of the handler, or of the server, settles the change.
LEMMA RevokeSettles ==
  ASSUME SInv, RevokingNamed, Due, RevokeTokens PROVE SInv' /\ Due'
<1>1. PICK r \in revoking :
          /\ accounts' = [accounts EXCEPT ![r.of] = Revoked(accounts[r.of])]
          /\ tokens' = (tokens \ r.spent)
                          \cup {TokenFor(r.of, accounts[r.of]) : t \in r.spent}
  BY DEF RevokeTokens
<1> DEFINE n == r.of
           row == Revoked(accounts[n])
           new == TokenFor(n, accounts[n])
<1>2. n \in Names /\ accounts[n].here /\ UNCHANGED <<clock, ops>> /\ revoking' = {}
  BY <1>1 DEF RevokingNamed, RevokeTokens
<1>3. /\ clock \in Nat /\ ops \in Nat /\ ops <= ops /\ tokens \subseteq Token
      /\ DOMAIN accounts = Names
  BY DEF SInv, Typed
<1>4. accounts[n] \in AccountRow /\ Sound(accounts[n], clock, ops)
  BY <1>2, RowOfTable
<1>5. \A t \in tokens : t.serial = accounts[n].serial => t.epoch < accounts[n].epoch
  BY <1>1 DEF Due, RevokeDue
<1>6. /\ row \in AccountRow /\ Sound(row, clock, ops) /\ Descends(accounts[n], row)
      /\ row.serial = accounts[n].serial /\ row.epoch = accounts[n].epoch
  BY <1>3, <1>4, <1>5, RevokedSound
<1>7. Settled(row)
  BY <1>4 DEF Settled, Revoked, AccountRow
<1>8. accounts' = [accounts EXCEPT ![n] = row]
  BY <1>1
<1>9. \A u \in tokens' : u \in tokens \/ u = new
  BY <1>1
<1> HIDE DEF row
<1>10. Succeeds(accounts[n], row, ops)
  BY <1>2, <1>3, <1>6, SameSucceeds
<1>11. row.here
  BY <1>6 DEF AccountRow
<1>12. new \in Token /\ IsIssued(new, row)
  BY <1>2, <1>3, <1>4, <1>6, <1>11, TokenIssued
<1> HIDE DEF new
<1>13. tokens' \subseteq Token /\ \A u \in tokens' : u \in tokens \/ IsIssued(u, row)
  BY <1>3, <1>9, <1>12
<1>14. SInv'
  <2> HIDE DEF n
  <2> QED
    BY <1>2, <1>8, <1>10, <1>13, ChangedRowKeeps
<1>15. \A k \in Names : Settled(accounts'[k])
  BY <1>1, <1>2, <1>3, <1>7, <1>8 DEF Due, ChangesEnd, OneRevoke
<1> QED
  BY <1>2, <1>14, <1>15, NothingDue

\* A restart leaves nothing to end, and marks what it left.
LEMMA RestartDue == ASSUME SInv, IInv, RevokingNamed, Due, Restart PROVE Due'
<1> DEFINE left == [n \in Names |->
                       IF \E r \in revoking : r.of = n
                       THEN [accounts[n] EXCEPT !.cut = TRUE] ELSE accounts[n]]
<1>1. PICK s \in Names : accounts[s].here
  BY DEF IInv, SomeSuperAdmin
<1>2. /\ accounts' = IF accounts[Seed].here
                     THEN [left EXCEPT ![Seed].role = "super_admin"]
                     ELSE left
      /\ revoking' = {}
  BY <1>1 DEF Restart
<1>3. \A n \in Names : accounts[n] \in AccountRow \cup {NoAccount}
  BY DEF SInv, Typed
<1>4. ASSUME NEW n \in Names
      PROVE  /\ Settled(left[n])
             /\ accounts[n].here => left[n] \in AccountRow
  <2>1. CASE \E r \in revoking : r.of = n
    <3>1. accounts[n] \in AccountRow
      BY <1>3, <2>1 DEF RevokingNamed, NoAccount
    <3>2. [accounts[n] EXCEPT !.cut = TRUE] \in AccountRow
      BY <3>1 DEF AccountRow
    <3>3. [accounts[n] EXCEPT !.cut = TRUE].cut
      BY <3>1 DEF AccountRow
    <3> QED
      BY <2>1, <3>2, <3>3 DEF Settled
  <2>2. CASE ~ \E r \in revoking : r.of = n
    BY <1>3, <2>2 DEF Due, ChangesEnd, NoAccount
  <2> QED
    BY <2>1, <2>2
<1>5. DOMAIN left = Names /\ Seed \in Names
  BY NamesAssumption
<1> HIDE DEF left
<1>6. accounts[Seed].here => Settled([left[Seed] EXCEPT !.role = "super_admin"])
  BY <1>4, <1>5 DEF Settled, AccountRow
<1>7. \A n \in Names : Settled(accounts'[n])
  BY <1>2, <1>4, <1>5, <1>6
<1> QED
  BY <1>2, <1>7, NothingDue

\* Every step keeps both.
LEMMA NextKeepsTokens ==
  SInv /\ IInv /\ RevokingNamed /\ Due /\ [Next]_vars => SInv' /\ Due'
<1> SUFFICES ASSUME SInv, IInv, RevokingNamed, Due, [Next]_vars PROVE SInv' /\ Due'
  OBVIOUS
<1>1. ASSUME revoking = {}, NEW n \in Names, LoginFails(n) \/ LoginSucceeds(n)
      PROVE  SInv' /\ Due'
  <2>1. SInv'
    BY <1>1, SignInKeeps
  <2>2. accounts[n] \in AccountRow /\ UNCHANGED revoking
    BY <1>1, RowOfTable DEF LoginFails, LoginSucceeds
  <2>3. PICK row \in {RegisterFailure(accounts[n]), Cleared(accounts[n]), accounts[n]} :
            accounts' = [accounts EXCEPT ![n] = row]
    BY <1>1 DEF LoginFails, LoginSucceeds
  <2>4. Settled(accounts[n]) => Settled(row)
    BY <2>2, <2>3, CountSettled
  <2> QED
    BY <1>1, <2>1, <2>2, <2>3, <2>4, ColumnsDue
<1>2. ASSUME revoking = {}, NEW t \in tokens, Accepted(t), Administer(t)
      PROVE  SInv' /\ Due'
  BY <1>2, AdministerKeepsTokens, AdministerDue
<1>3. ASSUME revoking = {}, NEW t \in tokens, Accepted(t), Request(t) \/ Logout(t)
      PROVE  SInv' /\ Due'
  <2>1. t.sub \in Names /\ accounts[t.sub].here
    BY <1>3 DEF IInv, TokensNamed, Accepted
  <2>2. PICK p \in BOOLEAN : accounts' = [accounts EXCEPT ![t.sub].present = p]
    BY <1>3 DEF Request, Logout, Touched
  <2>3. UNCHANGED <<clock, ops, revoking>> /\ tokens' \subseteq tokens
    BY <1>3 DEF Request, Logout
  <2>4. SInv'
    BY <2>1, <2>2, <2>3, PresentKeeps
  <2> DEFINE row == [accounts[t.sub] EXCEPT !.present = p]
  <2>5. Settled(accounts[t.sub]) => Settled(row)
    BY <2>1, PresentSettled DEF SInv, Typed
  <2>6. accounts' = [accounts EXCEPT ![t.sub] = row]
    BY <2>2
  <2> HIDE DEF row
  <2> QED
    BY <1>3, <2>1, <2>3, <2>4, <2>5, <2>6, ColumnsDue
<1>4. ASSUME NEW n \in Names, GoesIdle(n) PROVE SInv' /\ Due'
  <2>1. accounts' = [accounts EXCEPT ![n].present = FALSE] /\ accounts[n].here
    BY <1>4 DEF GoesIdle
  <2>2. UNCHANGED <<clock, ops>> /\ tokens' \subseteq tokens /\ FALSE \in BOOLEAN
    BY <1>4 DEF GoesIdle
  <2> QED
    BY <1>4, <2>1, <2>2, PresentKeeps, IdleDue
<1>5. CASE Restart
  BY <1>5, RestartKeepsTokens, RestartDue
<1>6. CASE RevokeTokens
  BY <1>6, RevokeSettles
<1>7. CASE Tick
  <2>1. UNCHANGED <<accounts, tokens, revoking>>
    BY <1>7 DEF Tick
  <2>2. Due'
    BY <2>1 DEF Due, RevokeDue, ChangesEnd, OneRevoke, Settled
  <2> QED
    BY <1>7, <2>2, TickKeeps
<1>8. CASE UNCHANGED vars
  BY <1>8 DEF vars, SInv, Typed, Sounds, Sound, Counted, InOrder, WindowIsLast,
     EarlierAreOld, LockFollows, Bounded, SerialsDiffer, TokensDated, TokensFollow,
     Follows, Due, RevokeDue, ChangesEnd, OneRevoke, Settled
<1> QED
  BY <1>1, <1>2, <1>3, <1>4, <1>5, <1>6, <1>7, <1>8, GuessedAssumption DEF Next

\* The invariant holds in every state of every behaviour.
THEOREM SignInInvariance == Spec => [](SInv /\ Due)
<1>1. Init => Due
  <2> SUFFICES ASSUME Init PROVE Due
    OBVIOUS
  <2>1. \A n \in Names : Settled(accounts[n])
    BY DEF Init, Settled, NoAccount, NewAccount
  <2> QED
    BY <2>1 DEF Init, Due, RevokeDue, ChangesEnd, OneRevoke
<1> QED
  BY <1>1, InitSInv, NextKeepsTokens, Invariance, PTL DEF Spec

\* Until it expires, a token works if and only if it was issued since the last
\* change of role or password that ended tokens, or in the second of that end;
\* and only a handler that is not over, or a kill, keeps a change from doing so.
THEOREM TokensEndWithAuthority == Spec => []TokensFollowAuthority
<1>1. SInv /\ Due => TokensFollowAuthority
  <2> SUFFICES ASSUME SInv, Due, NEW t \in tokens, accounts[t.sub].here,
                      accounts[t.sub].serial = t.serial
               PROVE  LET a == accounts[t.sub]
                      IN /\ Accepted(t) <=> /\ ~Expired(t)
                                            /\ \/ t.epoch >= a.ended
                                               \/ Second(t.iat) = Second(a.validFrom)
                         /\ \/ a.ended = a.epoch \/ a.cut
                            \/ \E r \in revoking : r.of = t.sub
    BY DEF TokensFollowAuthority
  <2> DEFINE a == accounts[t.sub]
  <2>1. t \in Token /\ t.sub \in Names
    BY DEF SInv, Typed, Token
  <2>2. a \in AccountRow /\ Follows(t, a)
    BY <2>1, RowOfTable DEF SInv, TokensFollow
  <2>3. /\ t.iat \in Nat /\ t.epoch \in Nat /\ a.epoch \in Nat /\ a.ended \in Nat
        /\ a.validFrom = Never \/ a.validFrom \in Nat
    BY <2>1, <2>2 DEF Token, AccountRow, Moments
  <2>4. Accepted(t) <=> /\ ~Expired(t)
                        /\ \/ a.validFrom = Never
                           \/ Second(t.iat) >= Second(a.validFrom)
    BY DEF Accepted
  <2>5. Second(t.iat) \in Int /\ Second(a.validFrom) \in Int
    BY <2>3, LockAssumption DEF Second, Never
  <2>6. a.ended = a.epoch \/ a.cut \/ \E r \in revoking : r.of = t.sub
    BY <2>1 DEF Due, ChangesEnd, Settled
  <2> HIDE DEF a
  <2>7. ASSUME t.epoch >= a.ended PROVE Accepted(t) <=> ~Expired(t)
    <3>1. a.validFrom = Never \/ t.iat >= a.validFrom
      BY <2>2, <2>7 DEF Follows
    <3>2. CASE a.validFrom \in Nat /\ t.iat >= a.validFrom
      <4>1. Second(a.validFrom) <= Second(t.iat)
        BY <2>3, <3>2, SecondsInOrder
      <4> QED
        BY <2>4, <2>5, <2>7, <3>2, <4>1
    <3> QED
      BY <2>3, <2>4, <2>7, <3>1, <3>2
  <2>8. ASSUME t.epoch < a.ended
        PROVE  Accepted(t) <=> ~Expired(t) /\ Second(t.iat) = Second(a.validFrom)
    <3>1. a.validFrom # Never /\ t.iat <= a.validFrom /\ a.validFrom \in Nat
      BY <2>2, <2>3, <2>8 DEF Follows
    <3>2. Second(t.iat) <= Second(a.validFrom)
      BY <2>3, <3>1, SecondsInOrder
    <3> QED
      BY <2>4, <2>5, <3>1, <3>2
  <2>9. t.epoch >= a.ended \/ t.epoch < a.ended
    BY <2>3
  <2>10. Accepted(t) <=> /\ ~Expired(t)
                         /\ \/ t.epoch >= a.ended
                            \/ Second(t.iat) = Second(a.validFrom)
    <3>1. t.epoch >= a.ended <=> ~(t.epoch < a.ended)
      BY <2>3
    <3> QED
      BY <2>7, <2>8, <2>9, <3>1
  <2> QED
    BY <2>6, <2>10 DEF a
<1> QED
  BY SignInInvariance, <1>1, PTL

\* register_failure never lets more than 2 * MaxAttempts - 2 wrong passwords
\* be answered within a Window, whatever the windows and locks in between.
THEOREM GuessesStayBounded == Spec => []GuessesAreBounded
<1>1. SInv => GuessesAreBounded
  BY DEF SInv, Sounds, Sound, Counted, Bounded, GuessesAreBounded
<1> QED
  BY SignInInvariance, <1>1, PTL

=============================================================================
