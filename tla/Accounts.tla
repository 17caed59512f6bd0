------------------------------- MODULE Accounts -------------------------------
(***************************************************************************)
(* The accounts of the application: signing in with its lock against        *)
(* repeated wrong passwords (lockout.py, login), the tokens that stand for  *)
(* a signed-in account (auth.py) and the administration of accounts         *)
(* (main.py, /api/auth/...).  Every handler runs to its end without an      *)
(* await, so no other runs meanwhile, and one that commits once is one step.*)
(* A change of role or password commits twice, the change and then the end  *)
(* of the old tokens: two steps, and a kill may come between them.  What    *)
(* interleaves is the requests of several signed-in people, the clock, and  *)
(* restarts of the server.                                                  *)
(*                                                                          *)
(* Passwords are not modelled: a sign-in carries the right one or a wrong   *)
(* one.  A request refused by its checks changes nothing and is no step.    *)
(***************************************************************************)
EXTENDS Integers, Sequences, FiniteSets

CONSTANTS
    Names,          \* user names
    Seed,           \* DEFAULT_ADMIN_USERNAME
    Initial,        \* the role each name has at the start, or NoRole
    MaxAttempts,    \* MAX_ATTEMPTS
    Window,         \* WINDOW_MINUTES, in ticks of the clock
    LockFor,        \* LOCK_MINUTES, in ticks of the clock
    PerSecond,      \* ticks of the clock in one second
    Lifetime,       \* ACCESS_TOKEN_EXPIRE_MINUTES, in seconds
    FirstTick,      \* the tick in which the server starts
    \* bounds
    Guessed,        \* names somebody types wrong passwords for
    MaxClock,       \* last tick
    MaxTokens,      \* tokens that exist at once
    MaxOps          \* administrative requests that change something

Roles == {"user", "admin", "super_admin"}
NoRole == "none"
Never == -1

ASSUME NamesAssumption ==
    /\ Seed \in Names
    /\ NoRole \notin Roles
    /\ Initial \in [Names -> Roles \cup {NoRole}]
    /\ Initial[Seed] = "super_admin"

ASSUME GuessedAssumption == Guessed \subseteq Names

ASSUME LockAssumption ==
    /\ MaxAttempts \in Nat \ {0, 1}
    /\ Window \in Nat \ {0}
    /\ LockFor \in Nat
    /\ Window <= LockFor
    /\ PerSecond \in Nat \ {0}

ASSUME ClockAssumption == Lifetime \in Nat \ {0} /\ FirstTick \in Nat

VARIABLES
    accounts,       \* name -> row of the users table, or NoAccount
    tokens,         \* bearer tokens in browsers
    clock,
    ops,            \* administrative requests so far
    revoking        \* the change that is committed and has yet to end the old
                    \* tokens, if any: its account, and the token of the caller
                    \* that a fresh one replaces

vars == <<accounts, tokens, clock, ops, revoking>>

-----------------------------------------------------------------------------
(* An account.  The columns of the last two lines are history: which        *)
(* creation of the name this is; how often its authority changed (epoch),   *)
(* how often it had when tokens were last ended (ended), and whether a kill *)
(* came before revoke_tokens since (cut); and the times at which it         *)
(* answered a wrong password since the count was last cleared.              *)

NoAccount == [here |-> FALSE]

NewAccount(role, serial) ==
    [here         |-> TRUE,   role        |-> role,
     validFrom    |-> Never,  attempts    |-> 0,
     firstFailed  |-> Never,  lockedUntil |-> Never,
     present      |-> FALSE,  serial      |-> serial,
     epoch        |-> 0,      ended       |-> 0,
     cut          |-> FALSE,  guesses     |-> <<>>]

Exists(n) == accounts[n].here

ROLE_RANK == [user |-> 1, admin |-> 2, super_admin |-> 3]

CanManage(actor, target) ==
    ROLE_RANK[accounts[actor].role] >= ROLE_RANK[accounts[target].role]

IsSuper(n) == accounts[n].role = "super_admin"
IsAdmin(n) == accounts[n].role \in {"admin", "super_admin"}

Second(t) == t \div PerSecond

\* create_access_token, for the account as it is in a.
TokenFor(n, a) == [sub |-> n, iat |-> clock, serial |-> a.serial, epoch |-> a.epoch]

\* The token is past its exp, which jose compares in whole seconds.
Expired(t) == Second(clock) > Second(t.iat) + Lifetime

\* Mutant: tokens_valid_from is compared with its fraction of a second.
Accepted_Exact(t) ==
    /\ ~Expired(t)
    /\ Exists(t.sub)
    /\ \/ accounts[t.sub].validFrom = Never
       \/ Second(t.iat) * PerSecond >= accounts[t.sub].validFrom

\* _user_from_token: the token has not expired, the name must exist, and the
\* token must not be older, in whole seconds, than tokens_valid_from.
Accepted(t) ==
    /\ ~Expired(t)
    /\ Exists(t.sub)
    /\ \/ accounts[t.sub].validFrom = Never
       \/ Second(t.iat) >= Second(accounts[t.sub].validFrom)

\* The account after its role or its password changed.
Changed(a) == [a EXCEPT !.epoch = @ + 1]

\* revoke_tokens.
Revoked(a) == [a EXCEPT !.validFrom = clock, !.ended = a.epoch, !.cut = FALSE]

IsLocked(a) == a.lockedUntil > clock

Cleared(a) == [a EXCEPT !.attempts = 0, !.firstFailed = Never,
                        !.lockedUntil = Never, !.guesses = <<>>]

WindowIsOver(a) == a.firstFailed = Never \/ clock - a.firstFailed > Window

Attempts(a) == (IF WindowIsOver(a) THEN 0 ELSE a.attempts) + 1

\* Mutant: the lock is set when the count is reached, not when it is passed.
RegisterFailure_Exactly(a) ==
    [a EXCEPT
        !.firstFailed = IF WindowIsOver(a) THEN clock ELSE @,
        !.attempts    = Attempts(a),
        !.lockedUntil = IF Attempts(a) = MaxAttempts THEN clock + LockFor ELSE @,
        !.guesses     = Append(@, clock)]

\* register_failure.
RegisterFailure(a) ==
    [a EXCEPT
        !.firstFailed = IF WindowIsOver(a) THEN clock ELSE @,
        !.attempts    = Attempts(a),
        !.lockedUntil = IF Attempts(a) >= MaxAttempts THEN clock + LockFor ELSE @,
        !.guesses     = Append(@, clock)]

\* _touch_last_seen, for the account whose token made the request.
Touched(as, n) == [as EXCEPT ![n].present = TRUE]

-----------------------------------------------------------------------------
Init ==
    /\ accounts = [n \in Names |-> IF Initial[n] = NoRole THEN NoAccount
                                   ELSE NewAccount(Initial[n], <<n, 0>>)]
    /\ tokens = {}
    /\ clock = FirstTick
    /\ ops = 0
    /\ revoking = {}

\* login: a wrong password is counted unless the account is locked.
LoginFails(n) ==
    /\ Exists(n)
    /\ ~IsLocked(accounts[n])
    /\ accounts' = [accounts EXCEPT ![n] = RegisterFailure(@)]
    /\ UNCHANGED <<tokens, clock, ops, revoking>>

\* login with the right password, also before the lock was reached.
LoginSucceeds(n) ==
    /\ Exists(n)
    /\ ~IsLocked(accounts[n])
    /\ Cardinality(tokens) < MaxTokens
    /\ accounts' = [accounts EXCEPT ![n] =
                        IF @.attempts > 0 \/ @.lockedUntil # Never THEN Cleared(@) ELSE @]
    /\ tokens' = tokens \cup {TokenFor(n, accounts[n])}
    /\ UNCHANGED <<clock, ops, revoking>>

\* logout: the browser drops the token; the server only clears the presence.
Logout(t) ==
    /\ accounts' = [accounts EXCEPT ![t.sub].present = FALSE]
    /\ tokens' = tokens \ {t}
    /\ UNCHANGED <<clock, ops, revoking>>

\* Any request that is not about accounts, seen from here.
Request(t) ==
    /\ accounts' = Touched(accounts, t.sub)
    /\ UNCHANGED <<tokens, clock, ops, revoking>>

\* The last request of n is longer ago than the idle timeout.
GoesIdle(n) ==
    /\ Exists(n)
    /\ accounts' = [accounts EXCEPT ![n].present = FALSE]
    /\ UNCHANGED <<tokens, clock, ops, revoking>>

UnlockUser(t, n) ==
    /\ IsAdmin(t.sub)
    /\ Exists(n)
    /\ CanManage(t.sub, n)
    /\ IsLocked(accounts[n]) \/ accounts[n].attempts > 0
    /\ accounts' = Touched([accounts EXCEPT ![n] = Cleared(@)], t.sub)
    /\ UNCHANGED <<tokens, revoking>>

CreateUser(t, n, role) ==
    /\ IsAdmin(t.sub)
    /\ ~Exists(n)
    /\ role = "super_admin" => IsSuper(t.sub)
    /\ accounts' = Touched([accounts EXCEPT ![n] = NewAccount(role, <<n, ops + 1>>)], t.sub)
    /\ UNCHANGED <<tokens, revoking>>

\* update_role: the change and its commit; revoke_tokens follows.
UpdateRole(t, n, role) ==
    /\ IsAdmin(t.sub)
    /\ Exists(n)
    /\ n # t.sub
    /\ CanManage(t.sub, n)
    /\ role = "super_admin" => IsSuper(t.sub)
    /\ role # accounts[n].role
    /\ ~accounts[n].present
    /\ accounts' = Touched([accounts EXCEPT ![n] = Changed([@ EXCEPT !.role = role])],
                           t.sub)
    /\ revoking' = {[of |-> n, spent |-> {}]}
    /\ UNCHANGED tokens

\* update_username.  Tokens name the account by its old name, so none of them
\* works any more; who renames the own account gets a new one.
UpdateUsername(t, n, new) ==
    /\ IsSuper(t.sub)
    /\ Exists(n)
    /\ n # t.sub => ~IsSuper(n)
    /\ ~Exists(new)
    /\ LET touched == Touched(accounts, t.sub)
       IN accounts' = [touched EXCEPT ![new] = touched[n], ![n] = NoAccount]
    /\ tokens' = IF n = t.sub THEN (tokens \ {t}) \cup {TokenFor(new, accounts[n])}
                 ELSE tokens
    /\ UNCHANGED revoking

\* Mutant: an account may delete itself.
DeleteUser_Self(t, n) ==
    /\ IsAdmin(t.sub)
    /\ Exists(n)
    /\ CanManage(t.sub, n)
    /\ accounts' = [Touched(accounts, t.sub) EXCEPT ![n] = NoAccount]
    /\ UNCHANGED <<tokens, revoking>>

DeleteUser(t, n) ==
    /\ IsAdmin(t.sub)
    /\ Exists(n)
    /\ n # t.sub
    /\ CanManage(t.sub, n)
    /\ accounts' = [Touched(accounts, t.sub) EXCEPT ![n] = NoAccount]
    /\ UNCHANGED <<tokens, revoking>>

\* change_password: the tab that asked for it will get a fresh token.
ChangePassword(t) ==
    /\ accounts' = Touched([accounts EXCEPT ![t.sub] = Changed(@)], t.sub)
    /\ revoking' = {[of |-> t.sub, spent |-> {t}]}
    /\ UNCHANGED tokens

ResetPassword(t, n) ==
    /\ IsAdmin(t.sub)
    /\ Exists(n)
    /\ IsSuper(n) => IsSuper(t.sub)
    /\ accounts' = Touched([accounts EXCEPT ![n] = Changed(@)], t.sub)
    /\ revoking' = {[of |-> n, spent |-> {}]}
    /\ UNCHANGED tokens

\* The end of the handler: revoke_tokens with a commit of its own, and the
\* fresh token of the caller who changed the own password.
RevokeTokens ==
    /\ \E r \in revoking :
          /\ accounts' = [accounts EXCEPT ![r.of] = Revoked(@)]
          /\ tokens' = (tokens \ r.spent)
                          \cup {TokenFor(r.of, accounts[r.of]) : t \in r.spent}
    /\ revoking' = {}
    /\ UNCHANGED <<clock, ops>>

\* The server is killed and started again: ensure_admin_exists.  A change that
\* had yet to end the old tokens never does.
Restart ==
    /\ LET left == [n \in Names |->
                        IF \E r \in revoking : r.of = n
                        THEN [accounts[n] EXCEPT !.cut = TRUE] ELSE accounts[n]]
       IN accounts' =
             IF \A n \in Names : ~Exists(n)
             THEN [left EXCEPT ![Seed] = NewAccount("super_admin", <<Seed, ops + 1>>)]
             ELSE IF Exists(Seed) THEN [left EXCEPT ![Seed].role = "super_admin"]
             ELSE left
    /\ revoking' = {}
    /\ UNCHANGED <<tokens, clock, ops>>

Tick ==
    /\ clock < MaxClock
    /\ clock' = clock + 1
    /\ UNCHANGED <<accounts, tokens, ops, revoking>>

\* A request about accounts, made with the token t.
Administer(t) ==
    /\ ops < MaxOps
    /\ ops' = ops + 1
    /\ UNCHANGED clock
    /\ \/ \E n \in Names : UnlockUser(t, n)
       \/ \E n \in Names, role \in Roles : CreateUser(t, n, role)
       \/ \E n \in Names, role \in Roles : UpdateRole(t, n, role)
       \/ \E n, new \in Names : UpdateUsername(t, n, new)
       \/ \E n \in Names : DeleteUser(t, n)
       \/ ChangePassword(t)
       \/ \E n \in Names : ResetPassword(t, n)

Next ==
    \/ /\ revoking = {}
       /\ \/ \E n \in Guessed : LoginFails(n)
          \/ \E n \in Names : LoginSucceeds(n)
          \/ \E t \in tokens :
                Accepted(t) /\ (Administer(t) \/ Request(t) \/ Logout(t))
    \/ RevokeTokens
    \/ \E n \in Names : GoesIdle(n)
    \/ Restart
    \/ Tick

Spec == Init /\ [][Next]_vars

-----------------------------------------------------------------------------
(* Properties *)

\* A super admin is always left: whoever takes the role from an account, or
\* removes it, keeps it, and nobody can do so to themselves (update_role,
\* delete_user and the restart's promotion).
SomeSuperAdmin ==
    \E n \in Names : accounts[n].here /\ accounts[n].role = "super_admin"

\* Until they expire, the tokens that work for the account they were issued to
\* are those issued since the last change of its role or password that ended
\* tokens: such a change ends every token of an earlier second, and neither a
\* rename, nor a restart, nor another person's request ends one issued since
\* (_user_from_token against revoke_tokens).  Tokens issued in the second of
\* that end, before it, work on: that is the precision of the comparison.  The
\* last change is the one that ended tokens, unless its handler has yet to do
\* so or a kill came before it could.
TokensFollowAuthority ==
    \A t \in tokens :
        LET a == accounts[t.sub]
        IN (Exists(t.sub) /\ a.serial = t.serial) =>
               /\ Accepted(t) <=> /\ ~Expired(t)
                                  /\ \/ t.epoch >= a.ended
                                     \/ Second(t.iat) = Second(a.validFrom)
               /\ a.ended = a.epoch \/ a.cut \/ \E r \in revoking : r.of = t.sub

\* An account answers at most 2 * MaxAttempts - 2 wrong passwords within any
\* Window: one more is always at least a Window later, although windows start
\* anew at the first failure after the last one ended and a lock ends at a
\* time of its own, unless somebody who may unlocks it or its owner signs in
\* (is_locked, register_failure).
GuessesAreBounded ==
    \A n \in Names :
        accounts[n].here =>
            LET g == accounts[n].guesses
                most == 2 * MaxAttempts - 2
            IN \A i \in 1 .. Len(g) - most : g[i + most] - g[i] >= Window

=============================================================================
