------------------------------ MODULE AuthStore -------------------------------
(***************************************************************************)
(* ap_auth.AuthStore, the C11 users and sessions, as the login and console *)
(* admin routes of the API process and the ap-auth command line use it.    *)
(* All worker threads of the API share one store object and its RLock; a   *)
(* command line is another process with a store object of its own, which   *)
(* only sqlite keeps apart, one write transaction at a time: the SELECTs   *)
(* of the last-admin guard come before the first write.  A refused call    *)
(* changes nothing and is not a step.                                      *)
(***************************************************************************)
EXTENDS Naturals, FiniteSets

CONSTANTS
  User,
  Token,              \* the token rows that may ever be issued (a bound)
  Telegram,           \* platform user ids, see TeamBot
  Api, Cli,           \* worker threads of the API; ap-auth processes
  Founders,           \* admins added before anything else happens
  NoUser, NoToken, NoTelegram, NoThread

ASSUME AuthAssumption ==
  /\ Founders \subseteq User /\ Founders # {}
  /\ Api \cap Cli = {}
  /\ NoUser \notin User /\ NoToken \notin Token
  /\ NoTelegram \notin Telegram /\ NoThread \notin Api \cup Cli

Thread == Api \cup Cli

VARIABLES
  users,      \* the users table; a row's roles are never empty
  tokens,     \* the sessions table
  call,       \* [Thread -> Call]: the operation a thread is in
  holder,     \* who holds the API's RLock between two statements
  overlapped  \* history: guarded sections of two processes have overlapped

authVars == <<users, tokens, call, holder, overlapped>>

\* admin, or any role that is not.
RoleSets == {{"admin"}, {"team_reader"}}

\* Whether there is a password is left open: an admin can set one at any time.
UserRow == [roles : RoleSets \cup {{}}, disabled : BOOLEAN]

(* An expired row and a revoked one are alike: neither validates again.      *)
(* `purpose` and `late` are history, kept while the row is live: a token of  *)
(* the team bot; a token inserted when its owner was disabled already.       *)
TokenRow == [owner : User \cup {NoUser}, live : BOOLEAN,
             purpose : {"bot", "other"}, late : BOOLEAN]

Call == [pc    : {"idle", "check", "issue", "disable", "disabling", "set_roles",
                  "add", "add_write", "remove", "remove_write"},
         user  : User \cup {NoUser},
         roles : RoleSets \cup {{}},
         token : Token \cup {NoToken},
         telegram : Telegram \cup {NoTelegram},
         then  : {"idle", "add", "remove"}]

Idle == [pc |-> "idle", user |-> NoUser, roles |-> {}, token |-> NoToken,
         telegram |-> NoTelegram, then |-> "idle"]

Exists(u) == users[u].roles # {}
Enabled(u) == Exists(u) /\ ~users[u].disabled
EnabledAdmins == {u \in User : Enabled(u) /\ "admin" \in users[u].roles}

\* identity_for_token(k) is not None.
Validates(k) == tokens[k].live /\ Enabled(tokens[k].owner)

(* require_console_admin lets an enabled admin's browser in, whose session   *)
(* is not counted among the Token rows; ap-auth asks for no identity.        *)
Authorised(t) == t \in Cli \/ EnabledAdmins # {}

\* The lock is free for t, whose store object may be another one.
Free(t) == t \in Cli \/ holder = NoThread

\* A new request: nothing in flight in this thread.
Starts(t) == call[t].pc = "idle" /\ Authorised(t) /\ Free(t)

Goto(t, c) == call' = [call EXCEPT ![t] = c]

\* Bound: every issue under way finds a row.
TokensLeft ==
  Cardinality({s \in Thread : call[s].pc \in {"check", "issue"}})
    < Cardinality({k \in Token : tokens[k].owner = NoUser})

\* A row that was never issued (owner NoUser), or is revoked or expired.
Dead(u) == [owner |-> u, live |-> FALSE, purpose |-> "other", late |-> FALSE]

AuthInit ==
  /\ users = [u \in User |-> [roles |-> IF u \in Founders THEN {"admin"} ELSE {},
                              disabled |-> FALSE]]
  /\ tokens = [k \in Token |-> Dead(NoUser)]
  /\ call = [t \in Thread |-> Idle]
  /\ holder = NoThread
  /\ overlapped = FALSE

-----------------------------------------------------------------------------
(* Users *)

Created(u, roles) == users' = [users EXCEPT ![u] = [roles |-> roles, disabled |-> FALSE]]

CreateUser(t, u, roles) ==
  /\ Starts(t)
  /\ ~Exists(u)
  /\ Created(u, roles)
  /\ UNCHANGED <<tokens, call, holder, overlapped>>

\* set_disabled(u, False): one UPDATE, never guarded.
Enable(t, u) ==
  /\ Starts(t)
  /\ Exists(u)
  /\ users' = [users EXCEPT ![u].disabled = FALSE]
  /\ UNCHANGED <<tokens, call, holder, overlapped>>

\* Mutant of OtherAdmins: the user under edit counts towards its own guard.
OtherAdminsAll(u) == EnabledAdmins

\* _count_enabled_admins(exclude_user_id=u) counts these.
OtherAdmins(u) == EnabledAdmins \ {u}

\* The guard's SELECTs are done; the UPDATE comes next, under the same lock.
EnterGuarded(t, c) ==
  /\ Goto(t, c)
  /\ holder' = IF t \in Api THEN t ELSE holder
  /\ overlapped' = (overlapped \/ \E s \in Thread \ {t} : call[s].pc \in {"disabling", "set_roles"})

LeaveGuarded(t, c) ==
  /\ Goto(t, c)
  /\ holder' = IF holder = t THEN NoThread ELSE holder

MayLoseAdmin(u) == u \in EnabledAdmins => OtherAdmins(u) # {}

\* admin_set_disabled, ap-auth disable: set_disabled(u, True) up to its UPDATE.
Disable(t, u) ==
  /\ Starts(t)
  /\ Exists(u)
  /\ MayLoseAdmin(u)
  /\ EnterGuarded(t, [Idle EXCEPT !.pc = "disabling", !.user = u])
  /\ UNCHANGED <<users, tokens>>

\* The same call as a step of a longer request (TeamBot).
GuardDisable(t) ==
  /\ call[t].pc = "disable"
  /\ Free(t)
  /\ MayLoseAdmin(call[t].user)
  /\ EnterGuarded(t, [call[t] EXCEPT !.pc = "disabling"])
  /\ UNCHANGED <<users, tokens>>

\* LastAdminError ends the request, whatever it was part of.
RefuseDisable(t) ==
  /\ call[t].pc = "disable"
  /\ Free(t)
  /\ ~MayLoseAdmin(call[t].user)
  /\ Goto(t, Idle)
  /\ UNCHANGED <<users, tokens, holder, overlapped>>

\* Mutant of WriteDisable: the sessions stay as they are.
WriteDisableOnly(t) ==
  /\ call[t].pc = "disabling"
  /\ users' = [users EXCEPT ![call[t].user].disabled = TRUE]
  /\ LeaveGuarded(t, [call[t] EXCEPT !.pc = call[t].then])
  /\ UNCHANGED <<tokens, overlapped>>

\* Done with c's current operation: on to what the request does next, if anything.
Continued(c) == IF c.then = "idle" THEN Idle ELSE [c EXCEPT !.pc = c.then]

\* One transaction: the user row, and every session of the user.
WriteDisable(t) ==
  /\ call[t].pc = "disabling"
  /\ users' = [users EXCEPT ![call[t].user].disabled = TRUE]
  /\ tokens' = [k \in Token |-> IF tokens[k].owner = call[t].user
                                THEN Dead(tokens[k].owner) ELSE tokens[k]]
  /\ LeaveGuarded(t, Continued(call[t]))
  /\ UNCHANGED overlapped

\* set_roles up to its UPDATE; losing admin is guarded like being disabled.
SetRoles(t, u, roles) ==
  /\ Starts(t)
  /\ Exists(u)
  /\ "admin" \notin roles => MayLoseAdmin(u)
  /\ EnterGuarded(t, [Idle EXCEPT !.pc = "set_roles", !.user = u, !.roles = roles])
  /\ UNCHANGED <<users, tokens>>

WriteRoles(t) ==
  /\ call[t].pc = "set_roles"
  /\ users' = [users EXCEPT ![call[t].user].roles = call[t].roles]
  /\ LeaveGuarded(t, Idle)
  /\ UNCHANGED <<tokens, overlapped>>

-----------------------------------------------------------------------------
(* Login and tokens *)

\* POST /login: verify_login, then create_session, whose own check is as strong.
Login(t, u) ==
  /\ t \in Api /\ call[t].pc = "idle" /\ Free(t) /\ TokensLeft
  /\ Enabled(u)
  /\ Goto(t, [Idle EXCEPT !.pc = "issue", !.user = u])
  /\ UNCHANGED <<users, tokens, holder, overlapped>>

\* admin_issue_token, ap-auth token: _issue_token's first lock section.
ServiceToken(t, u) ==
  /\ Starts(t) /\ TokensLeft
  /\ Enabled(u)
  /\ Goto(t, [Idle EXCEPT !.pc = "issue", !.user = u])
  /\ UNCHANGED <<users, tokens, holder, overlapped>>

\* Mutant of Failed: a provision that fails is not rolled back.
FailedAsIs(c) == Idle

\* A failed step of a provision is answered by disabling the new user.
Failed(c) == IF c.then = "add" THEN [c EXCEPT !.pc = "disable", !.then = "idle"] ELSE Idle

\* _issue_token for a provision, first lock section: an enabled user, or AuthError.
CheckEnabled(t) ==
  /\ call[t].pc = "check"
  /\ Free(t)
  /\ Goto(t, IF Enabled(call[t].user) THEN [call[t] EXCEPT !.pc = "issue"] ELSE Failed(call[t]))
  /\ UNCHANGED <<users, tokens, holder, overlapped>>

\* ... second one: the INSERT, which looks at nothing.
InsertToken(t) ==
  /\ call[t].pc = "issue"
  /\ Free(t)
  /\ \E k \in Token :
       /\ tokens[k].owner = NoUser
       /\ tokens' = [tokens EXCEPT ![k] =
            [owner |-> call[t].user, live |-> TRUE,
             purpose |-> IF call[t].then = "add" THEN "bot" ELSE "other",
             late |-> ~Enabled(call[t].user)]]
       /\ Goto(t, IF call[t].then = "idle" THEN Idle
                  ELSE [call[t] EXCEPT !.pc = call[t].then, !.token = k])
  /\ UNCHANGED <<users, holder, overlapped>>

\* revoke_session_by_hash, by an admin; the row's user need not be the page's.
RevokeSession(t, k) ==
  /\ Starts(t)
  /\ tokens[k].live
  /\ tokens' = [tokens EXCEPT ![k] = Dead(@.owner)]
  /\ UNCHANGED <<users, call, holder, overlapped>>

\* identity_from_request: a bearer token or a session cookie that validates.
Caller(k) == tokens[k].owner # NoUser /\ Validates(k)

\* POST /logout by the holder of the session.
Logout(t, k) ==
  /\ t \in Api /\ call[t].pc = "idle" /\ Free(t)
  /\ Caller(k)
  /\ tokens' = [tokens EXCEPT ![k] = Dead(@.owner)]
  /\ UNCHANGED <<users, call, holder, overlapped>>

\* The clock passes expires_at, twelve hours or a year after the issue.
Expire(k) ==
  /\ tokens[k].live
  /\ tokens' = [tokens EXCEPT ![k] = Dead(@.owner)]
  /\ UNCHANGED <<users, call, holder, overlapped>>

-----------------------------------------------------------------------------
(* Who makes which call *)

\* ap-auth adduser, disable, enable, token.
CommandLine(t) ==
  /\ t \in Cli
  /\ \E u \in User :
       \/ \E roles \in RoleSets : CreateUser(t, u, roles)
       \/ Disable(t, u) \/ Enable(t, u) \/ ServiceToken(t, u)

\* POST /console/admin/users
AdminCreateUser(t) ==
  /\ t \in Api
  /\ \E u \in User, roles \in RoleSets : CreateUser(t, u, roles)

\* The POST routes of one user's page: roles, disabled, tokens, revoke.
AdminUserDetail(t) ==
  /\ t \in Api
  /\ \/ \E u \in User :
          \/ \E roles \in RoleSets : SetRoles(t, u, roles)
          \/ Disable(t, u) \/ Enable(t, u) \/ ServiceToken(t, u)
     \/ \E k \in Token : RevokeSession(t, k)

LoginRoutes(t) ==
  \/ \E u \in User : Login(t, u)
  \/ \E k \in Token : Logout(t, k)

\* The next statement of a call under way.
Proceed(t) ==
  GuardDisable(t) \/ WriteDisable(t) \/ WriteRoles(t) \/ CheckEnabled(t) \/ InsertToken(t)

AuthStep(t) ==
  CommandLine(t) \/ AdminCreateUser(t) \/ AdminUserDetail(t) \/ LoginRoutes(t) \/ Proceed(t)

-----------------------------------------------------------------------------
\* Tables and calls are well formed, and the lock is held exactly inside a guarded section.
AuthTypeOK ==
  /\ users \in [User -> UserRow]
  /\ tokens \in [Token -> TokenRow]
  /\ call \in [Thread -> Call]
  /\ overlapped \in BOOLEAN
  /\ \A t \in Api : holder = t <=> call[t].pc \in {"disabling", "set_roles"}

(* LastAdminError: no order of disables, role edits, rollbacks and           *)
(* revocations leaves zero enabled admins, as long as no two processes are   *)
(* inside the guarded section of set_disabled or set_roles at once (two      *)
(* threads of the API never are).                                            *)
AnAdminRemains == ~overlapped => EnabledAdmins # {}

(* "disabling a user also revokes every session/token they currently hold":  *)
(* what a disabled user still holds, and would use again once enabled, was   *)
(* inserted by an issue that had looked before the disable.                  *)
DisabledHoldsNothing ==
  \A k \in Token : tokens[k].live /\ users[tokens[k].owner].disabled => tokens[k].late
=============================================================================
