---------------------------- MODULE TeamBotProofs -----------------------------
(***************************************************************************)
(* Proofs about AuthStore and TeamBot, for any users, tokens, threads and  *)
(* command lines: an enabled admin remains, a disabled user holds nothing, *)
(* no provision leaves an unreachable account and a revoked sender is      *)
(* refused.  The last two need what a team bot request in flight knows     *)
(* about the file it has read and the user it has disabled.                *)
(***************************************************************************)
EXTENDS TeamBot, TLAPS

\* What a thread can be inside of: a plain call, a provision, the rollback of
\* a provision, a revocation.
CallShape(c) ==
  \/ /\ c.telegram = NoTelegram /\ c.then = "idle"
     /\ c.pc \in {"idle", "issue", "disabling", "set_roles"}
  \/ /\ c.telegram \in Telegram /\ c.then = "add"
     /\ c.pc \in {"check", "issue", "add", "add_write"}
  \/ /\ c.telegram \in Telegram /\ c.then = "idle"
     /\ c.pc \in {"disable", "disabling"}
  \/ /\ c.telegram \in Telegram /\ c.then = "remove"
     /\ c.pc \in {"disable", "disabling", "remove", "remove_write"}

\* The arguments a call carries.
CallArguments(c) ==
  /\ c.pc # "idle" => c.user \in User
  /\ c.pc = "set_roles" => c.roles \in RoleSets
  /\ c.pc \in {"add", "add_write"} => c.token \in Token

WellFormed(c) == c \in Call /\ CallShape(c) /\ CallArguments(c)

InGuarded(t) == call[t].pc \in {"disabling", "set_roles"}

\* The lock is an API thread's, and held exactly inside a guarded section.
LockSound ==
  /\ holder \in Api \cup {NoThread}
  /\ \A t \in Api : holder = t <=> InGuarded(t)

\* A token anybody holds on to was issued to a user.
Issued(k) == tokens[k].owner \in User
EntriesIssued(e) == \A g \in Telegram : e[g] # NoToken => Issued(e[g])

TokensIssued ==
  /\ \A k \in Token : tokens[k].live => Issued(k)
  /\ \A t \in Thread : call[t].pc \in {"add", "add_write"} =>
       tokens[call[t].token].owner = call[t].user
  /\ EntriesIssued(allowlist) /\ EntriesIssued(cache)
  /\ \A t \in Thread : EntriesIssued(edit[t])

CallsOK == call \in [Thread -> Call] /\ \A t \in Thread : WellFormed(call[t])

TablesOK ==
  /\ users \in [User -> UserRow] /\ tokens \in [Token -> TokenRow]
  /\ overlapped \in BOOLEAN /\ disturbed \in BOOLEAN

FilesOK ==
  /\ allowlist \in Entries /\ cache \in Entries
  /\ edit \in [Thread -> Entries]
  /\ revoked \subseteq Telegram /\ overwritten \subseteq Token

TypeInv == CallsOK /\ TablesOK /\ FilesOK /\ LockSound /\ TokensIssued

-----------------------------------------------------------------------------
\* Whoever is about to take an admin away has left another one.
LeavesAnAdmin(c) ==
  c.pc = "disabling" \/ (c.pc = "set_roles" /\ "admin" \notin c.roles) =>
    \E v \in EnabledAdmins : v # c.user

AdminInv ==
  ~overlapped =>
    /\ EnabledAdmins # {}
    /\ \A s, t \in Thread : InGuarded(s) /\ InGuarded(t) => s = t
    /\ \A t \in Thread : LeavesAnAdmin(call[t])

-----------------------------------------------------------------------------
(* What a team bot request knows of the file it has read and of the user it  *)
(* has disabled: c is the call, e the file it is about to write, `file` the  *)
(* allowlist and `table` the tokens, before or after a step.                 *)
FileKnown(c, e, file, table) ==
  /\ c.pc = "add_write" => e = [file EXCEPT ![c.telegram] = c.token]
  /\ c.pc = "remove_write" => e = [file EXCEPT ![c.telegram] = NoToken]
  /\ c.pc \in {"disable", "disabling"} /\ c.then = "remove" =>
       /\ file[c.telegram] # NoToken
       /\ table[file[c.telegram]].owner = c.user
  /\ c.pc \in {"remove", "remove_write"} /\ file[c.telegram] # NoToken =>
       ~table[file[c.telegram]].live

\* The call will write k's entry, or disable k's owner.
Handles(c, k, owner) ==
  /\ c.telegram # NoTelegram
  /\ \/ c.pc \in {"add", "add_write"} /\ c.token = k
     \/ c.pc \in {"disable", "disabling"} /\ c.then = "idle" /\ c.user = owner

Reachable(k) ==
  \/ k \in overwritten
  \/ \E g \in Telegram : allowlist[g] = k
  \/ \E t \in Thread : Handles(call[t], k, tokens[k].owner)

\* An entry the bot still holds is current, dead, or replaced.
CacheKnown(g) ==
  \/ cache[g] \in {NoToken, allowlist[g]}
  \/ ~tokens[cache[g]].live
  \/ cache[g] \in overwritten

OneAccessRequest ==
  \A s, t \in Thread :
    call[s].telegram # NoTelegram /\ call[t].telegram # NoTelegram => s = t

AccessInv ==
  ~disturbed =>
    /\ OneAccessRequest
    /\ \A t \in Thread : FileKnown(call[t], edit[t], allowlist, tokens)
    /\ \A k \in Token : tokens[k].live /\ tokens[k].purpose = "bot" => Reachable(k)
    /\ \A g \in Telegram : CacheKnown(g)
    /\ \A g \in revoked : allowlist[g] = NoToken

-----------------------------------------------------------------------------
(* The steps, with those that have the same effect put together. *)

\* A row is created or enabled: it becomes an enabled one, an admin stays one.
RaiseUser(u) ==
  /\ users' \in [User -> UserRow]
  /\ \A v \in User \ {u} : users'[v] = users[v]
  /\ users'[u].roles \in RoleSets /\ ~users'[u].disabled
  /\ "admin" \in users[u].roles => "admin" \in users'[u].roles

CreateOrEnable ==
  /\ \E u \in User : RaiseUser(u)
  /\ UNCHANGED <<tokens, call, holder, overlapped, botVars>>

\* A live token is revoked, expires or is logged out.
KillToken ==
  /\ \E k \in Token : tokens' = [tokens EXCEPT ![k] = Dead(@.owner)]
  /\ UNCHANGED <<users, call, holder, overlapped, botVars>>

StartIssue(t, u) == Login(t, u) \/ ServiceToken(t, u)

Reload == cache' = allowlist /\ UNCHANGED <<authVars, allowlist, edit, revoked, overwritten, disturbed>>

PlainStep(t) ==
  /\ UNCHANGED botVars
  /\ \/ \E u \in User : Disable(t, u) \/ StartIssue(t, u)
     \/ \E u \in User, roles \in RoleSets : SetRoles(t, u, roles)
     \/ GuardDisable(t) \/ WriteDisable(t) \/ WriteRoles(t)
     \/ CheckEnabled(t) \/ InsertToken(t)

AccessStep(t) ==
  \/ \E u \in User, roles \in RoleSets, g \in Telegram : Provision(t, u, roles, g)
  \/ \E g \in Telegram : Revoke(t, g)
  \/ AddEntry(t) \/ RemoveEntry(t) \/ ReplaceFile(t) \/ FileError(t) \/ Refuse(t)

\* Creating a row or enabling one raises the user.
LEMMA RaisingSteps ==
  ASSUME TypeInv, NEW t \in Thread, NEW u \in User,
         \/ \E roles \in RoleSets : CreateUser(t, u, roles)
         \/ Enable(t, u)
  PROVE  RaiseUser(u) /\ UNCHANGED <<tokens, call, holder, overlapped>>
  <1>0. users \in [User -> UserRow]
    BY DEF TypeInv, TablesOK
  <1>1. ASSUME NEW roles \in RoleSets, CreateUser(t, u, roles) PROVE RaiseUser(u)
    BY <1>0, <1>1 DEF CreateUser, Created, Exists, RaiseUser, UserRow
  <1>2. ASSUME Enable(t, u) PROVE RaiseUser(u)
    BY <1>0, <1>2 DEF Enable, Exists, RaiseUser, UserRow
  <1> QED BY <1>1, <1>2 DEF CreateUser, Enable

\* Every step is one of these.
LEMMA StepCases ==
  ASSUME TypeInv, [Next]_vars
  PROVE  \/ CreateOrEnable \/ KillToken \/ Reload \/ ApiRestart
         \/ \E t \in Thread : PlainStep(t) \/ AccessStep(t)
         \/ UNCHANGED vars
  <1>1. ASSUME NEW t \in Thread, AuthStep(t), UNCHANGED botVars
        PROVE  CreateOrEnable \/ KillToken \/ PlainStep(t)
    <2>1. ASSUME NEW u \in User,
                 \/ \E roles \in RoleSets : CreateUser(t, u, roles)
                 \/ Enable(t, u)
          PROVE  CreateOrEnable
      BY <1>1, <2>1, RaisingSteps DEF CreateOrEnable
    <2>2. ASSUME NEW k \in Token, RevokeSession(t, k) \/ Logout(t, k)
          PROVE  KillToken
      BY <1>1, <2>2 DEF KillToken, RevokeSession, Logout
    <2>3. \/ \E u \in User : \/ \E roles \in RoleSets : CreateUser(t, u, roles)
                             \/ Enable(t, u)
          \/ \E k \in Token : RevokeSession(t, k) \/ Logout(t, k)
          \/ PlainStep(t)
      BY <1>1 DEF AuthStep, CommandLine, AdminCreateUser, AdminUserDetail, LoginRoutes,
                  Proceed, PlainStep, StartIssue
    <2> QED BY <2>1, <2>2, <2>3
  <1>2. ASSUME NEW k \in Token, Expire(k), UNCHANGED botVars PROVE KillToken
    BY <1>2 DEF Expire, KillToken
  <1>3. ASSUME NEW g \in Telegram, ReloadOnMiss(g) PROVE Reload
    BY <1>3 DEF ReloadOnMiss, Reload
  <1>4. BotRestart => Reload
    BY DEF BotRestart, Reload
  <1>5. ASSUME Next
        PROVE  \/ \E t \in Thread : AuthStep(t) /\ UNCHANGED botVars
               \/ \E t \in Thread : AccessStep(t)
               \/ \E k \in Token : Expire(k) /\ UNCHANGED botVars
               \/ \E g \in Telegram : ReloadOnMiss(g)
               \/ BotRestart \/ ApiRestart
    BY <1>5, Zenon DEF Next, AccessStep
  <1> QED BY <1>1, <1>2, <1>3, <1>4, <1>5, Zenon

-----------------------------------------------------------------------------
(* Types: calls, tables, files, the lock, and who owns the tokens around. *)

\* A thread that does nothing is well formed.
LEMMA IdleWellFormed == WellFormed(Idle)
  BY DEF WellFormed, CallShape, CallArguments, Idle, Call

\* Writing a well-formed call into one thread keeps all of them so.
LEMMA AssignCall ==
  ASSUME CallsOK, NEW t \in Thread, NEW c, WellFormed(c), Goto(t, c)
  PROVE  CallsOK' /\ \A s \in Thread : call'[s] = IF s = t THEN c ELSE call[s]
  <1>1. c \in Call
    BY DEF WellFormed
  <1>2. \A s \in Thread : call'[s] = IF s = t THEN c ELSE call[s]
    BY DEF Goto, CallsOK
  <1>3. call' \in [Thread -> Call]
    BY <1>1 DEF Goto, CallsOK
  <1>4. \A s \in Thread : WellFormed(call'[s])
    BY <1>2 DEF CallsOK
  <1> QED BY <1>2, <1>3, <1>4 DEF CallsOK, WellFormed, CallShape, CallArguments

\* What a call is after the current operation is well formed.
LEMMA ContinuedWellFormed ==
  ASSUME NEW c, WellFormed(c), c.pc = "disabling"
  PROVE  WellFormed(Continued(c))
  <1>1. CASE c.then = "idle"
    BY <1>1, IdleWellFormed DEF Continued
  <1>2. CASE c.then # "idle"
    BY <1>2 DEF Continued, WellFormed, CallShape, CallArguments, Call
  <1> QED BY <1>1, <1>2

\* So is what it is after a failed step.
LEMMA FailedWellFormed ==
  ASSUME NEW c, WellFormed(c), c.pc # "idle"
  PROVE  WellFormed(Failed(c))
  <1>1. CASE c.then = "add"
    BY <1>1 DEF Failed, WellFormed, CallShape, CallArguments, Call
  <1>2. CASE c.then # "add"
    BY <1>2, IdleWellFormed DEF Failed
  <1> QED BY <1>1, <1>2

\* Calls stay well formed.
LEMMA CallsStep == TypeInv /\ [Next]_vars => CallsOK'
  <1> SUFFICES ASSUME TypeInv, [Next]_vars PROVE CallsOK'
    OBVIOUS
  <1>0. CallsOK
    BY DEF TypeInv
  <1>a. ASSUME NEW t \in Thread, NEW c, WellFormed(c), Goto(t, c) PROVE CallsOK'
    BY <1>0, <1>a, AssignCall
  <1>b. ASSUME call' = call PROVE CallsOK'
    BY <1>0, <1>b DEF CallsOK, WellFormed, CallShape, CallArguments
  <1>1. ASSUME NEW t \in Thread, PlainStep(t) PROVE CallsOK'
    <2> DEFINE c == call[t]
    <2>0. WellFormed(c) /\ c \in Call
      BY <1>0 DEF CallsOK
    <2>1. ASSUME NEW u \in User, Disable(t, u) PROVE CallsOK'
      <3>1. WellFormed([Idle EXCEPT !.pc = "disabling", !.user = u])
        BY DEF WellFormed, CallShape, CallArguments, Call, Idle
      <3> QED BY <1>a, <2>1, <3>1 DEF Disable, EnterGuarded
    <2>2. ASSUME NEW u \in User, StartIssue(t, u) PROVE CallsOK'
      <3>1. WellFormed([Idle EXCEPT !.pc = "issue", !.user = u])
        BY DEF WellFormed, CallShape, CallArguments, Call, Idle
      <3> QED BY <1>a, <2>2, <3>1 DEF StartIssue, Login, ServiceToken
    <2>3. ASSUME NEW u \in User, NEW roles \in RoleSets, SetRoles(t, u, roles) PROVE CallsOK'
      <3>1. WellFormed([Idle EXCEPT !.pc = "set_roles", !.user = u, !.roles = roles])
        BY DEF WellFormed, CallShape, CallArguments, Call, Idle
      <3> QED BY <1>a, <2>3, <3>1 DEF SetRoles, EnterGuarded
    <2>4. ASSUME GuardDisable(t) PROVE CallsOK'
      <3>1. WellFormed([c EXCEPT !.pc = "disabling"])
        BY <2>0, <2>4 DEF GuardDisable, WellFormed, CallShape, CallArguments, Call
      <3> QED BY <1>a, <2>4, <3>1 DEF GuardDisable, EnterGuarded
    <2>5. ASSUME WriteDisable(t) PROVE CallsOK'
      <3>1. WellFormed(Continued(c))
        BY <2>0, <2>5, ContinuedWellFormed DEF WriteDisable
      <3> QED BY <1>a, <2>5, <3>1 DEF WriteDisable, LeaveGuarded
    <2>6. ASSUME WriteRoles(t) PROVE CallsOK'
      BY <1>a, <2>6, IdleWellFormed DEF WriteRoles, LeaveGuarded
    <2>7. ASSUME CheckEnabled(t) PROVE CallsOK'
      <3>1. WellFormed([c EXCEPT !.pc = "issue"])
        BY <2>0, <2>7 DEF CheckEnabled, WellFormed, CallShape, CallArguments, Call
      <3>2. WellFormed(Failed(c))
        BY <2>0, <2>7, FailedWellFormed DEF CheckEnabled
      <3> QED BY <1>a, <2>7, <3>1, <3>2 DEF CheckEnabled
    <2>8. ASSUME InsertToken(t) PROVE CallsOK'
      <3>1. PICK k \in Token :
              Goto(t, IF c.then = "idle" THEN Idle ELSE [c EXCEPT !.pc = c.then, !.token = k])
        BY <2>8 DEF InsertToken
      <3>2. c.then # "idle" => WellFormed([c EXCEPT !.pc = c.then, !.token = k])
        BY <2>0, <2>8 DEF InsertToken, WellFormed, CallShape, CallArguments, Call
      <3> QED BY <1>a, <3>1, <3>2, IdleWellFormed
    <2> QED BY <1>1, <2>1, <2>2, <2>3, <2>4, <2>5, <2>6, <2>7, <2>8 DEF PlainStep
  <1>2. ASSUME NEW t \in Thread, AccessStep(t) PROVE CallsOK'
    <2> DEFINE c == call[t]
    <2>0. WellFormed(c) /\ c \in Call
      BY <1>0 DEF CallsOK
    <2>1. ASSUME NEW u \in User, NEW roles \in RoleSets, NEW g \in Telegram,
                 Provision(t, u, roles, g)
          PROVE  CallsOK'
      <3>1. WellFormed([Idle EXCEPT !.pc = "check", !.user = u, !.telegram = g, !.then = "add"])
        BY DEF WellFormed, CallShape, CallArguments, Call, Idle
      <3> QED BY <1>a, <2>1, <3>1 DEF Provision
    <2>2. ASSUME NEW g \in Telegram, Revoke(t, g) PROVE CallsOK'
      <3> DEFINE u == tokens[allowlist[g]].owner
      <3>1. u \in User
        BY <2>2 DEF Revoke, TypeInv, TokensIssued, EntriesIssued, Issued
      <3>2. Goto(t, [Idle EXCEPT !.pc = "disable", !.user = u, !.telegram = g, !.then = "remove"])
        BY <2>2 DEF Revoke
      <3> HIDE DEF u
      <3>3. WellFormed([Idle EXCEPT !.pc = "disable", !.user = u, !.telegram = g, !.then = "remove"])
        BY <3>1 DEF WellFormed, CallShape, CallArguments, Call, Idle
      <3> QED BY <1>a, <3>2, <3>3
    <2>3. ASSUME AddEntry(t) PROVE CallsOK'
      <3>1. WellFormed([c EXCEPT !.pc = "add_write"])
        BY <2>0, <2>3 DEF AddEntry, WellFormed, CallShape, CallArguments, Call
      <3> QED BY <1>a, <2>3, <3>1 DEF AddEntry
    <2>4. ASSUME RemoveEntry(t) PROVE CallsOK'
      <3>1. WellFormed([c EXCEPT !.pc = "remove_write"])
        BY <2>0, <2>4 DEF RemoveEntry, WellFormed, CallShape, CallArguments, Call
      <3> QED BY <1>a, <2>4, <3>1, IdleWellFormed DEF RemoveEntry
    <2>5. ASSUME ReplaceFile(t) \/ Refuse(t) PROVE CallsOK'
      BY <1>a, <2>5, IdleWellFormed DEF ReplaceFile, Refuse, RefuseDisable
    <2>6. ASSUME FileError(t) PROVE CallsOK'
      <3>1. WellFormed(Failed(c))
        BY <2>0, <2>6, FailedWellFormed DEF FileError
      <3> QED BY <1>a, <2>6, <3>1 DEF FileError
    <2> QED BY <1>2, <2>1, <2>2, <2>3, <2>4, <2>5, <2>6 DEF AccessStep
  <1>3. CASE ApiRestart
    <2>1. call' = [t \in Thread |-> IF t \in Api THEN Idle ELSE call[t]]
      BY <1>3 DEF ApiRestart
    <2>2. \A t \in Thread : call'[t] = Idle \/ call'[t] = call[t]
      BY <2>1
    <2>3. \A t \in Thread : WellFormed(call'[t])
      BY <1>0, <2>2, IdleWellFormed DEF CallsOK
    <2> QED BY <2>1, <2>3 DEF CallsOK, WellFormed, CallShape, CallArguments
  <1> QED BY <1>b, <1>1, <1>2, <1>3, StepCases
          DEF CreateOrEnable, KillToken, Reload, vars, authVars

\* What a step may do to a token: an issued one keeps its owner and, once dead,
\* stays dead; a live one is as it was, or has just been inserted.
TokenHistory(k) ==
  /\ tokens[k].owner # NoUser =>
       /\ tokens'[k].owner = tokens[k].owner
       /\ tokens'[k].live => tokens'[k] = tokens[k]
  /\ tokens[k].owner = NoUser /\ tokens'[k].live => tokens'[k].owner \in User

\* Every step keeps the tables well formed, and tokens keep their history.
LEMMA TablesStep ==
  ASSUME TypeInv, [Next]_vars
  PROVE  TablesOK' /\ \A k \in Token : TokenHistory(k)
  <1> DEFINE G == TablesOK' /\ \A k \in Token : TokenHistory(k)
  <1>0. TablesOK /\ CallsOK /\ users \in [User -> UserRow] /\ tokens \in [Token -> TokenRow]
        /\ \A k \in Token : tokens[k].live => tokens[k].owner \in User
    BY DEF TypeInv, TablesOK, TokensIssued, Issued
  <1>1. ASSUME UNCHANGED tokens PROVE \A k \in Token : TokenHistory(k)
    BY <1>0, <1>1, AuthAssumption DEF TokenHistory
  <1>2. CASE CreateOrEnable
    BY <1>0, <1>1, <1>2 DEF CreateOrEnable, RaiseUser, TablesOK, botVars
  <1>3. CASE KillToken
    <2>1. PICK k \in Token : tokens' = [tokens EXCEPT ![k] = Dead(tokens[k].owner)]
      BY <1>3 DEF KillToken
    <2>2. Dead(tokens[k].owner) \in TokenRow
      BY <1>0 DEF Dead, TokenRow
    <2>3. tokens' \in [Token -> TokenRow]
      BY <1>0, <2>1, <2>2
    <2>4. \A j \in Token : TokenHistory(j)
      BY <1>0, <2>1, AuthAssumption DEF TokenHistory, Dead
    <2> QED BY <1>0, <1>3, <2>3, <2>4 DEF KillToken, TablesOK, botVars
  <1>4. ASSUME NEW t \in Thread, PlainStep(t) PROVE G
    <2> DEFINE c == call[t]
    <2>0. WellFormed(c)
      BY <1>0 DEF CallsOK
    <2>1. ASSUME NEW u \in User, Disable(t, u) PROVE G
      BY <1>0, <1>1, <1>4, <2>1 DEF Disable, EnterGuarded, PlainStep, TablesOK, botVars
    <2>2. ASSUME NEW u \in User, StartIssue(t, u) PROVE G
      BY <1>0, <1>1, <1>4, <2>2 DEF StartIssue, Login, ServiceToken, PlainStep, TablesOK, botVars
    <2>3. ASSUME NEW u \in User, NEW roles \in RoleSets, SetRoles(t, u, roles) PROVE G
      BY <1>0, <1>1, <1>4, <2>3 DEF SetRoles, EnterGuarded, PlainStep, TablesOK, botVars
    <2>4. ASSUME GuardDisable(t) PROVE G
      BY <1>0, <1>1, <1>4, <2>4 DEF GuardDisable, EnterGuarded, PlainStep, TablesOK, botVars
    <2>5. ASSUME WriteDisable(t) PROVE G
      <3>1. users' \in [User -> UserRow]
        BY <1>0, <2>5 DEF WriteDisable, UserRow
      <3>2. \A k \in Token : tokens'[k] = IF tokens[k].owner = c.user
                                          THEN Dead(tokens[k].owner) ELSE tokens[k]
        BY <2>5 DEF WriteDisable
      <3>3. \A k \in Token : Dead(tokens[k].owner) \in TokenRow
        BY <1>0 DEF Dead, TokenRow
      <3>4. tokens' \in [Token -> TokenRow]
        BY <1>0, <2>5, <3>3 DEF WriteDisable
      <3>5. ASSUME NEW k \in Token PROVE TokenHistory(k)
        <4>1. Dead(tokens[k].owner).owner = tokens[k].owner /\ ~Dead(tokens[k].owner).live
          BY DEF Dead
        <4> QED BY <1>0, <3>2, <4>1, AuthAssumption DEF TokenHistory
      <3> QED BY <1>0, <1>4, <2>5, <3>1, <3>4, <3>5 DEF WriteDisable, PlainStep, TablesOK, botVars
    <2>6. ASSUME WriteRoles(t) PROVE G
      <3>1. users' \in [User -> UserRow]
        BY <1>0, <2>0, <2>6 DEF WriteRoles, UserRow, WellFormed, CallArguments
      <3> QED BY <1>0, <1>1, <1>4, <2>6, <3>1 DEF WriteRoles, PlainStep, TablesOK, botVars
    <2>7. ASSUME CheckEnabled(t) PROVE G
      BY <1>0, <1>1, <1>4, <2>7 DEF CheckEnabled, PlainStep, TablesOK, botVars
    <2>8. ASSUME InsertToken(t) PROVE G
      <3> DEFINE row == [owner |-> c.user, live |-> TRUE,
                         purpose |-> IF c.then = "add" THEN "bot" ELSE "other",
                         late |-> ~Enabled(c.user)]
      <3>1. PICK k \in Token : tokens[k].owner = NoUser /\ tokens' = [tokens EXCEPT ![k] = row]
        BY <2>8 DEF InsertToken
      <3>2. c.user \in User
        BY <2>0, <2>8 DEF InsertToken, WellFormed, CallArguments
      <3>3. row \in TokenRow /\ row.owner \in User
        BY <3>2 DEF TokenRow
      <3> HIDE DEF row
      <3>4. tokens' \in [Token -> TokenRow]
        BY <1>0, <3>1, <3>3
      <3>5. \A j \in Token : TokenHistory(j)
        BY <1>0, <3>1, <3>3, AuthAssumption DEF TokenHistory
      <3> QED BY <1>0, <1>4, <2>8, <3>4, <3>5 DEF InsertToken, PlainStep, TablesOK, botVars
    <2> QED BY <1>4, <2>1, <2>2, <2>3, <2>4, <2>5, <2>6, <2>7, <2>8 DEF PlainStep
  <1>5. ASSUME NEW t \in Thread, AccessStep(t) PROVE G
    <2>1. ASSUME NEW u \in User, NEW roles \in RoleSets, NEW g \in Telegram,
                 Provision(t, u, roles, g)
          PROVE  G
      <3>1. users' \in [User -> UserRow]
        BY <1>0, <2>1 DEF Provision, Created, UserRow
      <3> QED BY <1>0, <1>1, <2>1, <3>1 DEF Provision, Admits, TablesOK
    <2>2. ASSUME NEW g \in Telegram, Revoke(t, g) PROVE G
      BY <1>0, <1>1, <2>2 DEF Revoke, Admits, TablesOK
    <2>3. ASSUME AddEntry(t) \/ RemoveEntry(t) \/ ReplaceFile(t) \/ FileError(t) PROVE G
      BY <1>0, <1>1, <2>3 DEF AddEntry, RemoveEntry, ReplaceFile, FileError, TablesOK
    <2>4. ASSUME Refuse(t) PROVE G
      BY <1>0, <1>1, <2>4 DEF Refuse, RefuseDisable, TablesOK
    <2> QED BY <1>5, <2>1, <2>2, <2>3, <2>4 DEF AccessStep
  <1>6. CASE Reload \/ ApiRestart
    BY <1>0, <1>1, <1>6 DEF Reload, ApiRestart, TablesOK, authVars
  <1>7. CASE UNCHANGED vars
    BY <1>0, <1>1, <1>7 DEF vars, authVars, botVars, TablesOK
  <1> QED BY <1>2, <1>3, <1>4, <1>5, <1>6, <1>7, StepCases

\* The lock stays an API thread's, held exactly inside a guarded section: the
\* steps that enter or leave one take or release it.
LEMMA LockStep == TypeInv /\ [Next]_vars => LockSound'
  <1> SUFFICES ASSUME TypeInv, [Next]_vars PROVE LockSound'
    OBVIOUS
  <1>0. LockSound /\ CallsOK
    BY DEF TypeInv
  <1> USE AuthAssumption DEF LockSound, InGuarded
  <1>a. ASSUME UNCHANGED holder,
               \A t \in Thread : InGuarded(t)' <=> InGuarded(t)
        PROVE  LockSound'
    BY <1>0, <1>a DEF Thread
  <1>b. ASSUME NEW t \in Thread, NEW c, Goto(t, c), UNCHANGED holder,
               ~InGuarded(t), c.pc \notin {"disabling", "set_roles"}
        PROVE  LockSound'
    BY <1>0, <1>a, <1>b DEF Goto, CallsOK
  <1>c. ASSUME NEW t \in Thread, NEW c, EnterGuarded(t, c), Free(t),
               ~InGuarded(t), c.pc \in {"disabling", "set_roles"}
        PROVE  LockSound'
    <2>1. \A s \in Thread : call'[s] = IF s = t THEN c ELSE call[s]
      BY <1>0, <1>c DEF EnterGuarded, Goto, CallsOK
    <2>2. holder' = IF t \in Api THEN t ELSE holder
      BY <1>c DEF EnterGuarded
    <2>3. t \in Api => holder = NoThread
      BY <1>c DEF Free
    <2> QED BY <1>0, <1>c, <2>1, <2>2, <2>3 DEF Thread
  <1>d. ASSUME NEW t \in Thread, NEW c, LeaveGuarded(t, c), InGuarded(t),
               c.pc \notin {"disabling", "set_roles"}
        PROVE  LockSound'
    <2>1. \A s \in Thread : call'[s] = IF s = t THEN c ELSE call[s]
      BY <1>0, <1>d DEF LeaveGuarded, Goto, CallsOK
    <2>2. holder' = IF holder = t THEN NoThread ELSE holder
      BY <1>d DEF LeaveGuarded
    <2> QED BY <1>0, <1>d, <2>1, <2>2 DEF Thread
  <1>1. ASSUME NEW t \in Thread, PlainStep(t) PROVE LockSound'
    <2> DEFINE c == call[t]
    <2>0. WellFormed(c) /\ c \in Call
      BY <1>0 DEF CallsOK
    <2>1. ASSUME NEW u \in User, Disable(t, u) PROVE LockSound'
      <3>1. [Idle EXCEPT !.pc = "disabling", !.user = u].pc = "disabling"
        BY DEF Idle
      <3> QED BY <1>c, <2>1, <3>1 DEF Disable, Starts
    <2>2. ASSUME NEW u \in User, StartIssue(t, u) PROVE LockSound'
      <3>1. [Idle EXCEPT !.pc = "issue", !.user = u].pc = "issue"
        BY DEF Idle
      <3> QED BY <1>b, <2>2, <3>1 DEF StartIssue, Login, ServiceToken, Starts
    <2>3. ASSUME NEW u \in User, NEW roles \in RoleSets, SetRoles(t, u, roles) PROVE LockSound'
      <3>1. [Idle EXCEPT !.pc = "set_roles", !.user = u, !.roles = roles].pc = "set_roles"
        BY DEF Idle
      <3> QED BY <1>c, <2>3, <3>1 DEF SetRoles, Starts
    <2>4. ASSUME GuardDisable(t) PROVE LockSound'
      <3>1. [c EXCEPT !.pc = "disabling"].pc = "disabling"
        BY <2>0 DEF Call
      <3> QED BY <1>c, <2>4, <3>1 DEF GuardDisable
    <2>5. ASSUME WriteDisable(t) PROVE LockSound'
      <3>1. Continued(c).pc \notin {"disabling", "set_roles"}
        BY <2>0, <2>5 DEF WriteDisable, Continued, Idle, WellFormed, CallShape, Call
      <3> QED BY <1>d, <2>5, <3>1 DEF WriteDisable
    <2>6. ASSUME WriteRoles(t) PROVE LockSound'
      BY <1>d, <2>6 DEF WriteRoles, Idle
    <2>7. ASSUME CheckEnabled(t) PROVE LockSound'
      <3>1. [c EXCEPT !.pc = "issue"].pc = "issue"
            /\ Failed(c).pc \notin {"disabling", "set_roles"}
        BY <2>0 DEF Call, Failed, Idle
      <3> QED BY <1>b, <2>7, <3>1 DEF CheckEnabled
    <2>8. ASSUME InsertToken(t) PROVE LockSound'
      <3>1. PICK k \in Token :
              Goto(t, IF c.then = "idle" THEN Idle ELSE [c EXCEPT !.pc = c.then, !.token = k])
        BY <2>8 DEF InsertToken
      <3>2. [c EXCEPT !.pc = c.then, !.token = k].pc \notin {"disabling", "set_roles"}
            /\ Idle.pc = "idle"
        BY <2>0 DEF Call, Idle
      <3> QED BY <1>b, <2>8, <3>1, <3>2 DEF InsertToken
    <2> QED BY <1>1, <2>1, <2>2, <2>3, <2>4, <2>5, <2>6, <2>7, <2>8 DEF PlainStep
  <1>2. ASSUME NEW t \in Thread, AccessStep(t) PROVE LockSound'
    <2> DEFINE c == call[t]
    <2>0. WellFormed(c) /\ c \in Call
      BY <1>0 DEF CallsOK
    <2>1. ASSUME NEW u \in User, NEW roles \in RoleSets, NEW g \in Telegram,
                 Provision(t, u, roles, g)
          PROVE  LockSound'
      <3>1. [Idle EXCEPT !.pc = "check", !.user = u, !.telegram = g, !.then = "add"].pc = "check"
        BY DEF Idle
      <3> QED BY <1>b, <2>1, <3>1 DEF Provision, Admits, Starts
    <2>2. ASSUME NEW g \in Telegram, Revoke(t, g) PROVE LockSound'
      <3>1. \A u : [Idle EXCEPT !.pc = "disable", !.user = u, !.telegram = g,
                                !.then = "remove"].pc = "disable"
        BY DEF Idle
      <3> QED BY <1>b, <2>2, <3>1 DEF Revoke, Admits, Starts
    <2>3. ASSUME AddEntry(t) \/ RemoveEntry(t) PROVE LockSound'
      <3>1. /\ [c EXCEPT !.pc = "add_write"].pc = "add_write"
            /\ [c EXCEPT !.pc = "remove_write"].pc = "remove_write"
            /\ Idle.pc = "idle"
        BY <2>0 DEF Call, Idle
      <3> QED BY <1>b, <2>3, <3>1 DEF AddEntry, RemoveEntry
    <2>4. ASSUME ReplaceFile(t) \/ Refuse(t) PROVE LockSound'
      BY <1>b, <2>4 DEF ReplaceFile, Refuse, RefuseDisable, Idle
    <2>5. ASSUME FileError(t) PROVE LockSound'
      <3>1. Failed(c).pc \notin {"disabling", "set_roles"}
        BY <2>0 DEF Call, Failed, Idle
      <3> QED BY <1>b, <2>5, <3>1 DEF FileError
    <2> QED BY <1>2, <2>1, <2>2, <2>3, <2>4, <2>5 DEF AccessStep
  <1>3. CASE ApiRestart
    <2>1. /\ holder' = NoThread
          /\ \A t \in Api : call'[t] = Idle
      BY <1>3 DEF ApiRestart, Thread
    <2> QED BY <2>1 DEF Idle
  <1> QED BY <1>a, <1>1, <1>2, <1>3, StepCases
          DEF CreateOrEnable, KillToken, Reload, vars, authVars

\* A file holds an entry or none for every id.
LEMMA FilesStep == TypeInv /\ [Next]_vars => FilesOK'
  <1> SUFFICES ASSUME TypeInv, [Next]_vars PROVE FilesOK'
    OBVIOUS
  <1>0. FilesOK /\ CallsOK
    BY DEF TypeInv
  <1> USE DEF FilesOK
  <1>1. ASSUME NEW t \in Thread, AccessStep(t) PROVE FilesOK'
    <2> DEFINE c == call[t]
    <2>0. WellFormed(c)
      BY <1>0 DEF CallsOK
    <2>e. NoEntries \in Entries
      BY DEF NoEntries, Entries
    <2>1. ASSUME NEW u \in User, NEW roles \in RoleSets, NEW g \in Telegram,
                 Provision(t, u, roles, g)
          PROVE  FilesOK'
      BY <1>0, <2>1 DEF Provision
    <2>2. ASSUME NEW g \in Telegram, Revoke(t, g) PROVE FilesOK'
      BY <1>0, <2>2 DEF Revoke
    <2>3. ASSUME AddEntry(t) PROVE FilesOK'
      BY <1>0, <2>0, <2>3 DEF AddEntry, Entries, WellFormed, CallArguments
    <2>4. ASSUME RemoveEntry(t) PROVE FilesOK'
      BY <1>0, <2>0, <2>4 DEF RemoveEntry, Entries, WellFormed, CallShape
    <2>5. ASSUME ReplaceFile(t) PROVE FilesOK'
      <3>1. c.telegram \in Telegram
        BY <2>0, <2>5 DEF ReplaceFile, WellFormed, CallShape
      <3>2. allowlist[c.telegram] \in Token \cup {NoToken} /\ edit[t] \in Entries
        BY <1>0, <3>1 DEF Entries
      <3> QED BY <1>0, <2>5, <2>e, <3>1, <3>2 DEF ReplaceFile
    <2>6. ASSUME FileError(t) PROVE FilesOK'
      BY <1>0, <2>6, <2>e DEF FileError
    <2>7. ASSUME Refuse(t) PROVE FilesOK'
      BY <1>0, <2>7 DEF Refuse
    <2> QED BY <1>1, <2>1, <2>2, <2>3, <2>4, <2>5, <2>6, <2>7 DEF AccessStep
  <1>2. CASE ApiRestart
    BY <1>0, <1>2 DEF ApiRestart, NoEntries, Entries
  <1> QED BY <1>0, <1>1, <1>2, StepCases
          DEF CreateOrEnable, KillToken, Reload, PlainStep, botVars, vars

\* Every token in a file, in the bot's copy or in a call has an owner, because
\* an owner never changes.
LEMMA TokensIssuedStep == TypeInv /\ [Next]_vars => TokensIssued'
  <1> SUFFICES ASSUME TypeInv, [Next]_vars PROVE TokensIssued'
    OBVIOUS
  <1>0. CallsOK /\ FilesOK /\ TokensIssued /\ tokens \in [Token -> TokenRow]
    BY DEF TypeInv, TablesOK
  <1>h. \A k \in Token : TokenHistory(k)
    BY TablesStep
  <1>1. \A k \in Token : tokens'[k].live => Issued(k)'
    BY <1>0, <1>h DEF TokenHistory, Issued, TokensIssued, TokenRow
  <1>2. ASSUME NEW e \in Entries, EntriesIssued(e)
        PROVE  \A g \in Telegram : e[g] # NoToken => tokens'[e[g]].owner \in User
    BY <1>2, <1>h, AuthAssumption DEF EntriesIssued, Issued, Entries, TokenHistory
  <1>3. /\ \A g \in Telegram : allowlist[g] # NoToken => tokens'[allowlist[g]].owner \in User
        /\ \A g \in Telegram : cache[g] # NoToken => tokens'[cache[g]].owner \in User
        /\ \A t \in Thread, g \in Telegram : edit[t][g] # NoToken => tokens'[edit[t][g]].owner \in User
    BY <1>0, <1>2 DEF TokensIssued, FilesOK
  <1>4. ASSUME NEW t \in Thread, call[t].pc \in {"add", "add_write"}
        PROVE  /\ call[t].telegram \in Telegram /\ call[t].token \in Token
               /\ tokens'[call[t].token].owner = call[t].user /\ call[t].user \in User
    <2>1. /\ call[t].telegram \in Telegram /\ call[t].token \in Token /\ call[t].user \in User
          /\ tokens[call[t].token].owner = call[t].user
      BY <1>0, <1>4 DEF CallsOK, WellFormed, CallShape, CallArguments, TokensIssued
    <2>2. tokens'[call[t].token].owner = call[t].user
      BY <1>h, <2>1, AuthAssumption DEF TokenHistory
    <2> QED BY <2>1, <2>2
  <1> DEFINE CallTokens == \A t \in Thread : call'[t].pc \in {"add", "add_write"} =>
                              tokens'[call'[t].token].owner = call'[t].user
             FileTokens ==
               /\ \A g \in Telegram : allowlist'[g] # NoToken => tokens'[allowlist'[g]].owner \in User
               /\ \A g \in Telegram : cache'[g] # NoToken => tokens'[cache'[g]].owner \in User
               /\ \A t \in Thread, g \in Telegram :
                    edit'[t][g] # NoToken => tokens'[edit'[t][g]].owner \in User
  <1>a. ASSUME NEW t \in Thread, NEW c, Goto(t, c),
               c.pc \in {"add", "add_write"} => tokens'[c.token].owner = c.user
        PROVE  CallTokens
    BY <1>0, <1>4, <1>a DEF Goto, CallsOK
  <1>b. ASSUME UNCHANGED botVars PROVE FileTokens
    BY <1>3, <1>b DEF botVars
  <1>5. ASSUME NEW t \in Thread, PlainStep(t) PROVE CallTokens /\ FileTokens
    <2> DEFINE c == call[t]
    <2>0. WellFormed(c) /\ c \in Call
      BY <1>0 DEF CallsOK
    <2>1. ASSUME NEW u \in User, Disable(t, u) \/ StartIssue(t, u) PROVE CallTokens
      <3>1. /\ [Idle EXCEPT !.pc = "disabling", !.user = u].pc = "disabling"
            /\ [Idle EXCEPT !.pc = "issue", !.user = u].pc = "issue"
        BY DEF Idle
      <3> QED BY <1>a, <2>1, <3>1 DEF Disable, EnterGuarded, StartIssue, Login, ServiceToken
    <2>2. ASSUME NEW u \in User, NEW roles \in RoleSets, SetRoles(t, u, roles) PROVE CallTokens
      <3>1. [Idle EXCEPT !.pc = "set_roles", !.user = u, !.roles = roles].pc = "set_roles"
        BY DEF Idle
      <3> QED BY <1>a, <2>2, <3>1 DEF SetRoles, EnterGuarded
    <2>3. ASSUME GuardDisable(t) PROVE CallTokens
      <3>1. [c EXCEPT !.pc = "disabling"].pc = "disabling"
        BY <2>0 DEF Call
      <3> QED BY <1>a, <2>3, <3>1 DEF GuardDisable, EnterGuarded
    <2>4. ASSUME WriteDisable(t) PROVE CallTokens
      <3>1. Continued(c).pc \notin {"add", "add_write"}
        BY <2>0, <2>4 DEF WriteDisable, Continued, Idle, WellFormed, CallShape, Call
      <3> QED BY <1>a, <2>4, <3>1 DEF WriteDisable, LeaveGuarded
    <2>5. ASSUME WriteRoles(t) PROVE CallTokens
      BY <1>a, <2>5 DEF WriteRoles, LeaveGuarded, Idle
    <2>6. ASSUME CheckEnabled(t) PROVE CallTokens
      <3>1. [c EXCEPT !.pc = "issue"].pc = "issue"
            /\ Failed(c).pc \notin {"add", "add_write"}
        BY <2>0 DEF Call, Failed, Idle
      <3> QED BY <1>a, <2>6, <3>1 DEF CheckEnabled
    <2>7. ASSUME InsertToken(t) PROVE CallTokens
      <3> DEFINE row == [owner |-> c.user, live |-> TRUE,
                         purpose |-> IF c.then = "add" THEN "bot" ELSE "other",
                         late |-> ~Enabled(c.user)]
      <3>1. PICK k \in Token :
              /\ tokens' = [tokens EXCEPT ![k] = row]
              /\ Goto(t, IF c.then = "idle" THEN Idle ELSE [c EXCEPT !.pc = c.then, !.token = k])
        BY <2>7 DEF InsertToken
      <3>3. row.owner = c.user
        OBVIOUS
      <3> HIDE DEF row
      <3>4. tokens'[k].owner = c.user
        BY <1>0, <3>1, <3>3
      <3>2. /\ [c EXCEPT !.pc = c.then, !.token = k].token = k
            /\ [c EXCEPT !.pc = c.then, !.token = k].user = c.user
            /\ Idle.pc = "idle"
        BY <2>0 DEF Call, Idle
      <3> QED BY <1>a, <3>1, <3>2, <3>4
    <2>8. CallTokens
      BY <1>5, <2>1, <2>2, <2>3, <2>4, <2>5, <2>6, <2>7 DEF PlainStep
    <2> QED BY <1>5, <1>b, <2>8 DEF PlainStep
  <1>6. ASSUME NEW t \in Thread, AccessStep(t) PROVE CallTokens /\ FileTokens
    <2> DEFINE c == call[t]
    <2>0. WellFormed(c) /\ c \in Call /\ edit[t] \in Entries
      BY <1>0 DEF CallsOK, FilesOK
    <2>e. ASSUME edit' = [edit EXCEPT ![t] = NoEntries]
          PROVE  \A s \in Thread, g \in Telegram :
                    edit'[s][g] # NoToken => tokens'[edit'[s][g]].owner \in User
      BY <1>0, <1>3, <2>e DEF FilesOK, NoEntries
    <2>1. ASSUME NEW u \in User, NEW roles \in RoleSets, NEW g \in Telegram,
                 Provision(t, u, roles, g)
          PROVE  CallTokens /\ FileTokens
      <3>1. [Idle EXCEPT !.pc = "check", !.user = u, !.telegram = g, !.then = "add"].pc = "check"
        BY DEF Idle
      <3> QED BY <1>3, <1>a, <2>1, <3>1 DEF Provision
    <2>2. ASSUME NEW g \in Telegram, Revoke(t, g) PROVE CallTokens /\ FileTokens
      <3>1. \A u : [Idle EXCEPT !.pc = "disable", !.user = u, !.telegram = g,
                                !.then = "remove"].pc = "disable"
        BY DEF Idle
      <3> QED BY <1>3, <1>a, <2>2, <3>1 DEF Revoke
    <2>3. ASSUME AddEntry(t) PROVE CallTokens /\ FileTokens
      <3>1. /\ [c EXCEPT !.pc = "add_write"].token = c.token
            /\ [c EXCEPT !.pc = "add_write"].user = c.user
        BY <2>0 DEF Call
      <3>2. tokens'[c.token].owner = c.user /\ c.user \in User /\ c.telegram \in Telegram
        BY <1>4, <2>3 DEF AddEntry
      <3>3. CallTokens
        BY <1>a, <2>3, <3>1, <3>2 DEF AddEntry
      <3>4. FileTokens
        BY <1>0, <1>3, <2>3, <3>2 DEF AddEntry, FilesOK, Entries
      <3> QED BY <3>3, <3>4
    <2>4. ASSUME RemoveEntry(t) PROVE CallTokens /\ FileTokens
      <3>1. /\ [c EXCEPT !.pc = "remove_write"].pc = "remove_write"
            /\ Idle.pc = "idle"
        BY <2>0 DEF Call, Idle
      <3>2. c.telegram \in Telegram
        BY <2>0, <2>4 DEF RemoveEntry, WellFormed, CallShape
      <3>3. CallTokens
        BY <1>a, <2>4, <3>1 DEF RemoveEntry
      <3>4. FileTokens
        BY <1>0, <1>3, <2>4, <3>2 DEF RemoveEntry, FilesOK, Entries
      <3> QED BY <3>3, <3>4
    <2>5. ASSUME ReplaceFile(t) PROVE CallTokens /\ FileTokens
      BY <1>3, <1>a, <2>5, <2>e DEF ReplaceFile, Idle
    <2>6. ASSUME FileError(t) PROVE CallTokens /\ FileTokens
      <3>1. Failed(c).pc \notin {"add", "add_write"}
        BY <2>0 DEF Call, Failed, Idle
      <3> QED BY <1>3, <1>a, <2>6, <2>e, <3>1 DEF FileError
    <2>7. ASSUME Refuse(t) PROVE CallTokens /\ FileTokens
      BY <1>3, <1>a, <2>7 DEF Refuse, RefuseDisable, Idle
    <2> QED BY <1>6, <2>1, <2>2, <2>3, <2>4, <2>5, <2>6, <2>7 DEF AccessStep
  <1>7. ASSUME call' = call PROVE CallTokens
    BY <1>4, <1>7
  <1>8. CASE ApiRestart
    <2>1. CallTokens
      BY <1>4, <1>8 DEF ApiRestart, Idle
    <2>2. FileTokens
      BY <1>3, <1>8 DEF ApiRestart, NoEntries
    <2> QED BY <1>1, <2>1, <2>2 DEF TokensIssued, EntriesIssued, Issued
  <1>9. CASE Reload
    <2>1. FileTokens
      BY <1>3, <1>9 DEF Reload
    <2> QED BY <1>1, <1>7, <1>9, <2>1 DEF Reload, authVars, TokensIssued, EntriesIssued, Issued
  <1>10. CASE CreateOrEnable \/ KillToken \/ UNCHANGED vars
    <2>1. UNCHANGED botVars /\ call' = call
      BY <1>10 DEF CreateOrEnable, KillToken, vars, authVars
    <2> QED BY <1>1, <1>7, <1>b, <2>1 DEF TokensIssued, EntriesIssued, Issued
  <1>11. CASE \E t \in Thread : PlainStep(t) \/ AccessStep(t)
    <2>1. CallTokens /\ FileTokens
      BY <1>5, <1>6, <1>11
    <2> QED BY <1>1, <2>1 DEF TokensIssued, EntriesIssued, Issued
  <1> QED BY <1>8, <1>9, <1>10, <1>11, StepCases

\* The type invariant is inductive.
LEMMA TypeStep == TypeInv /\ [Next]_vars => TypeInv'
  BY CallsStep, TablesStep, FilesStep, LockStep, TokensIssuedStep DEF TypeInv

\* The type invariant holds initially.
LEMMA TypeInit == Init => TypeInv
  <1> SUFFICES ASSUME Init PROVE TypeInv
    OBVIOUS
  <1> USE AuthAssumption DEF Init, AuthInit
  <1>1. CallsOK
    BY IdleWellFormed DEF CallsOK, WellFormed
  <1>2. TablesOK
    BY DEF TablesOK, UserRow, RoleSets, TokenRow, Dead
  <1>3. FilesOK
    BY DEF FilesOK, NoEntries, Entries
  <1>4. LockSound
    BY DEF LockSound, InGuarded, Idle, Thread
  <1>5. TokensIssued
    BY DEF TokensIssued, EntriesIssued, NoEntries, Dead, Idle
  <1> QED BY <1>1, <1>2, <1>3, <1>4, <1>5 DEF TypeInv

\* The tables, the files and the calls in flight are well formed, and what
\* anybody holds on to is a token that was issued.
THEOREM TypeInvariant == Spec => []TypeInv
  BY TypeInit, TypeStep, PTL DEF Spec

\* Type correctness of AuthStore and TeamBot; the API's lock is held exactly
\* inside a guarded section.
THEOREM Typing == Spec => []TypeOK
  <1>1. TypeInv => TypeOK
    BY DEF TypeInv, CallsOK, TablesOK, FilesOK, LockSound, InGuarded, TypeOK, AuthTypeOK
  <1> QED BY <1>1, TypeInvariant, PTL

-----------------------------------------------------------------------------
(* An admin remains. *)

\* Raising a user takes no admin away.
LEMMA RaiseKeepsAdmins ==
  ASSUME NEW u \in User, RaiseUser(u)
  PROVE  EnabledAdmins \subseteq EnabledAdmins'
  BY DEF RaiseUser, EnabledAdmins, Enabled, Exists

\* The guard of set_disabled and set_roles leaves somebody else.
LEMMA GuardLeavesAdmin ==
  ASSUME NEW u \in User, EnabledAdmins # {}, MayLoseAdmin(u)
  PROVE  \E v \in EnabledAdmins : v # u
  BY DEF MayLoseAdmin, OtherAdmins

\* A thread that starts or goes on outside the guarded sections.
LEMMA UnguardedStep ==
  ASSUME CallsOK, ~overlapped => EnabledAdmins # {}, AdminInv,
         EnabledAdmins \subseteq EnabledAdmins', overlapped' = overlapped,
         \A t \in Thread : call'[t] = call[t] \/ call'[t].pc \notin {"disabling", "set_roles"}
  PROVE  AdminInv'
  BY DEF AdminInv, LeavesAnAdmin, InGuarded

\* Entering a guarded section, with the guard's result.
LEMMA EnterStep ==
  ASSUME CallsOK, AdminInv, NEW t \in Thread, NEW c, EnterGuarded(t, c),
         UNCHANGED users,
         LeavesAnAdmin(c)
  PROVE  AdminInv'
  <1> SUFFICES ASSUME ~overlapped' PROVE AdminInv'
    BY DEF AdminInv
  <1>1. ~overlapped /\ \A s \in Thread \ {t} : ~InGuarded(s)
    BY DEF EnterGuarded, InGuarded
  <1>2. \A s \in Thread : call'[s] = IF s = t THEN c ELSE call[s]
    BY DEF EnterGuarded, Goto, CallsOK
  <1>3. EnabledAdmins' = EnabledAdmins
    BY DEF EnabledAdmins, Enabled, Exists
  <1>4. \A s \in Thread : LeavesAnAdmin(call[s])
    BY <1>1 DEF AdminInv
  <1> QED BY <1>1, <1>2, <1>3, <1>4 DEF AdminInv, InGuarded, LeavesAnAdmin

\* Leaving it: whoever was excluded by the guard may be gone, the other is not.
LEMMA LeaveStep ==
  ASSUME CallsOK, AdminInv, NEW t \in Thread, NEW c, LeaveGuarded(t, c),
         InGuarded(t), overlapped' = overlapped,
         c.pc \notin {"disabling", "set_roles"},
         LeavesAnAdmin(call[t]) /\ EnabledAdmins # {} => EnabledAdmins' # {}
  PROVE  AdminInv'
  <1> SUFFICES ASSUME ~overlapped PROVE AdminInv'
    BY DEF AdminInv
  <1>1. \A s \in Thread \ {t} : ~InGuarded(s)
    BY DEF AdminInv
  <1>2. \A s \in Thread : call'[s] = IF s = t THEN c ELSE call[s]
    BY DEF LeaveGuarded, Goto, CallsOK
  <1>3. EnabledAdmins' # {}
    BY DEF AdminInv
  <1> QED BY <1>1, <1>2, <1>3 DEF AdminInv, InGuarded, LeavesAnAdmin

\* Every step keeps an enabled admin, unless guarded sections overlapped.
LEMMA AdminStep == TypeInv /\ AdminInv /\ [Next]_vars => AdminInv'
  <1> SUFFICES ASSUME TypeInv, AdminInv, [Next]_vars PROVE AdminInv'
    OBVIOUS
  <1>0. CallsOK /\ users \in [User -> UserRow] /\ (~overlapped => EnabledAdmins # {})
    BY DEF TypeInv, TablesOK, AdminInv
  <1>a. ASSUME UNCHANGED users PROVE EnabledAdmins' = EnabledAdmins
    BY <1>a DEF EnabledAdmins, Enabled, Exists
  <1>b. ASSUME UNCHANGED <<users, overlapped>>, NEW t \in Thread, NEW c, Goto(t, c),
               c.pc \notin {"disabling", "set_roles"}
        PROVE  AdminInv'
    <2>1. \A s \in Thread : call'[s] = IF s = t THEN c ELSE call[s]
      BY <1>0, <1>b DEF Goto, CallsOK
    <2> QED BY <1>0, <1>a, <1>b, <2>1, UnguardedStep
  <1>1. ASSUME NEW u \in User, CreateOrEnable, RaiseUser(u) PROVE AdminInv'
    BY <1>0, <1>1, RaiseKeepsAdmins, UnguardedStep DEF CreateOrEnable
  <1>2. ASSUME NEW t \in Thread, PlainStep(t) PROVE AdminInv'
    <2> DEFINE c == call[t]
    <2>0. WellFormed(c) /\ c \in Call
      BY <1>0 DEF CallsOK
    <2>1. ASSUME NEW u \in User, Disable(t, u) PROVE AdminInv'
      <3> DEFINE d == [Idle EXCEPT !.pc = "disabling", !.user = u]
      <3>1. d.pc = "disabling" /\ d.user = u
        BY DEF Idle
      <3>2. EnterGuarded(t, d) /\ MayLoseAdmin(u) /\ UNCHANGED users
        BY <2>1 DEF Disable
      <3> HIDE DEF d
      <3>3. CASE overlapped
        BY <3>2, <3>3 DEF EnterGuarded, AdminInv
      <3>4. CASE ~overlapped
        <4>1. LeavesAnAdmin(d)
          BY <1>0, <3>1, <3>2, <3>4, GuardLeavesAdmin DEF LeavesAnAdmin
        <4> QED BY <1>0, <3>2, <4>1, EnterStep
      <3> QED BY <3>3, <3>4
    <2>2. ASSUME NEW u \in User, StartIssue(t, u) PROVE AdminInv'
      <3>1. [Idle EXCEPT !.pc = "issue", !.user = u].pc = "issue"
        BY DEF Idle
      <3> QED BY <1>b, <2>2, <3>1 DEF StartIssue, Login, ServiceToken
    <2>3. ASSUME NEW u \in User, NEW roles \in RoleSets, SetRoles(t, u, roles) PROVE AdminInv'
      <3> DEFINE d == [Idle EXCEPT !.pc = "set_roles", !.user = u, !.roles = roles]
      <3>1. d.pc = "set_roles" /\ d.user = u /\ d.roles = roles
        BY DEF Idle
      <3>2. EnterGuarded(t, d) /\ ("admin" \notin roles => MayLoseAdmin(u)) /\ UNCHANGED users
        BY <2>3 DEF SetRoles
      <3> HIDE DEF d
      <3>3. CASE overlapped
        BY <3>2, <3>3 DEF EnterGuarded, AdminInv
      <3>4. CASE ~overlapped
        <4>1. LeavesAnAdmin(d)
          BY <1>0, <3>1, <3>2, <3>4, GuardLeavesAdmin DEF LeavesAnAdmin
        <4> QED BY <1>0, <3>2, <4>1, EnterStep
      <3> QED BY <3>3, <3>4
    <2>4. ASSUME GuardDisable(t) PROVE AdminInv'
      <3> DEFINE d == [c EXCEPT !.pc = "disabling"]
      <3>1. d.pc = "disabling" /\ d.user = c.user
        BY <2>0 DEF Call
      <3>2. EnterGuarded(t, d) /\ MayLoseAdmin(c.user) /\ UNCHANGED users /\ c.user \in User
        BY <2>0, <2>4 DEF GuardDisable, WellFormed, CallArguments
      <3> HIDE DEF d
      <3>3. CASE overlapped
        BY <3>2, <3>3 DEF EnterGuarded, AdminInv
      <3>4. CASE ~overlapped
        <4>1. LeavesAnAdmin(d)
          BY <1>0, <3>1, <3>2, <3>4, GuardLeavesAdmin DEF LeavesAnAdmin
        <4> QED BY <1>0, <3>2, <4>1, EnterStep
      <3> QED BY <3>3, <3>4
    <2>5. ASSUME WriteDisable(t) PROVE AdminInv'
      <3>1. c.pc = "disabling" /\ LeaveGuarded(t, Continued(c)) /\ overlapped' = overlapped
        BY <2>5 DEF WriteDisable
      <3>2. Continued(c).pc \notin {"disabling", "set_roles"}
        BY <2>0, <3>1 DEF Continued, Idle, WellFormed, CallShape, Call
      <3>3. \A v \in User : v # c.user => users'[v] = users[v]
        BY <1>0, <2>5 DEF WriteDisable
      <3>4. LeavesAnAdmin(c) => EnabledAdmins' # {}
        BY <3>1, <3>3 DEF LeavesAnAdmin, EnabledAdmins, Enabled, Exists
      <3> QED BY <1>0, <3>1, <3>2, <3>4, LeaveStep DEF InGuarded
    <2>6. ASSUME WriteRoles(t) PROVE AdminInv'
      <3>1. c.pc = "set_roles" /\ LeaveGuarded(t, Idle) /\ overlapped' = overlapped
        BY <2>6 DEF WriteRoles
      <3>2. \A v \in User : /\ v # c.user => users'[v] = users[v]
                            /\ v = c.user => /\ users'[v].disabled = users[v].disabled
                                             /\ users'[v].roles = c.roles
        BY <1>0, <2>6 DEF WriteRoles, UserRow
      <3>3. LeavesAnAdmin(c) /\ EnabledAdmins # {} => EnabledAdmins' # {}
        <4>1. CASE "admin" \in c.roles
          BY <3>2, <4>1 DEF EnabledAdmins, Enabled, Exists
        <4>2. CASE "admin" \notin c.roles
          BY <3>1, <3>2, <4>2 DEF LeavesAnAdmin, EnabledAdmins, Enabled, Exists
        <4> QED BY <4>1, <4>2
      <3> QED BY <1>0, <3>1, <3>3, LeaveStep DEF InGuarded, Idle
    <2>7. ASSUME CheckEnabled(t) PROVE AdminInv'
      <3>1. [c EXCEPT !.pc = "issue"].pc = "issue"
            /\ Failed(c).pc \notin {"disabling", "set_roles"}
        BY <2>0 DEF Call, Failed, Idle
      <3> QED BY <1>b, <2>7, <3>1 DEF CheckEnabled
    <2>8. ASSUME InsertToken(t) PROVE AdminInv'
      <3>1. PICK k \in Token :
              Goto(t, IF c.then = "idle" THEN Idle ELSE [c EXCEPT !.pc = c.then, !.token = k])
        BY <2>8 DEF InsertToken
      <3>2. [c EXCEPT !.pc = c.then, !.token = k].pc \notin {"disabling", "set_roles"}
            /\ Idle.pc = "idle"
        BY <2>0 DEF Call, Idle
      <3> QED BY <1>b, <2>8, <3>1, <3>2 DEF InsertToken
    <2> QED BY <1>2, <2>1, <2>2, <2>3, <2>4, <2>5, <2>6, <2>7, <2>8 DEF PlainStep
  <1>3. ASSUME NEW t \in Thread, AccessStep(t) PROVE AdminInv'
    <2> DEFINE c == call[t]
    <2>0. WellFormed(c) /\ c \in Call
      BY <1>0 DEF CallsOK
    <2>1. ASSUME NEW u \in User, NEW roles \in RoleSets, NEW g \in Telegram,
                 Provision(t, u, roles, g)
          PROVE  AdminInv'
      <3> DEFINE d == [Idle EXCEPT !.pc = "check", !.user = u, !.telegram = g, !.then = "add"]
      <3>1. d.pc = "check"
        BY DEF Idle
      <3>2. Goto(t, d) /\ overlapped' = overlapped
        BY <2>1 DEF Provision
      <3> HIDE DEF d
      <3>3. \A s \in Thread : call'[s] = IF s = t THEN d ELSE call[s]
        BY <1>0, <3>2 DEF Goto, CallsOK
      <3>4. EnabledAdmins \subseteq EnabledAdmins'
        BY <1>0, <2>1 DEF Provision, Created, EnabledAdmins, Enabled, Exists
      <3> QED BY <1>0, <3>1, <3>2, <3>3, <3>4, UnguardedStep
    <2>2. ASSUME NEW g \in Telegram, Revoke(t, g) PROVE AdminInv'
      <3>1. \A u : [Idle EXCEPT !.pc = "disable", !.user = u, !.telegram = g,
                                !.then = "remove"].pc = "disable"
        BY DEF Idle
      <3> QED BY <1>b, <2>2, <3>1 DEF Revoke
    <2>3. ASSUME AddEntry(t) \/ RemoveEntry(t) PROVE AdminInv'
      <3>1. /\ [c EXCEPT !.pc = "add_write"].pc = "add_write"
            /\ [c EXCEPT !.pc = "remove_write"].pc = "remove_write"
            /\ Idle.pc = "idle"
        BY <2>0 DEF Call, Idle
      <3> QED BY <1>b, <2>3, <3>1 DEF AddEntry, RemoveEntry
    <2>4. ASSUME ReplaceFile(t) \/ Refuse(t) PROVE AdminInv'
      BY <1>b, <2>4 DEF ReplaceFile, Refuse, RefuseDisable, Idle
    <2>5. ASSUME FileError(t) PROVE AdminInv'
      <3>1. Failed(c).pc \notin {"disabling", "set_roles"}
        BY <2>0 DEF Call, Failed, Idle
      <3> QED BY <1>b, <2>5, <3>1 DEF FileError
    <2> QED BY <1>3, <2>1, <2>2, <2>3, <2>4, <2>5 DEF AccessStep
  <1>4. CASE ApiRestart
    <2>1. \A t \in Thread : call'[t] = Idle \/ call'[t] = call[t]
      BY <1>4 DEF ApiRestart
    <2>2. UNCHANGED <<users, overlapped>>
      BY <1>4 DEF ApiRestart
    <2> QED BY <1>0, <1>a, <2>1, <2>2, UnguardedStep DEF Idle
  <1>5. ASSUME UNCHANGED <<users, call, overlapped>> PROVE AdminInv'
    BY <1>0, <1>a, <1>5, UnguardedStep
  <1> QED BY <1>1, <1>2, <1>3, <1>4, <1>5, StepCases
          DEF CreateOrEnable, KillToken, Reload, vars, authVars

\* LastAdminError keeps its promise: unless two processes have been inside the
\* guarded sections at once, an enabled admin remains, whatever the order of
\* disables, role edits, rollbacks and revocations.
THEOREM AdminRemains == Spec => []AnAdminRemains
  <1>1. Init => AdminInv
    <2> SUFFICES ASSUME Init PROVE AdminInv
      OBVIOUS
    <2>1. PICK v \in Founders : v \in User
      BY AuthAssumption
    <2>2. v \in EnabledAdmins
      BY <2>1 DEF Init, AuthInit, EnabledAdmins, Enabled, Exists
    <2>3. \A t \in Thread : call[t].pc = "idle"
      BY DEF Init, AuthInit, Idle
    <2> QED BY <2>2, <2>3 DEF AdminInv, InGuarded, LeavesAnAdmin
  <1>2. AdminInv => AnAdminRemains
    BY DEF AdminInv, AnAdminRemains
  <1> QED BY <1>1, <1>2, AdminStep, TypeInvariant, PTL DEF Spec

-----------------------------------------------------------------------------
(* A disabled user holds nothing. *)

\* What a disabled user still holds was inserted by an issue that had looked
\* before the disable: set_disabled revokes every other session.
THEOREM DisabledHolds == Spec => []DisabledHoldsNothing
  <1>1. Init => DisabledHoldsNothing
    BY DEF Init, AuthInit, DisabledHoldsNothing, Dead
  <1>2. TypeInv /\ DisabledHoldsNothing /\ [Next]_vars => DisabledHoldsNothing'
    <2> SUFFICES ASSUME TypeInv, DisabledHoldsNothing, [Next]_vars
                 PROVE  DisabledHoldsNothing'
      OBVIOUS
    <2>0. /\ users \in [User -> UserRow] /\ tokens \in [Token -> TokenRow]
          /\ \A k \in Token : tokens[k].live => tokens[k].owner \in User
          /\ CallsOK
      BY DEF TypeInv, TablesOK, TokensIssued, Issued
    <2>h. \A k \in Token : TokenHistory(k)
      BY TablesStep
    <2>a. ASSUME \A u \in User : users'[u].disabled => users[u].disabled,
                 \A k \in Token : tokens'[k].live => tokens'[k] = tokens[k]
          PROVE  DisabledHoldsNothing'
      BY <2>0, <2>a DEF DisabledHoldsNothing
    <2>1. CASE CreateOrEnable
      <3>1. \A u \in User : users'[u].disabled => users[u].disabled
        BY <2>1 DEF CreateOrEnable, RaiseUser
      <3> QED BY <2>1, <2>a, <3>1 DEF CreateOrEnable
    <2>2. CASE KillToken
      <3>1. PICK k \in Token : tokens' = [tokens EXCEPT ![k] = Dead(tokens[k].owner)]
        BY <2>2 DEF KillToken
      <3>2. \A j \in Token : tokens'[j].live => tokens'[j] = tokens[j]
        BY <2>0, <3>1 DEF Dead
      <3> QED BY <2>2, <2>a, <3>2 DEF KillToken
    <2>3. ASSUME NEW t \in Thread, PlainStep(t) PROVE DisabledHoldsNothing'
      <3> DEFINE c == call[t]
      <3>1. CASE WriteDisable(t)
        <4>1. \A k \in Token : tokens'[k] = IF tokens[k].owner = c.user
                                            THEN Dead(tokens[k].owner) ELSE tokens[k]
          BY <3>1 DEF WriteDisable
        <4>2. \A k \in Token : tokens'[k].live => tokens[k].owner # c.user /\ tokens'[k] = tokens[k]
          <5>1. \A k \in Token : ~Dead(tokens[k].owner).live
            BY DEF Dead
          <5> QED BY <4>1, <5>1
        <4>3. \A u \in User : u # c.user => users'[u] = users[u]
          BY <2>0, <3>1 DEF WriteDisable
        <4> QED BY <2>0, <4>2, <4>3 DEF DisabledHoldsNothing
      <3>2. CASE WriteRoles(t)
        <4>1. \A u \in User : users'[u].disabled = users[u].disabled
          BY <2>0, <3>2 DEF WriteRoles, UserRow
        <4>2. UNCHANGED tokens
          BY <3>2 DEF WriteRoles
        <4> QED BY <2>a, <4>1, <4>2
      <3>3. CASE InsertToken(t)
        <4> DEFINE row == [owner |-> c.user, live |-> TRUE,
                           purpose |-> IF c.then = "add" THEN "bot" ELSE "other",
                           late |-> ~Enabled(c.user)]
        <4>1. PICK k \in Token : tokens' = [tokens EXCEPT ![k] = row]
          BY <3>3 DEF InsertToken
        <4>2. row.owner = c.user /\ row.late = ~Enabled(c.user)
          OBVIOUS
        <4> HIDE DEF row
        <4>3. users' = users
          BY <3>3 DEF InsertToken
        <4>4. users[c.user].disabled => row.late
          BY <4>2 DEF Enabled
        <4> QED BY <2>0, <4>1, <4>2, <4>3, <4>4 DEF DisabledHoldsNothing
      <3>4. ASSUME UNCHANGED <<users, tokens>> PROVE DisabledHoldsNothing'
        BY <2>a, <3>4
      <3> QED BY <2>3, <3>1, <3>2, <3>3, <3>4
              DEF PlainStep, Disable, StartIssue, Login, ServiceToken, SetRoles,
                  GuardDisable, CheckEnabled
    <2>4. ASSUME NEW t \in Thread, AccessStep(t) PROVE DisabledHoldsNothing'
      <3>1. ASSUME NEW u \in User, NEW roles \in RoleSets, NEW g \in Telegram,
                   Provision(t, u, roles, g)
            PROVE  DisabledHoldsNothing'
        <4>1. \A v \in User : users'[v].disabled => users[v].disabled
          BY <2>0, <3>1 DEF Provision, Created
        <4> QED BY <2>a, <3>1, <4>1 DEF Provision
      <3>2. ASSUME UNCHANGED <<users, tokens>> PROVE DisabledHoldsNothing'
        BY <2>a, <3>2
      <3> QED BY <2>4, <3>1, <3>2
              DEF AccessStep, Revoke, AddEntry, RemoveEntry, ReplaceFile, FileError,
                  Refuse, RefuseDisable
    <2>5. ASSUME UNCHANGED <<users, tokens>> PROVE DisabledHoldsNothing'
      BY <2>a, <2>5
    <2> QED BY <2>1, <2>2, <2>3, <2>4, <2>5, StepCases
            DEF Reload, ApiRestart, vars, authVars
  <1> QED BY <1>1, <1>2, TypeInvariant, PTL DEF Spec

-----------------------------------------------------------------------------
(* Team bot access. *)

\* A call of no team bot request knows nothing of the file and handles no token.
LEMMA PlainCall ==
  ASSUME NEW c, CallShape(c), c.telegram = NoTelegram
  PROVE  /\ \A e, file, table : FileKnown(c, e, file, table)
         /\ \A k, owner : ~Handles(c, k, owner)
  BY AuthAssumption DEF CallShape, FileKnown, Handles

\* What a request knows stays true of tokens that others kill or insert.
LEMMA FileKnownStable ==
  ASSUME TypeInv, \A k \in Token : TokenHistory(k), NEW c, WellFormed(c), NEW e,
         FileKnown(c, e, allowlist, tokens)
  PROVE  FileKnown(c, e, allowlist, tokens')
  <1>1. CASE c.telegram = NoTelegram
    BY <1>1, PlainCall DEF WellFormed
  <1>2. CASE c.telegram # NoTelegram
    <2> DEFINE k == allowlist[c.telegram]
    <2>1. c.telegram \in Telegram
      BY <1>2 DEF WellFormed, CallShape
    <2>2. k # NoToken => k \in Token /\ tokens[k].owner \in User
      BY <2>1 DEF TypeInv, FilesOK, Entries, TokensIssued, EntriesIssued, Issued
    <2>3. k # NoToken => /\ tokens'[k].owner = tokens[k].owner
                         /\ tokens'[k].live => tokens'[k] = tokens[k]
      BY <2>2, AuthAssumption DEF TokenHistory
    <2> QED BY <2>3 DEF FileKnown
  <1> QED BY <1>1, <1>2

\* What the bot holds stays current, dead or replaced when only tokens change.
LEMMA CacheKnownStable ==
  ASSUME TypeInv, \A k \in Token : TokenHistory(k), NEW g \in Telegram, CacheKnown(g),
         UNCHANGED <<allowlist, cache, overwritten>>
  PROVE  CacheKnown(g)'
  <1>1. cache[g] # NoToken => cache[g] \in Token /\ tokens[cache[g]].owner \in User
    BY DEF TypeInv, FilesOK, Entries, TokensIssued, EntriesIssued, Issued
  <1>2. cache[g] # NoToken => (tokens'[cache[g]].live => tokens'[cache[g]] = tokens[cache[g]])
    BY <1>1, AuthAssumption DEF TokenHistory
  <1> QED BY <1>2 DEF CacheKnown

\* A step of one request that leaves the file alone.
LEMMA RequestStep ==
  ASSUME TypeInv, AccessInv, ~disturbed, \A k \in Token : TokenHistory(k),
         UNCHANGED <<allowlist, cache, overwritten>>,
         NEW t \in Thread, NEW c, Goto(t, c), WellFormed(c),
         \/ c.telegram = NoTelegram
         \/ call[t].telegram # NoTelegram
         \/ \A s \in Thread : call[s].telegram = NoTelegram,
         \A s \in Thread : s # t => edit'[s] = edit[s],
         FileKnown(c, edit'[t], allowlist, tokens'),
         \A k \in Token : tokens'[k].live /\ tokens'[k].purpose = "bot" =>
           \/ Handles(c, k, tokens'[k].owner)
           \/ tokens'[k] = tokens[k] /\ ~Handles(call[t], k, tokens[k].owner),
         \A g \in revoked' : allowlist[g] = NoToken
  PROVE  AccessInv'
  <1>0. CallsOK /\ \A s \in Thread : call'[s] = IF s = t THEN c ELSE call[s]
    BY AssignCall DEF TypeInv
  <1>1. OneAccessRequest'
    BY <1>0 DEF AccessInv, OneAccessRequest
  <1>2. ASSUME NEW s \in Thread
        PROVE  FileKnown(call'[s], edit'[s], allowlist', tokens')
    <2>1. CASE s = t
      BY <1>0, <2>1
    <2>2. CASE s # t
      <3>1. FileKnown(call[s], edit[s], allowlist, tokens) /\ WellFormed(call[s])
        BY <1>0 DEF AccessInv, CallsOK
      <3>2. FileKnown(call[s], edit[s], allowlist, tokens')
        BY <3>1, FileKnownStable
      <3> QED BY <1>0, <2>2, <3>2
    <2> QED BY <2>1, <2>2
  <1>3. ASSUME NEW k \in Token, tokens'[k].live, tokens'[k].purpose = "bot"
        PROVE  Reachable(k)'
    <2>1. CASE Handles(c, k, tokens'[k].owner)
      BY <1>0, <2>1 DEF Reachable
    <2>2. CASE tokens'[k] = tokens[k] /\ ~Handles(call[t], k, tokens[k].owner)
      <3>1. \/ k \in overwritten
            \/ \E g \in Telegram : allowlist[g] = k
            \/ \E s \in Thread : s # t /\ Handles(call[s], k, tokens[k].owner)
        BY <1>3, <2>2 DEF AccessInv, Reachable
      <3> QED BY <1>0, <2>2, <3>1 DEF Reachable
    <2> QED BY <1>3, <2>1, <2>2
  <1>4. \A g \in Telegram : CacheKnown(g)'
    BY CacheKnownStable DEF AccessInv
  <1> QED BY <1>1, <1>2, <1>3, <1>4 DEF AccessInv

\* A step that moves no request and inserts no token.
LEMMA ForeignStep ==
  ASSUME TypeInv, AccessInv, \A k \in Token : TokenHistory(k),
         \A k \in Token : tokens'[k].live => tokens'[k] = tokens[k],
         UNCHANGED <<call, botVars>>
  PROVE  AccessInv'
  <1> SUFFICES ASSUME ~disturbed PROVE AccessInv'
    BY DEF AccessInv, botVars
  <1>0. CallsOK /\ UNCHANGED <<allowlist, cache, edit, overwritten, revoked>>
    BY DEF TypeInv, botVars
  <1>1. OneAccessRequest'
    BY DEF AccessInv, OneAccessRequest
  <1>2. \A s \in Thread : FileKnown(call'[s], edit'[s], allowlist', tokens')
    <2> SUFFICES ASSUME NEW s \in Thread
                 PROVE  FileKnown(call[s], edit[s], allowlist, tokens')
      BY <1>0
    <2>1. FileKnown(call[s], edit[s], allowlist, tokens) /\ WellFormed(call[s])
      BY <1>0 DEF AccessInv, CallsOK
    <2> QED BY <2>1, FileKnownStable
  <1>3. \A k \in Token : tokens'[k].live /\ tokens'[k].purpose = "bot" => Reachable(k)'
    BY <1>0 DEF AccessInv, Reachable
  <1>4. \A g \in Telegram : CacheKnown(g)'
    BY <1>0, CacheKnownStable DEF AccessInv
  <1> QED BY <1>0, <1>1, <1>2, <1>3, <1>4 DEF AccessInv

\* A step of a plain call, or of a request inside the guarded section.
LEMMA AccessPlain ==
  ASSUME TypeInv, AccessInv, ~disturbed, \A k \in Token : TokenHistory(k),
         NEW t \in Thread, PlainStep(t)
  PROVE  AccessInv'
  <1> DEFINE c == call[t]
  <1>0. WellFormed(c) /\ c \in Call /\ CallsOK
    BY DEF TypeInv, CallsOK
  <1>1. UNCHANGED <<allowlist, cache, overwritten, edit, revoked>>
    BY DEF PlainStep, botVars
  <1>2. FileKnown(c, edit[t], allowlist, tokens')
    <2>1. FileKnown(c, edit[t], allowlist, tokens)
      BY DEF AccessInv
    <2> QED BY <1>0, <2>1, FileKnownStable
  <1>3. \A g \in revoked' : allowlist[g] = NoToken
    BY <1>1 DEF AccessInv
  <1>4. c.telegram # NoTelegram => c.telegram \in Telegram
    BY <1>0 DEF WellFormed, CallShape
  <1>5. \A s \in Thread : edit'[s] = edit[s]
    BY <1>1
  \* What the step must show of the call it leads to.
  <1>a. ASSUME NEW d, Goto(t, d), WellFormed(d), d.telegram \in {NoTelegram, c.telegram},
               FileKnown(d, edit[t], allowlist, tokens'),
               \A k \in Token : tokens'[k].live /\ tokens'[k].purpose = "bot" =>
                 \/ Handles(d, k, tokens'[k].owner)
                 \/ tokens'[k] = tokens[k] /\ ~Handles(c, k, tokens[k].owner)
        PROVE  AccessInv'
    <2>1. FileKnown(d, edit'[t], allowlist, tokens')
      BY <1>5, <1>a
    <2>2. \/ d.telegram = NoTelegram
          \/ call[t].telegram # NoTelegram
          \/ \A s \in Thread : call[s].telegram = NoTelegram
      BY <1>a
    <2> QED BY <1>1, <1>3, <1>5, <1>a, <2>1, <2>2, RequestStep
  \* A plain call begins: it was idle.
  <1>b. ASSUME NEW d, Goto(t, d), WellFormed(d), d.telegram = NoTelegram,
               c.telegram = NoTelegram, tokens' = tokens
        PROVE  AccessInv'
    <2>1. FileKnown(d, edit[t], allowlist, tokens') /\ \A k, o : ~Handles(c, k, o)
      BY <1>0, <1>b, PlainCall DEF WellFormed
    <2> QED BY <1>a, <1>b, <2>1
  <1>6. c.pc = "idle" => c.telegram = NoTelegram
    BY <1>0 DEF WellFormed, CallShape
  <1>7. ASSUME NEW u \in User, Disable(t, u) PROVE AccessInv'
    <2> DEFINE d == [Idle EXCEPT !.pc = "disabling", !.user = u]
    <2>1. WellFormed(d) /\ d.telegram = NoTelegram
      BY DEF WellFormed, CallShape, CallArguments, Call, Idle
    <2>2. Goto(t, d) /\ tokens' = tokens /\ c.pc = "idle"
      BY <1>7 DEF Disable, EnterGuarded, Starts
    <2> HIDE DEF d
    <2> QED BY <1>b, <1>6, <2>1, <2>2
  <1>8. ASSUME NEW u \in User, StartIssue(t, u) PROVE AccessInv'
    <2> DEFINE d == [Idle EXCEPT !.pc = "issue", !.user = u]
    <2>1. WellFormed(d) /\ d.telegram = NoTelegram
      BY DEF WellFormed, CallShape, CallArguments, Call, Idle
    <2>2. Goto(t, d) /\ tokens' = tokens /\ c.pc = "idle"
      BY <1>8 DEF StartIssue, Login, ServiceToken, Starts
    <2> HIDE DEF d
    <2> QED BY <1>b, <1>6, <2>1, <2>2
  <1>9. ASSUME NEW u \in User, NEW roles \in RoleSets, SetRoles(t, u, roles) PROVE AccessInv'
    <2> DEFINE d == [Idle EXCEPT !.pc = "set_roles", !.user = u, !.roles = roles]
    <2>1. WellFormed(d) /\ d.telegram = NoTelegram
      BY DEF WellFormed, CallShape, CallArguments, Call, Idle
    <2>2. Goto(t, d) /\ tokens' = tokens /\ c.pc = "idle"
      BY <1>9 DEF SetRoles, EnterGuarded, Starts
    <2> HIDE DEF d
    <2> QED BY <1>b, <1>6, <2>1, <2>2
  <1>10. ASSUME GuardDisable(t) PROVE AccessInv'
    <2> DEFINE d == [c EXCEPT !.pc = "disabling"]
    <2>1. Goto(t, d) /\ tokens' = tokens /\ c.pc = "disable"
      BY <1>10 DEF GuardDisable, EnterGuarded
    <2>2. WellFormed(d)
      BY <1>0, <2>1 DEF WellFormed, CallShape, CallArguments, Call
    <2>3. d.pc = "disabling" /\ d.telegram = c.telegram /\ d.then = c.then /\ d.user = c.user
      BY <1>0 DEF Call
    <2> HIDE DEF d
    <2>4. FileKnown(d, edit[t], allowlist, tokens')
      BY <1>2, <2>1, <2>3 DEF FileKnown
    <2>5. \A k, o : Handles(c, k, o) => Handles(d, k, o)
      BY <2>1, <2>3 DEF Handles
    <2> QED BY <1>a, <2>1, <2>2, <2>3, <2>4, <2>5
  <1>11. ASSUME WriteDisable(t) PROVE AccessInv'
    <2> DEFINE d == Continued(c)
    <2>1. Goto(t, d) /\ c.pc = "disabling"
      BY <1>11 DEF WriteDisable, LeaveGuarded
    <2>2. WellFormed(d)
      BY <1>0, <2>1, ContinuedWellFormed
    <2>3. \A k \in Token : tokens'[k] = IF tokens[k].owner = c.user
                                        THEN Dead(tokens[k].owner) ELSE tokens[k]
      BY <1>11 DEF WriteDisable
    <2>4. \A k \in Token : tokens'[k].live => tokens[k].owner # c.user /\ tokens'[k] = tokens[k]
      <3>1. \A k \in Token : ~Dead(tokens[k].owner).live
        BY DEF Dead
      <3> QED BY <2>3, <3>1
    <2>5. \A k \in Token : tokens'[k].live => tokens'[k] = tokens[k] /\ ~Handles(c, k, tokens[k].owner)
      BY <2>1, <2>4 DEF Handles
    <2>6. /\ d.telegram \in {NoTelegram, c.telegram}
          /\ c.then = "idle" => d = Idle
          /\ c.then # "idle" => d.telegram = c.telegram /\ d.pc = c.then
      BY <1>0 DEF Continued, Idle, Call
    <2>7. FileKnown(d, edit[t], allowlist, tokens')
      <3>1. CASE c.then = "idle"
        BY <2>6, <3>1, IdleWellFormed, PlainCall DEF Idle, WellFormed
      <3>2. CASE c.then # "idle"
        <4>1. c.then = "remove" /\ c.telegram \in Telegram
          BY <1>0, <2>1, <3>2 DEF WellFormed, CallShape
        <4>2. allowlist[c.telegram] \in Token /\ tokens[allowlist[c.telegram]].owner = c.user
          <5>1. FileKnown(c, edit[t], allowlist, tokens)
            BY DEF AccessInv
          <5> QED BY <2>1, <4>1, <5>1 DEF FileKnown, TypeInv, FilesOK, Entries
        <4>3. ~tokens'[allowlist[c.telegram]].live
          BY <2>4, <4>2
        <4> QED BY <2>6, <3>2, <4>1, <4>3 DEF FileKnown
      <3> QED BY <3>1, <3>2
    <2> HIDE DEF d
    <2> QED BY <1>a, <2>1, <2>2, <2>5, <2>6, <2>7
  <1>12. ASSUME WriteRoles(t) PROVE AccessInv'
    <2>1. c.telegram = NoTelegram
      BY <1>0, <1>12 DEF WriteRoles, WellFormed, CallShape
    <2> QED BY <1>b, <1>12, <2>1, IdleWellFormed DEF WriteRoles, LeaveGuarded, Idle
  <1>13. ASSUME CheckEnabled(t) PROVE AccessInv'
    <2> DEFINE d == IF Enabled(c.user) THEN [c EXCEPT !.pc = "issue"] ELSE Failed(c)
    <2>1. Goto(t, d) /\ tokens' = tokens /\ c.pc = "check"
      BY <1>13 DEF CheckEnabled
    <2>2. WellFormed([c EXCEPT !.pc = "issue"])
      BY <1>0, <2>1 DEF WellFormed, CallShape, CallArguments, Call
    <2>3. WellFormed(Failed(c))
      BY <1>0, <2>1, FailedWellFormed
    <2>4. WellFormed(d)
      BY <2>2, <2>3
    <2>5. /\ d.telegram = c.telegram
          /\ d.pc = "issue" \/ (d.pc = "disable" /\ d.then = "idle")
      <3> DEFINE e == [c EXCEPT !.pc = "issue"]
      <3>1. c.then = "add"
        BY <1>0, <2>1 DEF WellFormed, CallShape
      <3>2. e.pc = "issue" /\ e.telegram = c.telegram
        BY <1>0 DEF Call
      <3>3. /\ Failed(c).pc = "disable" /\ Failed(c).then = "idle"
            /\ Failed(c).telegram = c.telegram
        BY <1>0, <3>1 DEF Failed, Call
      <3>4. d = e \/ d = Failed(c)
        OBVIOUS
      <3> HIDE DEF d, e
      <3> QED BY <3>2, <3>3, <3>4
    <2> HIDE DEF d
    <2>6. FileKnown(d, edit[t], allowlist, tokens') /\ \A k, o : ~Handles(c, k, o)
      BY <2>1, <2>5 DEF FileKnown, Handles
    <2> QED BY <1>a, <2>1, <2>4, <2>5, <2>6
  <1>14. ASSUME InsertToken(t) PROVE AccessInv'
    <2>2. c.pc = "issue" /\ (c.then = "add" \/ (c.then = "idle" /\ c.telegram = NoTelegram))
      <3>1. c.pc = "issue"
        BY <1>14 DEF InsertToken
      <3>2. CallShape(c)
        BY <1>0 DEF WellFormed
      <3> HIDE DEF c
      <3> QED BY <3>1, <3>2 DEF CallShape
    <2> DEFINE row == [owner |-> c.user, live |-> TRUE,
                       purpose |-> IF c.then = "add" THEN "bot" ELSE "other",
                       late |-> ~Enabled(c.user)]
    <2>1. PICK k \in Token :
            /\ tokens' = [tokens EXCEPT ![k] = row]
            /\ Goto(t, IF c.then = "idle" THEN Idle ELSE [c EXCEPT !.pc = c.then, !.token = k])
      BY <1>14 DEF InsertToken
    <2> DEFINE d == IF c.then = "idle" THEN Idle ELSE [c EXCEPT !.pc = c.then, !.token = k]
    <2>3. row.purpose = IF c.then = "add" THEN "bot" ELSE "other"
      OBVIOUS
    <2> HIDE DEF row
    <2>4. /\ \A j \in Token : tokens'[j] = IF j = k THEN row ELSE tokens[j]
          /\ Goto(t, d)
      BY <2>1 DEF TypeInv, TablesOK
    <2>5. c.then # "idle" => WellFormed([c EXCEPT !.pc = c.then, !.token = k])
      BY <1>0, <2>2 DEF WellFormed, CallShape, CallArguments, Call
    <2>6. WellFormed(d)
      BY <2>5, IdleWellFormed
    <2>7. CASE c.then = "add"
      <3>1. d.pc = "add" /\ d.token = k /\ d.telegram = c.telegram /\ c.telegram # NoTelegram
        BY <1>0, <2>2, <2>7, AuthAssumption DEF WellFormed, CallShape, Call
      <3> HIDE DEF d
      <3>2. FileKnown(d, edit[t], allowlist, tokens')
        BY <3>1 DEF FileKnown
      <3>3. (\A o : Handles(d, k, o)) /\ \A j, o : ~Handles(c, j, o)
        BY <2>2, <3>1 DEF Handles
      <3> QED BY <1>a, <2>4, <2>6, <3>1, <3>2, <3>3
    <2>8. CASE c.then = "idle"
      <3>1. d = Idle /\ d.telegram = NoTelegram /\ row.purpose = "other" /\ c.telegram = NoTelegram
        BY <2>2, <2>3, <2>8 DEF Idle
      <3> HIDE DEF d
      <3>2. FileKnown(d, edit[t], allowlist, tokens') /\ \A j, o : ~Handles(c, j, o)
        BY <1>0, <2>6, <3>1, PlainCall DEF WellFormed
      <3> QED BY <1>a, <2>4, <2>6, <3>1, <3>2
    <2> QED BY <2>2, <2>7, <2>8
  <1> QED BY <1>7, <1>8, <1>9, <1>10, <1>11, <1>12, <1>13, <1>14 DEF PlainStep

\* The replacement of the file: only its writer knew the file it replaces.
LEMMA AccessReplace ==
  ASSUME TypeInv, AccessInv, ~disturbed, NEW t \in Thread, ReplaceFile(t)
  PROVE  AccessInv'
  <1> DEFINE c == call[t]  g == c.telegram
  <1>0. WellFormed(c) /\ CallsOK /\ allowlist \in Entries /\ NoToken \notin Token
    BY AuthAssumption DEF TypeInv, CallsOK, FilesOK
  <1>1. /\ c.pc \in {"add_write", "remove_write"}
        /\ allowlist' = edit[t] /\ UNCHANGED <<tokens, cache>>
        /\ overwritten' = IF c.pc = "add_write" THEN overwritten \cup ({allowlist[g]} \ {NoToken})
                          ELSE overwritten
        /\ revoked' = IF c.pc = "add_write" THEN revoked \ {g} ELSE revoked \cup {g}
        /\ Goto(t, Idle)
    BY DEF ReplaceFile
  <1>2. \A s \in Thread : call'[s] = IF s = t THEN Idle ELSE call[s]
    BY <1>0, <1>1, AssignCall, IdleWellFormed
  <1>3. g \in Telegram /\ g # NoTelegram
    BY <1>0, <1>1, AuthAssumption DEF WellFormed, CallShape
  <1>4. \A s \in Thread : s # t => call[s].telegram = NoTelegram
    BY <1>3 DEF AccessInv, OneAccessRequest
  <1>5. /\ c.pc = "add_write" => allowlist' = [allowlist EXCEPT ![g] = c.token]
        /\ c.pc = "remove_write" => /\ allowlist' = [allowlist EXCEPT ![g] = NoToken]
                                    /\ allowlist[g] # NoToken => ~tokens[allowlist[g]].live
    BY <1>1 DEF AccessInv, FileKnown
  <1>6. /\ \A h \in Telegram : h # g => allowlist'[h] = allowlist[h]
        /\ allowlist'[g] = IF c.pc = "add_write" THEN c.token ELSE NoToken
    BY <1>0, <1>1, <1>3, <1>5 DEF Entries
  <1>7. allowlist[g] # NoToken => allowlist[g] \in overwritten' \/ ~tokens[allowlist[g]].live
    BY <1>1, <1>5
  <1>8. OneAccessRequest'
    BY <1>2, <1>4 DEF OneAccessRequest, Idle
  <1>9. \A s \in Thread : FileKnown(call'[s], edit'[s], allowlist', tokens')
    <2> SUFFICES ASSUME NEW s \in Thread
                 PROVE  FileKnown(call'[s], edit'[s], allowlist', tokens')
      OBVIOUS
    <2>1. CallShape(call'[s]) /\ call'[s].telegram = NoTelegram
      BY <1>0, <1>2, <1>4, IdleWellFormed DEF CallsOK, WellFormed, Idle
    <2> QED BY <2>1, PlainCall
  <1>10. ASSUME NEW k \in Token, tokens'[k].live /\ tokens'[k].purpose = "bot"
         PROVE  Reachable(k)'
    <2>1. Reachable(k)
      BY <1>1, <1>10 DEF AccessInv
    <2>2. CASE k \in overwritten
      BY <1>1, <2>2 DEF Reachable
    <2>3. ASSUME NEW h \in Telegram, allowlist[h] = k PROVE Reachable(k)'
      <3>1. CASE h = g
        BY <1>0, <1>1, <1>7, <1>10, <2>3, <3>1 DEF Reachable
      <3>2. CASE h # g
        BY <1>6, <2>3, <3>2 DEF Reachable
      <3> QED BY <3>1, <3>2
    <2>4. ASSUME NEW s \in Thread, Handles(call[s], k, tokens[k].owner) PROVE Reachable(k)'
      <3>1. s = t
        BY <1>4, <2>4 DEF Handles
      <3>2. c.pc = "add_write" /\ c.token = k
        BY <1>1, <2>4, <3>1 DEF Handles
      <3> QED BY <1>3, <1>6, <3>2 DEF Reachable
    <2> QED BY <2>1, <2>2, <2>3, <2>4 DEF Reachable
  <1>11. ASSUME NEW h \in Telegram PROVE CacheKnown(h)'
    <2>1. CacheKnown(h) /\ overwritten \subseteq overwritten'
      BY <1>1 DEF AccessInv
    <2>2. CASE h = g
      BY <1>1, <1>7, <2>1, <2>2 DEF CacheKnown
    <2>3. CASE h # g
      BY <1>1, <1>6, <2>1, <2>3 DEF CacheKnown
    <2> QED BY <2>2, <2>3
  <1>12. \A h \in revoked' : allowlist'[h] = NoToken
    BY <1>1, <1>6 DEF AccessInv, TypeInv, FilesOK
  <1> QED BY <1>8, <1>9, <1>10, <1>11, <1>12 DEF AccessInv

\* The other steps of a team bot request.
LEMMA AccessRequest ==
  ASSUME TypeInv, AccessInv, ~disturbed', \A k \in Token : TokenHistory(k),
         NEW t \in Thread, AccessStep(t)
  PROVE  AccessInv'
  <1> DEFINE c == call[t]
  <1>0. WellFormed(c) /\ c \in Call /\ CallsOK /\ edit \in [Thread -> Entries]
    BY DEF TypeInv, CallsOK, FilesOK
  <1>1. ~disturbed /\ UNCHANGED tokens
    <2>1. ASSUME NEW u \in User, NEW roles \in RoleSets, NEW g \in Telegram,
                 Provision(t, u, roles, g)
          PROVE  ~disturbed /\ UNCHANGED tokens
      BY <2>1 DEF Provision, Admits
    <2>2. ASSUME NEW g \in Telegram, Revoke(t, g) PROVE ~disturbed /\ UNCHANGED tokens
      BY <2>2 DEF Revoke, Admits
    <2>3. ASSUME AddEntry(t) \/ RemoveEntry(t) \/ ReplaceFile(t) \/ FileError(t)
          PROVE  ~disturbed /\ UNCHANGED tokens
      BY <2>3 DEF AddEntry, RemoveEntry, ReplaceFile, FileError
    <2>4. ASSUME Refuse(t) PROVE ~disturbed /\ UNCHANGED tokens
      BY <2>4 DEF Refuse, RefuseDisable
    <2> QED BY <2>1, <2>2, <2>3, <2>4 DEF AccessStep
  <1>2. \A s \in Thread : FileKnown(call[s], edit[s], allowlist, tokens)
        /\ \A g \in revoked : allowlist[g] = NoToken
    BY <1>1 DEF AccessInv
  \* What a step that leaves the file alone must show of the call it leads to.
  <1>a. ASSUME NEW d, Goto(t, d), WellFormed(d),
               \/ d.telegram = NoTelegram
               \/ c.telegram # NoTelegram
               \/ \A s \in Thread : call[s].telegram = NoTelegram,
               UNCHANGED <<allowlist, cache, overwritten>>,
               \A s \in Thread : s # t => edit'[s] = edit[s],
               FileKnown(d, edit'[t], allowlist, tokens),
               \A k \in Token : Handles(c, k, tokens[k].owner) => Handles(d, k, tokens[k].owner)
                                \/ tokens[k].purpose # "bot",
               \A g \in revoked' : allowlist[g] = NoToken
        PROVE  AccessInv'
    <2>1. FileKnown(d, edit'[t], allowlist, tokens')
      BY <1>1, <1>a
    <2>2. \A k \in Token : tokens'[k].live /\ tokens'[k].purpose = "bot" =>
            \/ Handles(d, k, tokens'[k].owner)
            \/ tokens'[k] = tokens[k] /\ ~Handles(call[t], k, tokens[k].owner)
      BY <1>1, <1>a
    <2> QED BY <1>1, <1>a, <2>1, <2>2, RequestStep
  <1>3. ASSUME NEW u \in User, NEW roles \in RoleSets, NEW g \in Telegram,
               Provision(t, u, roles, g)
        PROVE  AccessInv'
    <2> DEFINE d == [Idle EXCEPT !.pc = "check", !.user = u, !.telegram = g, !.then = "add"]
    <2>1. WellFormed(d) /\ d.pc = "check"
      BY DEF WellFormed, CallShape, CallArguments, Call, Idle
    <2>2. /\ Goto(t, d) /\ c.pc = "idle" /\ \A s \in Thread : call[s].telegram = NoTelegram
          /\ UNCHANGED <<allowlist, edit, cache, revoked, overwritten>>
      BY <1>3 DEF Provision, Admits, TeamBotCalls, Starts
    <2> HIDE DEF d
    <2>3. FileKnown(d, edit'[t], allowlist, tokens) /\ \A k, o : ~Handles(c, k, o)
      BY <2>1, <2>2 DEF FileKnown, Handles
    <2> QED BY <1>a, <1>2, <2>1, <2>2, <2>3
  <1>4. ASSUME NEW g \in Telegram, Revoke(t, g) PROVE AccessInv'
    <2> DEFINE u == tokens[allowlist[g]].owner
               d == [Idle EXCEPT !.pc = "disable", !.user = u, !.telegram = g, !.then = "remove"]
    <2>1. u \in User /\ allowlist[g] # NoToken
      BY <1>4 DEF Revoke, TypeInv, TokensIssued, EntriesIssued, Issued
    <2>2. /\ Goto(t, d) /\ c.pc = "idle" /\ \A s \in Thread : call[s].telegram = NoTelegram
          /\ UNCHANGED <<allowlist, edit, cache, revoked, overwritten>>
      BY <1>4 DEF Revoke, Admits, TeamBotCalls, Starts
    <2>3. \A v \in User :
            LET f == [Idle EXCEPT !.pc = "disable", !.user = v, !.telegram = g, !.then = "remove"]
            IN  WellFormed(f) /\ f.pc = "disable" /\ f.telegram = g /\ f.user = v
      BY DEF WellFormed, CallShape, CallArguments, Call, Idle
    <2>4. WellFormed(d) /\ d.pc = "disable" /\ d.telegram = g
          /\ d.user = tokens[allowlist[g]].owner
      BY <2>1, <2>3
    <2> HIDE DEF d
    <2>5. FileKnown(d, edit'[t], allowlist, tokens) /\ \A k, o : ~Handles(c, k, o)
      BY <2>1, <2>2, <2>4 DEF FileKnown, Handles
    <2> QED BY <1>a, <1>2, <2>2, <2>4, <2>5
  <1>5. ASSUME AddEntry(t) PROVE AccessInv'
    <2> DEFINE d == [c EXCEPT !.pc = "add_write"]
    <2>1. /\ Goto(t, d) /\ c.pc = "add"
          /\ edit' = [edit EXCEPT ![t] = [allowlist EXCEPT ![c.telegram] = c.token]]
          /\ UNCHANGED <<allowlist, cache, revoked, overwritten>>
      BY <1>5 DEF AddEntry
    <2>2. WellFormed(d)
      BY <1>0, <2>1 DEF WellFormed, CallShape, CallArguments, Call
    <2>3. d.pc = "add_write" /\ d.telegram = c.telegram /\ d.token = c.token
          /\ c.telegram # NoTelegram
      <3>1. c.telegram \in Telegram
        BY <1>0, <2>1 DEF WellFormed, CallShape
      <3> QED BY <1>0, <3>1, AuthAssumption DEF Call
    <2> HIDE DEF d
    <2>4. FileKnown(d, edit'[t], allowlist, tokens)
      BY <1>0, <2>1, <2>3 DEF FileKnown
    <2>5. \A k, o : Handles(c, k, o) => Handles(d, k, o)
      BY <2>1, <2>3 DEF Handles
    <2>6. \A s \in Thread : s # t => edit'[s] = edit[s]
      BY <1>0, <2>1
    <2> QED BY <1>a, <1>2, <2>1, <2>2, <2>3, <2>4, <2>5, <2>6
  <1>6. ASSUME RemoveEntry(t) PROVE AccessInv'
    <2>0. c.pc = "remove" /\ UNCHANGED <<allowlist, cache, overwritten>>
      BY <1>6 DEF RemoveEntry
    <2>1. c.telegram \in Telegram /\ \A k, o : ~Handles(c, k, o)
      BY <1>0, <2>0 DEF WellFormed, CallShape, Handles
    <2>2. CASE allowlist[c.telegram] = NoToken
      <3>1. Goto(t, Idle) /\ revoked' = revoked \cup {c.telegram} /\ UNCHANGED edit
        BY <1>6, <2>2 DEF RemoveEntry
      <3>2. FileKnown(Idle, edit'[t], allowlist, tokens) /\ Idle.telegram = NoTelegram
        BY IdleWellFormed, PlainCall DEF Idle, WellFormed
      <3> QED BY <1>a, <1>2, <2>0, <2>1, <2>2, <3>1, <3>2, IdleWellFormed
    <2>3. CASE allowlist[c.telegram] # NoToken
      <3> DEFINE d == [c EXCEPT !.pc = "remove_write"]
      <3>1. /\ Goto(t, d) /\ UNCHANGED revoked
            /\ edit' = [edit EXCEPT ![t] = [allowlist EXCEPT ![c.telegram] = NoToken]]
        BY <1>6, <2>3 DEF RemoveEntry
      <3>2. WellFormed(d)
        BY <1>0, <2>0 DEF WellFormed, CallShape, CallArguments, Call
      <3>3. d.pc = "remove_write" /\ d.telegram = c.telegram /\ c.telegram # NoTelegram
        BY <1>0, <2>1, AuthAssumption DEF Call
      <3> HIDE DEF d
      <3>4. FileKnown(d, edit'[t], allowlist, tokens)
        BY <1>0, <1>2, <2>0, <3>1, <3>3 DEF FileKnown
      <3>5. \A s \in Thread : s # t => edit'[s] = edit[s]
        BY <1>0, <3>1
      <3> QED BY <1>a, <1>2, <2>0, <2>1, <3>1, <3>2, <3>3, <3>4, <3>5
    <2> QED BY <2>2, <2>3
  <1>7. ASSUME ReplaceFile(t) PROVE AccessInv'
    BY <1>1, <1>7, AccessReplace
  <1>8. ASSUME FileError(t) PROVE AccessInv'
    <2> DEFINE d == Failed(c)
    <2>1. /\ c.pc \in {"add", "add_write", "remove", "remove_write"}
          /\ Goto(t, d)
          /\ edit' = [edit EXCEPT ![t] = NoEntries]
          /\ UNCHANGED <<allowlist, cache, revoked, overwritten>>
      BY <1>8 DEF FileError
    <2>2. WellFormed(d)
      BY <1>0, <2>1, FailedWellFormed
    <2>3. \A s \in Thread : s # t => edit'[s] = edit[s]
      BY <1>0, <2>1
    <2>4. CASE c.then = "add"
      <3>1. d.pc = "disable" /\ d.then = "idle" /\ d.telegram = c.telegram /\ d.user = c.user
        BY <1>0, <2>4 DEF Failed, Call
      <3>2. c.pc \in {"add", "add_write"} /\ c.telegram # NoTelegram
        BY <1>0, <2>1, <2>4, AuthAssumption DEF WellFormed, CallShape
      <3> HIDE DEF d
      <3>3. tokens[c.token].owner = c.user
        BY <3>2 DEF TypeInv, TokensIssued
      <3>4. \A k \in Token : Handles(c, k, tokens[k].owner) => Handles(d, k, tokens[k].owner)
        BY <3>1, <3>2, <3>3 DEF Handles
      <3>5. FileKnown(d, edit'[t], allowlist, tokens)
        BY <3>1 DEF FileKnown
      <3> QED BY <1>a, <1>2, <2>1, <2>2, <2>3, <3>2, <3>4, <3>5
    <2>5. CASE c.then # "add"
      <3>1. d = Idle /\ d.telegram = NoTelegram
        BY <2>5 DEF Failed, Idle
      <3>2. c.pc \in {"remove", "remove_write"}
        BY <1>0, <2>1, <2>5 DEF WellFormed, CallShape
      <3> HIDE DEF d
      <3>3. FileKnown(d, edit'[t], allowlist, tokens) /\ \A k, o : ~Handles(c, k, o)
        BY <2>2, <3>1, <3>2, PlainCall DEF WellFormed, Handles
      <3> QED BY <1>a, <1>2, <2>1, <2>2, <2>3, <3>1, <3>3
    <2> QED BY <2>4, <2>5
  <1>9. ASSUME Refuse(t) PROVE AccessInv'
    <2>1. /\ c.pc = "disable" /\ Goto(t, Idle)
          /\ c.telegram # NoTelegram => c.then # "idle"
          /\ UNCHANGED <<allowlist, edit, cache, revoked, overwritten>>
      BY <1>9 DEF Refuse, RefuseDisable
    <2>2. \A k, o : ~Handles(c, k, o)
      BY <2>1 DEF Handles
    <2>3. FileKnown(Idle, edit'[t], allowlist, tokens) /\ Idle.telegram = NoTelegram
      BY IdleWellFormed, PlainCall DEF Idle, WellFormed
    <2> QED BY <1>a, <1>2, <2>1, <2>2, <2>3, IdleWellFormed
  <1> QED BY <1>3, <1>4, <1>5, <1>6, <1>7, <1>8, <1>9 DEF AccessStep

\* Every step keeps what is known about the file, the tokens and the bot's copy.
LEMMA AccessInvStep == TypeInv /\ AccessInv /\ [Next]_vars => AccessInv'
  <1> SUFFICES ASSUME TypeInv, AccessInv, [Next]_vars, ~disturbed' PROVE AccessInv'
    BY DEF AccessInv
  <1>0. \A k \in Token : TokenHistory(k)
    BY TablesStep
  <1>0a. CallsOK /\ tokens \in [Token -> TokenRow]
    BY DEF TypeInv, TablesOK
  <1>1. CASE CreateOrEnable
    BY <1>0, <1>1, ForeignStep DEF CreateOrEnable
  <1>2. CASE KillToken
    <2>1. PICK k \in Token : tokens' = [tokens EXCEPT ![k] = Dead(tokens[k].owner)]
      BY <1>2 DEF KillToken
    <2>2. \A j \in Token : tokens'[j].live => tokens'[j] = tokens[j]
      BY <1>0a, <2>1 DEF Dead
    <2> QED BY <1>0, <1>2, <2>2, ForeignStep DEF KillToken
  <1>3. CASE Reload
    <2>1. cache' = allowlist /\ UNCHANGED <<tokens, call, allowlist, edit, revoked, overwritten, disturbed>>
      BY <1>3 DEF Reload, authVars
    <2>2. \A g \in Telegram : CacheKnown(g)'
      BY <2>1 DEF CacheKnown
    <2> QED BY <2>1, <2>2 DEF AccessInv, OneAccessRequest, Reachable
  <1>4. CASE ApiRestart
    <2>1. /\ \A t \in Thread : call'[t] \in {Idle, call[t]}
          /\ TeamBotCalls = {} /\ ~disturbed
          /\ UNCHANGED <<tokens, allowlist, cache, revoked, overwritten>>
      BY <1>4 DEF ApiRestart
    <2>2. \A t \in Thread : /\ CallShape(call[t]) /\ call[t].telegram = NoTelegram
                            /\ CallShape(call'[t]) /\ call'[t].telegram = NoTelegram
      BY <1>0a, <2>1, IdleWellFormed DEF TeamBotCalls, CallsOK, WellFormed, Idle
    <2>3. /\ \A t \in Thread : FileKnown(call'[t], edit'[t], allowlist', tokens')
          /\ \A t \in Thread : \A k, o : ~Handles(call[t], k, o)
      BY <2>2, PlainCall
    <2> QED BY <2>1, <2>2, <2>3 DEF AccessInv, OneAccessRequest, Reachable, CacheKnown
  <1>5. ASSUME NEW t \in Thread, PlainStep(t) PROVE AccessInv'
    BY <1>0, <1>5, AccessPlain DEF PlainStep, botVars
  <1>6. ASSUME NEW t \in Thread, AccessStep(t) PROVE AccessInv'
    BY <1>0, <1>6, AccessRequest
  <1>7. CASE UNCHANGED vars
    BY <1>0, <1>7, ForeignStep DEF vars, authVars
  <1> QED BY <1>1, <1>2, <1>3, <1>4, <1>5, <1>6, <1>7, StepCases

\* Nothing is known, or needs to be, before the first request.
LEMMA AccessInit == Init => AccessInv
  <1> SUFFICES ASSUME Init PROVE AccessInv
    OBVIOUS
  <1>1. \A t \in Thread : call[t] = Idle
    BY DEF Init, AuthInit
  <1>2. \A t \in Thread : CallShape(call[t]) /\ call[t].telegram = NoTelegram
    BY <1>1, IdleWellFormed DEF WellFormed, Idle
  <1>3. /\ \A k \in Token : ~tokens[k].live
        /\ \A g \in Telegram : cache[g] = NoToken
        /\ revoked = {}
    BY DEF Init, AuthInit, Dead, NoEntries
  <1> QED BY <1>2, <1>3, PlainCall DEF AccessInv, OneAccessRequest, CacheKnown

\* What a request in flight knows of the file and the tokens is always so.
THEOREM AccessInvariant == Spec => []AccessInv
  BY AccessInit, AccessInvStep, TypeInvariant, PTL DEF Spec

\* Between team bot requests, a bot token that validates has its entry in the
\* allowlist, whichever step of a provision or a revocation failed.
THEOREM NoAccountUnreachable == Spec => []NoUnreachableAccount
  <1>1. TypeInv /\ AccessInv => NoUnreachableAccount
    <2> SUFFICES ASSUME AccessInv, ~disturbed, TeamBotCalls = {},
                        NEW k \in Token, tokens[k].purpose = "bot", Validates(k)
                 PROVE  k \in overwritten \/ \E g \in Telegram : allowlist[g] = k
      BY DEF NoUnreachableAccount
    <2>1. Reachable(k)
      BY DEF AccessInv, Validates
    <2>2. \A t \in Thread : call[t].telegram = NoTelegram
      BY DEF TeamBotCalls
    <2> QED BY <2>1, <2>2 DEF Reachable, Handles
  <1> QED BY <1>1, AccessInvariant, TypeInvariant, PTL

\* After a revocation has been reported the bot's next request for the sender
\* is refused, however old its copy of the allowlist is.
THEOREM RevocationHolds == Spec => []RevokedIsRefused
  <1>1. TypeInv /\ AccessInv => RevokedIsRefused
    <2> SUFFICES ASSUME TypeInv, AccessInv, ~disturbed, NEW g \in revoked,
                        Resolved(g) # NoToken, Validates(Resolved(g))
                 PROVE  Resolved(g) \in overwritten
      BY DEF RevokedIsRefused
    <2>1. g \in Telegram /\ allowlist[g] = NoToken /\ CacheKnown(g)
      BY DEF TypeInv, FilesOK, AccessInv
    <2> QED BY <2>1 DEF Resolved, CacheKnown, Validates
  <1> QED BY <1>1, AccessInvariant, TypeInvariant, PTL
=============================================================================
