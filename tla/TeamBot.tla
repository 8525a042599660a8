------------------------------- MODULE TeamBot --------------------------------
(***************************************************************************)
(* Team bot access: the console's provision and revoke requests over two   *)
(* stores, AuthStore and the allowlist file, and the chat bot process that *)
(* reads that file when it starts and when a sender is not in its copy.    *)
(* Provision is create_user, create_service_token, add_entry; add_entry    *)
(* and remove_entry read the whole file, and replace it in a second step.  *)
(* An entry is its token: its fathm_user_id is that token's owner.         *)
(***************************************************************************)
EXTENDS AuthStore

VARIABLES
  allowlist,   \* the allowlist file: [Telegram -> Token or none]
  edit,        \* the file a thread is about to write
  cache,       \* IdentityAllowlist._entries in the bot process
  revoked,     \* history: ids whose revocation was reported done
  overwritten, \* history: tokens whose entry another provision replaced
  disturbed    \* history: a crash, or two team bot requests at once

botVars == <<allowlist, edit, cache, revoked, overwritten, disturbed>>
vars == <<authVars, botVars>>

Entries == [Telegram -> Token \cup {NoToken}]

NoEntries == [g \in Telegram |-> NoToken]

\* The bot refuses to start without the file: it starts with an empty one.
Init ==
  /\ AuthInit
  /\ allowlist = NoEntries
  /\ edit = [t \in Thread |-> NoEntries]
  /\ cache = NoEntries
  /\ revoked = {}
  /\ overwritten = {}
  /\ disturbed = FALSE

TeamBotCalls == {t \in Thread : call[t].telegram # NoTelegram}

\* A team bot request begins; another one in flight is noted.
Admits(t) ==
  /\ t \in Api /\ Starts(t)
  /\ disturbed' = (disturbed \/ TeamBotCalls # {})

-----------------------------------------------------------------------------
Provision(t, u, roles, g) ==
  /\ Admits(t) /\ TokensLeft
  /\ ~Exists(u)
  /\ Created(u, roles)
  /\ Goto(t, [Idle EXCEPT !.pc = "check", !.user = u, !.telegram = g, !.then = "add"])
  /\ UNCHANGED <<tokens, holder, overlapped, allowlist, edit, cache, revoked, overwritten>>

\* OSError or AllowlistError while the file is read or written.
FileError(t) ==
  /\ call[t].pc \in {"add", "add_write", "remove", "remove_write"}
  /\ Goto(t, Failed(call[t]))
  /\ edit' = [edit EXCEPT ![t] = NoEntries]
  /\ UNCHANGED <<users, tokens, holder, overlapped, allowlist, cache, revoked, overwritten, disturbed>>

\* add_entry: the file as read, plus or instead of this id's row.
AddEntry(t) ==
  /\ call[t].pc = "add"
  /\ edit' = [edit EXCEPT ![t] = [allowlist EXCEPT ![call[t].telegram] = call[t].token]]
  /\ Goto(t, [call[t] EXCEPT !.pc = "add_write"])
  /\ UNCHANGED <<users, tokens, holder, overlapped, allowlist, cache, revoked, overwritten, disturbed>>

\* remove_entry: an id that is gone already is no write.
RemoveEntry(t) ==
  LET g == call[t].telegram IN
  /\ call[t].pc = "remove"
  /\ IF allowlist[g] = NoToken
     THEN Goto(t, Idle) /\ revoked' = revoked \cup {g} /\ UNCHANGED edit
     ELSE /\ Goto(t, [call[t] EXCEPT !.pc = "remove_write"])
          /\ edit' = [edit EXCEPT ![t] = [allowlist EXCEPT ![g] = NoToken]]
          /\ UNCHANGED revoked
  /\ UNCHANGED <<users, tokens, holder, overlapped, allowlist, cache, overwritten, disturbed>>

\* os.replace of the whole file; the request answers.
ReplaceFile(t) ==
  LET g == call[t].telegram IN
  /\ call[t].pc \in {"add_write", "remove_write"}
  /\ allowlist' = edit[t]
  /\ overwritten' = IF call[t].pc = "add_write" THEN overwritten \cup ({allowlist[g]} \ {NoToken})
                    ELSE overwritten
  /\ revoked' = IF call[t].pc = "add_write" THEN revoked \ {g} ELSE revoked \cup {g}
  /\ edit' = [edit EXCEPT ![t] = NoEntries]
  /\ Goto(t, Idle)
  /\ UNCHANGED <<users, tokens, holder, overlapped, cache, disturbed>>

\* Mutant of Revoke: the entry goes, the account stays.
RevokeEntryOnly(t, g) ==
  /\ Admits(t)
  /\ allowlist[g] # NoToken
  /\ Goto(t, [Idle EXCEPT !.pc = "remove", !.telegram = g])
  /\ UNCHANGED <<users, tokens, holder, overlapped, allowlist, edit, cache, revoked, overwritten>>

\* admin_revoke_team_bot: reads the entry, disables its user, removes the entry.
Revoke(t, g) ==
  /\ Admits(t)
  /\ allowlist[g] # NoToken
  /\ Goto(t, [Idle EXCEPT !.pc = "disable", !.user = tokens[allowlist[g]].owner,
                          !.telegram = g, !.then = "remove"])
  /\ UNCHANGED <<users, tokens, holder, overlapped, allowlist, edit, cache, revoked, overwritten>>

(* A refused disable.  When it was a rollback (the new user is by now the    *)
(* last enabled admin) the account stays, and that is noted.                 *)
Refuse(t) ==
  /\ RefuseDisable(t)
  /\ disturbed' = (disturbed \/ (call[t].telegram # NoTelegram /\ call[t].then = "idle"))
  /\ UNCHANGED <<allowlist, edit, cache, revoked, overwritten>>

-----------------------------------------------------------------------------
\* The bot resolves a sender it does not know: it loads the file again.
ReloadOnMiss(g) ==
  /\ cache[g] = NoToken
  /\ cache' = allowlist
  /\ UNCHANGED <<authVars, allowlist, edit, revoked, overwritten, disturbed>>

BotRestart ==
  /\ cache' = allowlist
  /\ UNCHANGED <<authVars, allowlist, edit, revoked, overwritten, disturbed>>

\* The API process dies: its requests are gone, what they wrote stays.
ApiRestart ==
  /\ \E t \in Api : call[t] # Idle
  /\ call' = [t \in Thread |-> IF t \in Api THEN Idle ELSE call[t]]
  /\ holder' = NoThread
  /\ edit' = [t \in Thread |-> NoEntries]
  /\ disturbed' = (disturbed \/ TeamBotCalls # {})
  /\ UNCHANGED <<users, tokens, overlapped, allowlist, cache, revoked, overwritten>>

Next ==
  \/ \E t \in Thread :
       \/ AuthStep(t) /\ UNCHANGED botVars
       \/ \E u \in User, roles \in RoleSets, g \in Telegram : Provision(t, u, roles, g)
       \/ \E g \in Telegram : Revoke(t, g)
       \/ AddEntry(t) \/ RemoveEntry(t) \/ ReplaceFile(t) \/ FileError(t) \/ Refuse(t)
  \/ \E g \in Telegram : ReloadOnMiss(g)
  \/ \E k \in Token : Expire(k) /\ UNCHANGED botVars
  \/ BotRestart
  \/ ApiRestart

Spec == Init /\ [][Next]_vars

-----------------------------------------------------------------------------
TypeOK ==
  /\ AuthTypeOK
  /\ allowlist \in Entries /\ cache \in Entries
  /\ edit \in [Thread -> Entries]
  /\ revoked \subseteq Telegram
  /\ overwritten \subseteq Token
  /\ disturbed \in BOOLEAN

(* "a failed provision never leaves a live, unreachable account behind":     *)
(* between team bot requests, a bot token that validates has its entry in    *)
(* the file, whichever step of a provision or a revocation failed and        *)
(* whatever admins did to the user meanwhile.  Not promised: requests that   *)
(* overlap or die half-way, and an entry a later provision replaced.         *)
NoUnreachableAccount ==
  ~disturbed /\ TeamBotCalls = {} =>
    \A k \in Token : tokens[k].purpose = "bot" /\ Validates(k) =>
      k \in overwritten \/ \E g \in Telegram : allowlist[g] = k

\* The token the bot would put on the next question of g.
Resolved(g) == IF cache[g] # NoToken THEN cache[g] ELSE allowlist[g]

(* Once the console has reported a revocation, the bot's next request for    *)
(* that sender is refused, however old its copy of the allowlist is and even *)
(* after the account was enabled again (again unless two requests overlapped *)
(* or the bot still holds an entry a second provision replaced).             *)
RevokedIsRefused ==
  ~disturbed => \A g \in revoked :
    Resolved(g) # NoToken /\ Validates(Resolved(g)) => Resolved(g) \in overwritten

=============================================================================
