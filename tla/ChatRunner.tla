------------------------------ MODULE ChatRunner ------------------------------
(***************************************************************************)
(* ap_chat.BotRunner over the Telegram adapter.  One loop: getUpdates from *)
(* the saved offset, save the next offset, hand out the batch, and per     *)
(* message resolve the sender, ask POST /chat/manager, reply.  Telegram    *)
(* (external) keeps an update until a getUpdates names a higher offset.    *)
(* The offset file is written in place, so a crash or a failed write may   *)
(* leave it torn; the process may die anywhere, and a start may fail.      *)
(* systemd starts it again, up to a limit of starts per interval.          *)
(***************************************************************************)
EXTENDS ManagerBot

CONSTANTS
  MaxUpdate,     \* update ids 1..MaxUpdate (a bound)
  SenderOf,      \* [1..MaxUpdate -> Person \cup {NoPerson}], NoPerson: not in the allowlist
  Unmentioned,   \* updates _to_incoming drops: group messages without a mention
  MaxCrashes,    \* how often the process dies once it runs (a bound)
  StartBurst     \* the unit's StartLimitBurst

Update == 1..MaxUpdate

ASSUME ChatAssumption ==
  /\ MaxUpdate \in Nat /\ MaxCrashes \in Nat /\ StartBurst \in Nat
  /\ SenderOf \in [Update -> Person \cup {NoPerson}]
  /\ Unmentioned \subseteq Update

VARIABLES
  sent,        \* the newest update users have sent
  confirmed,   \* Telegram forgets updates below this id
  offset,      \* the offset file; 0: none, or torn
  loop,        \* where the runner is, and the updates it still has in memory
  outcome,     \* history: what became of each update, in the order it did
  starts,      \* starts systemd has counted since the interval began
  crashes      \* bound

chatVars == <<sent, confirmed, offset, loop, outcome, starts, crashes>>
vars == <<managerVars, chatVars>>

Loop == [pc : {"start", "poll", "fetched", "handle", "ask", "backoff", "failed"},
         batch : SUBSET Update]

\* What may have happened to an update, each way at most once if all is well.
Fates == {"asked", "turned_away", "lost_in_crash", "dropped"}

In(pc, batch) == [pc |-> pc, batch |-> batch]

Init ==
  /\ ManagerInit
  /\ sent = 0 /\ confirmed = 1 /\ offset = 0
  /\ loop = In("start", {})
  /\ outcome = [u \in Update |-> {}]
  /\ starts = 0 /\ crashes = 0

Earliest(S) == CHOOSE u \in S : \A v \in S : u <= v
Latest(S) == CHOOSE u \in S : \A v \in S : v <= u

\* Every update in S meets a fate; meeting the same one again is "twice".
Meets(S, fate) ==
  outcome' = [u \in Update |->
    IF u \notin S THEN outcome[u]
    ELSE outcome[u] \cup {IF outcome[u] \cap {"asked", "turned_away"} # {} THEN "twice" ELSE fate}]

-----------------------------------------------------------------------------
\* A user writes to the bot.
SendUpdate ==
  /\ sent < MaxUpdate
  /\ sent' = sent + 1
  /\ UNCHANGED <<managerVars, confirmed, offset, loop, outcome, starts, crashes>>

\* main(): getMe and the allowlist, once; systemd counts the start.
Start ==
  /\ loop.pc = "start" /\ starts < StartBurst
  /\ starts' = starts + 1
  /\ loop' = In("poll", {})
  /\ UNCHANGED <<managerVars, sent, confirmed, offset, outcome, crashes>>

\* getMe gets no answer, and is not retried, or the allowlist is malformed: exit.
StartFails ==
  /\ loop.pc = "start" /\ starts < StartBurst
  /\ starts' = starts + 1
  /\ UNCHANGED <<managerVars, sent, confirmed, offset, loop, outcome, crashes>>

\* The start limit is reached: the unit is failed until somebody resets it.
GiveUp ==
  /\ loop.pc = "start" /\ starts = StartBurst
  /\ loop' = In("failed", {})
  /\ UNCHANGED <<managerVars, sent, confirmed, offset, outcome, starts, crashes>>

\* The starts of the last interval no longer count.
IntervalPasses ==
  /\ loop.pc # "failed" /\ starts > 0
  /\ starts' = 0
  /\ UNCHANGED <<managerVars, sent, confirmed, offset, loop, outcome, crashes>>

\* Telegram's side of getUpdates.
Confirm == confirmed' = IF offset > confirmed THEN offset ELSE confirmed

GetUpdates ==
  /\ loop.pc = "poll"
  /\ Confirm
  /\ LET batch == {u \in Update : u >= confirmed' /\ u <= sent} IN
     loop' = IF batch = {} THEN In("poll", {}) ELSE In("fetched", batch)
  /\ UNCHANGED <<managerVars, sent, offset, outcome, starts, crashes>>

\* Mutant of GetUpdatesFails: the exhausted generator is not replaced by a fresh one.
GetUpdatesFailsForGood ==
  /\ loop.pc = "poll"
  /\ loop' = In("exhausted", {})
  /\ UNCHANGED <<managerVars, sent, confirmed, offset, outcome, starts, crashes>>

\* A transport error or a non-2xx; Telegram may have seen the request.
GetUpdatesFails ==
  /\ loop.pc = "poll"
  /\ Confirm \/ UNCHANGED confirmed
  /\ loop' = In("backoff", {})
  /\ UNCHANGED <<managerVars, sent, offset, outcome, starts, crashes>>

\* run_forever sleeps, at most a minute, and starts a fresh poll().
Retry ==
  /\ loop.pc = "backoff"
  /\ loop' = In("poll", {})
  /\ UNCHANGED <<managerVars, sent, confirmed, offset, outcome, starts, crashes>>

\* Mutant of SaveOffset: the offset is saved when the batch is done.
SaveOffsetLater ==
  /\ loop.pc = "fetched"
  /\ loop' = In("handle", loop.batch \ Unmentioned)
  /\ UNCHANGED <<managerVars, sent, confirmed, offset, outcome, starts, crashes>>

\* The offset past the whole batch is saved before the batch is handed out.
SaveOffset ==
  /\ loop.pc = "fetched"
  /\ offset' = Latest(loop.batch) + 1
  /\ loop' = In("handle", loop.batch \ Unmentioned)
  /\ UNCHANGED <<managerVars, sent, confirmed, outcome, starts, crashes>>

\* The write fails (a full disk), before or after the file was truncated: the
\* error ends the poll as if getUpdates had failed, and the batch is polled again.
SaveOffsetFails ==
  /\ loop.pc = "fetched"
  /\ offset' \in {offset, 0}
  /\ loop' = In("backoff", {})
  /\ UNCHANGED <<managerVars, sent, confirmed, outcome, starts, crashes>>

\* Mutant of HandleMessage: a stranger's message ends the batch.
HandleMessageStrict ==
  /\ loop.pc = "handle" /\ loop.batch # {}
  /\ LET u == Earliest(loop.batch) IN
     IF SenderOf[u] = NoPerson
     THEN loop' = In("handle", {}) /\ Meets({u}, "turned_away") /\ UNCHANGED managerVars
     ELSE loop' = In("ask", loop.batch \ {u}) /\ Meets({u}, "asked") /\ Answer(SenderOf[u])
  /\ UNCHANGED <<sent, confirmed, offset, starts, crashes>>

\* _handle_message up to the ask; a sender nobody provisioned is turned away.
HandleMessage ==
  /\ loop.pc = "handle" /\ loop.batch # {}
  /\ LET u == Earliest(loop.batch)
         rest == loop.batch \ {u}
     IN IF SenderOf[u] = NoPerson
        THEN /\ loop' = In("handle", rest)
             /\ Meets({u}, "turned_away")
             /\ UNCHANGED managerVars
        ELSE /\ loop' = In("ask", rest)
             /\ Meets({u}, "asked")
             /\ Answer(SenderOf[u])
  /\ UNCHANGED <<sent, confirmed, offset, starts, crashes>>

\* The batch is through: the generator is resumed.
BatchDone ==
  /\ loop.pc = "handle" /\ loop.batch = {}
  /\ loop' = In("poll", {})
  /\ UNCHANGED <<managerVars, sent, confirmed, offset, outcome, starts, crashes>>

\* An answer, a refusal or an HTTP error: one reply, delivered or not, and on.
Reply ==
  /\ loop.pc = "ask" /\ chat.pc # "turn"
  /\ loop' = In("handle", loop.batch)
  /\ UNCHANGED <<managerVars, sent, confirmed, offset, outcome, starts, crashes>>

(* No HTTP response at all (the API is down, restarts, or takes over a       *)
(* minute): ask() does not turn httpx's error into ManagerClientError, and   *)
(* run_forever takes it for a failed poll.                                   *)
AskTransportError ==
  /\ loop.pc = "ask"
  /\ Meets(loop.batch, "dropped")
  /\ loop' = In("backoff", {})
  /\ chat' = [chat EXCEPT !.pc = "none", !.citable = {}, !.citations = {}, !.turn = 0]
  /\ UNCHANGED <<index, passed, sent, confirmed, offset, starts, crashes>>

\* The process dies; while it writes the offset, the file may be left torn.
Crash ==
  /\ loop.pc \notin {"start", "failed"} /\ crashes < MaxCrashes
  /\ crashes' = crashes + 1
  /\ offset' \in IF loop.pc = "fetched" THEN {offset, 0} ELSE {offset}
  /\ IF loop.pc \in {"handle", "ask"} THEN Meets(loop.batch, "lost_in_crash") ELSE UNCHANGED outcome
  /\ loop' = In("start", {})
  /\ UNCHANGED <<managerVars, sent, confirmed, starts>>

Runner ==
  \/ Start \/ GiveUp
  \/ GetUpdates \/ Retry \/ SaveOffset \/ HandleMessage \/ BatchDone \/ Reply

Next ==
  \/ Runner
  \/ StartFails \/ GetUpdatesFails \/ SaveOffsetFails \/ AskTransportError \/ Crash
  \/ IntervalPasses
  \/ SendUpdate
  \/ Complete /\ UNCHANGED chatVars
  \/ \E p \in Package : Reindexed(p) /\ UNCHANGED chatVars

(* The loop never waits for anything but its own calls, which time out, and  *)
(* sleeps at most a minute (weak fairness); Telegram is reachable, the disk  *)
(* writable and the allowlist readable again and again (strong fairness);    *)
(* the API answers, with a bound on its turns.  How soon the interval passes *)
(* against failing starts is open.                                           *)
Fairness ==
  /\ WF_vars(Runner)
  /\ SF_vars(Start) /\ SF_vars(GetUpdates) /\ SF_vars(SaveOffset)
  /\ WF_vars(Complete /\ UNCHANGED chatVars)

Spec == Init /\ [][Next]_vars /\ Fairness

-----------------------------------------------------------------------------
TypeOK ==
  /\ ManagerTypeOK
  /\ sent \in 0..MaxUpdate /\ confirmed \in 1..(MaxUpdate + 1) /\ offset \in 0..(MaxUpdate + 1)
  /\ loop \in Loop
  /\ outcome \in [Update -> SUBSET (Fates \cup {"twice"})]
  /\ starts \in 0..StartBurst /\ crashes \in 0..MaxCrashes

(* "what makes restart-on-failure safe rather than merely alive": no message *)
(* is answered or refused twice, across crashes, torn offset files and polls *)
(* whose response got lost.                                                  *)
AtMostOnce ==
  \A u \in Update : outcome[u] # {} => outcome[u] \in {{f} : f \in Fates}

(* What Telegram has been told to forget is accounted for: the bot dealt     *)
(* with the message, still has it in memory, or lost it to a crash or to a   *)
(* backend that did not respond - the only two ways.                         *)
ForgottenIsAccounted ==
  \A u \in Update \ Unmentioned :
    u < confirmed => outcome[u] # {} \/ u \in loop.batch

(* "a lost reply is logged and the loop moves on to the next message rather  *)
(* than aborting the rest of the batch": a failure while one message is      *)
(* handled costs no other message.                                           *)
BatchNotAborted == \A u \in Update : "dropped" \notin outcome[u]

(* Every message sent is dealt with in the end (answered, refused or lost in *)
(* one of the two known ways): neither failed polls and offset writes nor    *)
(* crashes and failed starts stop the loop for good, unless the starts came  *)
(* so close together that systemd has given the unit up.                     *)
EveryUpdateMet ==
  \A u \in Update \ Unmentioned : sent >= u ~> outcome[u] # {} \/ loop.pc = "failed"
=============================================================================
