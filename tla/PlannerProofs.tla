----------------------------- MODULE PlannerProofs -----------------------------
(***************************************************************************)
(* Proofs about Planner, for any threads, corpus, proposals and number of  *)
(* calls: every gate sees the registry meant for it, the trend file is the *)
(* run history, the queue has one open proposal per target, a scan misses  *)
(* no package, and a dry-run tells what its change would do - each up to   *)
(* the overlaps its property names.                                        *)
(***************************************************************************)
EXTENDS Planner, SequenceTheorems, FiniteSetTheorems, WellFoundedInduction, TLAPS

\* A sequence, of whatever its elements are.
IsSeq(s) == s \in Seq({s[i] : i \in DOMAIN s})

Fields == {"op", "pc", "page", "fetched", "more", "root", "saved", "seen", "before", "run", "read",
           "todo", "diff", "ruledOut", "proposal", "change", "version", "alone", "steady", "left",
           "released"}

\* What other threads' steps may change of a call.
Marks == {"alone", "steady", "left", "released"}

Proposal == [diff : Diff, open : BOOLEAN, dryRun : BOOLEAN, unseen : SUBSET Nat]

CallTyped(c) ==
  /\ DOMAIN c = Fields
  /\ IsSeq(c.seen) /\ c.run \in Nat /\ c.read \in Seq(Nat)
  /\ c.diff \in Diff /\ c.ruledOut \in SUBSET Nat

Shapes ==
  /\ call = [t \in Thread |-> call[t]]
  /\ \A t \in Thread : CallTyped(call[t])
  /\ made \in [calls : Nat, runs : Nat, moves : Nat]
  /\ proposals \in Seq(Proposal)
  /\ trend \in Seq(Nat)

-----------------------------------------------------------------------------
(* The variable. *)

Overriding(c) == c.pc \in {"gate", "restore"}

\* RootOf, of a thread and the root its call names.
RootNamed(t, root) == IF root = "live" THEN "live" ELSE t

RoleSound(t, c) ==
  /\ Overriding(c) \/ c.pc = "record" => c.op = "dry_run"
  /\ c.op = "dry_run" => t \notin Timer /\ c.root \in {"live", "scratch"}
  /\ c.op # "dry_run" => c.root = "none"
  /\ c.op = "none" => c.pc = "none" /\ c.seen = <<>>

\* A call that is marked alone is: no dry-run but its own can have touched the variable.
AloneSound(t, c) == c.op # "none" /\ c.alone /\ t \notin Timer => ~entangled /\ DryRunning \subseteq {t}

SeenSound(t, c) ==
  c.alone => \A i \in DOMAIN c.seen :
    c.seen[i].root = IF c.root = "none" THEN configured ELSE RootNamed(t, c.root)

\* Until two dry-runs overlap, the one there is knows what the variable is.
VariableSound ==
  ~entangled =>
    /\ DryRunning = {} => env = configured
    /\ \A t \in DryRunning :
         /\ DryRunning \subseteq {t}
         /\ Overriding(call[t]) => env = RootNamed(t, call[t].root) /\ call[t].saved = configured
         /\ ~Overriding(call[t]) => env = configured

RootsInv ==
  /\ \A t \in Thread : /\ RoleSound(t, call[t]) /\ AloneSound(t, call[t])
                       /\ SeenSound(t, call[t])
  /\ VariableSound

-----------------------------------------------------------------------------
(* The trend file. *)

\* The rows of a file whose appends overlapped with no other.
Unraced(s) == {s[i] : i \in DOMAIN s} \ raced

\* Oldest first, up to raced rows, and of runs there have been.
InOrder(s) ==
  /\ \A i \in DOMAIN s : s[i] <= made.runs
  /\ \A i, j \in DOMAIN s : i < j => s[i] < s[j] \/ {s[i], s[j]} \subseteq raced

\* An append under way is the only one, or raced; what it has read holds every
\* unraced row there is.
AppendSound(t) ==
  /\ call[t].run <= made.runs
  /\ call[t].run \notin raced => Appending = {t} /\ call[t].run = made.runs
  /\ \A r \in Unraced(trend) : r < call[t].run
  /\ call[t].pc = "replace" => /\ InOrder(call[t].read)
                              /\ Unraced(call[t].read) = Unraced(trend)
                              /\ (call[t].run \notin raced => call[t].read = trend)

TrendInv ==
  /\ InOrder(trend)
  /\ \A t \in Appending : AppendSound(t)
  /\ TrendIsRunHistory

-----------------------------------------------------------------------------
(* The queue. *)

\* A draft about to be created had no open proposal of its target when it was checked.
CheckedSound(c) ==
  c.pc = "create" =>
    \A i \in c.ruledOut : i \in DOMAIN proposals /\ ~(proposals[i].open /\ proposals[i].diff = c.diff)

QueueInv ==
  /\ \A t \in Thread : CheckedSound(call[t])
  /\ OneOpenProposalPerTarget

-----------------------------------------------------------------------------
(* Calls and sequences. *)

\* A call that does nothing has all the fields.
LEMMA IdleTyped ==
  /\ CallTyped(Idle)
  /\ Idle.op = "none" /\ Idle.pc = "none" /\ Idle.root = "none" /\ Idle.seen = <<>>
  BY DEF Idle, CallTyped, Fields, IsSeq, Diff

\* One more element, of whatever kind.
LEMMA AppendIsSeq ==
  ASSUME NEW s, IsSeq(s), NEW e
  PROVE  /\ IsSeq(Append(s, e))
         /\ \A i \in DOMAIN Append(s, e) : IF i \in DOMAIN s THEN Append(s, e)[i] = s[i]
                                          ELSE Append(s, e)[i] = e
  <1> DEFINE S == {s[i] : i \in DOMAIN s} \cup {e}
             a == Append(s, e)
  <1>1. s \in Seq(S) /\ e \in S
    BY DEF IsSeq
  <1>2. /\ a \in Seq(S) /\ Len(a) = Len(s) + 1 /\ DOMAIN s = 1..Len(s) /\ DOMAIN a = 1..(Len(s) + 1)
        /\ Len(s) \in Nat
        /\ \A i \in 1..Len(s) : a[i] = s[i]
        /\ a[Len(s) + 1] = e
    BY <1>1
  <1> HIDE DEF a
  <1>3. a \in Seq({a[i] : i \in DOMAIN a})
    BY <1>2
  <1>4. \A i \in DOMAIN a : IF i \in DOMAIN s THEN a[i] = s[i] ELSE a[i] = e
    BY <1>2
  <1> QED BY <1>3, <1>4 DEF IsSeq, a

\* The fields that the invariants are about.
Core == {"op", "root", "saved", "seen", "run", "read", "diff", "ruledOut", "alone"}

\* A step of one call, which sets its pc and the given fields.
Moved(t, pcs, F) ==
  /\ call' = [s \in Thread |-> call'[s]]
  /\ \A s \in Thread : s # t => call'[s] = call[s]
  /\ DOMAIN call'[t] = Fields /\ call'[t].pc \in pcs
  /\ \A f \in Core \ F : call'[t][f] = call[t][f]

\* A call is over.
Ended(t) ==
  /\ call' = [s \in Thread |-> call'[s]]
  /\ \A s \in Thread : s # t => call'[s] = call[s]
  /\ call'[t] = Idle

\* What Set does.
LEMMA SetMoves ==
  ASSUME Shapes, NEW t \in Thread, NEW r, DOMAIN r \subseteq Fields, Set(t, r)
  PROVE  /\ call' = [s \in Thread |-> call'[s]]
         /\ \A s \in Thread : s # t => call'[s] = call[s]
         /\ DOMAIN call'[t] = Fields
         /\ \A f \in Fields : call'[t][f] = IF f \in DOMAIN r THEN r[f] ELSE call[t][f]
  <1>1. DOMAIN call = Thread /\ DOMAIN call[t] = Fields
    BY DEF Shapes, CallTyped
  <1>2. call' = [call EXCEPT ![t] = Onto(r, call[t])]
    BY DEF Set
  <1>3. DOMAIN Onto(r, call[t]) = Fields
    BY <1>1 DEF Onto
  <1>4. \A f \in Fields : Onto(r, call[t])[f] = IF f \in DOMAIN r THEN r[f] ELSE call[t][f]
    BY <1>1 DEF Onto
  <1> HIDE DEF Fields
  <1> QED BY <1>1, <1>2, <1>3, <1>4

\* What Ends does.
LEMMA EndsEnds ==
  ASSUME Shapes, NEW t \in Thread, Ends(t)
  PROVE  Ended(t)
  BY DEF Shapes, Ends, Ended

-----------------------------------------------------------------------------
(* What each step does to the call it is a step of. *)

\* A package has been gated: the next one, the next page, or the end of the scan.
LEMMA AdvanceMoves ==
  ASSUME NEW t
  PROVE  /\ DOMAIN Advance(t) = {"fetched", "pc"}
         /\ Advance(t).pc \in {"scan", "fetch", "scanned"}
  BY DEF Advance

\* The scan's steps.
LEMMA ScanMoves ==
  ASSUME Shapes, NEW t \in Thread
  PROVE  /\ FetchPage(t) => Moved(t, {"scan", "scanned"}, {})
         /\ ScanPackage(t) => /\ Moved(t, {"scan", "fetch", "scanned"}, {"seen"})
                              /\ \E p, rules : call'[t].seen =
                                   Append(call[t].seen, [pkg |-> p, rules |-> rules, root |-> Env(t)])
         /\ ScanFails(t) => Ended(t)
         /\ Override(t) => Moved(t, {"gate"}, {"saved"}) /\ call'[t].saved = env
         /\ RunGate(t) => /\ Moved(t, {"restore"}, {"seen"})
                          /\ \E p, rules : call'[t].seen =
                               Append(call[t].seen, [pkg |-> p, rules |-> rules, root |-> Env(t)])
         /\ Restore(t) => Moved(t, {"scan", "fetch", "scanned"}, {})
  <1>1. ASSUME FetchPage(t) PROVE Moved(t, {"scan", "scanned"}, {})
    <2>1. PICK items : Set(t, IF items = <<>> THEN [pc |-> "scanned"]
              ELSE [pc |-> "scan", fetched |-> items, page |-> call[t].page + 1, more |-> Len(items) = PageSize])
      BY <1>1 DEF FetchPage
    <2>2. CASE items = <<>>
      <3>1. Set(t, [pc |-> "scanned"]) /\ DOMAIN [pc |-> "scanned"] = {"pc"}
        BY <2>1, <2>2
      <3> QED BY <3>1, SetMoves DEF Moved, Core, Fields
    <2>3. CASE items # <<>>
      <3> DEFINE r == [pc |-> "scan", fetched |-> items, page |-> call[t].page + 1,
                       more |-> Len(items) = PageSize]
      <3>1. Set(t, r) /\ DOMAIN r = {"pc", "fetched", "page", "more"} /\ r.pc = "scan"
        BY <2>1, <2>3
      <3> HIDE DEF r
      <3> QED BY <3>1, SetMoves DEF Moved, Core, Fields
    <2> QED BY <2>2, <2>3
  <1>2. ASSUME ScanPackage(t) \/ RunGate(t)
        PROVE  \E p, rules : Scan(t) = Append(call[t].seen, [pkg |-> p, rules |-> rules, root |-> Env(t)])
    BY DEF Scan
  <1>3. ASSUME ScanPackage(t)
        PROVE  Moved(t, {"scan", "fetch", "scanned"}, {"seen"}) /\ call'[t].seen = Scan(t)
    <2> DEFINE r == Onto(Advance(t), [seen |-> Scan(t)])
    <2>1. DOMAIN r = {"fetched", "pc", "seen"} /\ r.pc \in {"scan", "fetch", "scanned"} /\ r.seen = Scan(t)
      BY AdvanceMoves DEF Onto
    <2>2. Set(t, r)
      BY <1>3 DEF ScanPackage
    <2> HIDE DEF r
    <2> QED BY <2>1, <2>2, SetMoves DEF Moved, Core, Fields
  <1>4. ScanFails(t) => Ended(t)
    BY EndsEnds DEF ScanFails
  <1>5. ASSUME Override(t) PROVE Moved(t, {"gate"}, {"saved"}) /\ call'[t].saved = env
    <2> DEFINE r == [pc |-> "gate", saved |-> env]
    <2>1. DOMAIN r = {"pc", "saved"} /\ r.pc = "gate" /\ r.saved = env /\ Set(t, r)
      BY <1>5 DEF Override
    <2> HIDE DEF r
    <2> QED BY <2>1, SetMoves DEF Moved, Core, Fields
  <1>6. ASSUME RunGate(t) PROVE Moved(t, {"restore"}, {"seen"}) /\ call'[t].seen = Scan(t)
    <2> DEFINE r == [pc |-> "restore", seen |-> Scan(t)]
    <2>1. DOMAIN r = {"pc", "seen"} /\ r.pc = "restore" /\ r.seen = Scan(t) /\ Set(t, r)
      BY <1>6 DEF RunGate
    <2> HIDE DEF r
    <2> QED BY <2>1, SetMoves DEF Moved, Core, Fields
  <1>7. ASSUME Restore(t) PROVE Moved(t, {"scan", "fetch", "scanned"}, {})
    BY <1>7, AdvanceMoves, SetMoves DEF Restore, Moved, Core, Fields
  <1> QED BY <1>1, <1>2, <1>3, <1>4, <1>5, <1>6, <1>7

\* The dry-run's steps between and after its scans.
LEMMA DryRunMoves ==
  ASSUME Shapes, NEW t \in Thread
  PROVE  /\ SeedScratch(t) => /\ Moved(t, {"fetch"}, {"seen", "root"})
                              /\ call'[t].seen = <<>> /\ call'[t].root = "scratch"
         /\ RemoveScratch(t) => Moved(t, {"record"}, {})
         /\ RecordDryRun(t) => Ended(t)
  <1>1. ASSUME SeedScratch(t)
        PROVE  /\ Moved(t, {"fetch"}, {"seen", "root"})
               /\ call'[t].seen = <<>> /\ call'[t].root = "scratch"
    <2> DEFINE r == Onto([before |-> call[t].seen, version |-> CurrentVersion], ToScan("scratch"))
    <2>1. /\ DOMAIN r = {"before", "version", "pc", "page", "fetched", "seen", "root"}
          /\ r.pc = "fetch" /\ r.seen = <<>> /\ r.root = "scratch"
      BY DEF Onto, ToScan
    <2>2. Set(t, r)
      BY <1>1 DEF SeedScratch
    <2> HIDE DEF r
    <2> QED BY <2>1, <2>2, SetMoves DEF Moved, Core, Fields
  <1>2. ASSUME RemoveScratch(t) PROVE Moved(t, {"record"}, {})
    <2>1. Set(t, [pc |-> "record"]) /\ DOMAIN [pc |-> "record"] = {"pc"}
      BY <1>2 DEF RemoveScratch
    <2> QED BY <2>1, SetMoves DEF Moved, Core, Fields
  <1>3. RecordDryRun(t) => Ended(t)
    BY EndsEnds DEF RecordDryRun
  <1> QED BY <1>1, <1>2, <1>3

\* The steps of a snapshot.
LEMMA TrendMoves ==
  ASSUME Shapes, NEW t \in Thread
  PROVE  /\ BuildSnapshot(t) => Moved(t, {"append"}, {"run"}) /\ call'[t].run = made'.runs
         /\ ReadTrend(t) => Moved(t, {"replace"}, {"read"}) /\ call'[t].read = trend
         /\ ReplaceTrend(t) => \/ Ended(t)
                               \/ /\ Moved(t, {"draft"}, {"run", "read", "seen"})
                                  /\ call'[t].run = 0 /\ call'[t].read = <<>> /\ call'[t].seen = <<>>
  <1>1. ASSUME BuildSnapshot(t) PROVE Moved(t, {"append"}, {"run"}) /\ call'[t].run = made'.runs
    <2>1. PICK n : n = made'.runs
      OBVIOUS
    <2> DEFINE r == [pc |-> "append", run |-> n]
    <2>2. DOMAIN r = {"pc", "run"} /\ r.pc = "append" /\ r.run = n /\ Set(t, r)
      BY <1>1, <2>1 DEF BuildSnapshot
    <2> HIDE DEF r
    <2> QED BY <2>1, <2>2, SetMoves DEF Moved, Core, Fields
  <1>2. ASSUME ReadTrend(t) PROVE Moved(t, {"replace"}, {"read"}) /\ call'[t].read = trend
    <2> DEFINE r == [pc |-> "replace", read |-> trend]
    <2>1. DOMAIN r = {"pc", "read"} /\ r.pc = "replace" /\ r.read = trend /\ Set(t, r)
      BY <1>2 DEF ReadTrend
    <2> HIDE DEF r
    <2> QED BY <2>1, SetMoves DEF Moved, Core, Fields
  <1>3. ASSUME ReplaceTrend(t)
        PROVE  \/ Ended(t)
               \/ /\ Moved(t, {"draft"}, {"run", "read", "seen"})
                  /\ call'[t].run = 0 /\ call'[t].read = <<>> /\ call'[t].seen = <<>>
    <2>1. CASE Ends(t)
      BY <2>1, EndsEnds
    <2>2. ASSUME NEW n, Set(t, [pc |-> "draft", run |-> 0, read |-> <<>>, seen |-> <<>>, todo |-> n])
          PROVE  /\ Moved(t, {"draft"}, {"run", "read", "seen"})
                 /\ call'[t].run = 0 /\ call'[t].read = <<>> /\ call'[t].seen = <<>>
      <3> DEFINE r == [pc |-> "draft", run |-> 0, read |-> <<>>, seen |-> <<>>, todo |-> n]
      <3>1. /\ DOMAIN r = {"pc", "run", "read", "seen", "todo"} /\ r.pc = "draft"
            /\ r.run = 0 /\ r.read = <<>> /\ r.seen = <<>> /\ Set(t, r)
        BY <2>2
      <3> HIDE DEF r
      <3> QED BY <3>1, SetMoves DEF Moved, Core, Fields
    <2> QED BY <1>3, <2>1, <2>2 DEF ReplaceTrend
  <1> QED BY <1>1, <1>2, <1>3

\* Proposals that are no open ones with this diff.
RulesOut(d, ruled) ==
  \A i \in ruled : i \in DOMAIN proposals /\ ~(proposals[i].open /\ proposals[i].diff = d)

\* A page without the diff rules out what it lists, and what the listing leaves out.
LEMMA PageRulesOut ==
  ASSUME NEW d, NEW page \in Pages(d), ~HasOpenDuplicate(page, d)
  PROVE  RulesOut(d, DOMAIN proposals \ (OpenOfKind(d) \ page))
  BY DEF RulesOut, HasOpenDuplicate, OpenOfKind, SameKind

\* The steps of a draft, and the last one of a sweep or a gate report.
LEMMA DraftMoves ==
  ASSUME Shapes, NEW t \in Thread
  PROVE  /\ DraftProposal(t) => \/ Moved(t, {"draft"}, {})
                                \/ Moved(t, {"check"}, {"diff"}) /\ call'[t].diff \in Drafts
         /\ CheckDuplicate(t) => \/ Moved(t, {"draft"}, {})
                                 \/ /\ Moved(t, {"create"}, {"ruledOut"})
                                    /\ RulesOut(call[t].diff, call'[t].ruledOut)
         /\ CreateProposal(t) => Moved(t, {"draft"}, {})
         /\ Return(t) => Ended(t)
  <1>1. ASSUME Discards(t) PROVE Moved(t, {"draft"}, {})
    <2> DEFINE r == [pc |-> "draft", todo |-> call[t].todo - 1]
    <2>1. DOMAIN r = {"pc", "todo"} /\ r.pc = "draft" /\ Set(t, r)
      BY <1>1 DEF Discards
    <2> HIDE DEF r
    <2> QED BY <2>1, SetMoves DEF Moved, Core, Fields
  <1>2. ASSUME NEW d \in Drafts, Set(t, [pc |-> "check", diff |-> d])
        PROVE  Moved(t, {"check"}, {"diff"}) /\ call'[t].diff \in Drafts
    <2> DEFINE r == [pc |-> "check", diff |-> d]
    <2>1. DOMAIN r = {"pc", "diff"} /\ r.pc = "check" /\ r.diff = d /\ Set(t, r)
      BY <1>2
    <2> HIDE DEF r
    <2> QED BY <2>1, SetMoves DEF Moved, Core, Fields
  <1>3. ASSUME NEW ruled, Set(t, [pc |-> "create", ruledOut |-> ruled])
        PROVE  Moved(t, {"create"}, {"ruledOut"}) /\ call'[t].ruledOut = ruled
    <2> DEFINE r == [pc |-> "create", ruledOut |-> ruled]
    <2>1. DOMAIN r = {"pc", "ruledOut"} /\ r.pc = "create" /\ r.ruledOut = ruled /\ Set(t, r)
      BY <1>3
    <2> HIDE DEF r
    <2> QED BY <2>1, SetMoves DEF Moved, Core, Fields
  <1>4. Return(t) => Ended(t)
    BY EndsEnds DEF Return
  <1>5. ASSUME CheckDuplicate(t)
        PROVE  \/ Moved(t, {"draft"}, {})
               \/ /\ Moved(t, {"create"}, {"ruledOut"})
                  /\ RulesOut(call[t].diff, call'[t].ruledOut)
    <2>1. PICK page \in Pages(call[t].diff) :
            IF HasOpenDuplicate(page, call[t].diff) THEN Discards(t)
            ELSE Set(t, [pc |-> "create",
                         ruledOut |-> DOMAIN proposals \ (OpenOfKind(call[t].diff) \ page)])
      BY <1>5 DEF CheckDuplicate
    <2>2. CASE HasOpenDuplicate(page, call[t].diff)
      BY <1>1, <2>1, <2>2
    <2>3. CASE ~HasOpenDuplicate(page, call[t].diff)
      BY <1>3, <2>1, <2>3, PageRulesOut
    <2> QED BY <2>2, <2>3
  <1> QED BY <1>1, <1>2, <1>4, <1>5 DEF DraftProposal, CreateProposal

\* At most the marks of these threads' calls change.
MarkedOnly(S) ==
  \A s \in S : /\ DOMAIN call'[s] = Fields
              /\ \A f \in Fields \ Marks : call'[s][f] = call[s][f]

\* None of these threads' calls becomes alone.
NoneFreed(S) == \A s \in S : call'[s].alone => call[s].alone

\* A call begins: with what it is given, and otherwise idle.
LEMMA BeginMoves ==
  ASSUME Shapes, NEW t \in Thread, NEW op, NEW rest,
         DOMAIN rest \subseteq Fields \ {"op", "steady", "alone"}, Begins(t, op, rest)
  PROVE  /\ call[t].op = "none"
         /\ call' = [s \in Thread |-> call'[s]]
         /\ MarkedOnly(Thread \ {t}) /\ NoneFreed(Thread \ {t})
         /\ op = "dry_run" => \A s \in Thread \ Timer : s # t => ~call'[s].alone
         /\ DOMAIN call'[t] = Fields /\ call'[t].op = op
         /\ call'[t].alone => t \in Timer \/ (DryRunning = {} /\ ~entangled)
         /\ \A f \in DOMAIN rest : call'[t][f] = rest[f]
         /\ \A f \in Fields \ (DOMAIN rest \cup {"op", "steady", "alone"}) : call'[t][f] = Idle[f]
         /\ entangled' = (entangled \/ (op = "dry_run" /\ DryRunning # {}))
         /\ UNCHANGED <<configured, env, trend, proposals, raced>>
         /\ made'.runs = made.runs /\ made' \in [calls : Nat, runs : Nat, moves : Nat]
  <1>1. PICK b \in BOOLEAN : b = (t \in Timer \/ (DryRunning = {} /\ ~entangled))
    OBVIOUS
  <1> DEFINE idle == [Idle EXCEPT !.op = op, !.steady = approved, !.alone = b]
             mine == Onto(rest, idle)
  <1>2. /\ call[t].op = "none"
        /\ made' = [made EXCEPT !.calls = @ + 1]
        /\ call' = [u \in Thread |->
             IF u = t THEN mine
             ELSE IF op = "dry_run" /\ u \notin Timer THEN [call[u] EXCEPT !.alone = FALSE]
             ELSE call[u]]
        /\ entangled' = (entangled \/ (op = "dry_run" /\ DryRunning # {}))
        /\ UNCHANGED <<configured, env, trend, proposals, raced>>
    BY <1>1 DEF Begins
  <1>3. DOMAIN idle = Fields /\ idle.op = op /\ idle.alone = b
        /\ \A f \in Fields \ {"op", "steady", "alone"} : idle[f] = Idle[f]
    BY IdleTyped DEF CallTyped, Fields
  <1> HIDE DEF idle
  <1>4. /\ DOMAIN mine = Fields /\ mine.op = op /\ mine.alone = b
        /\ \A f \in DOMAIN rest : mine[f] = rest[f]
        /\ \A f \in Fields \ (DOMAIN rest \cup {"op", "steady", "alone"}) : mine[f] = Idle[f]
    <2>1. DOMAIN mine = Fields
      BY <1>3 DEF Onto
    <2>2. \A f \in Fields : mine[f] = IF f \in DOMAIN rest THEN rest[f] ELSE idle[f]
      BY <1>3 DEF Onto
    <2>3. {"op", "alone"} \subseteq Fields /\ "op" \notin DOMAIN rest /\ "alone" \notin DOMAIN rest
      BY DEF Fields
    <2> HIDE DEF mine, Fields
    <2> QED BY <1>3, <2>1, <2>2, <2>3
  <1> HIDE DEF mine
  <1>5. /\ MarkedOnly(Thread \ {t}) /\ NoneFreed(Thread \ {t})
        /\ op = "dry_run" => \A s \in Thread \ Timer : s # t => ~call'[s].alone
    <2>1. \A s \in Thread \ {t} : call'[s] = IF op = "dry_run" /\ s \notin Timer
                                            THEN [call[s] EXCEPT !.alone = FALSE] ELSE call[s]
      BY <1>2
    <2>2. \A s \in Thread : DOMAIN call[s] = Fields
      BY DEF Shapes, CallTyped
    <2> QED BY <2>1, <2>2 DEF MarkedOnly, NoneFreed, Fields, Marks
  <1>6. call'[t] = mine /\ call' = [s \in Thread |-> call'[s]]
    BY <1>2
  <1>7. made'.runs = made.runs /\ made' \in [calls : Nat, runs : Nat, moves : Nat]
    <2>1. made \in [calls : Nat, runs : Nat, moves : Nat] /\ made.calls + 1 \in Nat
      BY DEF Shapes
    <2> QED BY <1>2, <2>1
  <1> QED BY <1>1, <1>2, <1>4, <1>5, <1>6, <1>7

\* How each kind of call begins.
LEMMA StartMoves ==
  ASSUME Shapes, NEW t \in Thread,
         StandardSweep(t) \/ DashboardRecompute(t) \/ ValidatePackage(t) \/ StartDryRun(t)
  PROVE  \E op, rest :
           /\ Begins(t, op, rest)
           /\ DOMAIN rest \subseteq Fields \ {"op", "steady", "alone"}
           /\ {"pc", "seen"} \subseteq DOMAIN rest
           /\ DOMAIN rest \cap {"run", "read", "ruledOut"} = {}
           /\ rest.pc \in {"fetch", "report"} /\ IsSeq(rest.seen)
           /\ "diff" \in DOMAIN rest => rest.diff \in Diff
           /\ \/ op \in {"sweep", "recompute"} /\ rest.seen = <<>> /\ "root" \in DOMAIN rest /\ rest.root = "none"
              \/ /\ op = "validate" /\ t \notin Timer /\ "root" \notin DOMAIN rest
                 /\ \A i \in DOMAIN rest.seen : rest.seen[i].root = env
              \/ /\ op = "dry_run" /\ t \notin Timer
                 /\ rest.seen = <<>> /\ "root" \in DOMAIN rest /\ rest.root = "live"
  <1>e. IsSeq(<<>>)
    BY DEF IsSeq
  <1>1. CASE StandardSweep(t) \/ DashboardRecompute(t)
    <2> DEFINE rest == ToScan("none")
    <2>1. /\ DOMAIN rest = {"pc", "page", "fetched", "seen", "root"}
          /\ rest.pc = "fetch" /\ rest.seen = <<>> /\ rest.root = "none"
      BY DEF ToScan
    <2>2. \E op \in {"sweep", "recompute"} : Begins(t, op, rest)
      BY <1>1 DEF StandardSweep, DashboardRecompute
    <2> HIDE DEF rest
    <2> QED BY <1>e, <2>1, <2>2 DEF Fields
  <1>2. CASE ValidatePackage(t)
    <2>1. PICK p \in Package \ purged :
            Begins(t, "validate", [pc |-> "report", seen |->
              <<[pkg |-> p, rules |-> GateRules(t, p), root |-> Env(t)]>>])
      BY <1>2 DEF ValidatePackage
    <2> DEFINE rest == [pc |-> "report", seen |->
                          <<[pkg |-> p, rules |-> GateRules(t, p), root |-> Env(t)]>>]
    <2>2. t \notin Timer /\ Env(t) = env
      BY <1>2 DEF ValidatePackage, Env
    <2>3. DOMAIN rest = {"pc", "seen"} /\ rest.pc = "report"
          /\ rest.seen = <<[pkg |-> p, rules |-> GateRules(t, p), root |-> Env(t)]>>
      OBVIOUS
    <2>4. IsSeq(rest.seen) /\ \A i \in DOMAIN rest.seen : rest.seen[i].root = env
      BY <2>2, <2>3 DEF IsSeq
    <2>5. Begins(t, "validate", rest)
      BY <2>1
    <2> HIDE DEF rest
    <2> QED BY <2>2, <2>3, <2>4, <2>5 DEF Fields
  <1>3. CASE StartDryRun(t)
    <2>1. PICK i \in DOMAIN proposals :
            Begins(t, "dry_run", Onto([proposal |-> i, diff |-> proposals[i].diff,
              change |-> Changed(Current, proposals[i].diff)], ToScan("live")))
      BY <1>3 DEF StartDryRun
    <2> DEFINE rest == Onto([proposal |-> i, diff |-> proposals[i].diff,
                 change |-> Changed(Current, proposals[i].diff)], ToScan("live"))
    <2>2. /\ DOMAIN rest = {"proposal", "diff", "change", "pc", "page", "fetched", "seen", "root"}
          /\ rest.pc = "fetch" /\ rest.seen = <<>> /\ rest.root = "live" /\ rest.diff = proposals[i].diff
      BY DEF Onto, ToScan
    <2>3. rest.diff \in Diff /\ t \notin Timer
      <3>1. proposals \in Seq(Proposal) /\ i \in 1..Len(proposals)
        BY <2>1 DEF Shapes
      <3>2. proposals[i] \in Proposal
        BY <3>1
      <3> QED BY <1>3, <2>2, <3>2 DEF StartDryRun, Proposal
    <2>4. Begins(t, "dry_run", rest)
      BY <2>1
    <2> HIDE DEF rest
    <2> QED BY <1>e, <2>2, <2>3, <2>4 DEF Fields
  <1> QED BY <1>1, <1>2, <1>3

\* What the workflows do to the calls.
LEMMA OutsideMoves ==
  ASSUME Shapes,
         Meanwhile
  PROVE  /\ call' = [s \in Thread |-> call'[s]]
         /\ MarkedOnly(Thread) /\ NoneFreed(Thread)
         /\ UNCHANGED <<configured, env, entangled, trend, raced>>
         /\ made'.runs = made.runs /\ made' \in [calls : Nat, runs : Nat, moves : Nat]
  <1>0. /\ call = [s \in Thread |-> call[s]]
        /\ \A s \in Thread : DOMAIN call[s] = Fields
        /\ made \in [calls : Nat, runs : Nat, moves : Nat]
    BY DEF Shapes, CallTyped
  <1>1. call' = call \/ call' = [s \in Thread |-> IF call[s].op = "none" THEN call[s]
                                               ELSE [call[s] EXCEPT !.released = TRUE]]
        => call' = [s \in Thread |-> call'[s]] /\ MarkedOnly(Thread) /\ NoneFreed(Thread)
    <2>1. CASE call' = call
      BY <1>0, <2>1 DEF MarkedOnly, NoneFreed
    <2>2. CASE call' = [s \in Thread |-> IF call[s].op = "none" THEN call[s]
                                     ELSE [call[s] EXCEPT !.released = TRUE]]
      <3>1. \A s \in Thread : call'[s] = call[s] \/ call'[s] = [call[s] EXCEPT !.released = TRUE]
        BY <2>2
      <3> QED BY <1>0, <2>2, <3>1 DEF MarkedOnly, NoneFreed, Fields, Marks
    <2> QED BY <2>1, <2>2
  <1>2. ASSUME NEW i \in DOMAIN proposals, Decide(i)
        PROVE  /\ call' = call \/ call' = [s \in Thread |-> IF call[s].op = "none" THEN call[s]
                                                      ELSE [call[s] EXCEPT !.released = TRUE]]
               /\ UNCHANGED <<configured, env, entangled, trend, raced, made>>
    BY <1>2 DEF Decide
  <1>3. ASSUME NEW p \in Package, SetStatus(p)
        PROVE  call' = [s \in Thread |-> call'[s]] /\ MarkedOnly(Thread) /\ NoneFreed(Thread)
    <2>1. CASE p \notin approved
      BY <1>1, <1>3, <2>1 DEF SetStatus
    <2>2. CASE p \in approved
      <3>1. call' = [s \in Thread |-> IF call[s].op = "none" THEN call[s]
                                  ELSE [call[s] EXCEPT !.steady = @ \ {p}, !.left = TRUE]]
        BY <1>3, <2>2 DEF SetStatus
      <3>2. \A s \in Thread : call'[s] = call[s]
              \/ call'[s] = [call[s] EXCEPT !.steady = @ \ {p}, !.left = TRUE]
        BY <3>1
      <3> QED BY <1>0, <3>1, <3>2 DEF MarkedOnly, NoneFreed, Fields, Marks
    <2> QED BY <2>1, <2>2
  <1>4. ASSUME NEW p \in Package, SetStatus(p)
        PROVE  /\ UNCHANGED <<configured, env, entangled, trend, raced>>
               /\ made'.runs = made.runs /\ made' \in [calls : Nat, runs : Nat, moves : Nat]
    <2>1. made' = [made EXCEPT !.moves = @ + 1]
      BY <1>4 DEF SetStatus
    <2>3. made.moves + 1 \in Nat
      BY <1>0
    <2>2. UNCHANGED <<configured, env, entangled, trend, raced>>
      BY <1>4 DEF SetStatus
    <2> QED BY <1>0, <2>1, <2>2, <2>3
  <1>5. ASSUME NEW p \in Package, Purge(p)
        PROVE  call' = call /\ UNCHANGED <<configured, env, entangled, trend, raced, made>>
    BY <1>5 DEF Purge
  <1>6. ASSUME NEW d \in ByHand, CreateByHand(d)
        PROVE  call' = call /\ UNCHANGED <<configured, env, entangled, trend, raced, made>>
    BY <1>6 DEF CreateByHand
  <1> QED BY <1>0, <1>1, <1>2, <1>3, <1>4, <1>5, <1>6 DEF Meanwhile

-----------------------------------------------------------------------------
(* The shapes. *)

\* A move of one call keeps the calls' types when the fields it sets have theirs.
LEMMA MovedTyped ==
  ASSUME Shapes, NEW t \in Thread, NEW pcs, NEW F, Moved(t, pcs, F),
         "seen" \in F => IsSeq(call'[t].seen),
         "run" \in F => call'[t].run \in Nat,
         "read" \in F => call'[t].read \in Seq(Nat),
         "diff" \in F => call'[t].diff \in Diff,
         "ruledOut" \in F => call'[t].ruledOut \in SUBSET Nat
  PROVE  /\ call' = [s \in Thread |-> call'[s]]
         /\ \A s \in Thread : CallTyped(call'[s])
  <1>1. CallTyped(call'[t])
    <2>1. CallTyped(call[t])
      BY DEF Shapes
    <2>2. DOMAIN call'[t] = Fields /\ \A f \in Core \ F : call'[t][f] = call[t][f]
      BY DEF Moved
    <2>3. {"seen", "run", "read", "diff", "ruledOut"} \subseteq Core
      BY DEF Core
    <2>4. /\ "seen" \in F \/ call'[t].seen = call[t].seen
          /\ "run" \in F \/ call'[t].run = call[t].run
          /\ "read" \in F \/ call'[t].read = call[t].read
          /\ "diff" \in F \/ call'[t].diff = call[t].diff
          /\ "ruledOut" \in F \/ call'[t].ruledOut = call[t].ruledOut
      BY <2>2, <2>3
    <2>5. IsSeq(call'[t].seen)
      BY <2>1, <2>4 DEF CallTyped
    <2> QED BY <2>1, <2>2, <2>4, <2>5 DEF CallTyped
  <1> QED BY <1>1 DEF Moved, Shapes

\* The end of a call keeps them too.
LEMMA EndedTyped ==
  ASSUME Shapes, NEW t \in Thread, Ended(t)
  PROVE  /\ call' = [s \in Thread |-> call'[s]]
         /\ \A s \in Thread : CallTyped(call'[s])
  BY IdleTyped DEF Ended, Shapes

\* So does a change of marks.
LEMMA MarkedTyped ==
  ASSUME Shapes, NEW S \in SUBSET Thread, MarkedOnly(S)
  PROVE  \A s \in S : CallTyped(call'[s])
  <1> SUFFICES ASSUME NEW s \in S PROVE CallTyped(call'[s])
    OBVIOUS
  <1>0. DOMAIN call'[s] = Fields /\ \A f \in Fields \ Marks : call'[s][f] = call[s][f]
    BY DEF MarkedOnly
  <1>1. CallTyped(call[s])
    BY DEF Shapes
  <1>2. {"seen", "run", "read", "diff", "ruledOut"} \subseteq Fields \ Marks
    BY DEF Fields, Marks
  <1>3. \A f \in {"seen", "run", "read", "diff", "ruledOut"} : call'[s][f] = call[s][f]
    BY <1>0, <1>2
  <1>4. /\ call'[s].seen = call[s].seen /\ call'[s].run = call[s].run /\ call'[s].read = call[s].read
        /\ call'[s].diff = call[s].diff /\ call'[s].ruledOut = call[s].ruledOut
    BY <1>3
  <1> QED BY <1>0, <1>1, <1>4 DEF CallTyped, IsSeq

\* What a step leaves alone of the other shapes, or changes of them.
Kept == /\ proposals' \in Seq(Proposal) /\ trend' \in Seq(Nat)
        /\ made' \in [calls : Nat, runs : Nat, moves : Nat]

\* Each step of a call keeps the calls' types.
LEMMA CallsTyped ==
  ASSUME Shapes, NEW t \in Thread, Step(t)
  PROVE  /\ call' = [s \in Thread |-> call'[s]]
         /\ \A s \in Thread : CallTyped(call'[s])
  <1> DEFINE Goal == /\ call' = [s \in Thread |-> call'[s]]
                     /\ \A s \in Thread : CallTyped(call'[s])
  <1>0. ASSUME NEW pcs, NEW F, Moved(t, pcs, F), F \cap {"seen", "run", "read", "diff", "ruledOut"} = {}
        PROVE  Goal
    <2>1. "seen" \notin F /\ "run" \notin F /\ "read" \notin F /\ "diff" \notin F /\ "ruledOut" \notin F
      BY <1>0
    <2> QED BY <1>0, <2>1, MovedTyped
  <1>e. IsSeq(<<>>)
    BY DEF IsSeq
  <1>1. ASSUME StandardSweep(t) \/ DashboardRecompute(t) \/ ValidatePackage(t) \/ StartDryRun(t)
        PROVE  Goal
    <2>1. PICK op, rest :
           /\ Begins(t, op, rest)
           /\ DOMAIN rest \subseteq Fields \ {"op", "steady", "alone"}
           /\ {"pc", "seen"} \subseteq DOMAIN rest
           /\ DOMAIN rest \cap {"run", "read", "ruledOut"} = {}
           /\ IsSeq(rest.seen)
           /\ "diff" \in DOMAIN rest => rest.diff \in Diff
      BY <1>1, StartMoves
    <2>0. Begins(t, op, rest) /\ DOMAIN rest \subseteq Fields \ {"op", "steady", "alone"}
      BY <2>1
    <2>2. /\ call' = [s \in Thread |-> call'[s]] /\ MarkedOnly(Thread \ {t})
          /\ DOMAIN call'[t] = Fields
          /\ \A f \in DOMAIN rest : call'[t][f] = rest[f]
          /\ \A f \in Fields \ (DOMAIN rest \cup {"op", "steady", "alone"}) : call'[t][f] = Idle[f]
      BY <2>0, BeginMoves
    <2>3. /\ call'[t].seen = rest.seen /\ call'[t].run = Idle.run /\ call'[t].read = Idle.read
          /\ call'[t].ruledOut = Idle.ruledOut
          /\ call'[t].diff = IF "diff" \in DOMAIN rest THEN rest.diff ELSE Idle.diff
      <3>1. {"seen", "run", "read", "ruledOut", "diff"} \subseteq Fields \ {"op", "steady", "alone"}
        BY DEF Fields
      <3> HIDE DEF Fields
      <3> QED BY <2>1, <2>2, <3>1
    <2>4. CallTyped(call'[t])
      BY <2>1, <2>2, <2>3, IdleTyped DEF CallTyped, IsSeq
    <2>5. \A s \in Thread \ {t} : CallTyped(call'[s])
      BY <2>2, MarkedTyped
    <2> QED BY <2>2, <2>4, <2>5
  <1>2. ASSUME FetchPage(t) \/ Override(t) \/ Restore(t) \/ RemoveScratch(t) \/ CreateProposal(t)
        PROVE  Goal
    <2> QED BY <1>0, <1>2, ScanMoves, DryRunMoves, DraftMoves, SMTT(30)
  <1>3. ASSUME ScanPackage(t) \/ RunGate(t) PROVE Goal
    <2>1. PICK p, rules : call'[t].seen =
            Append(call[t].seen, [pkg |-> p, rules |-> rules, root |-> Env(t)])
      BY <1>3, ScanMoves
    <2>2. IsSeq(call'[t].seen)
      <3>1. IsSeq(call[t].seen)
        BY DEF Shapes, CallTyped
      <3> QED BY <2>1, <3>1, AppendIsSeq
    <2>3. \E pcs : Moved(t, pcs, {"seen"})
      BY <1>3, ScanMoves
    <2> QED BY <2>2, <2>3, MovedTyped
  <1>4. ASSUME ScanFails(t) \/ RecordDryRun(t) \/ Return(t) PROVE Goal
    BY <1>4, ScanMoves, DryRunMoves, DraftMoves, EndedTyped
  <1>5. ASSUME SeedScratch(t) PROVE Goal
    <2>1. Moved(t, {"fetch"}, {"seen", "root"}) /\ IsSeq(call'[t].seen)
      BY <1>e, <1>5, DryRunMoves
    <2> QED BY <2>1, MovedTyped
  <1>6. ASSUME BuildSnapshot(t) PROVE Goal
    <2>1. Moved(t, {"append"}, {"run"}) /\ call'[t].run = made'.runs
      BY <1>6, TrendMoves
    <2>2. made'.runs \in Nat
      BY <1>6 DEF BuildSnapshot, Shapes
    <2> QED BY <2>1, <2>2, MovedTyped
  <1>7. ASSUME ReadTrend(t) PROVE Goal
    <2>1. Moved(t, {"replace"}, {"read"}) /\ call'[t].read = trend
      BY <1>7, TrendMoves
    <2>2. trend \in Seq(Nat)
      BY DEF Shapes
    <2> QED BY <2>1, <2>2, MovedTyped
  <1>8. ASSUME ReplaceTrend(t) PROVE Goal
    <2>1. CASE Ended(t)
      BY <2>1, EndedTyped
    <2>2. CASE /\ Moved(t, {"draft"}, {"run", "read", "seen"})
               /\ call'[t].run = 0 /\ call'[t].read = <<>> /\ call'[t].seen = <<>>
      <3>1. IsSeq(call'[t].seen) /\ call'[t].run \in Nat /\ call'[t].read \in Seq(Nat)
        BY <1>e, <2>2
      <3> QED BY <2>2, <3>1, MovedTyped
    <2> QED BY <1>8, <2>1, <2>2, TrendMoves
  <1>9. ASSUME DraftProposal(t) PROVE Goal
    <2>1. CASE Moved(t, {"draft"}, {})
      BY <1>0, <2>1
    <2>2. CASE Moved(t, {"check"}, {"diff"}) /\ call'[t].diff \in Drafts
      <3>1. call'[t].diff \in Diff
        BY <2>2, PlannerAssumption DEF Diff
      <3> QED BY <2>2, <3>1, MovedTyped
    <2> QED BY <1>9, <2>1, <2>2, DraftMoves
  <1>10. ASSUME CheckDuplicate(t) PROVE Goal
    <2>1. CASE Moved(t, {"draft"}, {})
      BY <1>0, <2>1
    <2>2. CASE Moved(t, {"create"}, {"ruledOut"}) /\ RulesOut(call[t].diff, call'[t].ruledOut)
      <3>1. call'[t].ruledOut \in SUBSET Nat
        BY <2>2 DEF Shapes, RulesOut
      <3> QED BY <2>2, <3>1, MovedTyped
    <2> QED BY <1>10, <2>1, <2>2, DraftMoves
  <1> HIDE DEF Goal
  <1>11. Goal
    BY <1>1, <1>2, <1>3, <1>4, <1>5, <1>6, <1>7, <1>8, <1>9, <1>10 DEF Step
  <1> QED BY <1>11 DEF Goal

\* A proposal just made is one.
LEMMA NewIsProposal ==
  ASSUME Shapes, NEW d \in Diff, NEW U \in SUBSET DOMAIN proposals
  PROVE  New(d, U) \in Proposal /\ New(d, {}) \in Proposal
  <1>1. U \in SUBSET Nat /\ {} \in SUBSET Nat
    BY DEF Shapes
  <1> QED BY <1>1 DEF New, Proposal

\* Each step of a call keeps the proposals, the trend and the counts well formed.
LEMMA RestTyped ==
  ASSUME Shapes, NEW t \in Thread, Step(t)
  PROVE  Kept
  <1>0. /\ proposals \in Seq(Proposal) /\ trend \in Seq(Nat)
        /\ made \in [calls : Nat, runs : Nat, moves : Nat]
        /\ call[t].run \in Nat /\ call[t].read \in Seq(Nat) /\ call[t].diff \in Diff
        /\ call[t].ruledOut \in SUBSET Nat
    BY DEF Shapes, CallTyped
  <1>1. ASSUME StandardSweep(t) \/ DashboardRecompute(t) \/ ValidatePackage(t) \/ StartDryRun(t)
        PROVE  Kept
    <2>1. PICK op, rest : Begins(t, op, rest) /\ DOMAIN rest \subseteq Fields \ {"op", "steady", "alone"}
      BY <1>1, StartMoves
    <2>2. UNCHANGED <<proposals, trend>> /\ made' \in [calls : Nat, runs : Nat, moves : Nat]
      BY <2>1, BeginMoves
    <2> QED BY <1>0, <2>2 DEF Kept
  <1>2. ASSUME FetchPage(t) \/ ScanPackage(t) \/ ScanFails(t) \/ Override(t) \/ RunGate(t) \/ Restore(t)
               \/ SeedScratch(t) \/ RemoveScratch(t) \/ ReadTrend(t) \/ DraftProposal(t)
               \/ CheckDuplicate(t) \/ Return(t)
        PROVE  Kept
    <2>1. UNCHANGED <<proposals, trend, made>>
      BY <1>2 DEF FetchPage, ScanPackage, ScanFails, Override, RunGate, Restore, SeedScratch,
           RemoveScratch, ReadTrend, DraftProposal, CheckDuplicate, Return
    <2> QED BY <1>0, <2>1 DEF Kept
  <1>3. ASSUME RecordDryRun(t) PROVE Kept
    <2>1. /\ proposals' = [proposals EXCEPT ![call[t].proposal].dryRun = TRUE]
          /\ UNCHANGED <<trend, made>>
      BY <1>3 DEF RecordDryRun
    <2>2. proposals' \in Seq(Proposal)
      <3>1. PICK k : k = call[t].proposal
        OBVIOUS
      <3>2. CASE k \in 1..Len(proposals)
        <4>1. proposals[k] \in Proposal
          BY <1>0, <3>2
        <4>2. [proposals[k] EXCEPT !.dryRun = TRUE] \in Proposal
          BY <4>1 DEF Proposal
        <4>3. proposals' = [proposals EXCEPT ![k] = [proposals[k] EXCEPT !.dryRun = TRUE]]
          BY <2>1, <3>1
        <4> QED BY <1>0, <3>2, <4>2, <4>3, ExceptSeq
      <3>3. CASE k \notin 1..Len(proposals)
        <4>1. proposals' = [i \in DOMAIN proposals |->
                 IF i = k THEN [proposals[i] EXCEPT !.dryRun = TRUE] ELSE proposals[i]]
          BY <2>1, <3>1
        <4>2. DOMAIN proposals = 1..Len(proposals) /\ proposals = [i \in DOMAIN proposals |-> proposals[i]]
          BY <1>0
        <4>3. \A i \in DOMAIN proposals : (IF i = k THEN [proposals[i] EXCEPT !.dryRun = TRUE] ELSE proposals[i])
                                          = proposals[i]
          BY <3>3, <4>2
        <4>4. proposals' = [i \in DOMAIN proposals |-> proposals[i]]
          BY <4>1, <4>3
        <4> QED BY <1>0, <4>2, <4>4
      <3> QED BY <3>2, <3>3
    <2> QED BY <1>0, <2>1, <2>2 DEF Kept
  <1>4. ASSUME BuildSnapshot(t) PROVE Kept
    <2>1. made' = [made EXCEPT !.runs = @ + 1] /\ UNCHANGED <<proposals, trend>>
      BY <1>4 DEF BuildSnapshot
    <2>2. made.runs + 1 \in Nat
      BY <1>0
    <2> QED BY <1>0, <2>1, <2>2 DEF Kept
  <1>5. ASSUME ReplaceTrend(t) PROVE Kept
    <2>1. trend' = Append(call[t].read, call[t].run) /\ UNCHANGED <<proposals, made>>
      BY <1>5 DEF ReplaceTrend
    <2> QED BY <1>0, <2>1 DEF Kept
  <1>6. ASSUME CreateProposal(t) PROVE Kept
    <2>1. /\ proposals' = Append(proposals, New(call[t].diff, DOMAIN proposals \ call[t].ruledOut))
          /\ UNCHANGED <<trend, made>>
      BY <1>6 DEF CreateProposal
    <2>2. New(call[t].diff, DOMAIN proposals \ call[t].ruledOut) \in Proposal
      BY <1>0, NewIsProposal
    <2> QED BY <1>0, <2>1, <2>2 DEF Kept
  <1> QED BY <1>1, <1>2, <1>3, <1>4, <1>5, <1>6 DEF Step

\* The shapes hold at the start.
LEMMA ShapesInit ==
  ASSUME Init
  PROVE  Shapes
  <1>1. call = [t \in Thread |-> Idle]
    BY DEF Init
  <1>2. proposals \in Seq(Proposal)
    <2>1. CASE proposals = <<>>
      BY <2>1
    <2>2. CASE \E d \in Drafts : proposals = <<New(d, {})>>
      <3>1. PICK d \in Drafts : proposals = <<New(d, {})>>
        BY <2>2
      <3>2. New(d, {}) \in Proposal
        BY PlannerAssumption DEF New, Proposal, Diff
      <3> QED BY <3>1, <3>2
    <2> QED BY <2>1, <2>2 DEF Init
  <1>3. made \in [calls : Nat, runs : Nat, moves : Nat] /\ trend \in Seq(Nat)
    BY DEF Init
  <1> QED BY <1>1, <1>2, <1>3, IdleTyped DEF Shapes

\* Every step keeps them.
LEMMA ShapesStep ==
  ASSUME Shapes, [Next]_vars
  PROVE  Shapes'
  <1>1. ASSUME NEW t \in Thread, Step(t)
        PROVE  Shapes'
    BY <1>1, CallsTyped, RestTyped DEF Shapes, Kept, CallTyped, IsSeq
  <1>2. ASSUME Meanwhile
        PROVE  Shapes'
    <2>1. /\ call' = [s \in Thread |-> call'[s]] /\ MarkedOnly(Thread)
          /\ trend' = trend /\ made' \in [calls : Nat, runs : Nat, moves : Nat]
      BY <1>2, OutsideMoves
    <2>2. \A s \in Thread : CallTyped(call'[s])
      BY <2>1, MarkedTyped
    <2>3. proposals' \in Seq(Proposal)
      <3>1. proposals \in Seq(Proposal)
        BY DEF Shapes
      <3>2. CASE \E i \in DOMAIN proposals : Decide(i)
        <4>1. PICK i \in DOMAIN proposals : proposals' = [proposals EXCEPT ![i].open = FALSE]
          BY <3>2 DEF Decide
        <4>2. [proposals[i] EXCEPT !.open = FALSE] \in Proposal
          <5>1. proposals[i] \in Proposal
            BY <3>1
          <5> QED BY <5>1 DEF Proposal
        <4> QED BY <3>1, <4>1, <4>2, ExceptSeq
      <3>3. CASE proposals' = proposals
        BY <3>1, <3>3
      <3>4. ASSUME NEW d \in ByHand, CreateByHand(d) PROVE proposals' \in Seq(Proposal)
        <4>1. d \in Diff
          BY PlannerAssumption DEF Diff
        <4>2. New(d, DOMAIN proposals) \in Proposal
          BY <4>1, NewIsProposal
        <4> QED BY <3>1, <3>4, <4>2 DEF CreateByHand
      <3> QED BY <1>2, <3>2, <3>3, <3>4 DEF Meanwhile, SetStatus, Purge
    <2> QED BY <2>1, <2>2, <2>3 DEF Shapes, CallTyped, IsSeq
  <1>3. ASSUME UNCHANGED vars
        PROVE  Shapes'
    BY <1>3 DEF vars, Shapes, CallTyped, IsSeq
  <1> QED BY <1>1, <1>2, <1>3 DEF Next

-----------------------------------------------------------------------------
(* The queue. *)

\* No call creates a proposal unless it did so before, with the same draft.
NoneCreates ==
  \A s \in Thread : call'[s].pc = "create" =>
    /\ call[s].pc = "create"
    /\ call'[s].ruledOut = call[s].ruledOut /\ call'[s].diff = call[s].diff

\* The queue is as long as it was, and at most decided.
OnlyDecided ==
  /\ Len(proposals') = Len(proposals) /\ DOMAIN proposals' = DOMAIN proposals
  /\ \A i \in DOMAIN proposals :
       /\ proposals'[i].open => proposals[i].open
       /\ proposals'[i].diff = proposals[i].diff /\ proposals'[i].unseen = proposals[i].unseen

\* Such steps keep the queue sound.
LEMMA QueueFrame ==
  ASSUME Shapes, QueueInv, NoneCreates, OnlyDecided
  PROVE  QueueInv'
  <1>0. DOMAIN proposals = 1..Len(proposals) /\ Len(proposals) \in Nat
    BY DEF Shapes
  <1>1. ASSUME NEW s \in Thread PROVE CheckedSound(call[s])'
    <2>1. CheckedSound(call[s])
      BY DEF QueueInv
    <2> QED BY <1>0, <2>1 DEF CheckedSound, NoneCreates, OnlyDecided
  <1>2. OneOpenProposalPerTarget'
    <2>1. OneOpenProposalPerTarget
      BY DEF QueueInv
    <2> QED BY <2>1 DEF OneOpenProposalPerTarget, OnlyDecided
  <1> QED BY <1>1, <1>2 DEF QueueInv

\* A move to another place than "create", of what it sets.
LEMMA MovesCreateNothing ==
  ASSUME NEW t \in Thread, NEW pcs, NEW F, Moved(t, pcs, F), "create" \notin pcs
  PROVE  NoneCreates
  BY DEF Moved, NoneCreates

\* Nor does the end of a call create anything.
LEMMA EndsCreateNothing ==
  ASSUME NEW t \in Thread, Ended(t)
  PROVE  NoneCreates
  BY IdleTyped DEF Ended, NoneCreates

\* Nor does a new proposal unsettle it whose equals were all not seen.
LEMMA NewKeepsQueue ==
  ASSUME Shapes, QueueInv, NoneCreates, NEW d \in Diff, NEW U \in SUBSET DOMAIN proposals,
         proposals' = Append(proposals, New(d, U)),
         \A i \in DOMAIN proposals : proposals[i].open /\ proposals[i].diff = d => i \in U
  PROVE  QueueInv'
  <1> DEFINE new == New(d, U)
  <1>0. proposals \in Seq(Proposal) /\ DOMAIN proposals = 1..Len(proposals) /\ Len(proposals) \in Nat
    BY DEF Shapes
  <1>1. new \in Proposal /\ new.diff = d /\ new.unseen = U
    BY NewIsProposal DEF New
  <1>2. /\ DOMAIN proposals' = 1..(Len(proposals) + 1)
        /\ \A i \in 1..Len(proposals) : proposals'[i] = proposals[i]
        /\ proposals'[Len(proposals) + 1] = new
    <2>1. proposals' = Append(proposals, new)
      OBVIOUS
    <2> HIDE DEF new
    <2> QED BY <1>0, <1>1, <2>1
  <1> HIDE DEF new
  <1>3. ASSUME NEW s \in Thread PROVE CheckedSound(call[s])'
    <2>1. CheckedSound(call[s])
      BY DEF QueueInv
    <2> QED BY <1>0, <1>2, <2>1 DEF CheckedSound, NoneCreates
  <1>4. OneOpenProposalPerTarget'
    <2> SUFFICES ASSUME NEW i \in DOMAIN proposals', NEW j \in DOMAIN proposals', i < j,
                        proposals'[i].open, proposals'[j].open, proposals'[i].diff = proposals'[j].diff
                 PROVE  i \in proposals'[j].unseen
      BY DEF OneOpenProposalPerTarget
    <2>1. i \in 1..Len(proposals) /\ proposals'[i] = proposals[i]
      BY <1>0, <1>2
    <2>2. CASE j = Len(proposals) + 1
      BY <1>0, <1>1, <1>2, <2>1, <2>2
    <2>3. CASE j \in 1..Len(proposals)
      <3>1. OneOpenProposalPerTarget
        BY DEF QueueInv
      <3> QED BY <1>0, <1>2, <2>1, <2>3, <3>1 DEF OneOpenProposalPerTarget
    <2> QED BY <1>0, <1>2, <2>2, <2>3
  <1> QED BY <1>3, <1>4 DEF QueueInv

\* The queue is sound at the start.
LEMMA QueueInit ==
  ASSUME Init
  PROVE  QueueInv
  <1>1. Len(proposals) \in {0, 1} /\ DOMAIN proposals = 1..Len(proposals)
    BY DEF Init
  <1>2. \A t \in Thread : call[t].pc = "none"
    BY IdleTyped DEF Init
  <1> QED BY <1>1, <1>2 DEF QueueInv, CheckedSound, OneOpenProposalPerTarget

\* Every step keeps it sound.
LEMMA QueueStep ==
  ASSUME Shapes, QueueInv, [Next]_vars
  PROVE  QueueInv'
  <1>0. proposals \in Seq(Proposal) /\ DOMAIN proposals = 1..Len(proposals) /\ Len(proposals) \in Nat
    BY DEF Shapes
  <1>u. proposals' = proposals => OnlyDecided
    BY DEF OnlyDecided
  <1>1. ASSUME NEW t \in Thread,
               StandardSweep(t) \/ DashboardRecompute(t) \/ ValidatePackage(t) \/ StartDryRun(t)
        PROVE  QueueInv'
    <2>1. PICK op, rest :
           /\ Begins(t, op, rest)
           /\ DOMAIN rest \subseteq Fields \ {"op", "steady", "alone"}
           /\ "pc" \in DOMAIN rest /\ rest.pc \in {"fetch", "report"}
      BY <1>1, StartMoves
    <2>0. Begins(t, op, rest) /\ DOMAIN rest \subseteq Fields \ {"op", "steady", "alone"}
      BY <2>1
    <2>2. /\ MarkedOnly(Thread \ {t})
          /\ \A f \in DOMAIN rest : call'[t][f] = rest[f]
          /\ UNCHANGED <<configured, env, trend, proposals, raced>>
      BY <2>0, BeginMoves
    <2>3. call'[t].pc \in {"fetch", "report"}
      BY <2>1, <2>2
    <2>4. \A s \in Thread \ {t} : /\ call'[s].pc = call[s].pc /\ call'[s].ruledOut = call[s].ruledOut
                                 /\ call'[s].diff = call[s].diff
      <3>1. {"pc", "ruledOut", "diff"} \subseteq Fields \ Marks
        BY DEF Fields, Marks
      <3> QED BY <2>2, <3>1 DEF MarkedOnly
    <2> QED BY <1>u, <2>2, <2>3, <2>4, QueueFrame DEF NoneCreates
  <1>2. ASSUME NEW t \in Thread,
               FetchPage(t) \/ ScanPackage(t) \/ Override(t) \/ RunGate(t) \/ Restore(t)
               \/ SeedScratch(t) \/ RemoveScratch(t) \/ BuildSnapshot(t) \/ ReadTrend(t)
        PROVE  QueueInv'
    <2>1. proposals' = proposals
      BY <1>2 DEF FetchPage, ScanPackage, Override, RunGate, Restore, SeedScratch, RemoveScratch,
           BuildSnapshot, ReadTrend
    <2>2. \E pcs, F : Moved(t, pcs, F) /\ "create" \notin pcs
      <3>1. CASE FetchPage(t) \/ ScanPackage(t) \/ Override(t) \/ RunGate(t) \/ Restore(t)
        BY <3>1, ScanMoves
      <3>2. CASE SeedScratch(t) \/ RemoveScratch(t)
        BY <3>2, DryRunMoves
      <3>3. CASE BuildSnapshot(t) \/ ReadTrend(t)
        BY <3>3, TrendMoves
      <3> QED BY <1>2, <3>1, <3>2, <3>3
    <2>3. NoneCreates
      BY <2>2, MovesCreateNothing
    <2> QED BY <1>u, <2>1, <2>3, QueueFrame
  <1>3. ASSUME NEW t \in Thread, ScanFails(t) \/ Return(t)
        PROVE  QueueInv'
    <2>1. Ended(t) /\ proposals' = proposals
      BY <1>3, ScanMoves, DraftMoves DEF ScanFails, Return
    <2> QED BY <1>u, <2>1, EndsCreateNothing, QueueFrame
  <1>4. ASSUME NEW t \in Thread, RecordDryRun(t)
        PROVE  QueueInv'
    <2>1. Ended(t)
      BY <1>4, DryRunMoves
    <2>2. OnlyDecided
      <3>1. proposals' = [proposals EXCEPT ![call[t].proposal].dryRun = TRUE]
        BY <1>4 DEF RecordDryRun
      <3>2. Len(proposals') = Len(proposals) /\ DOMAIN proposals' = DOMAIN proposals
        BY <1>0, <3>1
      <3>3. \A i \in DOMAIN proposals : proposals[i] \in Proposal
        BY <1>0
      <3>4. \A i \in DOMAIN proposals :
              proposals'[i] = proposals[i] \/ proposals'[i] = [proposals[i] EXCEPT !.dryRun = TRUE]
        BY <3>1
      <3> QED BY <3>2, <3>3, <3>4 DEF OnlyDecided, Proposal
    <2> QED BY <2>1, <2>2, EndsCreateNothing, QueueFrame
  <1>5. ASSUME NEW t \in Thread, ReplaceTrend(t)
        PROVE  QueueInv'
    <2>1. proposals' = proposals
      BY <1>5 DEF ReplaceTrend
    <2>2. NoneCreates
      BY <1>5, TrendMoves, EndsCreateNothing, MovesCreateNothing
    <2> QED BY <1>u, <2>1, <2>2, QueueFrame
  <1>6. ASSUME NEW t \in Thread, DraftProposal(t)
        PROVE  QueueInv'
    <2>1. proposals' = proposals
      BY <1>6 DEF DraftProposal
    <2>2. NoneCreates
      BY <1>6, DraftMoves, MovesCreateNothing
    <2> QED BY <1>u, <2>1, <2>2, QueueFrame
  <1>7. ASSUME NEW t \in Thread, CheckDuplicate(t)
        PROVE  QueueInv'
    <2>1. proposals' = proposals
      BY <1>7 DEF CheckDuplicate
    <2>2. CASE Moved(t, {"draft"}, {})
      <3>1. NoneCreates
        BY <2>2, MovesCreateNothing
      <3> QED BY <1>u, <2>1, <3>1, QueueFrame
    <2>3. CASE Moved(t, {"create"}, {"ruledOut"}) /\ RulesOut(call[t].diff, call'[t].ruledOut)
      <3>1. \A s \in Thread \ {t} : call'[s] = call[s]
        BY <2>3 DEF Moved
      <3>2. call'[t].diff = call[t].diff
        BY <2>3 DEF Moved, Core
      <3>3. CheckedSound(call[t])'
        BY <2>1, <2>3, <3>2 DEF CheckedSound, RulesOut
      <3>4. \A s \in Thread \ {t} : CheckedSound(call[s])'
        BY <2>1, <3>1 DEF CheckedSound, QueueInv
      <3>5. OneOpenProposalPerTarget'
        BY <2>1 DEF OneOpenProposalPerTarget, QueueInv
      <3> QED BY <3>3, <3>4, <3>5 DEF QueueInv
    <2> QED BY <1>7, <2>2, <2>3, DraftMoves
  <1>8. ASSUME NEW t \in Thread, CreateProposal(t)
        PROVE  QueueInv'
    <2>1. proposals' = Append(proposals, New(call[t].diff, DOMAIN proposals \ call[t].ruledOut))
      BY <1>8 DEF CreateProposal
    <2>2. call[t].diff \in Diff /\ call[t].pc = "create" /\ CheckedSound(call[t])
      BY <1>8 DEF Shapes, CallTyped, CreateProposal, QueueInv
    <2>3. NoneCreates
      BY <1>8, DraftMoves, MovesCreateNothing
    <2>4. \A i \in DOMAIN proposals : proposals[i].open /\ proposals[i].diff = call[t].diff
                                      => i \in DOMAIN proposals \ call[t].ruledOut
      BY <2>2 DEF CheckedSound
    <2> QED BY <2>1, <2>2, <2>3, <2>4, NewKeepsQueue
  <1>9. ASSUME Meanwhile
        PROVE  QueueInv'
    <2>1. MarkedOnly(Thread)
      BY <1>9, OutsideMoves
    <2>2. NoneCreates
      <3>1. {"pc", "ruledOut", "diff"} \subseteq Fields \ Marks
        BY DEF Fields, Marks
      <3> QED BY <2>1, <3>1 DEF MarkedOnly, NoneCreates
    <2>3. CASE proposals' = proposals
      BY <1>u, <2>2, <2>3, QueueFrame
    <2>4. CASE \E i \in DOMAIN proposals : Decide(i)
      <3>1. PICK i \in DOMAIN proposals : proposals' = [proposals EXCEPT ![i].open = FALSE]
        BY <2>4 DEF Decide
      <3>2. Len(proposals') = Len(proposals) /\ DOMAIN proposals' = DOMAIN proposals
        BY <1>0, <3>1
      <3>3. \A k \in DOMAIN proposals : proposals[k] \in Proposal
        BY <1>0
      <3>4. \A k \in DOMAIN proposals :
              proposals'[k] = proposals[k] \/ proposals'[k] = [proposals[k] EXCEPT !.open = FALSE]
        BY <3>1
      <3>5. OnlyDecided
        BY <3>2, <3>3, <3>4 DEF OnlyDecided, Proposal
      <3> QED BY <2>2, <3>5, QueueFrame
    <2>5. ASSUME NEW d \in ByHand, CreateByHand(d) PROVE QueueInv'
      <3>1. proposals' = Append(proposals, New(d, DOMAIN proposals)) /\ d \in Diff
        BY <2>5, PlannerAssumption DEF CreateByHand, Diff
      <3> QED BY <2>2, <3>1, NewKeepsQueue
    <2> QED BY <1>9, <2>3, <2>4, <2>5 DEF Meanwhile, SetStatus, Purge
  <1>10. ASSUME UNCHANGED vars
         PROVE  QueueInv'
    BY <1>10, <1>u, QueueFrame DEF vars, NoneCreates
  <1> QED BY <1>1, <1>2, <1>3, <1>4, <1>5, <1>6, <1>7, <1>8, <1>9, <1>10 DEF Next, Step

-----------------------------------------------------------------------------
(* The trend. *)

AppendPcs == {"append", "replace"}

\* No append starts, moves on or ends.
AppendsStay ==
  /\ \A s \in Thread :
       \/ call[s].pc \notin AppendPcs /\ call'[s].pc \notin AppendPcs
       \/ call'[s].pc = call[s].pc /\ call'[s].run = call[s].run /\ call'[s].read = call[s].read
  /\ trend' = trend /\ raced' = raced /\ made'.runs = made.runs

\* Such steps keep the trend.
LEMMA TrendFrame ==
  ASSUME Shapes, TrendInv, AppendsStay
  PROVE  TrendInv'
  <1>1. Appending' = Appending
    BY DEF Appending, AppendsStay, AppendPcs
  <1>2. InOrder(trend)'
    BY DEF TrendInv, InOrder, AppendsStay
  <1>3. ASSUME NEW s \in Appending PROVE AppendSound(s)'
    <2>1. AppendSound(s) /\ s \in Thread /\ call[s].pc \in AppendPcs
      BY DEF TrendInv, Appending, AppendPcs
    <2>2. call'[s].pc = call[s].pc /\ call'[s].run = call[s].run /\ call'[s].read = call[s].read
      BY <2>1 DEF AppendsStay
    <2>3. trend' = trend /\ raced' = raced /\ made'.runs = made.runs
      BY DEF AppendsStay
    <2>4. call[s].pc = "replace" => InOrder(call[s].read)'
      BY <2>1, <2>2, <2>3 DEF AppendSound, InOrder
    <2>5. Unraced(trend)' = Unraced(trend) /\ Unraced(call[s].read)' = Unraced(call[s].read)
      BY <2>2, <2>3 DEF Unraced
    <2> QED BY <1>1, <2>1, <2>2, <2>3, <2>4, <2>5 DEF AppendSound
  <1>4. TrendIsRunHistory'
    <2>1. TrendIsRunHistory
      BY DEF TrendInv
    <2>2. \A s \in Appending : call'[s].run = call[s].run
      BY DEF Appending, AppendsStay, AppendPcs
    <2>3. trend' = trend /\ raced' = raced /\ made'.runs = made.runs
      BY DEF AppendsStay
    <2> QED BY <1>1, <2>1, <2>2, <2>3 DEF TrendIsRunHistory
  <1> QED BY <1>1, <1>2, <1>3, <1>4 DEF TrendInv

\* There is no row at the start, and no append.
LEMMA TrendInit ==
  ASSUME Init
  PROVE  TrendInv
  <1>1. Appending = {}
    BY IdleTyped DEF Init, Appending
  <1>2. trend = <<>> /\ made.runs = 0 /\ DOMAIN trend = {}
    BY DEF Init
  <1> QED BY <1>1, <1>2 DEF TrendInv, InOrder, TrendIsRunHistory

\* Rows stay in order when more runs are counted, or have raced.
LEMMA OrderGrows ==
  ASSUME Shapes, NEW s \in Seq(Nat), InOrder(s), raced \subseteq raced', made'.runs \in Nat,
         made.runs <= made'.runs
  PROVE  /\ \A i \in DOMAIN s : s[i] <= made'.runs
         /\ \A i, j \in DOMAIN s : i < j => s[i] < s[j] \/ {s[i], s[j]} \subseteq raced'
  <1>1. made.runs \in Nat /\ \A i \in DOMAIN s : s[i] \in Nat
    BY DEF Shapes
  <1> QED BY <1>1 DEF InOrder

\* A new run's append races with those under way.
LEMMA BuildKeepsTrend ==
  ASSUME Shapes, TrendInv, NEW t \in Thread, BuildSnapshot(t)
  PROVE  TrendInv'
  <1>1. PICK n : n = made.runs + 1
    OBVIOUS
  <1>2. /\ made'.runs = n /\ trend' = trend /\ n \in Nat /\ made.runs \in Nat /\ made.runs < n
        /\ raced' = raced \cup (IF Appending = {} THEN {} ELSE {n} \cup {call[u].run : u \in Appending})
        /\ call[t].pc = "scanned"
    BY <1>1 DEF BuildSnapshot, Shapes
  <1>3. Moved(t, {"append"}, {"run"}) /\ call'[t].run = n
    BY <1>2, TrendMoves
  <1>4. /\ call'[t].pc = "append"
        /\ \A s \in Thread \ {t} : call'[s] = call[s]
    BY <1>3 DEF Moved
  <1>5. t \notin Appending /\ Appending' = Appending \cup {t}
    BY <1>2, <1>4 DEF Appending
  <1>6. /\ raced \subseteq raced'
        /\ Appending # {} => n \in raced'
        /\ \A u \in Appending : call[u].run \in raced'
    BY <1>2
  <1>7. ASSUME NEW s \in Seq(Nat), InOrder(s)
        PROVE  /\ \A i \in DOMAIN s : s[i] <= n
               /\ \A i, j \in DOMAIN s : i < j => s[i] < s[j] \/ {s[i], s[j]} \subseteq raced'
    BY <1>2, <1>6, <1>7, OrderGrows
  <1>8. trend \in Seq(Nat) /\ InOrder(trend)
    BY DEF Shapes, TrendInv
  <1>9. InOrder(trend)'
    BY <1>2, <1>7, <1>8 DEF InOrder
  <1>10. \A r \in Unraced(trend)' : r \in Unraced(trend) /\ r < n
    <2>1. \A i \in DOMAIN trend : trend[i] <= made.runs /\ trend[i] \in Nat
      BY <1>8 DEF InOrder
    <2> QED BY <1>2, <1>6, <2>1 DEF Unraced
  <1>11. AppendSound(t)'
    <2>1. n \notin raced' => Appending' = {t}
      BY <1>5, <1>6
    <2> QED BY <1>2, <1>3, <1>4, <1>10, <2>1 DEF AppendSound
  <1>12. ASSUME NEW u \in Appending PROVE AppendSound(u)'
    <2>1. AppendSound(u) /\ u \in Thread /\ call'[u] = call[u] /\ call[u].run \in raced'
      BY <1>4, <1>5, <1>6 DEF TrendInv, Appending
    <2>2. call[u].run \in Nat /\ call[u].read \in Seq(Nat)
      BY <2>1 DEF Shapes, CallTyped
    <2>3. call'[u].run <= made'.runs
      BY <1>2, <2>1, <2>2 DEF AppendSound
    <2>4. \A r \in Unraced(trend)' : r < call'[u].run
      BY <1>10, <2>1 DEF AppendSound
    <2>5. ASSUME call[u].pc = "replace"
          PROVE  InOrder(call[u].read)' /\ Unraced(call[u].read)' = Unraced(trend)'
      <3>1. InOrder(call[u].read) /\ Unraced(call[u].read) = Unraced(trend)
        BY <2>1, <2>5 DEF AppendSound
      <3>2. InOrder(call[u].read)'
        BY <1>2, <1>7, <2>1, <2>2, <3>1 DEF InOrder
      <3>3. /\ Unraced(call[u].read)' = Unraced(call[u].read) \ raced'
            /\ Unraced(trend)' = Unraced(trend) \ raced'
        BY <1>2, <1>6, <2>1 DEF Unraced
      <3> QED BY <3>1, <3>2, <3>3
    <2> QED BY <2>1, <2>3, <2>4, <2>5 DEF AppendSound
  <1>13. TrendIsRunHistory'
    <2>1. \A r \in 1..n : \/ r \in raced' \/ \E i \in DOMAIN trend : trend[i] = r
                          \/ \E u \in Appending' : call'[u].run = r
      <3> SUFFICES ASSUME NEW r \in 1..n
                   PROVE  \/ r \in raced' \/ \E i \in DOMAIN trend : trend[i] = r
                          \/ \E u \in Appending' : call'[u].run = r
        OBVIOUS
      <3>1. CASE r = n
        BY <1>3, <1>5, <3>1
      <3>2. CASE r # n
        <4>1. r \in 1..made.runs
          BY <1>1, <1>2, <3>2
        <4>2. \/ r \in raced \/ \E i \in DOMAIN trend : trend[i] = r
              \/ \E u \in Appending : call[u].run = r
          BY <4>1 DEF TrendInv, TrendIsRunHistory
        <4> QED BY <1>6, <4>2
      <3> QED BY <3>1, <3>2
    <2> QED BY <1>2, <1>9, <2>1 DEF TrendIsRunHistory, InOrder
  <1> QED BY <1>5, <1>9, <1>11, <1>12, <1>13 DEF TrendInv

\* The file is read: until it is replaced, only raced appends replace it.
LEMMA ReadKeepsTrend ==
  ASSUME Shapes, TrendInv, NEW t \in Thread, ReadTrend(t)
  PROVE  TrendInv'
  <1>1. /\ made'.runs = made.runs /\ trend' = trend /\ raced' = raced /\ call[t].pc = "append"
    BY DEF ReadTrend
  <1>2. Moved(t, {"replace"}, {"read"}) /\ call'[t].read = trend
    BY TrendMoves
  <1>3. /\ call'[t].pc = "replace" /\ call'[t].run = call[t].run
        /\ \A s \in Thread \ {t} : call'[s] = call[s]
    BY <1>2 DEF Moved, Core
  <1>4. t \in Appending /\ Appending' = Appending
    BY <1>1, <1>3 DEF Appending
  <1>5. InOrder(trend)' /\ InOrder(trend) /\ Unraced(trend)' = Unraced(trend)
    BY <1>1 DEF TrendInv, InOrder, Unraced
  <1>6. AppendSound(t)'
    <2>1. AppendSound(t)
      BY <1>4 DEF TrendInv
    <2>2. InOrder(call[t].read)' /\ Unraced(call[t].read)' = Unraced(trend)'
      BY <1>1, <1>2, <1>5 DEF InOrder, Unraced
    <2> QED BY <1>1, <1>2, <1>3, <1>4, <1>5, <2>1, <2>2 DEF AppendSound
  <1>7. ASSUME NEW u \in Appending, u # t PROVE AppendSound(u)'
    <2>1. AppendSound(u) /\ u \in Thread /\ call'[u] = call[u]
      BY <1>3, <1>7 DEF TrendInv, Appending
    <2>2. /\ call[u].pc = "replace" => InOrder(call[u].read)'
          /\ Unraced(call[u].read)' = Unraced(call[u].read)
      BY <1>1, <2>1 DEF AppendSound, InOrder, Unraced
    <2> QED BY <1>1, <1>4, <1>5, <2>1, <2>2 DEF AppendSound
  <1>8. TrendIsRunHistory'
    <2>1. \A u \in Appending : call'[u].run = call[u].run
      BY <1>3 DEF Appending
    <2> QED BY <1>1, <1>4, <2>1 DEF TrendInv, TrendIsRunHistory
  <1> QED BY <1>4, <1>5, <1>6, <1>7, <1>8 DEF TrendInv

\* The file is replaced by what was read and a row: no unraced row is lost.
LEMMA ReplaceKeepsTrend ==
  ASSUME Shapes, TrendInv, NEW t \in Thread, ReplaceTrend(t)
  PROVE  TrendInv'
  <1>1. PICK read, run : read = call[t].read /\ run = call[t].run
    OBVIOUS
  <1>2. /\ made'.runs = made.runs /\ trend' = Append(read, run) /\ raced' = raced
        /\ call[t].pc = "replace"
    BY <1>1 DEF ReplaceTrend
  <1>3. call'[t].pc \in {"none", "draft"} /\ \A s \in Thread \ {t} : call'[s] = call[s]
    BY TrendMoves, IdleTyped DEF Moved, Ended
  <1>4. t \in Appending /\ Appending' = Appending \ {t}
    BY <1>2, <1>3 DEF Appending
  <1>5. /\ read \in Seq(Nat) /\ run \in Nat /\ trend \in Seq(Nat) /\ made.runs \in Nat
        /\ Len(read) \in Nat /\ DOMAIN read = 1..Len(read) /\ DOMAIN trend' = 1..(Len(read) + 1)
        /\ \A i \in 1..Len(read) : trend'[i] = read[i] /\ read[i] \in Nat
        /\ trend'[Len(read) + 1] = run
    <2>1. read \in Seq(Nat) /\ run \in Nat /\ trend \in Seq(Nat) /\ made.runs \in Nat
      BY <1>1 DEF Shapes, CallTyped
    <2> QED BY <1>2, <2>1
  <1>6. /\ run <= made.runs
        /\ run \notin raced => Appending = {t} /\ run = made.runs /\ read = trend
        /\ InOrder(read) /\ Unraced(read) = Unraced(trend)
        /\ \A r \in Unraced(trend) : r < run
    <2>1. AppendSound(t)
      BY <1>4 DEF TrendInv
    <2> QED BY <1>1, <1>2, <2>1 DEF AppendSound
  <1>7. \A i \in 1..Len(read) : read[i] < run \/ {read[i], run} \subseteq raced
    <2> SUFFICES ASSUME NEW i \in 1..Len(read)
                 PROVE  read[i] < run \/ {read[i], run} \subseteq raced
      OBVIOUS
    <2>1. CASE read[i] \notin raced
      <3>1. read[i] \in Unraced(read)
        BY <1>5, <2>1 DEF Unraced
      <3> QED BY <1>6, <3>1
    <2>2. CASE read[i] \in raced /\ run \notin raced
      <3>1. read[i] <= made.runs /\ read[i] \in Nat
        BY <1>5, <1>6 DEF InOrder
      <3> QED BY <1>5, <1>6, <2>2, <3>1
    <2> QED BY <2>1, <2>2
  <1>8. InOrder(trend)'
    <2>1. \A i \in DOMAIN trend' : trend'[i] <= made'.runs
      BY <1>2, <1>5, <1>6 DEF InOrder
    <2>2. \A i, j \in DOMAIN trend' :
            i < j => trend'[i] < trend'[j] \/ {trend'[i], trend'[j]} \subseteq raced'
      <3> SUFFICES ASSUME NEW i \in DOMAIN trend', NEW j \in DOMAIN trend', i < j
                   PROVE  trend'[i] < trend'[j] \/ {trend'[i], trend'[j]} \subseteq raced'
        OBVIOUS
      <3>1. i \in 1..Len(read) /\ trend'[i] = read[i]
        BY <1>5
      <3>2. CASE j = Len(read) + 1
        BY <1>2, <1>5, <1>7, <3>1, <3>2
      <3>3. CASE j \in 1..Len(read)
        BY <1>2, <1>5, <1>6, <3>1, <3>3 DEF InOrder
      <3> QED BY <1>5, <3>2, <3>3
    <2> QED BY <2>1, <2>2 DEF InOrder
  <1>9. ASSUME NEW u \in Appending, u # t PROVE AppendSound(u)'
    <2>1. AppendSound(u) /\ u \in Thread /\ call'[u] = call[u]
      BY <1>3, <1>9 DEF TrendInv, Appending
    <2>2. call[u].run \in raced /\ run \in raced
      <3>1. Appending # {t} /\ Appending # {u}
        BY <1>4, <1>9
      <3> QED BY <1>6, <2>1, <3>1 DEF AppendSound
    <2>3. Unraced(trend)' = Unraced(trend)
      <3>1. Unraced(trend)' = Unraced(read)
        BY <1>2, <1>5, <2>2 DEF Unraced
      <3> QED BY <1>6, <3>1
    <2>4. /\ call[u].pc = "replace" => InOrder(call[u].read)'
          /\ Unraced(call[u].read)' = Unraced(call[u].read)
      BY <1>2, <2>1 DEF AppendSound, InOrder, Unraced
    <2> QED BY <1>2, <2>1, <2>2, <2>3, <2>4 DEF AppendSound
  <1>10. TrendIsRunHistory'
    <2>1. \A r \in 1..made.runs : \/ r \in raced \/ \E i \in DOMAIN trend' : trend'[i] = r
                                  \/ \E u \in Appending' : call'[u].run = r
      <3> SUFFICES ASSUME NEW r \in 1..made.runs, r \notin raced
                   PROVE  \/ \E i \in DOMAIN trend' : trend'[i] = r
                          \/ \E u \in Appending' : call'[u].run = r
        OBVIOUS
      <3>1. \/ \E i \in DOMAIN trend : trend[i] = r
            \/ \E u \in Appending : call[u].run = r
        BY DEF TrendInv, TrendIsRunHistory
      <3>2. CASE \E i \in DOMAIN trend : trend[i] = r
        <4>1. r \in Unraced(read)
          BY <1>6, <3>2 DEF Unraced
        <4>2. \E i \in DOMAIN read : read[i] = r
          BY <4>1 DEF Unraced
        <4> QED BY <1>5, <4>2
      <3>3. CASE \E u \in Appending : call[u].run = r
        <4>1. PICK u \in Appending : call[u].run = r
          BY <3>3
        <4>2. CASE u = t
          <5>1. Len(read) + 1 \in DOMAIN trend' /\ trend'[Len(read) + 1] = r
            BY <1>1, <1>5, <4>1, <4>2
          <5> QED BY <5>1
        <4>3. CASE u # t
          <5>1. u \in Appending' /\ call'[u] = call[u]
            BY <1>3, <1>4, <4>3 DEF Appending
          <5> QED BY <4>1, <5>1
        <4> QED BY <4>2, <4>3
      <3> QED BY <3>1, <3>2, <3>3
    <2> QED BY <1>2, <1>8, <2>1 DEF TrendIsRunHistory, InOrder
  <1> QED BY <1>4, <1>8, <1>9, <1>10 DEF TrendInv

\* Every step keeps the trend.
LEMMA TrendStep ==
  ASSUME Shapes, RootsInv, TrendInv, [Next]_vars
  PROVE  TrendInv'
  <1>m. ASSUME NEW t \in Thread, NEW pcs, NEW F, Moved(t, pcs, F), pcs \cap AppendPcs = {},
               call[t].pc \notin AppendPcs
        PROVE  \A s \in Thread :
                 \/ call[s].pc \notin AppendPcs /\ call'[s].pc \notin AppendPcs
                 \/ call'[s].pc = call[s].pc /\ call'[s].run = call[s].run /\ call'[s].read = call[s].read
    BY <1>m DEF Moved
  <1>e. ASSUME NEW t \in Thread, Ended(t), call[t].pc \notin AppendPcs
        PROVE  \A s \in Thread :
                 \/ call[s].pc \notin AppendPcs /\ call'[s].pc \notin AppendPcs
                 \/ call'[s].pc = call[s].pc /\ call'[s].run = call[s].run /\ call'[s].read = call[s].read
    BY <1>e, IdleTyped DEF Ended, AppendPcs
  <1>1. ASSUME NEW t \in Thread,
               StandardSweep(t) \/ DashboardRecompute(t) \/ ValidatePackage(t) \/ StartDryRun(t)
        PROVE  TrendInv'
    <2>1. PICK op, rest :
           /\ Begins(t, op, rest)
           /\ DOMAIN rest \subseteq Fields \ {"op", "steady", "alone"}
           /\ "pc" \in DOMAIN rest /\ rest.pc \in {"fetch", "report"}
      BY <1>1, StartMoves
    <2>0. Begins(t, op, rest) /\ DOMAIN rest \subseteq Fields \ {"op", "steady", "alone"}
      BY <2>1
    <2>2. /\ MarkedOnly(Thread \ {t})
          /\ \A f \in DOMAIN rest : call'[t][f] = rest[f]
          /\ UNCHANGED <<configured, env, trend, proposals, raced>>
      BY <2>0, BeginMoves
    <2>6. made'.runs = made.runs /\ call[t].op = "none"
      BY <2>0, BeginMoves
    <2>3. call'[t].pc \in {"fetch", "report"}
      BY <2>1, <2>2
    <2>4. \A s \in Thread \ {t} : /\ call'[s].pc = call[s].pc /\ call'[s].run = call[s].run
                                 /\ call'[s].read = call[s].read
      <3>1. {"pc", "run", "read"} \subseteq Fields \ Marks
        BY DEF Fields, Marks
      <3> QED BY <2>2, <3>1 DEF MarkedOnly
    <2>5. call[t].pc = "none"
      BY <2>6 DEF RootsInv, RoleSound
    <2> QED BY <2>2, <2>3, <2>4, <2>5, <2>6, TrendFrame DEF AppendsStay, AppendPcs
  <1>2. ASSUME NEW t \in Thread,
               FetchPage(t) \/ ScanPackage(t) \/ Override(t) \/ RunGate(t) \/ Restore(t)
        PROVE  TrendInv'
    <2>1. UNCHANGED <<trend, raced, made>> /\ call[t].pc \in {"fetch", "scan", "gate", "restore"}
      BY <1>2 DEF FetchPage, ScanPackage, Override, RunGate, Restore
    <2>2. \E pcs, F : Moved(t, pcs, F) /\ pcs \cap AppendPcs = {}
      BY <1>2, ScanMoves DEF AppendPcs
    <2> QED BY <1>m, <2>1, <2>2, TrendFrame DEF AppendsStay, AppendPcs
  <1>3. ASSUME NEW t \in Thread,
               SeedScratch(t) \/ RemoveScratch(t)
        PROVE  TrendInv'
    <2>1. UNCHANGED <<trend, raced, made>> /\ call[t].pc = "scanned"
      BY <1>3 DEF SeedScratch, RemoveScratch
    <2>2. \E pcs, F : Moved(t, pcs, F) /\ pcs \cap AppendPcs = {}
      BY <1>3, DryRunMoves DEF AppendPcs
    <2> QED BY <1>m, <2>1, <2>2, TrendFrame DEF AppendsStay, AppendPcs
  <1>4. ASSUME NEW t \in Thread,
               DraftProposal(t) \/ CheckDuplicate(t) \/ CreateProposal(t)
        PROVE  TrendInv'
    <2>1. UNCHANGED <<trend, raced, made>> /\ call[t].pc \in {"draft", "check", "create"}
      BY <1>4 DEF DraftProposal, CheckDuplicate, CreateProposal
    <2>2. \E pcs, F : Moved(t, pcs, F) /\ pcs \cap AppendPcs = {}
      BY <1>4, DraftMoves DEF AppendPcs
    <2> QED BY <1>m, <2>1, <2>2, TrendFrame DEF AppendsStay, AppendPcs
  <1>5. ASSUME NEW t \in Thread,
               ScanFails(t) \/ RecordDryRun(t) \/ Return(t)
        PROVE  TrendInv'
    <2>1. UNCHANGED <<trend, raced, made>> /\ call[t].pc \in {"scan", "record", "report", "draft"}
      BY <1>5 DEF ScanFails, RecordDryRun, Return
    <2>2. Ended(t)
      BY <1>5, ScanMoves, DryRunMoves, DraftMoves
    <2> QED BY <1>e, <2>1, <2>2, TrendFrame DEF AppendsStay, AppendPcs
  <1>6. ASSUME Meanwhile
        PROVE  TrendInv'
    <2>1. MarkedOnly(Thread) /\ trend' = trend /\ raced' = raced /\ made'.runs = made.runs
      BY <1>6, OutsideMoves
    <2>2. \A s \in Thread : /\ call'[s].pc = call[s].pc /\ call'[s].run = call[s].run
                           /\ call'[s].read = call[s].read
      <3>1. {"pc", "run", "read"} \subseteq Fields \ Marks
        BY DEF Fields, Marks
      <3> QED BY <2>1, <3>1 DEF MarkedOnly
    <2> QED BY <2>1, <2>2, TrendFrame DEF AppendsStay
  <1>7. ASSUME UNCHANGED vars
        PROVE  TrendInv'
    BY <1>7, TrendFrame DEF vars, AppendsStay
  <1> QED BY <1>1, <1>2, <1>3, <1>4, <1>5, <1>6, <1>7, BuildKeepsTrend, ReadKeepsTrend,
             ReplaceKeepsTrend DEF Next, Step

-----------------------------------------------------------------------------
(* The variable. *)

\* Where a dry-run that is the only one leaves the variable.
LeavesVariable(t) ==
  IF call'[t].op = "dry_run" /\ Overriding(call'[t])
  THEN env' = RootNamed(t, call'[t].root) /\ call'[t].saved = configured
  ELSE env' = configured

\* A step of one call, which goes on or ends, and changes the variable only as
\* a lone dry-run may.
OneCallMoves(t) ==
  /\ \A s \in Thread : s # t => call'[s] = call[s]
  /\ configured' = configured /\ entangled' = entangled
  /\ call'[t].op \in {call[t].op, "none"}
  /\ call[t].op # "dry_run" => env' = env
  /\ ~entangled /\ DryRunning = {t} => LeavesVariable(t)

\* Such steps keep every gate at its root, if the call's own scan is.
LEMMA RootsFrame ==
  ASSUME Shapes, RootsInv, NEW t \in Thread, OneCallMoves(t),
         RoleSound(t, call'[t]), SeenSound(t, call'[t]),
         call'[t].op # "none" /\ call'[t].alone => call[t].alone
  PROVE  RootsInv'
  <1>1. DryRunning' \subseteq DryRunning /\ (DryRunning \subseteq DryRunning' \cup {t})
    BY DEF OneCallMoves, DryRunning
  <1>2. ASSUME NEW s \in Thread
        PROVE  /\ RoleSound(s, call[s])' /\ SeenSound(s, call[s])'
               /\ AloneSound(s, call[s])'
    <2>1. RoleSound(s, call[s]) /\ SeenSound(s, call[s]) /\ AloneSound(s, call[s])
      BY DEF RootsInv
    <2>2. CASE s # t
      <3>1. call'[s] = call[s] /\ configured' = configured /\ entangled' = entangled
        BY <2>2 DEF OneCallMoves
      <3>2. RoleSound(s, call[s])'
        BY <2>1, <3>1 DEF RoleSound, Overriding
      <3>3. SeenSound(s, call[s])'
        BY <2>1, <3>1 DEF SeenSound
      <3>4. AloneSound(s, call[s])'
        BY <1>1, <2>1, <3>1 DEF AloneSound
      <3> QED BY <3>2, <3>3, <3>4
    <2>3. CASE s = t
      <3>1. /\ configured' = configured /\ entangled' = entangled
            /\ call'[t].op \in {call[t].op, "none"}
        BY DEF OneCallMoves
      <3>2. RoleSound(s, call[s])'
        BY <2>3 DEF RoleSound, Overriding
      <3>3. SeenSound(s, call[s])'
        BY <2>3, <3>1 DEF SeenSound
      <3>4. AloneSound(s, call[s])'
        BY <1>1, <2>1, <2>3, <3>1 DEF AloneSound
      <3> QED BY <3>2, <3>3, <3>4
    <2> QED BY <2>2, <2>3
  <1>3. VariableSound'
    <2>0. VariableSound /\ configured' = configured /\ entangled' = entangled
      BY DEF RootsInv, OneCallMoves
    <2>1. ASSUME ~entangled, DryRunning' = {} PROVE env' = configured
      <3>1. CASE DryRunning = {}
        <4>1. call[t].op # "dry_run"
          BY <3>1 DEF DryRunning
        <4> QED BY <2>0, <2>1, <3>1, <4>1 DEF VariableSound, OneCallMoves
      <3>2. CASE DryRunning = {t}
        <4>1. call'[t].op # "dry_run"
          BY <2>1 DEF DryRunning
        <4> QED BY <2>1, <3>2, <4>1 DEF OneCallMoves, LeavesVariable
      <3> QED BY <1>1, <2>1, <3>1, <3>2
    <2>2. ASSUME ~entangled, NEW u \in DryRunning'
          PROVE  /\ DryRunning' \subseteq {u}
                 /\ Overriding(call'[u]) => env' = RootNamed(u, call'[u].root) /\ call'[u].saved = configured
                 /\ ~Overriding(call'[u]) => env' = configured
      <3>1. u \in DryRunning /\ u \in Thread /\ DryRunning \subseteq {u}
        BY <1>1, <2>0, <2>2 DEF VariableSound, DryRunning
      <3>2. CASE u = t
        <4>1. DryRunning = {t} /\ call'[t].op = "dry_run"
          BY <2>2, <3>1, <3>2 DEF DryRunning
        <4> QED BY <1>1, <2>2, <3>1, <3>2, <4>1 DEF OneCallMoves, LeavesVariable
      <3>3. CASE u # t
        <4>1. call[t].op # "dry_run" /\ call'[u] = call[u]
          BY <3>1, <3>3 DEF OneCallMoves, DryRunning
        <4>2. env' = env
          BY <4>1 DEF OneCallMoves
        <4> QED BY <1>1, <2>0, <2>2, <3>1, <4>1, <4>2 DEF VariableSound
      <3> QED BY <3>2, <3>3
    <2> QED BY <2>0, <2>1, <2>2 DEF VariableSound, Overriding
  <1> QED BY <1>2, <1>3 DEF RootsInv

\* What a call that is alone, or the dry-run that is the only one, knows of the variable.
LEMMA AloneKnows ==
  ASSUME RootsInv, NEW t \in Thread, call[t].op # "none"
  PROVE  /\ call[t].alone /\ call[t].op # "dry_run" => Env(t) = configured
         /\ call[t].alone /\ call[t].op = "dry_run" /\ Overriding(call[t]) =>
              Env(t) = RootNamed(t, call[t].root)
  <1>1. /\ RoleSound(t, call[t]) /\ AloneSound(t, call[t]) /\ VariableSound
    BY DEF RootsInv
  <1>2. ASSUME call[t].alone, t \notin Timer PROVE ~entangled /\ DryRunning \subseteq {t}
    BY <1>1, <1>2 DEF AloneSound
  <1>3. ASSUME call[t].alone, call[t].op # "dry_run" PROVE Env(t) = configured
    <2>1. CASE t \in Timer
      BY <2>1 DEF Env
    <2>2. CASE t \notin Timer
      <3>1. DryRunning = {} /\ ~entangled
        BY <1>2, <1>3, <2>2 DEF DryRunning
      <3> QED BY <1>1, <2>2, <3>1 DEF Env, VariableSound
    <2> QED BY <2>1, <2>2
  <1>4. ASSUME call[t].alone, call[t].op = "dry_run", Overriding(call[t])
        PROVE  Env(t) = RootNamed(t, call[t].root)
    <2>1. t \notin Timer /\ t \in DryRunning
      BY <1>1, <1>4 DEF RoleSound, DryRunning
    <2> QED BY <1>1, <1>2, <1>4, <2>1 DEF Env, VariableSound
  <1> QED BY <1>3, <1>4

\* A call that ends without the variable held.
LEMMA EndKeepsRoots ==
  ASSUME Shapes, RootsInv, NEW t \in Thread, Ended(t), ~Overriding(call[t]),
         UNCHANGED <<env, configured, entangled>>
  PROVE  RootsInv'
  <1>1. ~entangled /\ DryRunning = {t} => env = configured
    BY DEF RootsInv, VariableSound
  <1>2. OneCallMoves(t)
    BY <1>1, IdleTyped DEF Ended, OneCallMoves, LeavesVariable
  <1>3. RoleSound(t, call'[t]) /\ SeenSound(t, call'[t]) /\ call'[t].op = "none"
    BY IdleTyped DEF Ended, RoleSound, SeenSound, Overriding
  <1> QED BY <1>2, <1>3, RootsFrame

\* A step without the variable, of a call that goes on.
LEMMA MoveKeepsRoots ==
  ASSUME Shapes, RootsInv, NEW t \in Thread, NEW pcs, NEW F, Moved(t, pcs, F),
         F \cap {"op", "root", "seen", "alone"} = {},
         ~Overriding(call[t]), pcs \cap {"gate", "restore"} = {},
         "record" \in pcs => call[t].op = "dry_run", call[t].op # "none",
         UNCHANGED <<env, configured, entangled>>
  PROVE  RootsInv'
  <1>1. ~entangled /\ DryRunning = {t} => env = configured
    BY DEF RootsInv, VariableSound
  <1>2. /\ call'[t].op = call[t].op /\ call'[t].root = call[t].root /\ call'[t].seen = call[t].seen
        /\ call'[t].alone = call[t].alone
        /\ call'[t].pc \in pcs /\ \A s \in Thread : s # t => call'[s] = call[s]
    BY DEF Moved, Core
  <1>3. ~Overriding(call'[t])
    BY <1>2 DEF Overriding
  <1>4. OneCallMoves(t)
    BY <1>1, <1>2, <1>3 DEF OneCallMoves, LeavesVariable
  <1>5. RoleSound(t, call[t]) /\ SeenSound(t, call[t])
    BY DEF RootsInv
  <1>6. RoleSound(t, call'[t])
    BY <1>2, <1>3, <1>5 DEF RoleSound
  <1>7. SeenSound(t, call'[t])
    BY <1>2, <1>5 DEF SeenSound
  <1> QED BY <1>2, <1>4, <1>6, <1>7, RootsFrame

\* A gate of a call: its row has the root it saw.
LEMMA GateKeepsSeen ==
  ASSUME Shapes, RootsInv, NEW t \in Thread, NEW p, NEW rules,
         call'[t].seen = Append(call[t].seen, [pkg |-> p, rules |-> rules, root |-> Env(t)]),
         call'[t].root = call[t].root, call'[t].alone = call[t].alone,
         call[t].alone => Env(t) = (IF call[t].root = "none" THEN configured ELSE RootNamed(t, call[t].root))
  PROVE  SeenSound(t, call'[t])
  <1> DEFINE e == [pkg |-> p, rules |-> rules, root |-> Env(t)]
  <1>1. SeenSound(t, call[t]) /\ IsSeq(call[t].seen)
    BY DEF RootsInv, Shapes, CallTyped
  <1>2. \A i \in DOMAIN call'[t].seen :
          IF i \in DOMAIN call[t].seen THEN call'[t].seen[i] = call[t].seen[i] ELSE call'[t].seen[i] = e
    BY <1>1, AppendIsSeq
  <1>3. e.root = Env(t)
    OBVIOUS
  <1> HIDE DEF e
  <1> QED BY <1>1, <1>2, <1>3 DEF SeenSound

\* A call begins: a dry-run that finds another one entangles the variable, and
\* no call of the process is alone with it.
LEMMA BeginKeepsRoots ==
  ASSUME Shapes, RootsInv, NEW t \in Thread,
         StandardSweep(t) \/ DashboardRecompute(t) \/ ValidatePackage(t) \/ StartDryRun(t)
  PROVE  RootsInv'
  <1>1. PICK op, rest :
          /\ Begins(t, op, rest)
          /\ DOMAIN rest \subseteq Fields \ {"op", "steady", "alone"}
          /\ {"pc", "seen"} \subseteq DOMAIN rest
          /\ rest.pc \in {"fetch", "report"}
          /\ \/ op \in {"sweep", "recompute"} /\ rest.seen = <<>> /\ "root" \in DOMAIN rest /\ rest.root = "none"
             \/ /\ op = "validate" /\ t \notin Timer /\ "root" \notin DOMAIN rest
                /\ \A i \in DOMAIN rest.seen : rest.seen[i].root = env
             \/ /\ op = "dry_run" /\ t \notin Timer
                /\ rest.seen = <<>> /\ "root" \in DOMAIN rest /\ rest.root = "live"
    BY StartMoves
  <1>0. Begins(t, op, rest) /\ DOMAIN rest \subseteq Fields \ {"op", "steady", "alone"}
    BY <1>1
  <1>2. /\ MarkedOnly(Thread \ {t})
        /\ \A f \in DOMAIN rest : call'[t][f] = rest[f]
        /\ \A f \in Fields \ (DOMAIN rest \cup {"op", "steady", "alone"}) : call'[t][f] = Idle[f]
        /\ UNCHANGED <<configured, env, trend, proposals, raced>>
    BY <1>0, BeginMoves
  <1>3. call'[t].alone => t \in Timer \/ (DryRunning = {} /\ ~entangled)
    BY <1>0, BeginMoves
  <1>4. entangled' = (entangled \/ (op = "dry_run" /\ DryRunning # {}))
    BY <1>0, BeginMoves
  <1>5. op = "dry_run" => \A s \in Thread \ Timer : s # t => ~call'[s].alone
    BY <1>0, BeginMoves
  <1>6. NoneFreed(Thread \ {t}) /\ call[t].op = "none" /\ call'[t].op = op
    BY <1>0, BeginMoves
  <1>7. \A s \in Thread \ {t} : /\ call'[s].op = call[s].op /\ call'[s].pc = call[s].pc
                               /\ call'[s].root = call[s].root /\ call'[s].saved = call[s].saved
                               /\ call'[s].seen = call[s].seen
    <2>1. {"op", "pc", "root", "saved", "seen"} \subseteq Fields \ Marks
      BY DEF Fields, Marks
    <2> QED BY <1>2, <2>1 DEF MarkedOnly
  <1>8. /\ call'[t].pc \in {"fetch", "report"} /\ call'[t].seen = rest.seen
        /\ "root" \in DOMAIN rest => call'[t].root = rest.root
        /\ "root" \notin DOMAIN rest => call'[t].root = "none"
    <2>1. "root" \in Fields \ {"op", "steady", "alone"}
      BY DEF Fields
    <2> QED BY <1>1, <1>2, <2>1, IdleTyped
  <1>9. /\ op = "dry_run" => DryRunning' = DryRunning \cup {t}
        /\ op # "dry_run" => DryRunning' = DryRunning
        /\ t \notin DryRunning
    BY <1>6, <1>7 DEF DryRunning
  <1>10. RoleSound(t, call[t])'
    BY <1>1, <1>6, <1>8 DEF RoleSound, Overriding
  <1>11. SeenSound(t, call[t])'
    <2>1. CASE rest.seen = <<>>
      BY <1>8, <2>1 DEF SeenSound
    <2>2. CASE op = "validate"
      <3>1. t \notin Timer /\ call'[t].root = "none" /\ \A i \in DOMAIN rest.seen : rest.seen[i].root = env
        BY <1>1, <1>8, <2>2
      <3>2. ASSUME call'[t].alone PROVE env = configured
        BY <1>3, <3>1, <3>2 DEF RootsInv, VariableSound
      <3> QED BY <1>2, <1>8, <3>1, <3>2 DEF SeenSound
    <2> QED BY <1>1, <2>1, <2>2
  <1>12. AloneSound(t, call[t])'
    BY <1>3, <1>4, <1>9 DEF AloneSound
  <1>13. ASSUME NEW s \in Thread \ {t}
         PROVE  RoleSound(s, call[s])' /\ SeenSound(s, call[s])' /\ AloneSound(s, call[s])'
    <2>1. RoleSound(s, call[s]) /\ SeenSound(s, call[s]) /\ AloneSound(s, call[s])
      BY DEF RootsInv
    <2>2. call'[s].alone => call[s].alone
      BY <1>6 DEF NoneFreed
    <2>3. RoleSound(s, call[s])'
      BY <1>7, <2>1 DEF RoleSound, Overriding
    <2>4. SeenSound(s, call[s])'
      BY <1>2, <1>7, <2>1, <2>2 DEF SeenSound
    <2>5. AloneSound(s, call[s])'
      <3>1. CASE op = "dry_run"
        BY <1>5, <3>1 DEF AloneSound
      <3>2. CASE op # "dry_run"
        BY <1>4, <1>7, <1>9, <2>1, <2>2, <3>2 DEF AloneSound
      <3> QED BY <3>1, <3>2
    <2> QED BY <2>3, <2>4, <2>5
  <1>14. VariableSound'
    <2>1. VariableSound /\ configured' = configured /\ env' = env
      BY <1>2 DEF RootsInv
    <2>2. CASE op # "dry_run"
      <3>1. \A u \in DryRunning : u \in Thread \ {t}
        BY <1>9 DEF DryRunning
      <3>2. \A u \in DryRunning : (Overriding(call[u])' <=> Overriding(call[u]))
        BY <1>7, <3>1 DEF Overriding
      <3> QED BY <1>4, <1>7, <1>9, <2>1, <2>2, <3>1, <3>2 DEF VariableSound
    <2>3. CASE op = "dry_run"
      <3>1. ASSUME ~entangled' PROVE DryRunning = {} /\ ~entangled
        BY <1>4, <2>3, <3>1
      <3>2. ~Overriding(call[t])'
        BY <1>8 DEF Overriding
      <3> QED BY <1>9, <2>1, <2>3, <3>1, <3>2 DEF VariableSound
    <2> QED BY <2>2, <2>3
  <1> QED BY <1>10, <1>11, <1>12, <1>13, <1>14 DEF RootsInv

\* The steps of a scan and its gates.
LEMMA ScanKeepsRoots ==
  ASSUME Shapes, RootsInv, NEW t \in Thread,
         ScanPackage(t) \/ Override(t) \/ RunGate(t) \/ Restore(t)
  PROVE  RootsInv'
  <1>1. /\ RoleSound(t, call[t]) /\ SeenSound(t, call[t]) /\ AloneSound(t, call[t])
        /\ VariableSound
    BY DEF RootsInv
  <1>2. UNCHANGED <<configured, entangled>> /\ call[t].op # "none"
    <2>1. UNCHANGED <<configured, entangled>> /\ call[t].pc # "none"
      BY DEF ScanPackage, Override, RunGate, Restore
    <2> QED BY <1>1, <2>1 DEF RoleSound
  <1>3. ASSUME NEW pcs, NEW F, Moved(t, pcs, F), F \subseteq {"seen", "saved"}
        PROVE  /\ call'[t].op = call[t].op /\ call'[t].root = call[t].root
               /\ call'[t].alone = call[t].alone /\ call'[t].pc \in pcs
               /\ "seen" \notin F => call'[t].seen = call[t].seen
               /\ "saved" \notin F => call'[t].saved = call[t].saved
               /\ \A s \in Thread : s # t => call'[s] = call[s]
    BY <1>3 DEF Moved, Core
  <1>4. DryRunning = {t} /\ ~entangled =>
          /\ Overriding(call[t]) => env = RootNamed(t, call[t].root) /\ call[t].saved = configured
          /\ ~Overriding(call[t]) => env = configured
    BY <1>1 DEF VariableSound
  <1>5. CASE ScanPackage(t)
    <2>1. /\ Moved(t, {"scan", "fetch", "scanned"}, {"seen"}) /\ env' = env
          /\ call[t].pc = "scan" /\ call[t].root = "none"
      BY <1>5, ScanMoves DEF ScanPackage
    <2>2. /\ call'[t].op = call[t].op /\ call'[t].root = call[t].root
          /\ call'[t].alone = call[t].alone /\ call'[t].pc \in {"scan", "fetch", "scanned"}
          /\ \A s \in Thread : s # t => call'[s] = call[s]
      BY <1>3, <2>1
    <2>3. call[t].op # "dry_run"
      BY <1>1, <2>1 DEF RoleSound
    <2>4. call[t].alone => Env(t) = configured
      BY <1>2, <2>3, AloneKnows
    <2>5. SeenSound(t, call'[t])
      <3>1. PICK p, rules : call'[t].seen =
              Append(call[t].seen, [pkg |-> p, rules |-> rules, root |-> Env(t)])
        BY <1>5, ScanMoves
      <3> QED BY <2>1, <2>2, <2>4, <3>1, GateKeepsSeen
    <2>6. RoleSound(t, call'[t])
      BY <1>1, <1>2, <2>2 DEF RoleSound, Overriding
    <2>7. OneCallMoves(t)
      <3>1. t \notin DryRunning
        BY <2>3 DEF DryRunning
      <3> QED BY <1>2, <2>1, <2>2, <3>1 DEF OneCallMoves
    <2> QED BY <2>2, <2>5, <2>6, <2>7, RootsFrame
  <1>6. CASE Override(t)
    <2>1. /\ Moved(t, {"gate"}, {"saved"}) /\ call'[t].saved = env /\ env' = RootNamed(t, call[t].root)
          /\ call[t].pc = "scan" /\ call[t].root # "none"
      BY <1>6, ScanMoves DEF Override, RootOf, RootNamed
    <2>2. /\ call'[t].op = call[t].op /\ call'[t].root = call[t].root
          /\ call'[t].alone = call[t].alone /\ call'[t].pc = "gate" /\ call'[t].seen = call[t].seen
          /\ \A s \in Thread : s # t => call'[s] = call[s]
      BY <1>3, <2>1
    <2>3. call[t].op = "dry_run" /\ ~Overriding(call[t]) /\ Overriding(call'[t])
      BY <1>1, <2>1, <2>2 DEF RoleSound, Overriding
    <2>4. RoleSound(t, call'[t])
      BY <1>1, <2>2, <2>3 DEF RoleSound
    <2>5. SeenSound(t, call'[t])
      BY <1>1, <2>2 DEF SeenSound
    <2>6. OneCallMoves(t)
      BY <1>2, <1>4, <2>1, <2>2, <2>3 DEF OneCallMoves, LeavesVariable
    <2> QED BY <2>2, <2>4, <2>5, <2>6, RootsFrame
  <1>7. CASE RunGate(t)
    <2>1. Moved(t, {"restore"}, {"seen"}) /\ env' = env /\ call[t].pc = "gate"
      BY <1>7, ScanMoves DEF RunGate
    <2>2. /\ call'[t].op = call[t].op /\ call'[t].root = call[t].root
          /\ call'[t].alone = call[t].alone /\ call'[t].pc = "restore" /\ call'[t].saved = call[t].saved
          /\ \A s \in Thread : s # t => call'[s] = call[s]
      BY <1>3, <2>1
    <2>3. call[t].op = "dry_run" /\ Overriding(call[t]) /\ Overriding(call'[t]) /\ call[t].root # "none"
      BY <1>1, <2>1, <2>2 DEF RoleSound, Overriding
    <2>4. call[t].alone => Env(t) = RootNamed(t, call[t].root)
      BY <1>2, <2>3, AloneKnows
    <2>5. SeenSound(t, call'[t])
      <3>1. PICK p, rules : call'[t].seen =
              Append(call[t].seen, [pkg |-> p, rules |-> rules, root |-> Env(t)])
        BY <1>7, ScanMoves
      <3> QED BY <2>2, <2>3, <2>4, <3>1, GateKeepsSeen
    <2>6. RoleSound(t, call'[t])
      BY <1>1, <2>2, <2>3 DEF RoleSound
    <2>7. OneCallMoves(t)
      BY <1>2, <1>4, <2>1, <2>2, <2>3 DEF OneCallMoves, LeavesVariable
    <2> QED BY <2>2, <2>5, <2>6, <2>7, RootsFrame
  <1>8. CASE Restore(t)
    <2>1. Moved(t, {"scan", "fetch", "scanned"}, {}) /\ env' = call[t].saved /\ call[t].pc = "restore"
      BY <1>8, ScanMoves DEF Restore
    <2>2. /\ call'[t].op = call[t].op /\ call'[t].root = call[t].root
          /\ call'[t].alone = call[t].alone /\ call'[t].pc \in {"scan", "fetch", "scanned"}
          /\ call'[t].seen = call[t].seen
          /\ \A s \in Thread : s # t => call'[s] = call[s]
      BY <1>3, <2>1
    <2>3. call[t].op = "dry_run" /\ Overriding(call[t]) /\ ~Overriding(call'[t]) /\ call'[t].pc # "record"
      BY <1>1, <2>1, <2>2 DEF RoleSound, Overriding
    <2>4. RoleSound(t, call'[t])
      BY <1>1, <2>2, <2>3 DEF RoleSound
    <2>5. SeenSound(t, call'[t])
      BY <1>1, <2>2 DEF SeenSound
    <2>6. OneCallMoves(t)
      BY <1>2, <1>4, <2>1, <2>2, <2>3 DEF OneCallMoves, LeavesVariable
    <2> QED BY <2>2, <2>4, <2>5, <2>6, RootsFrame
  <1> QED BY <1>5, <1>6, <1>7, <1>8

\* A call starts over with what it has scanned.
LEMMA RestartKeepsRoots ==
  ASSUME Shapes, RootsInv, NEW t \in Thread, NEW pcs, NEW F, Moved(t, pcs, F),
         F \cap {"op", "alone"} = {}, call'[t].seen = <<>>,
         IF call[t].op = "dry_run" THEN call'[t].root \in {"live", "scratch"} ELSE call'[t].root = "none",
         ~Overriding(call[t]), pcs \cap {"gate", "restore", "record"} = {}, call[t].op # "none",
         UNCHANGED <<env, configured, entangled>>
  PROVE  RootsInv'
  <1>1. ~entangled /\ DryRunning = {t} => env = configured
    BY DEF RootsInv, VariableSound
  <1>2. /\ call'[t].op = call[t].op /\ call'[t].alone = call[t].alone
        /\ call'[t].pc \in pcs /\ \A s \in Thread : s # t => call'[s] = call[s]
    BY DEF Moved, Core
  <1>3. ~Overriding(call'[t]) /\ call'[t].pc # "record"
    BY <1>2 DEF Overriding
  <1>4. OneCallMoves(t)
    BY <1>1, <1>2, <1>3 DEF OneCallMoves, LeavesVariable
  <1>5. RoleSound(t, call'[t])
    <2>1. RoleSound(t, call[t])
      BY DEF RootsInv
    <2> QED BY <1>2, <1>3, <2>1 DEF RoleSound
  <1>6. SeenSound(t, call'[t])
    BY DEF SeenSound
  <1> QED BY <1>2, <1>4, <1>5, <1>6, RootsFrame

\* At the start nothing has been overridden.
LEMMA RootsInit ==
  ASSUME Init
  PROVE  RootsInv
  <1>1. \A t \in Thread : call[t] = Idle
    BY DEF Init
  <1>2. DryRunning = {}
    BY <1>1, IdleTyped DEF DryRunning
  <1>3. VariableSound
    BY <1>2 DEF Init, VariableSound
  <1>4. \A t \in Thread : RoleSound(t, call[t]) /\ AloneSound(t, call[t]) /\ SeenSound(t, call[t])
    BY <1>1, IdleTyped DEF RoleSound, AloneSound, SeenSound, Overriding
  <1> QED BY <1>3, <1>4 DEF RootsInv

\* Every step keeps the variable and the scans sound.
LEMMA RootsStep ==
  ASSUME Shapes, RootsInv, [Next]_vars
  PROVE  RootsInv'
  <1>0. \A t \in Thread : RoleSound(t, call[t])
    BY DEF RootsInv
  <1>1. ASSUME NEW t \in Thread, FetchPage(t)
        PROVE  RootsInv'
    <2>1. Moved(t, {"scan", "scanned"}, {}) /\ call[t].pc = "fetch" /\ UNCHANGED <<env, configured, entangled>>
      BY <1>1, ScanMoves DEF FetchPage
    <2>2. ~Overriding(call[t]) /\ call[t].op # "none"
      BY <1>0, <2>1 DEF RoleSound, Overriding
    <2> QED BY <2>1, <2>2, MoveKeepsRoots
  <1>2. ASSUME NEW t \in Thread, ScanFails(t) \/ RecordDryRun(t) \/ Return(t)
        PROVE  RootsInv'
    <2>1. /\ Ended(t) /\ call[t].pc \in {"scan", "record", "report", "draft"}
          /\ UNCHANGED <<env, configured, entangled>>
      BY <1>2, ScanMoves, DryRunMoves, DraftMoves DEF ScanFails, RecordDryRun, Return
    <2>2. ~Overriding(call[t])
      BY <2>1 DEF Overriding
    <2> QED BY <2>1, <2>2, EndKeepsRoots
  <1>3. ASSUME NEW t \in Thread, SeedScratch(t)
        PROVE  RootsInv'
    <2>1. /\ Moved(t, {"fetch"}, {"seen", "root"}) /\ call'[t].seen = <<>> /\ call'[t].root = "scratch"
          /\ call[t].pc = "scanned" /\ call[t].op = "dry_run" /\ UNCHANGED <<env, configured, entangled>>
      BY <1>3, DryRunMoves DEF SeedScratch
    <2>2. ~Overriding(call[t])
      BY <2>1 DEF Overriding
    <2> QED BY <2>1, <2>2, RestartKeepsRoots
  <1>4. ASSUME NEW t \in Thread, RemoveScratch(t)
        PROVE  RootsInv'
    <2>1. /\ Moved(t, {"record"}, {}) /\ call[t].pc = "scanned" /\ call[t].op = "dry_run"
          /\ UNCHANGED <<env, configured, entangled>>
      BY <1>4, DryRunMoves DEF RemoveScratch
    <2>2. ~Overriding(call[t])
      BY <2>1 DEF Overriding
    <2> QED BY <2>1, <2>2, MoveKeepsRoots
  <1>5. ASSUME NEW t \in Thread, BuildSnapshot(t) \/ ReadTrend(t)
        PROVE  RootsInv'
    <2>1. /\ Moved(t, {"append"}, {"run"}) \/ Moved(t, {"replace"}, {"read"})
          /\ call[t].pc \in {"scanned", "append"} /\ UNCHANGED <<env, configured, entangled>>
      BY <1>5, TrendMoves DEF BuildSnapshot, ReadTrend
    <2>2. ~Overriding(call[t]) /\ call[t].op # "none"
      BY <1>0, <2>1 DEF RoleSound, Overriding
    <2>3. CASE Moved(t, {"append"}, {"run"})
      BY <2>1, <2>2, <2>3, MoveKeepsRoots
    <2>4. CASE Moved(t, {"replace"}, {"read"})
      BY <2>1, <2>2, <2>4, MoveKeepsRoots
    <2> QED BY <2>1, <2>3, <2>4
  <1>6. ASSUME NEW t \in Thread, ReplaceTrend(t)
        PROVE  RootsInv'
    <2>1. call[t].pc = "replace" /\ UNCHANGED <<env, configured, entangled>>
      BY <1>6 DEF ReplaceTrend
    <2>2. ~Overriding(call[t]) /\ call[t].op # "none"
      BY <1>0, <2>1 DEF RoleSound, Overriding
    <2>3. CASE Ended(t)
      BY <2>1, <2>2, <2>3, EndKeepsRoots
    <2>4. CASE Moved(t, {"draft"}, {"run", "read", "seen"}) /\ call'[t].seen = <<>>
      <3>1. call'[t].root = call[t].root
        BY <2>4 DEF Moved, Core
      <3>2. IF call[t].op = "dry_run" THEN call'[t].root \in {"live", "scratch"} ELSE call'[t].root = "none"
        BY <1>0, <3>1 DEF RoleSound
      <3> QED BY <2>1, <2>2, <2>4, <3>2, RestartKeepsRoots
    <2> QED BY <1>6, <2>3, <2>4, TrendMoves
  <1>7. ASSUME NEW t \in Thread, DraftProposal(t) \/ CheckDuplicate(t) \/ CreateProposal(t)
        PROVE  RootsInv'
    <2>1. call[t].pc \in {"draft", "check", "create"} /\ UNCHANGED <<env, configured, entangled>>
      BY <1>7 DEF DraftProposal, CheckDuplicate, CreateProposal
    <2>2. ~Overriding(call[t]) /\ call[t].op # "none"
      BY <1>0, <2>1 DEF RoleSound, Overriding
    <2>3. CASE Moved(t, {"draft"}, {})
      BY <2>1, <2>2, <2>3, MoveKeepsRoots
    <2>4. CASE Moved(t, {"check"}, {"diff"})
      BY <2>1, <2>2, <2>4, MoveKeepsRoots
    <2>5. CASE Moved(t, {"create"}, {"ruledOut"})
      BY <2>1, <2>2, <2>5, MoveKeepsRoots
    <2> QED BY <1>7, <2>3, <2>4, <2>5, DraftMoves
  <1>8. ASSUME Meanwhile
        PROVE  RootsInv'
    <2>1. MarkedOnly(Thread) /\ UNCHANGED <<configured, env, entangled>>
      BY <1>8, OutsideMoves
    <2>2. NoneFreed(Thread)
      BY <1>8, OutsideMoves
    <2>3. \A s \in Thread : /\ call'[s].op = call[s].op /\ call'[s].pc = call[s].pc
                           /\ call'[s].root = call[s].root /\ call'[s].saved = call[s].saved
                           /\ call'[s].seen = call[s].seen
      <3>1. {"op", "pc", "root", "saved", "seen"} \subseteq Fields \ Marks
        BY DEF Fields, Marks
      <3> QED BY <2>1, <3>1 DEF MarkedOnly
    <2>4. DryRunning' = DryRunning
      BY <2>3 DEF DryRunning
    <2>5. ASSUME NEW s \in Thread
          PROVE  RoleSound(s, call[s])' /\ AloneSound(s, call[s])' /\ SeenSound(s, call[s])'
      <3>1. RoleSound(s, call[s]) /\ AloneSound(s, call[s]) /\ SeenSound(s, call[s])
        BY DEF RootsInv
      <3>2. call'[s].alone => call[s].alone
        BY <2>2 DEF NoneFreed
      <3>3. RoleSound(s, call[s])'
        BY <2>3, <3>1 DEF RoleSound, Overriding
      <3>4. AloneSound(s, call[s])'
        BY <2>1, <2>3, <2>4, <3>1, <3>2 DEF AloneSound
      <3>5. SeenSound(s, call[s])'
        BY <2>1, <2>3, <3>1, <3>2 DEF SeenSound
      <3> QED BY <3>3, <3>4, <3>5
    <2>6. VariableSound'
      <3>1. \A s \in DryRunning : (Overriding(call[s])' <=> Overriding(call[s])) /\ s \in Thread
        BY <2>3 DEF Overriding, DryRunning
      <3> QED BY <2>1, <2>3, <2>4, <3>1 DEF RootsInv, VariableSound
    <2> QED BY <2>5, <2>6 DEF RootsInv
  <1>9. ASSUME UNCHANGED vars
        PROVE  RootsInv'
    <2>1. UNCHANGED <<configured, env, entangled, call>> /\ DryRunning' = DryRunning
      BY <1>9 DEF vars, DryRunning
    <2> QED BY <2>1 DEF RootsInv, RoleSound, AloneSound, SeenSound, VariableSound, Overriding
  <1> QED BY <1>1, <1>2, <1>3, <1>4, <1>5, <1>6, <1>7, <1>8, <1>9, BeginKeepsRoots, ScanKeepsRoots
          DEF Next, Step

-----------------------------------------------------------------------------
(* The gate that the scans run. *)

\* run_all lets a package pass exactly when every required check that fails on
\* it is waived by name: the order of waivers and meta check loses nothing.
THEOREM GateIsSound ==
  ASSUME NEW p, NEW rules
  PROVE  Passes(RunAll(p, rules)) <=> IsSound(p, rules)
  <1> DEFINE simple == SimpleOutcomes(p, rules)
             first == ApplyWaivers(p, simple)
             all == WithMeta(p, first)
  <1>1. DOMAIN simple = SimpleCheck /\ DOMAIN first = SimpleCheck
    BY DEF SimpleOutcomes, ApplyWaivers
  <1>2. \A id \in SimpleCheck : first[id] = "fail" <=> simple[id] = "fail" /\ id \notin p.waivers
    BY <1>1 DEF ApplyWaivers
  <1>3. Passes(first) <=> IsSound(p, rules)
    BY <1>1, <1>2 DEF Passes, IsSound
  <1>4. MetaCheck \notin SimpleCheck /\ CheckId = SimpleCheck \cup {MetaCheck}
    BY DEF MetaCheck, SimpleCheck, CheckId
  <1>5. /\ DOMAIN all = CheckId /\ all[MetaCheck] = QaApprovedImpliesPass(p, first)
        /\ \A id \in SimpleCheck : all[id] = first[id]
    BY <1>4 DEF WithMeta
  <1>6. RunAll(p, rules) = ApplyWaivers(p, all)
    BY DEF RunAll
  <1> HIDE DEF simple, first, all
  <1>7. /\ DOMAIN ApplyWaivers(p, all) = CheckId
        /\ \A id \in CheckId :
             ApplyWaivers(p, all)[id] = "fail" <=> all[id] = "fail" /\ id \notin p.waivers
    BY <1>5 DEF ApplyWaivers
  <1>8. Passes(RunAll(p, rules)) <=> \A id \in CheckId : all[id] = "fail" => id \in p.waivers
    BY <1>6, <1>7 DEF Passes
  <1>9. Passes(first) => QaApprovedImpliesPass(p, first) # "fail"
    BY DEF QaApprovedImpliesPass, Ok
  <1>10. ASSUME NEW id \in SimpleCheck PROVE first[id] = "fail" => id \notin p.waivers
    BY <1>2
  <1>11. Passes(first) <=> \A id \in SimpleCheck : first[id] # "fail"
    BY <1>1 DEF Passes
  <1> QED BY <1>3, <1>4, <1>5, <1>8, <1>9, <1>10, <1>11

-----------------------------------------------------------------------------
(* The listing. *)

\* Later packages have more of them before; all of them, one fewer than there are.
LEMMA RankOrders ==
  ASSUME approved \subseteq Package
  PROVE  /\ IsFiniteSet(approved) /\ Cardinality(approved) \in Nat
         /\ \A p \in approved : Rank(p) \in Nat /\ Rank(p) < Cardinality(approved)
         /\ \A p, q \in approved : p < q => Rank(p) < Rank(q)
  <1>1. IsFiniteSet(approved) /\ Cardinality(approved) \in Nat /\ approved \subseteq Nat
    <2>1. IsFiniteSet(Package) /\ Package \subseteq Nat
      BY DetectorAssumption
    <2> QED BY <2>1, FS_Subset, FS_CardinalityType
  <1> DEFINE Before(p) == {q \in approved : q < p}
  <1>2. ASSUME NEW p \in approved
        PROVE  IsFiniteSet(Before(p)) /\ Rank(p) \in Nat /\ Rank(p) = Cardinality(Before(p))
    <2>1. Before(p) \in SUBSET approved
      OBVIOUS
    <2>2. IsFiniteSet(Before(p))
      BY <1>1, <2>1, FS_Subset
    <2> QED BY <2>2, FS_CardinalityType DEF Rank
  <1>3. ASSUME NEW p \in approved PROVE Rank(p) < Cardinality(approved)
    <2>1. Before(p) \in SUBSET approved /\ Before(p) # approved
      <3>1. p \notin Before(p)
        BY <1>1
      <3> QED BY <3>1
    <2>2. Cardinality(Before(p)) <= Cardinality(approved) /\ Cardinality(Before(p)) # Cardinality(approved)
      BY <1>1, <2>1, FS_Subset
    <2> QED BY <1>1, <1>2, <2>2
  <1>4. ASSUME NEW p \in approved, NEW q \in approved, p < q PROVE Rank(p) < Rank(q)
    <2>1. Before(p) \in SUBSET Before(q) /\ Before(p) # Before(q)
      <3>1. p \in Before(q) /\ p \notin Before(p)
        BY <1>1, <1>4
      <3>2. \A r \in approved : r < p => r < q
        <4>1. \A r \in approved : r \in Nat
          BY <1>1
        <4> QED BY <1>4, <4>1
      <3> QED BY <3>1, <3>2
    <2>2. Cardinality(Before(p)) <= Cardinality(Before(q)) /\ Cardinality(Before(p)) # Cardinality(Before(q))
      BY <1>2, <2>1, FS_Subset
    <2> QED BY <1>2, <2>2
  <1> QED BY <1>1, <1>2, <1>3, <1>4

\* Each package is in the listing once, at its rank.
LEMMA ListingIsTheCorpus ==
  ASSUME approved \subseteq Package
  PROVE  /\ Listing \in Seq(approved) /\ Len(Listing) = Cardinality(approved)
         /\ \A p \in approved : Rank(p) + 1 \in 1..Len(Listing) /\ Listing[Rank(p) + 1] = p
  <1>1. PICK n \in Nat : n = Cardinality(approved)
    BY RankOrders
  <1> DEFINE at == [p \in approved |-> Rank(p) + 1]
  <1>2. approved \subseteq Nat
    BY DetectorAssumption
  <1>3. at \in [approved -> 1..n]
    <2>1. \A p \in approved : Rank(p) + 1 \in 1..n
      BY <1>1, RankOrders
    <2> QED BY <2>1
  <1>4. \A p, q \in approved : at[p] = at[q] => p = q
    <2> SUFFICES ASSUME NEW p \in approved, NEW q \in approved, p # q PROVE Rank(p) # Rank(q)
      BY RankOrders
    <2>1. p < q \/ q < p
      BY <1>2
    <2> QED BY <2>1, RankOrders
  <1>5. at \in Injection(approved, 1..n)
    BY <1>3, <1>4 DEF Injection, IsInjective
  <1>6. IsFiniteSet(1..n) /\ Cardinality(1..n) = n
    BY FS_Interval
  <1>7. at \in Surjection(approved, 1..n)
    BY <1>1, <1>5, <1>6, FS_Injection
  <1>8. \A k \in 1..n : \E p \in approved : Rank(p) = k - 1
    <2> SUFFICES ASSUME NEW k \in 1..n PROVE \E p \in approved : Rank(p) = k - 1
      OBVIOUS
    <2>1. PICK p \in approved : at[p] = k
      BY <1>7 DEF Surjection
    <2> QED BY <2>1, RankOrders
  <1>9. \A k \in 1..n : Listing[k] \in approved /\ Rank(Listing[k]) = k - 1
    BY <1>1, <1>8 DEF Listing
  <1>10. Listing \in [1..n -> approved]
    BY <1>1, <1>9 DEF Listing
  <1>11. ASSUME NEW p \in approved PROVE Rank(p) + 1 \in 1..n /\ Listing[Rank(p) + 1] = p
    <2>1. Rank(p) + 1 \in 1..n /\ Rank(p) \in Nat
      BY <1>1, RankOrders
    <2>2. PICK q \in approved : q = Listing[Rank(p) + 1] /\ Rank(q) = Rank(p)
      BY <1>9, <2>1
    <2> QED BY <1>4, <2>1, <2>2
  <1>12. Listing \in Seq(approved) /\ Len(Listing) = n
    BY <1>10
  <1> QED BY <1>1, <1>11, <1>12

\* Pages follow on one another.
LEMMA PagesFollow ==
  ASSUME NEW n \in Nat
  PROVE  n * PageSize \in Nat /\ (n + 1) * PageSize = n * PageSize + PageSize
  <1>1. PageSize \in Nat
    BY PlannerAssumption
  <1> QED BY <1>1

\* A page holds the packages of its ranks, and only the last one is short.
LEMMA PageHolds ==
  ASSUME approved \subseteq Package, NEW n \in Nat
  PROVE  /\ Page(n) \in Seq(Package)
         /\ \A p \in approved : n * PageSize <= Rank(p) /\ Rank(p) < (n + 1) * PageSize
              => \E i \in DOMAIN Page(n) : Page(n)[i] = p
         /\ Len(Page(n)) # PageSize => \A p \in approved : Rank(p) < (n + 1) * PageSize
  <1>1. PICK lo \in Nat, hi \in Nat : lo = n * PageSize /\ hi = (n + 1) * PageSize /\ hi = lo + PageSize
    BY PagesFollow, PlannerAssumption
  <1>2. PICK size \in Nat : size = Len(Listing) /\ size = Cardinality(approved)
    BY ListingIsTheCorpus
  <1> DEFINE end == IF hi <= size THEN hi ELSE size
  <1>3. Page(n) = SubSeq(Listing, lo + 1, end)
    BY <1>1, <1>2 DEF Page
  <1>4. Listing \in Seq(Package)
    BY ListingIsTheCorpus
  <1>5. end \in Nat /\ end <= size /\ PageSize \in Nat \ {0}
    BY PlannerAssumption
  <1>6. /\ Page(n) \in Seq(Package)
        /\ Len(Page(n)) = IF lo + 1 <= end THEN end - lo ELSE 0
        /\ \A i \in 1..(end - lo) : Page(n)[i] = Listing[lo + i]
    <2> PICK e \in Nat : e = end
      BY <1>5
    <2>1. \A i \in (lo + 1)..e : Listing[i] \in Package
      <3>1. e <= Len(Listing)
        BY <1>2, <1>5
      <3>2. \A i \in 1..Len(Listing) : Listing[i] \in Package
        BY <1>4
      <3>3. \A i \in (lo + 1)..e : i \in 1..Len(Listing)
        BY <1>2, <3>1
      <3> QED BY <3>2, <3>3
    <2>2. /\ Page(n) \in Seq(Package)
          /\ Len(Page(n)) = IF lo + 1 <= e THEN e - (lo + 1) + 1 ELSE 0
          /\ \A i \in 1..(e - (lo + 1) + 1) : Page(n)[i] = Listing[(lo + 1) + i - 1]
      BY <1>3, <2>1, SubSeqProperties
    <2>3. \A i \in Int : (lo + 1) + i - 1 = lo + i
      OBVIOUS
    <2>4. e - (lo + 1) + 1 = e - lo
      OBVIOUS
    <2> QED BY <2>2, <2>3, <2>4
  <1>7. \A p \in approved : Rank(p) \in Nat /\ Rank(p) < size /\ Listing[Rank(p) + 1] = p
    BY <1>2, RankOrders, ListingIsTheCorpus
  <1>8. ASSUME NEW p \in approved, lo <= Rank(p), Rank(p) < hi
        PROVE  \E i \in DOMAIN Page(n) : Page(n)[i] = p
    <2>1. PICK i \in Nat : i = Rank(p) + 1 - lo
      BY <1>7, <1>8
    <2>2. i \in 1..(end - lo) /\ lo + i = Rank(p) + 1 /\ i \in 1..Len(Page(n))
      BY <1>5, <1>6, <1>7, <1>8, <2>1
    <2>3. i \in DOMAIN Page(n) /\ Page(n)[i] = Listing[lo + i]
      BY <1>6, <2>2
    <2> QED BY <1>7, <2>2, <2>3
  <1>9. ASSUME Len(Page(n)) # PageSize, NEW p \in approved PROVE Rank(p) < hi
    <2>1. size < hi
      BY <1>1, <1>5, <1>6, <1>9
    <2> QED BY <1>7, <2>1
  <1> QED BY <1>1, <1>6, <1>8, <1>9

-----------------------------------------------------------------------------
(* What a scan has met. *)

Scanning == {"fetch", "scan", "gate", "restore"}
Gating == {"scan", "gate", "restore"}

\* The packages of the page that are not through.
Pending(c) == {c.fetched[i] : i \in DOMAIN c.fetched}

\* The scan is past the place of a package that is where it was when the scan began.
Behind(c, p) == Rank(p) < c.page * PageSize \/ c.pc \notin Scanning \/ (c.pc \in Gating /\ ~c.more)

\* Unless something has left the corpus, what the scan is past has been met, or
\* is on the page; and a dry-run's second scan follows a complete first one.
ScanSound(c) ==
  /\ c.page \in Nat /\ c.fetched \in Seq(Package)
  /\ (c.fetched = <<>> <=> c.pc \notin Gating)
  /\ c.pc = "restore" => Head(c.fetched) \in Scanned(c.seen)
  /\ c.steady \subseteq approved
  /\ ~c.left /\ c.pc \in Scanning \cup {"scanned", "record"} =>
       /\ \A p \in c.steady : Behind(c, p) => p \in Scanned(c.seen) \cup Pending(c)
       /\ c.root = "scratch" => c.steady \subseteq Scanned(c.before)

CoverInv ==
  /\ approved \subseteq Package
  /\ \A t \in Thread : ScanSound(call[t]) /\ (call[t].op = "none" => call[t].steady = {})

\* All the fields of a call but the given ones stay.
Keeps(t, F) == \A f \in Fields \ F : call'[t][f] = call[t][f]

\* What the scan's steps do to the call, field by field.
LEMMA ScanSets ==
  ASSUME Shapes, NEW t \in Thread
  PROVE  /\ FetchPage(t) =>
              IF Page(call[t].page) = <<>>
              THEN call'[t].pc = "scanned" /\ Keeps(t, {"pc"})
              ELSE /\ call'[t].pc = "scan" /\ call'[t].fetched = Page(call[t].page)
                   /\ call'[t].page = call[t].page + 1
                   /\ call'[t].more = (Len(Page(call[t].page)) = PageSize)
                   /\ Keeps(t, {"pc", "fetched", "page", "more"})
         /\ ScanPackage(t) => /\ call'[t].pc = Advance(t).pc /\ call'[t].fetched = Tail(call[t].fetched)
                              /\ call'[t].seen = Scan(t) /\ Keeps(t, {"pc", "fetched", "seen"})
         /\ Override(t) => call'[t].pc = "gate" /\ Keeps(t, {"pc", "saved"})
         /\ RunGate(t) => call'[t].pc = "restore" /\ call'[t].seen = Scan(t) /\ Keeps(t, {"pc", "seen"})
         /\ Restore(t) => /\ call'[t].pc = Advance(t).pc /\ call'[t].fetched = Tail(call[t].fetched)
                          /\ Keeps(t, {"pc", "fetched"})
  <1>a. /\ DOMAIN Advance(t) = {"fetched", "pc"} /\ Advance(t).fetched = Tail(call[t].fetched)
    BY DEF Advance
  <1>f. {"pc", "fetched", "page", "more", "seen", "saved"} \subseteq Fields
    BY DEF Fields
  <1> HIDE DEF Fields
  <1>1. ASSUME FetchPage(t)
        PROVE  IF Page(call[t].page) = <<>>
               THEN call'[t].pc = "scanned" /\ Keeps(t, {"pc"})
               ELSE /\ call'[t].pc = "scan" /\ call'[t].fetched = Page(call[t].page)
                    /\ call'[t].page = call[t].page + 1
                    /\ call'[t].more = (Len(Page(call[t].page)) = PageSize)
                    /\ Keeps(t, {"pc", "fetched", "page", "more"})
    <2>1. PICK items, full : items = Page(call[t].page) /\ full = (Len(items) = PageSize)
      OBVIOUS
    <2>2. CASE items = <<>>
      <3>1. Set(t, [pc |-> "scanned"]) /\ DOMAIN [pc |-> "scanned"] = {"pc"}
        BY <1>1, <2>1, <2>2 DEF FetchPage
      <3> QED BY <1>f, <2>1, <2>2, <3>1, SetMoves DEF Keeps
    <2>3. CASE items # <<>>
      <3> DEFINE r == [pc |-> "scan", fetched |-> items, page |-> call[t].page + 1, more |-> full]
      <3>1. /\ Set(t, r) /\ DOMAIN r = {"pc", "fetched", "page", "more"} /\ r.pc = "scan"
            /\ r.fetched = items /\ r.page = call[t].page + 1 /\ r.more = full
        BY <1>1, <2>1, <2>3 DEF FetchPage
      <3> HIDE DEF r
      <3> QED BY <1>f, <2>1, <2>3, <3>1, SetMoves DEF Keeps
    <2> QED BY <2>2, <2>3
  <1>2. ASSUME ScanPackage(t)
        PROVE  /\ call'[t].pc = Advance(t).pc /\ call'[t].fetched = Tail(call[t].fetched)
               /\ call'[t].seen = Scan(t) /\ Keeps(t, {"pc", "fetched", "seen"})
    <2>0. PICK pc, rest, scan : pc = Advance(t).pc /\ rest = Tail(call[t].fetched) /\ scan = Scan(t)
      OBVIOUS
    <2> DEFINE r == Onto(Advance(t), [seen |-> Scan(t)])
    <2>1. DOMAIN r = {"fetched", "pc", "seen"} /\ r.pc = pc /\ r.seen = scan /\ r.fetched = rest
      BY <1>a, <2>0 DEF Onto
    <2>2. Set(t, r)
      BY <1>2 DEF ScanPackage
    <2> HIDE DEF r
    <2>3. call'[t].pc = pc /\ call'[t].fetched = rest /\ call'[t].seen = scan
      BY <1>f, <2>1, <2>2, SetMoves
    <2>4. Keeps(t, {"pc", "fetched", "seen"})
      BY <1>f, <2>1, <2>2, SetMoves DEF Keeps
    <2> QED BY <2>0, <2>3, <2>4
  <1>3. ASSUME Override(t) PROVE call'[t].pc = "gate" /\ Keeps(t, {"pc", "saved"})
    <2> DEFINE r == [pc |-> "gate", saved |-> env]
    <2>1. DOMAIN r = {"pc", "saved"} /\ r.pc = "gate" /\ Set(t, r)
      BY <1>3 DEF Override
    <2> HIDE DEF r
    <2> QED BY <1>f, <2>1, SetMoves DEF Keeps
  <1>4. ASSUME RunGate(t)
        PROVE  call'[t].pc = "restore" /\ call'[t].seen = Scan(t) /\ Keeps(t, {"pc", "seen"})
    <2> DEFINE r == [pc |-> "restore", seen |-> Scan(t)]
    <2>1. DOMAIN r = {"pc", "seen"} /\ r.pc = "restore" /\ r.seen = Scan(t) /\ Set(t, r)
      BY <1>4 DEF RunGate
    <2> HIDE DEF r
    <2> QED BY <1>f, <2>1, SetMoves DEF Keeps
  <1>5. ASSUME Restore(t)
        PROVE  /\ call'[t].pc = Advance(t).pc /\ call'[t].fetched = Tail(call[t].fetched)
               /\ Keeps(t, {"pc", "fetched"})
    <2>0. PICK r, pc, rest : r = Advance(t) /\ pc = Advance(t).pc /\ rest = Tail(call[t].fetched)
      OBVIOUS
    <2>1. Set(t, r) /\ DOMAIN r = {"fetched", "pc"} /\ r.pc = pc /\ r.fetched = rest
      BY <1>5, <1>a, <2>0 DEF Restore
    <2>2. call'[t].pc = pc /\ call'[t].fetched = rest
      BY <1>f, <2>1, SetMoves
    <2>3. Keeps(t, {"pc", "fetched"})
      BY <1>f, <2>1, SetMoves DEF Keeps
    <2> QED BY <2>0, <2>2, <2>3
  <1> QED BY <1>1, <1>2, <1>3, <1>4, <1>5

\* What the dry-run's own steps do to the call, field by field.
LEMMA DryRunSets ==
  ASSUME Shapes, NEW t \in Thread
  PROVE  /\ SeedScratch(t) =>
              /\ call'[t].pc = "fetch" /\ call'[t].page = 0 /\ call'[t].fetched = <<>>
              /\ call'[t].seen = <<>> /\ call'[t].root = "scratch"
              /\ call'[t].before = call[t].seen /\ call'[t].version = CurrentVersion
              /\ Keeps(t, {"pc", "page", "fetched", "seen", "root", "before", "version"})
         /\ RemoveScratch(t) => call'[t].pc = "record" /\ Keeps(t, {"pc"})
  <1>f. {"pc", "page", "fetched", "seen", "root", "before", "version"} \subseteq Fields
    BY DEF Fields
  <1> HIDE DEF Fields
  <1>1. ASSUME SeedScratch(t)
        PROVE  /\ call'[t].pc = "fetch" /\ call'[t].page = 0 /\ call'[t].fetched = <<>>
               /\ call'[t].seen = <<>> /\ call'[t].root = "scratch"
               /\ call'[t].before = call[t].seen /\ call'[t].version = CurrentVersion
               /\ Keeps(t, {"pc", "page", "fetched", "seen", "root", "before", "version"})
    <2> DEFINE r == Onto([before |-> call[t].seen, version |-> CurrentVersion], ToScan("scratch"))
    <2>1. /\ DOMAIN r = {"before", "version", "pc", "page", "fetched", "seen", "root"}
          /\ r.pc = "fetch" /\ r.seen = <<>> /\ r.root = "scratch" /\ r.page = 0 /\ r.fetched = <<>>
          /\ r.before = call[t].seen /\ r.version = CurrentVersion
      BY DEF Onto, ToScan
    <2>2. Set(t, r)
      BY <1>1 DEF SeedScratch
    <2> HIDE DEF r
    <2> QED BY <1>f, <2>1, <2>2, SetMoves DEF Keeps
  <1>2. ASSUME RemoveScratch(t) PROVE call'[t].pc = "record" /\ Keeps(t, {"pc"})
    <2>1. Set(t, [pc |-> "record"]) /\ DOMAIN [pc |-> "record"] = {"pc"}
      BY <1>2 DEF RemoveScratch
    <2> QED BY <1>f, <2>1, SetMoves DEF Keeps
  <1> QED BY <1>1, <1>2

\* Once a sweep's or a recompute's scan is over, its fields rest.
Drafting == {"append", "replace", "draft", "check", "create"}

\* What the steps after the scan do to the call.
LEMMA AfterScan ==
  ASSUME Shapes, NEW t \in Thread,
         BuildSnapshot(t) \/ ReadTrend(t) \/ ReplaceTrend(t)
           \/ DraftProposal(t) \/ CheckDuplicate(t) \/ CreateProposal(t)
  PROVE  \/ Ended(t)
         \/ /\ call'[t].pc \in Drafting
            /\ Keeps(t, {"pc", "run", "read", "seen", "todo", "diff", "ruledOut"})
  <1> DEFINE Sets == {"pc", "run", "read", "seen", "todo", "diff", "ruledOut"}
  <1>1. ASSUME NEW r, Set(t, r), "pc" \in DOMAIN r, r.pc \in Drafting, DOMAIN r \subseteq Sets
        PROVE  call'[t].pc \in Drafting /\ Keeps(t, Sets)
    <2>1. Sets \subseteq Fields /\ "pc" \in Fields
      BY DEF Fields
    <2> HIDE DEF Fields, Sets, Drafting
    <2> QED BY <1>1, <2>1, SetMoves DEF Keeps
  <1> DEFINE Goal == call'[t].pc \in Drafting /\ Keeps(t, Sets)
  <1>2. ASSUME BuildSnapshot(t) PROVE Goal
    <2>1. PICK n : n = made'.runs
      OBVIOUS
    <2> DEFINE r == [pc |-> "append", run |-> n]
    <2>2. DOMAIN r = {"pc", "run"} /\ r.pc = "append" /\ Set(t, r)
      BY <1>2, <2>1 DEF BuildSnapshot
    <2> HIDE DEF r
    <2> QED BY <1>1, <2>2 DEF Drafting
  <1>3. ASSUME ReadTrend(t) PROVE Goal
    <2> DEFINE r == [pc |-> "replace", read |-> trend]
    <2>1. DOMAIN r = {"pc", "read"} /\ r.pc = "replace" /\ Set(t, r)
      BY <1>3 DEF ReadTrend
    <2> HIDE DEF r
    <2> QED BY <1>1, <2>1 DEF Drafting
  <1>4. ASSUME NEW n, Set(t, [pc |-> "draft", run |-> 0, read |-> <<>>, seen |-> <<>>, todo |-> n])
        PROVE  Goal
    <2> DEFINE r == [pc |-> "draft", run |-> 0, read |-> <<>>, seen |-> <<>>, todo |-> n]
    <2>1. DOMAIN r = {"pc", "run", "read", "seen", "todo"} /\ r.pc = "draft" /\ Set(t, r)
      BY <1>4
    <2> HIDE DEF r
    <2> QED BY <1>1, <2>1 DEF Drafting
  <1>5. ASSUME Discards(t) PROVE Goal
    <2> DEFINE r == [pc |-> "draft", todo |-> call[t].todo - 1]
    <2>1. DOMAIN r = {"pc", "todo"} /\ r.pc = "draft" /\ Set(t, r)
      BY <1>5 DEF Discards
    <2> HIDE DEF r
    <2> QED BY <1>1, <2>1 DEF Drafting
  <1>6. ASSUME NEW d, Set(t, [pc |-> "check", diff |-> d]) PROVE Goal
    <2> DEFINE r == [pc |-> "check", diff |-> d]
    <2>1. DOMAIN r = {"pc", "diff"} /\ r.pc = "check" /\ Set(t, r)
      BY <1>6
    <2> HIDE DEF r
    <2> QED BY <1>1, <2>1 DEF Drafting
  <1>7. ASSUME NEW ruled, Set(t, [pc |-> "create", ruledOut |-> ruled]) PROVE Goal
    <2> DEFINE r == [pc |-> "create", ruledOut |-> ruled]
    <2>1. DOMAIN r = {"pc", "ruledOut"} /\ r.pc = "create" /\ Set(t, r)
      BY <1>7
    <2> HIDE DEF r
    <2> QED BY <1>1, <2>1 DEF Drafting
  <1>8. Ends(t) => Ended(t)
    BY EndsEnds
  <1> HIDE DEF Goal
  <1>9. Ended(t) \/ Goal
    <2>1. CASE ReplaceTrend(t)
      BY <1>4, <1>8, <2>1 DEF ReplaceTrend
    <2>2. CASE DraftProposal(t)
      BY <1>5, <1>6, <2>2 DEF DraftProposal
    <2>3. CASE CheckDuplicate(t)
      BY <1>5, <1>7, <2>3 DEF CheckDuplicate
    <2>4. CASE CreateProposal(t)
      BY <1>5, <2>4 DEF CreateProposal
    <2> QED BY <1>2, <1>3, <2>1, <2>2, <2>3, <2>4
  <1> QED BY <1>9 DEF Goal

\* A package's place only moves up as others are approved.
LEMMA RankGrows ==
  ASSUME approved \subseteq approved', approved' \subseteq Package
  PROVE  \A p : Rank(p) \in Nat /\ Rank(p)' \in Nat /\ Rank(p) <= Rank(p)'
  <1> SUFFICES ASSUME NEW p
               PROVE  Rank(p) \in Nat /\ Rank(p)' \in Nat /\ Rank(p) <= Rank(p)'
    OBVIOUS
  <1> DEFINE A == {q \in approved : q < p}
             B == {q \in approved' : q < p}
  <1>1. IsFiniteSet(approved')
    BY DetectorAssumption, FS_Subset
  <1>2. B \in SUBSET approved' /\ A \in SUBSET B
    OBVIOUS
  <1>3. IsFiniteSet(B)
    BY <1>1, <1>2, FS_Subset
  <1>4. IsFiniteSet(A) /\ Cardinality(A) <= Cardinality(B)
    BY <1>2, <1>3, FS_Subset
  <1>5. Cardinality(A) \in Nat /\ Cardinality(B) \in Nat
    BY <1>3, <1>4, FS_CardinalityType
  <1> QED BY <1>4, <1>5 DEF Rank

ScanFields == {"pc", "page", "fetched", "more", "root", "seen", "before"}

\* A call keeps what it knows while others come to the corpus, and, when
\* something leaves, it is told.
LEMMA ScanFrame ==
  ASSUME NEW s \in Thread, ScanSound(call[s]), approved \subseteq Package, approved' \subseteq Package,
         \A f \in ScanFields : call'[s][f] = call[s][f],
         \/ /\ approved \subseteq approved'
            /\ call'[s].steady = call[s].steady /\ call'[s].left = call[s].left
         \/ call'[s].left /\ call'[s].steady \subseteq approved'
  PROVE  ScanSound(call[s])'
  <1>1. /\ call'[s].pc = call[s].pc /\ call'[s].page = call[s].page /\ call'[s].fetched = call[s].fetched
        /\ call'[s].more = call[s].more /\ call'[s].root = call[s].root /\ call'[s].seen = call[s].seen
        /\ call'[s].before = call[s].before
    BY DEF ScanFields
  <1>2. /\ Scanned(call'[s].seen) = Scanned(call[s].seen)
        /\ Scanned(call'[s].before) = Scanned(call[s].before)
        /\ Pending(call'[s]) = Pending(call[s])
    BY <1>1 DEF Pending
  <1>3. ASSUME approved \subseteq approved'
        PROVE  \A p : Behind(call[s], p)' => Behind(call[s], p)
    <2>1. \A p : Rank(p) \in Nat /\ Rank(p)' \in Nat /\ Rank(p) <= Rank(p)'
      BY <1>3, RankGrows
    <2>2. call[s].page * PageSize \in Nat
      BY PagesFollow DEF ScanSound
    <2>3. PICK edge \in Nat : edge = call[s].page * PageSize
      BY <2>2
    <2>4. \A p : Rank(p)' < edge => Rank(p) < edge
      BY <2>1
    <2>5. call'[s].page * PageSize = edge
      BY <1>1, <2>3
    <2> HIDE DEF Rank
    <2> QED BY <1>1, <2>3, <2>4, <2>5 DEF Behind
  <1>4. CASE /\ approved \subseteq approved'
             /\ call'[s].steady = call[s].steady /\ call'[s].left = call[s].left
    BY <1>1, <1>2, <1>3, <1>4 DEF ScanSound
  <1>5. CASE call'[s].left /\ call'[s].steady \subseteq approved'
    BY <1>1, <1>2, <1>5 DEF ScanSound
  <1> QED BY <1>4, <1>5

\* As long as the corpus is as it was, soundness is of the call alone.
LEMMA ScanStays ==
  ASSUME NEW t \in Thread, ScanSound(call'[t]), approved' = approved
  PROVE  ScanSound(call[t])'
  <1>1. \A p : Behind(call[t], p)' <=> Behind(call'[t], p)
    BY DEF Behind, Rank
  <1> QED BY <1>1 DEF ScanSound, Pending

\* One more row: one more package met.
LEMMA AppendMeets ==
  ASSUME NEW s, IsSeq(s), NEW e
  PROVE  Scanned(Append(s, e)) = Scanned(s) \cup {e.pkg}
  <1>1. \A i \in DOMAIN Append(s, e) : IF i \in DOMAIN s THEN Append(s, e)[i] = s[i] ELSE Append(s, e)[i] = e
    BY AppendIsSeq
  <1>2. PICK n \in Nat : n = Len(s) /\ DOMAIN s = 1..n
    BY DEF IsSeq
  <1>3. DOMAIN Append(s, e) = 1..(n + 1)
    BY <1>2
  <1>4. DOMAIN s \subseteq DOMAIN Append(s, e) /\ n + 1 \in DOMAIN Append(s, e) /\ n + 1 \notin DOMAIN s
    BY <1>2, <1>3
  <1> PICK a : a = Append(s, e)
    OBVIOUS
  <1> QED BY <1>1, <1>4 DEF Scanned

\* The head of the page, and what is left of it.
LEMMA HeadThenTail ==
  ASSUME NEW s \in Seq(Package), s # <<>>
  PROVE  /\ Tail(s) \in Seq(Package) /\ Head(s) \in Package
         /\ \A i \in DOMAIN s : s[i] = Head(s) \/ \E j \in DOMAIN Tail(s) : Tail(s)[j] = s[i]
         /\ Tail(s) = <<>> <=> ~(Len(s) > 1)
  <1>1. /\ Head(s) \in Package /\ Tail(s) \in Seq(Package) /\ Len(Tail(s)) = Len(s) - 1
        /\ \A i \in 1..Len(Tail(s)) : Tail(s)[i] = s[i + 1]
    BY HeadTailProperties
  <1>2. PICK n \in Nat : n = Len(s) /\ n > 0 /\ DOMAIN s = 1..n
    BY EmptySeq
  <1>3. PICK rest : rest = Tail(s)
    OBVIOUS
  <1>r. rest \in Seq(Package) /\ Len(rest) = n - 1 /\ DOMAIN rest = 1..(n - 1)
    <2>1. rest \in Seq(Package) /\ Len(rest) = n - 1
      BY <1>1, <1>2, <1>3
    <2> QED BY <2>1
  <1>4. rest = <<>> <=> n = 1
    <2>1. \A q \in Seq(Package) : q = <<>> <=> Len(q) = 0
      BY EmptySeq
    <2>2. rest = <<>> <=> Len(rest) = 0
      BY <1>r, <2>1
    <2> QED BY <1>2, <1>r, <2>2
  <1>5. ASSUME NEW i \in 1..n PROVE s[i] = Head(s) \/ \E j \in 1..(n - 1) : rest[j] = s[i]
    <2>1. CASE i = 1
      BY <2>1
    <2>2. CASE i # 1
      <3>1. i - 1 \in 1..(n - 1) /\ (i - 1) + 1 = i
        BY <1>2, <2>2
      <3>2. rest[i - 1] = s[(i - 1) + 1]
        BY <1>1, <1>2, <1>3, <1>r, <3>1
      <3> QED BY <3>1, <3>2
    <2> QED BY <2>1, <2>2
  <1>6. \A i \in DOMAIN s : s[i] = Head(s) \/ \E j \in DOMAIN Tail(s) : Tail(s)[j] = s[i]
    BY <1>2, <1>3, <1>r, <1>5
  <1>7. Tail(s) = <<>> <=> ~(Len(s) > 1)
    BY <1>2, <1>3, <1>4
  <1> QED BY <1>1, <1>6, <1>7

\* A page is fetched.
LEMMA FetchKeepsCover ==
  ASSUME Shapes, approved \subseteq Package, NEW t \in Thread, ScanSound(call[t]), FetchPage(t)
  PROVE  ScanSound(call'[t])
  <1>0. call[t].page \in Nat
    BY DEF ScanSound
  <1>1. PICK c, d, n, items : c = call[t] /\ d = call'[t] /\ n = c.page /\ n \in Nat /\ items = Page(n)
    BY <1>0
  <1>2. ScanSound(c) /\ c.pc = "fetch"
    BY <1>1 DEF FetchPage
  <1>3. IF items = <<>>
        THEN d.pc = "scanned" /\ (\A f \in Fields \ {"pc"} : d[f] = c[f])
        ELSE /\ d.pc = "scan" /\ d.fetched = items /\ d.page = n + 1 /\ d.more = (Len(items) = PageSize)
             /\ \A f \in Fields \ {"pc", "fetched", "page", "more"} : d[f] = c[f]
    BY <1>1, ScanSets DEF Keeps
  <1>4. d.seen = c.seen /\ d.before = c.before /\ d.root = c.root /\ d.steady = c.steady /\ d.left = c.left
    <2>1. {"seen", "before", "root", "steady", "left"} \subseteq Fields \ {"pc", "fetched", "page", "more"}
      BY DEF Fields
    <2> HIDE DEF Fields
    <2> QED BY <1>3, <2>1
  <1>5. /\ items \in Seq(Package)
        /\ \A p \in approved : n * PageSize <= Rank(p) /\ Rank(p) < (n + 1) * PageSize
             => \E i \in DOMAIN items : items[i] = p
        /\ Len(items) # PageSize => \A p \in approved : Rank(p) < (n + 1) * PageSize
    BY <1>1, PageHolds
  <1>6. PICK lo \in Nat, hi \in Nat : lo = n * PageSize /\ hi = (n + 1) * PageSize
    <2>1. n * PageSize \in Nat /\ (n + 1) * PageSize \in Nat
      BY <1>1, PagesFollow, PlannerAssumption
    <2> QED BY <2>1
  <1>7. \A p \in approved : Rank(p) \in Nat
    BY RankOrders
  <1>8. ASSUME ~c.left, NEW p \in c.steady PROVE Rank(p) < lo => p \in Scanned(c.seen)
    BY <1>1, <1>2, <1>6, <1>8 DEF ScanSound, Behind, Pending, Scanning, Gating
  <1>9. c.steady \subseteq approved
    BY <1>2 DEF ScanSound
  <1>10. CASE items = <<>>
    <2>1. d.pc = "scanned" /\ d.page = n /\ d.fetched = <<>>
      <3>1. {"page", "fetched"} \subseteq Fields \ {"pc"}
        BY DEF Fields
      <3> HIDE DEF Fields
      <3> QED BY <1>1, <1>2, <1>3, <1>10, <3>1 DEF ScanSound, Gating
    <2>2. Len(items) # PageSize /\ DOMAIN items = {}
      BY <1>10, PlannerAssumption
    <2>3. \A p \in approved : Rank(p) < lo
      BY <1>5, <1>6, <1>7, <2>2
    <2>4. ~d.left => d.steady \subseteq Scanned(d.seen)
      BY <1>4, <1>8, <1>9, <2>3
    <2>5. d.page \in Nat /\ d.fetched \in Seq(Package) /\ (d.fetched = <<>> <=> d.pc \notin Gating)
      BY <1>1, <2>1 DEF Gating
    <2>6. ~d.left /\ d.root = "scratch" => d.steady \subseteq Scanned(d.before)
      BY <1>2, <1>4 DEF ScanSound, Scanning
    <2> QED BY <1>1, <1>4, <1>9, <2>1, <2>4, <2>5, <2>6 DEF ScanSound
  <1>11. CASE items # <<>>
    <2>1. d.pc = "scan" /\ d.fetched = items /\ d.page = n + 1 /\ d.more = (Len(items) = PageSize)
      BY <1>3, <1>11
    <2>2. \A p \in approved : Behind(d, p) => Rank(p) < hi
      BY <1>5, <1>6, <2>1 DEF Behind, Scanning, Gating
    <2>3. ASSUME ~d.left, NEW p \in d.steady, Behind(d, p) PROVE p \in Scanned(d.seen) \cup Pending(d)
      <3>1. p \in approved /\ Rank(p) < hi /\ Rank(p) \in Nat
        BY <1>4, <1>7, <1>9, <2>2, <2>3
      <3>2. CASE Rank(p) < lo
        BY <1>4, <1>8, <2>3, <3>2
      <3>3. CASE lo <= Rank(p)
        BY <1>5, <1>6, <2>1, <3>1, <3>3 DEF Pending
      <3> QED BY <3>1, <3>2, <3>3
    <2>4. d.page \in Nat /\ d.fetched \in Seq(Package) /\ (d.fetched = <<>> <=> d.pc \notin Gating)
      BY <1>1, <1>5, <1>11, <2>1 DEF Gating
    <2>5. ~d.left /\ d.root = "scratch" => d.steady \subseteq Scanned(d.before)
      BY <1>2, <1>4 DEF ScanSound, Scanning
    <2> QED BY <1>1, <1>4, <1>9, <2>1, <2>3, <2>4, <2>5 DEF ScanSound
  <1> QED BY <1>10, <1>11

\* A package of the page is through.
LEMMA AdvanceKeepsCover ==
  ASSUME NEW t \in Thread, ScanSound(call[t]), call[t].pc \in {"scan", "restore"}, NEW d,
         d.pc = Advance(t).pc, d.fetched = Tail(call[t].fetched),
         d.page = call[t].page, d.more = call[t].more, d.root = call[t].root, d.before = call[t].before,
         d.steady = call[t].steady, d.left = call[t].left,
         Scanned(call[t].seen) \cup {Head(call[t].fetched)} \subseteq Scanned(d.seen)
  PROVE  ScanSound(d)
  <1>1. PICK c : c = call[t]
    OBVIOUS
  <1>2. ScanSound(c) /\ c.pc \in {"scan", "restore"} /\ c.fetched \in Seq(Package) /\ c.fetched # <<>>
    BY <1>1 DEF ScanSound, Gating
  <1>3. d.pc = IF Len(c.fetched) > 1 THEN "scan" ELSE IF c.more THEN "fetch" ELSE "scanned"
    BY <1>1 DEF Advance
  <1>4. /\ d.fetched = Tail(c.fetched) /\ d.page = c.page /\ d.more = c.more /\ d.root = c.root
        /\ d.before = c.before /\ d.steady = c.steady /\ d.left = c.left
        /\ Scanned(c.seen) \cup {Head(c.fetched)} \subseteq Scanned(d.seen)
    BY <1>1
  <1>5. /\ d.fetched \in Seq(Package)
        /\ \A i \in DOMAIN c.fetched : c.fetched[i] = Head(c.fetched)
                                       \/ \E j \in DOMAIN d.fetched : d.fetched[j] = c.fetched[i]
        /\ d.fetched = <<>> <=> ~(Len(c.fetched) > 1)
    <2>1. PICK s : s = c.fetched
      OBVIOUS
    <2>2. s \in Seq(Package) /\ s # <<>> /\ d.fetched = Tail(s)
      BY <1>2, <1>4, <2>1
    <2>3. /\ Tail(s) \in Seq(Package)
          /\ \A i \in DOMAIN s : s[i] = Head(s) \/ \E j \in DOMAIN Tail(s) : Tail(s)[j] = s[i]
          /\ Tail(s) = <<>> <=> ~(Len(s) > 1)
      BY <2>2, HeadThenTail
    <2> QED BY <2>1, <2>2, <2>3
  <1>6. d.fetched = <<>> <=> d.pc \notin Gating
    BY <1>3, <1>5 DEF Gating
  <1>7. \A p : Behind(d, p) => Behind(c, p)
    BY <1>2, <1>3, <1>4 DEF Behind, Scanning, Gating
  <1>8. Scanned(c.seen) \cup Pending(c) \subseteq Scanned(d.seen) \cup Pending(d)
    <2>1. ASSUME NEW q \in Pending(c) PROVE q \in Scanned(d.seen) \cup Pending(d)
      <3>1. PICK i \in DOMAIN c.fetched : c.fetched[i] = q
        BY DEF Pending
      <3>2. CASE q = Head(c.fetched)
        BY <1>4, <3>2
      <3>3. ASSUME NEW j \in DOMAIN d.fetched, d.fetched[j] = q PROVE q \in Pending(d)
        BY <3>3 DEF Pending
      <3> QED BY <1>5, <3>1, <3>2, <3>3
    <2>2. Scanned(c.seen) \subseteq Scanned(d.seen)
      BY <1>4
    <2> QED BY <2>1, <2>2
  <1>9. ~d.left =>
          /\ \A p \in d.steady : Behind(d, p) => p \in Scanned(d.seen) \cup Pending(d)
          /\ d.root = "scratch" => d.steady \subseteq Scanned(d.before)
    BY <1>2, <1>4, <1>7, <1>8 DEF ScanSound, Scanning
  <1>10. d.pc # "restore" /\ d.page \in Nat /\ d.steady \subseteq approved
    BY <1>2, <1>3, <1>4 DEF ScanSound
  <1> QED BY <1>5, <1>6, <1>9, <1>10 DEF ScanSound

\* The other steps of a scan, and the dry-run's.
LEMMA ScanKeepsCover ==
  ASSUME Shapes, RootsInv, approved \subseteq Package, NEW t \in Thread, ScanSound(call[t]),
         ScanPackage(t) \/ Override(t) \/ RunGate(t) \/ Restore(t) \/ SeedScratch(t) \/ RemoveScratch(t)
  PROVE  ScanSound(call'[t])
  <1>1. ASSUME NEW F, Keeps(t, F), F \cap {"page", "more", "root", "before", "steady", "left"} = {}
        PROVE  /\ call'[t].page = call[t].page /\ call'[t].more = call[t].more
               /\ call'[t].root = call[t].root /\ call'[t].before = call[t].before
               /\ call'[t].steady = call[t].steady /\ call'[t].left = call[t].left
    <2>1. {"page", "more", "root", "before", "steady", "left"} \subseteq Fields
      BY DEF Fields
    <2> HIDE DEF Fields
    <2> QED BY <1>1, <2>1 DEF Keeps
  <1>2. ASSUME NEW F, Keeps(t, F), F \cap {"seen", "fetched"} = {}
        PROVE  call'[t].seen = call[t].seen /\ call'[t].fetched = call[t].fetched
    <2>1. {"seen", "fetched"} \subseteq Fields
      BY DEF Fields
    <2> HIDE DEF Fields
    <2> QED BY <1>2, <2>1 DEF Keeps
  <1>3. Scanned(Scan(t)) = Scanned(call[t].seen) \cup {Head(call[t].fetched)}
    <2> DEFINE e == [pkg |-> Head(call[t].fetched), rules |-> GateRules(t, Head(call[t].fetched)),
                     root |-> Env(t)]
    <2>1. IsSeq(call[t].seen)
      BY DEF Shapes, CallTyped
    <2>2. Scan(t) = Append(call[t].seen, e) /\ e.pkg = Head(call[t].fetched)
      BY DEF Scan
    <2> HIDE DEF e
    <2> QED BY <2>1, <2>2, AppendMeets
  <1>4. CASE ScanPackage(t)
    <2>1. /\ call'[t].pc = Advance(t).pc /\ call'[t].fetched = Tail(call[t].fetched)
          /\ call'[t].seen = Scan(t) /\ Keeps(t, {"pc", "fetched", "seen"}) /\ call[t].pc = "scan"
      BY <1>4, ScanSets DEF ScanPackage
    <2>2. Scanned(call'[t].seen) = Scanned(call[t].seen) \cup {Head(call[t].fetched)}
      BY <1>3, <2>1
    <2> QED BY <1>1, <2>1, <2>2, AdvanceKeepsCover
  <1>5. CASE Restore(t)
    <2>1. /\ call'[t].pc = Advance(t).pc /\ call'[t].fetched = Tail(call[t].fetched)
          /\ Keeps(t, {"pc", "fetched"}) /\ call[t].pc = "restore"
      BY <1>5, ScanSets DEF Restore
    <2>2. call'[t].seen = call[t].seen
      <3>1. "seen" \in Fields \ {"pc", "fetched"}
        BY DEF Fields
      <3> HIDE DEF Fields
      <3> QED BY <2>1, <3>1 DEF Keeps
    <2>3. Scanned(call[t].seen) \cup {Head(call[t].fetched)} \subseteq Scanned(call'[t].seen)
      BY <2>1, <2>2 DEF ScanSound
    <2> QED BY <1>1, <2>1, <2>3, AdvanceKeepsCover
  <1>6. CASE Override(t)
    <2>1. call'[t].pc = "gate" /\ Keeps(t, {"pc", "saved"}) /\ call[t].pc = "scan"
      BY <1>6, ScanSets DEF Override
    <2>2. Pending(call'[t]) = Pending(call[t]) /\ \A p : Behind(call'[t], p) <=> Behind(call[t], p)
      BY <1>1, <1>2, <2>1 DEF Pending, Behind, Scanning, Gating
    <2>3. call'[t].seen = call[t].seen /\ call'[t].fetched = call[t].fetched
      BY <1>2, <2>1
    <2> QED BY <1>1, <2>1, <2>2, <2>3 DEF ScanSound, Gating, Scanning
  <1>7. CASE RunGate(t)
    <2>1. /\ call'[t].pc = "restore" /\ call'[t].seen = Scan(t) /\ Keeps(t, {"pc", "seen"})
          /\ call[t].pc = "gate"
      BY <1>7, ScanSets DEF RunGate
    <2>2. call'[t].fetched = call[t].fetched
      <3>1. "fetched" \in Fields \ {"pc", "seen"}
        BY DEF Fields
      <3> HIDE DEF Fields
      <3> QED BY <2>1, <3>1 DEF Keeps
    <2>3. Pending(call'[t]) = Pending(call[t]) /\ \A p : Behind(call'[t], p) <=> Behind(call[t], p)
      BY <1>1, <2>1, <2>2 DEF Pending, Behind, Scanning, Gating
    <2>4. Scanned(call'[t].seen) = Scanned(call[t].seen) \cup {Head(call'[t].fetched)}
      BY <1>3, <2>1, <2>2
    <2> QED BY <1>1, <2>1, <2>2, <2>3, <2>4 DEF ScanSound, Gating, Scanning
  <1>8. CASE SeedScratch(t)
    <2>1. /\ call'[t].pc = "fetch" /\ call'[t].page = 0 /\ call'[t].fetched = <<>>
          /\ call'[t].root = "scratch" /\ call'[t].before = call[t].seen /\ call[t].pc = "scanned"
          /\ Keeps(t, {"pc", "page", "fetched", "seen", "root", "before", "version"})
      BY <1>8, DryRunSets DEF SeedScratch
    <2>2. call'[t].steady = call[t].steady /\ call'[t].left = call[t].left
      <3>1. {"steady", "left"} \subseteq Fields \ {"pc", "page", "fetched", "seen", "root", "before", "version"}
        BY DEF Fields
      <3> HIDE DEF Fields
      <3> QED BY <2>1, <3>1 DEF Keeps
    <2>3. \A p \in approved : ~Behind(call'[t], p)
      <3>1. 0 * PageSize = 0
        BY PlannerAssumption
      <3> QED BY <2>1, <3>1, RankOrders DEF Behind, Scanning, Gating
    <2>4. ~call[t].left => call[t].steady \subseteq Scanned(call[t].seen)
      BY <2>1 DEF ScanSound, Behind, Pending, Scanning, Gating
    <2>5. <<>> \in Seq(Package) /\ 0 \in Nat
      OBVIOUS
    <2>6. call[t].steady \subseteq approved
      BY DEF ScanSound
    <2> QED BY <2>1, <2>2, <2>3, <2>4, <2>5, <2>6 DEF ScanSound, Gating, Scanning
  <1>9. CASE RemoveScratch(t)
    <2>1. call'[t].pc = "record" /\ Keeps(t, {"pc"}) /\ call[t].pc = "scanned"
      BY <1>9, DryRunSets DEF RemoveScratch
    <2>2. Pending(call'[t]) = Pending(call[t]) /\ \A p : Behind(call'[t], p) <=> Behind(call[t], p)
      BY <1>1, <1>2, <2>1 DEF Pending, Behind, Scanning, Gating
    <2>3. call'[t].seen = call[t].seen /\ call'[t].fetched = call[t].fetched
      BY <1>2, <2>1
    <2> QED BY <1>1, <2>1, <2>2, <2>3 DEF ScanSound, Gating, Scanning
  <1> QED BY <1>4, <1>5, <1>6, <1>7, <1>8, <1>9

\* A call that does nothing has nothing to meet.
LEMMA IdleScans == ScanSound(Idle)
  <1>1. /\ Idle.page = 0 /\ Idle.fetched = <<>> /\ Idle.pc = "none" /\ Idle.steady = {}
    BY DEF Idle
  <1> QED BY <1>1 DEF ScanSound, Gating, Scanning

\* What a call begins with: the corpus of the moment, from the first page on.
LEMMA BeginSets ==
  ASSUME Shapes, NEW t \in Thread,
         StandardSweep(t) \/ DashboardRecompute(t) \/ ValidatePackage(t) \/ StartDryRun(t)
  PROVE  /\ call'[t].page = 0 /\ call'[t].fetched = <<>>
         /\ call'[t].steady = approved /\ call'[t].left = FALSE
         /\ call'[t].pc \in {"fetch", "report"} /\ call'[t].root \in {"none", "live"}
         /\ approved' = approved /\ UNCHANGED <<live, scratch>>
         /\ \A s \in Thread \ {t} : \A f \in Fields \ {"alone"} : call'[s][f] = call[s][f]
  <1>1. ASSUME NEW op, NEW rest, Begins(t, op, rest),
               DOMAIN rest \subseteq Fields \ {"op", "steady", "alone", "left"},
               {"pc", "seen"} \subseteq DOMAIN rest, rest.pc \in {"fetch", "report"},
               "page" \in DOMAIN rest => rest.page = 0,
               "fetched" \in DOMAIN rest => rest.fetched = <<>>,
               "root" \in DOMAIN rest => rest.root \in {"none", "live"}
        PROVE  /\ call'[t].page = 0 /\ call'[t].fetched = <<>>
               /\ call'[t].steady = approved /\ call'[t].left = FALSE
               /\ call'[t].pc \in {"fetch", "report"} /\ call'[t].root \in {"none", "live"}
               /\ approved' = approved /\ UNCHANGED <<live, scratch>>
               /\ \A s \in Thread \ {t} : \A f \in Fields \ {"alone"} : call'[s][f] = call[s][f]
    <2>1. PICK b : b = (t \in Timer \/ (DryRunning = {} /\ ~entangled))
      OBVIOUS
    <2> DEFINE idle == [Idle EXCEPT !.op = op, !.steady = approved, !.alone = b]
               mine == Onto(rest, idle)
    <2>2. call' = [u \in Thread |-> IF u = t THEN mine
                    ELSE IF op = "dry_run" /\ u \notin Timer THEN [call[u] EXCEPT !.alone = FALSE]
                    ELSE call[u]]
      BY <1>1, <2>1 DEF Begins
    <2>3. DOMAIN idle = Fields /\ idle.page = 0 /\ idle.fetched = <<>> /\ idle.steady = approved
          /\ idle.left = FALSE /\ idle.root = "none"
      BY DEF Idle, Fields
    <2> HIDE DEF idle
    <2>4. \A f \in Fields : mine[f] = IF f \in DOMAIN rest THEN rest[f] ELSE idle[f]
      BY <2>3 DEF Onto
    <2>5. {"page", "fetched", "steady", "left", "pc", "root"} \subseteq Fields
      BY DEF Fields
    <2> HIDE DEF mine
    <2>6. /\ call'[t].page = 0 /\ call'[t].fetched = <<>>
          /\ call'[t].steady = approved /\ call'[t].left = FALSE
          /\ call'[t].pc \in {"fetch", "report"} /\ call'[t].root \in {"none", "live"}
      <3> HIDE DEF Fields
      <3>1. call'[t] = mine
        BY <2>2
      <3>2. mine.page = 0 /\ mine.fetched = <<>>
        BY <1>1, <2>3, <2>4, <2>5
      <3>3. mine.steady = approved /\ mine.left = FALSE
        BY <1>1, <2>3, <2>4, <2>5
      <3>4. mine.pc \in {"fetch", "report"} /\ mine.root \in {"none", "live"}
        BY <1>1, <2>3, <2>4, <2>5
      <3> QED BY <3>1, <3>2, <3>3, <3>4
    <2>7. \A s \in Thread \ {t} : \A f \in Fields \ {"alone"} : call'[s][f] = call[s][f]
      <3>1. \A s \in Thread : DOMAIN call[s] = Fields
        BY DEF Shapes, CallTyped
      <3>2. \A s \in Thread \ {t} : call'[s] = call[s] \/ call'[s] = [call[s] EXCEPT !.alone = FALSE]
        BY <2>2
      <3> HIDE DEF Fields
      <3> QED BY <3>1, <3>2
    <2> QED BY <1>1, <2>6, <2>7 DEF Begins
  <1>2. CASE StandardSweep(t) \/ DashboardRecompute(t)
    <2> DEFINE rest == ToScan("none")
    <2>1. /\ DOMAIN rest = {"pc", "page", "fetched", "seen", "root"}
          /\ rest.pc = "fetch" /\ rest.page = 0 /\ rest.fetched = <<>> /\ rest.root = "none"
      BY DEF ToScan
    <2>2. \E op : Begins(t, op, rest)
      BY <1>2 DEF StandardSweep, DashboardRecompute
    <2> HIDE DEF rest
    <2>3. DOMAIN rest \subseteq Fields \ {"op", "steady", "alone", "left"}
      BY <2>1 DEF Fields
    <2> QED BY <1>1, <2>1, <2>2, <2>3
  <1>3. CASE ValidatePackage(t)
    <2>1. PICK p \in Package \ purged :
            Begins(t, "validate", [pc |-> "report", seen |->
              <<[pkg |-> p, rules |-> GateRules(t, p), root |-> Env(t)]>>])
      BY <1>3 DEF ValidatePackage
    <2> DEFINE rest == [pc |-> "report", seen |->
                          <<[pkg |-> p, rules |-> GateRules(t, p), root |-> Env(t)]>>]
    <2>2. DOMAIN rest = {"pc", "seen"} /\ rest.pc = "report" /\ Begins(t, "validate", rest)
      BY <2>1
    <2> HIDE DEF rest
    <2>3. DOMAIN rest \subseteq Fields \ {"op", "steady", "alone", "left"}
      BY <2>2 DEF Fields
    <2> QED BY <1>1, <2>2, <2>3
  <1>4. CASE StartDryRun(t)
    <2>1. PICK i \in DOMAIN proposals :
            Begins(t, "dry_run", Onto([proposal |-> i, diff |-> proposals[i].diff,
              change |-> Changed(Current, proposals[i].diff)], ToScan("live")))
      BY <1>4 DEF StartDryRun
    <2> DEFINE rest == Onto([proposal |-> i, diff |-> proposals[i].diff,
                 change |-> Changed(Current, proposals[i].diff)], ToScan("live"))
    <2>2. /\ DOMAIN rest = {"proposal", "diff", "change", "pc", "page", "fetched", "seen", "root"}
          /\ rest.pc = "fetch" /\ rest.page = 0 /\ rest.fetched = <<>> /\ rest.root = "live"
      BY DEF Onto, ToScan
    <2>3. Begins(t, "dry_run", rest)
      BY <2>1
    <2> HIDE DEF rest
    <2>4. DOMAIN rest \subseteq Fields \ {"op", "steady", "alone", "left"}
      BY <2>2 DEF Fields
    <2> QED BY <1>1, <2>2, <2>3, <2>4
  <1> QED BY <1>2, <1>3, <1>4

\* What approvals, withdrawals and purges mean to a call: it is told what leaves.
LEMMA OutsideSets ==
  ASSUME Shapes, CoverInv,
         Meanwhile
  PROVE  /\ approved' \subseteq Package
         /\ \A s \in Thread :
              /\ \A f \in Fields \ {"steady", "left", "released"} : call'[s][f] = call[s][f]
              /\ \/ /\ approved \subseteq approved'
                    /\ call'[s].steady = call[s].steady /\ call'[s].left = call[s].left
                 \/ call[s].op # "none" /\ call'[s].left /\ call'[s].steady \subseteq approved'
                 \/ call[s].op = "none" /\ call'[s] = call[s]
  <1>0. \A s \in Thread : DOMAIN call[s] = Fields /\ {"steady", "left", "released"} \subseteq Fields
    BY DEF Shapes, CallTyped, Fields
  <1>p. approved \subseteq Package /\ \A s \in Thread : call[s].steady \subseteq approved
    BY DEF CoverInv, ScanSound
  <1> HIDE DEF Fields
  <1> DEFINE Goal ==
         /\ approved' \subseteq Package
         /\ \A s \in Thread :
              /\ \A f \in Fields \ {"steady", "left", "released"} : call'[s][f] = call[s][f]
              /\ \/ /\ approved \subseteq approved'
                    /\ call'[s].steady = call[s].steady /\ call'[s].left = call[s].left
                 \/ call[s].op # "none" /\ call'[s].left /\ call'[s].steady \subseteq approved'
                 \/ call[s].op = "none" /\ call'[s] = call[s]
  <1>1. ASSUME NEW i \in DOMAIN proposals, Decide(i) PROVE Goal
    <2>1. approved' = approved
      BY <1>1 DEF Decide
    <2>2. CASE call' = call
      BY <1>p, <2>1, <2>2
    <2>3. CASE call' = [t \in Thread |-> IF call[t].op = "none" THEN call[t]
                                     ELSE [call[t] EXCEPT !.released = TRUE]]
      <3>1. \A s \in Thread : call'[s] = call[s] \/ call'[s] = [call[s] EXCEPT !.released = TRUE]
        BY <2>3
      <3> QED BY <1>0, <1>p, <2>1, <3>1
    <2> QED BY <1>1, <2>2, <2>3 DEF Decide
  <1>2. ASSUME NEW p \in Package, SetStatus(p) PROVE Goal
    <2>1. CASE p \notin approved
      <3>1. approved' = approved \cup {p} /\ call' = call
        BY <1>2, <2>1 DEF SetStatus
      <3> QED BY <1>p, <3>1
    <2>2. CASE p \in approved
      <3>1. /\ approved' = approved \ {p}
            /\ call' = [t \in Thread |-> IF call[t].op = "none" THEN call[t]
                                     ELSE [call[t] EXCEPT !.steady = @ \ {p}, !.left = TRUE]]
        BY <1>2, <2>2 DEF SetStatus
      <3>2. ASSUME NEW s \in Thread, call[s].op # "none"
            PROVE  /\ \A f \in Fields \ {"steady", "left", "released"} : call'[s][f] = call[s][f]
                   /\ call'[s].left /\ call'[s].steady = call[s].steady \ {p}
        <4>1. call'[s] = [call[s] EXCEPT !.steady = @ \ {p}, !.left = TRUE]
          BY <3>1, <3>2
        <4> QED BY <1>0, <4>1
      <3>3. \A s \in Thread : call[s].op = "none" => call'[s] = call[s]
        BY <3>1
      <3>4. \A s \in Thread : call[s].op # "none" => call'[s].steady \subseteq approved'
        BY <1>p, <3>1, <3>2
      <3>5. approved' \subseteq Package
        BY <1>p, <3>1
      <3> QED BY <3>2, <3>3, <3>4, <3>5
    <2> QED BY <2>1, <2>2
  <1>3. ASSUME NEW p \in Package, Purge(p) PROVE Goal
    BY <1>3, <1>p DEF Purge
  <1>5. ASSUME NEW d \in ByHand, CreateByHand(d) PROVE Goal
    BY <1>5, <1>p DEF CreateByHand
  <1> HIDE DEF Goal
  <1>4. Goal
    BY <1>1, <1>2, <1>3, <1>5 DEF Meanwhile
  <1> QED BY <1>4 DEF Goal

\* Every step keeps what the scans have met.
LEMMA CoverStep ==
  ASSUME Shapes, RootsInv, CoverInv, [Next]_vars
  PROVE  CoverInv'
  <1>0. /\ approved \subseteq Package
        /\ \A s \in Thread : ScanSound(call[s]) /\ (call[s].op = "none" => call[s].steady = {})
    BY DEF CoverInv
  <1>f. ScanFields \cup {"op", "steady", "left"} \subseteq Fields \ {"alone", "released"}
    BY DEF ScanFields, Fields
  <1>m. ASSUME NEW t \in Thread, approved' = approved, ScanSound(call'[t]),
               call'[t].op # "none" \/ call'[t].steady = {},
               \A s \in Thread \ {t} : call'[s] = call[s]
        PROVE  CoverInv'
    <2>1. ScanSound(call[t])'
      BY <1>m, ScanStays
    <2>2. \A s \in Thread \ {t} : ScanSound(call[s])'
      BY <1>0, <1>m, ScanFrame
    <2> QED BY <1>0, <1>m, <2>1, <2>2 DEF CoverInv
  <1>k. ASSUME NEW t \in Thread, NEW F, Keeps(t, F), "op" \notin F, call[t].pc # "none"
        PROVE  call'[t].op # "none"
    <2>1. call[t].op # "none"
      BY <1>k DEF RootsInv, RoleSound
    <2> QED BY <1>f, <1>k, <2>1 DEF Keeps
  <1>e. ASSUME NEW t \in Thread, approved' = approved, Ended(t)
        PROVE  CoverInv'
    <2>1. Idle.steady = {}
      BY DEF Idle
    <2> QED BY <1>e, <1>m, <2>1, IdleScans DEF Ended
  <1>1. ASSUME NEW t \in Thread,
               StandardSweep(t) \/ DashboardRecompute(t) \/ ValidatePackage(t) \/ StartDryRun(t)
        PROVE  CoverInv'
    <2>1. /\ call'[t].page = 0 /\ call'[t].fetched = <<>>
          /\ call'[t].steady = approved /\ call'[t].left = FALSE
          /\ call'[t].pc \in {"fetch", "report"} /\ call'[t].root \in {"none", "live"}
          /\ approved' = approved
          /\ \A s \in Thread \ {t} : \A f \in Fields \ {"alone"} : call'[s][f] = call[s][f]
      BY <1>1, BeginSets
    <2>2. \A p \in approved : call'[t].pc = "fetch" => ~Behind(call'[t], p)
      <3>1. 0 * PageSize = 0
        BY PlannerAssumption
      <3> QED BY <1>0, <2>1, <3>1, RankOrders DEF Behind, Scanning, Gating
    <2>3. ScanSound(call'[t])
      BY <2>1, <2>2 DEF ScanSound, Scanning, Gating
    <2>4. ScanSound(call[t])'
      BY <2>1, <2>3, ScanStays
    <2>5. ASSUME NEW s \in Thread \ {t}
          PROVE  ScanSound(call[s])' /\ call'[s].op = call[s].op /\ call'[s].steady = call[s].steady
      <3>1. \A f \in ScanFields \cup {"op", "steady", "left"} : call'[s][f] = call[s][f]
        BY <1>f, <2>1
      <3>2. \A f \in ScanFields : call'[s][f] = call[s][f]
        BY <3>1
      <3>3. /\ call'[s].steady = call[s].steady /\ call'[s].left = call[s].left
            /\ call'[s].op = call[s].op
        BY <3>1
      <3> QED BY <1>0, <2>1, <3>2, <3>3, ScanFrame
    <2>6. call'[t].op # "none"
      <3>1. PICK op, rest : Begins(t, op, rest) /\ DOMAIN rest \subseteq Fields \ {"op", "steady", "alone"}
                            /\ op \in {"sweep", "recompute", "validate", "dry_run"}
        BY <1>1, StartMoves
      <3>2. Begins(t, op, rest) /\ DOMAIN rest \subseteq Fields \ {"op", "steady", "alone"}
        BY <3>1
      <3> QED BY <3>1, <3>2, BeginMoves
    <2> QED BY <1>0, <2>1, <2>4, <2>5, <2>6 DEF CoverInv
  <1>2. ASSUME NEW t \in Thread, FetchPage(t)
        PROVE  CoverInv'
    <2>1. ScanSound(call'[t]) /\ approved' = approved
      BY <1>0, <1>2, FetchKeepsCover DEF FetchPage
    <2>2. Moved(t, {"scan", "scanned"}, {}) /\ call[t].pc = "fetch"
      BY <1>2, ScanMoves DEF FetchPage
    <2>3. \E F : Keeps(t, F) /\ "op" \notin F
      BY <1>2, ScanSets
    <2> QED BY <1>k, <1>m, <2>1, <2>2, <2>3 DEF Moved
  <1>3. ASSUME NEW t \in Thread,
               ScanPackage(t) \/ Override(t) \/ RunGate(t) \/ Restore(t) \/ SeedScratch(t) \/ RemoveScratch(t)
        PROVE  CoverInv'
    <2>1. ScanSound(call'[t])
      BY <1>0, <1>3, ScanKeepsCover
    <2>2. approved' = approved /\ call[t].pc # "none"
      BY <1>3 DEF ScanPackage, Override, RunGate, Restore, SeedScratch, RemoveScratch
    <2>3. \E F : Keeps(t, F) /\ "op" \notin F
      BY <1>3, ScanSets, DryRunSets
    <2>4. \E pcs, F : Moved(t, pcs, F)
      BY <1>3, ScanMoves, DryRunMoves
    <2> QED BY <1>k, <1>m, <2>1, <2>2, <2>3, <2>4 DEF Moved
  <1>4. ASSUME NEW t \in Thread, ScanFails(t) \/ RecordDryRun(t) \/ Return(t)
        PROVE  CoverInv'
    <2>1. Ended(t) /\ approved' = approved
      BY <1>4, ScanMoves, DryRunMoves, DraftMoves DEF ScanFails, RecordDryRun, Return
    <2> QED BY <1>e, <2>1
  <1>5. ASSUME NEW t \in Thread,
               BuildSnapshot(t) \/ ReadTrend(t) \/ ReplaceTrend(t)
                 \/ DraftProposal(t) \/ CheckDuplicate(t) \/ CreateProposal(t)
        PROVE  CoverInv'
    <2>1. approved' = approved /\ call[t].pc \in Drafting \cup {"scanned"}
      BY <1>5 DEF BuildSnapshot, ReadTrend, ReplaceTrend, DraftProposal, CheckDuplicate, CreateProposal,
           Drafting
    <2>2. CASE Ended(t)
      BY <1>e, <2>1, <2>2
    <2>3. CASE /\ call'[t].pc \in Drafting
               /\ Keeps(t, {"pc", "run", "read", "seen", "todo", "diff", "ruledOut"})
      <3>1. /\ call'[t].page = call[t].page /\ call'[t].fetched = call[t].fetched
            /\ call'[t].steady = call[t].steady
        <4>1. {"page", "fetched", "steady"} \subseteq Fields \ {"pc", "run", "read", "seen", "todo", "diff", "ruledOut"}
          BY DEF Fields
        <4> HIDE DEF Fields
        <4> QED BY <2>3, <4>1 DEF Keeps
      <3>2. ScanSound(call'[t])
        BY <1>0, <2>1, <2>3, <3>1 DEF ScanSound, Drafting, Scanning, Gating
      <3>3. call'[t].op # "none"
        BY <1>k, <2>1, <2>3 DEF Drafting
      <3>4. \A s \in Thread \ {t} : call'[s] = call[s]
        <4>1. Ended(t) \/ \E pcs, F : Moved(t, pcs, F)
          BY <1>5, TrendMoves, DraftMoves
        <4> QED BY <4>1 DEF Ended, Moved
      <3> QED BY <1>m, <2>1, <3>2, <3>3, <3>4
    <2> QED BY <1>5, <2>2, <2>3, AfterScan
  <1>6. ASSUME Meanwhile
        PROVE  CoverInv'
    <2>1. /\ approved' \subseteq Package
          /\ \A s \in Thread :
               /\ \A f \in Fields \ {"steady", "left", "released"} : call'[s][f] = call[s][f]
               /\ \/ /\ approved \subseteq approved'
                     /\ call'[s].steady = call[s].steady /\ call'[s].left = call[s].left
                  \/ call[s].op # "none" /\ call'[s].left /\ call'[s].steady \subseteq approved'
                  \/ call[s].op = "none" /\ call'[s] = call[s]
      BY <1>6, OutsideSets
    <2>2. ASSUME NEW s \in Thread
          PROVE  ScanSound(call[s])' /\ (call'[s].op = "none" => call'[s].steady = {})
      <3>1. /\ \A f \in ScanFields : call'[s][f] = call[s][f]
            /\ call'[s].op = call[s].op /\ call'[s].pc = call[s].pc
        <4>1. ScanFields \cup {"op", "pc"} \subseteq Fields \ {"steady", "left", "released"}
          BY DEF ScanFields, Fields
        <4> HIDE DEF Fields
        <4> QED BY <2>1, <4>1
      <3>2. CASE call[s].op = "none" /\ call'[s] = call[s]
        <4>1. call[s].pc = "none" /\ call[s].steady = {}
          BY <1>0, <3>2 DEF RootsInv, RoleSound
        <4> QED BY <1>0, <3>2, <4>1 DEF ScanSound, Scanning, Gating
      <3>3. CASE /\ approved \subseteq approved'
                 /\ call'[s].steady = call[s].steady /\ call'[s].left = call[s].left
        BY <1>0, <2>1, <3>1, <3>3, ScanFrame
      <3>4. CASE /\ call'[s].left /\ call'[s].steady \subseteq approved' /\ call[s].op # "none"
        BY <1>0, <2>1, <3>1, <3>4, ScanFrame
      <3> QED BY <2>1, <3>2, <3>3, <3>4
    <2> QED BY <2>1, <2>2 DEF CoverInv
  <1>7. ASSUME UNCHANGED vars
        PROVE  CoverInv'
    <2>1. approved' = approved /\ call' = call
      BY <1>7 DEF vars
    <2>2. \A s \in Thread : ScanSound(call[s])'
      BY <1>0, <2>1, ScanFrame
    <2> QED BY <1>0, <2>1, <2>2 DEF CoverInv
  <1> QED BY <1>1, <1>2, <1>3, <1>4, <1>5, <1>6, <1>7 DEF Next, Step

\* At the start nothing is scanned.
LEMMA CoverInit ==
  ASSUME Init
  PROVE  CoverInv
  <1>1. approved \subseteq Package /\ \A t \in Thread : call[t] = Idle
    BY DEF Init
  <1>2. Idle.steady = {}
    BY DEF Idle
  <1> QED BY <1>1, <1>2, IdleScans DEF CoverInv

\* A finished scan has met every package that stayed approved, if none left.
LEMMA CoverSuffices ==
  ASSUME CoverInv
  PROVE  ScansCoverTheCorpus
  <1> SUFFICES ASSUME NEW t \in Thread, call[t].pc = "scanned", ~call[t].left
               PROVE  call[t].steady \subseteq Scanned(call[t].seen)
    BY DEF ScansCoverTheCorpus
  <1>1. ScanSound(call[t])
    BY DEF CoverInv
  <1> QED BY <1>1 DEF ScanSound, Behind, Pending, Scanning, Gating

-----------------------------------------------------------------------------
(* What a dry-run's scans have read. *)

\* Every package of a scan was gated by the rules that it has in a registry.
AsOf(scan, registry) ==
  \A i \in DOMAIN scan : scan[i].rules = LoadProfileFiles(FactsOf[scan[i].pkg], TRUE, registry)

\* The registry that has the current version, as a call's diff would have it.
Laid(c) == [v \in {CurrentVersion} |-> Changed(Current, c.diff)]

\* Alone, and with no release meanwhile, a dry-run compares the registry that is
\* with the one its change would make of it.
DryRunSound(t, c) ==
  /\ c.pc \in Scanning \cup {"scanned", "record"}
  /\ c.pc = "record" => c.root = "scratch"
  /\ c.alone /\ ~c.released =>
       /\ c.change = Changed(Current, c.diff)
       /\ c.root = "live" => AsOf(c.seen, live)
       /\ c.root = "scratch" =>
            /\ c.version = CurrentVersion
            /\ AsOf(c.before, live) /\ AsOf(c.seen, Laid(c))
            /\ c.pc # "record" => scratch[t] = Laid(c)

ForetellInv ==
  /\ live \in Seq(Rules)
  /\ scratch = [t \in Thread |-> scratch[t]]
  /\ \A t \in Thread : call[t].op = "dry_run" => DryRunSound(t, call[t])

\* A change leaves a version's rules well formed.
LEMMA ChangedIsRules ==
  ASSUME NEW r \in Rules, NEW d \in Diff
  PROVE  Changed(r, d) \in Rules
  <1>1. CASE d = TrainingFile
    BY <1>1 DEF Changed, Rules
  <1>2. CASE d # TrainingFile
    <2>1. d \in Code
      BY <1>2 DEF Diff
    <2>2. r.codes \cup {d} \in SUBSET Code
      BY <2>1 DEF Rules
    <2> QED BY <1>2, <2>2 DEF Changed, Rules
  <1> QED BY <1>1, <1>2

\* There always is a current version.
LEMMA CurrentIsRules ==
  ASSUME live \in Seq(Rules)
  PROVE  Current \in Rules /\ CurrentVersion \in Nat \ {0}
  <1>1. CASE live = <<>>
    BY <1>1, GateAssumption DEF Current, CurrentVersion
  <1>2. CASE live # <<>>
    <2>1. Len(live) \in Nat \ {0}
      BY <1>2, EmptySeq
    <2>2. live[Len(live)] \in Rules
      BY <2>1
    <2> QED BY <1>2, <2>1, <2>2 DEF Current, CurrentVersion, Last
  <1> QED BY <1>1, <1>2

\* The proposed file over the current version's files is the proposed version.
LEMMA OverlaidIsChanged ==
  ASSUME NEW t \in Thread, Current \in Rules, call[t].change = Changed(Current, call[t].diff)
  PROVE  Overlaid(t) = Changed(Current, call[t].diff)
  <1>1. PICK r \in Rules : r = Current
    OBVIOUS
  <1>d. PICK d : d = call[t].diff
    OBVIOUS
  <1>2. CASE d = TrainingFile
    BY <1>1, <1>d, <1>2 DEF Overlaid, Changed, Rules
  <1>3. CASE d # TrainingFile
    BY <1>1, <1>d, <1>3 DEF Overlaid, Changed, Rules
  <1> QED BY <1>2, <1>3

\* One more row, gated by the rules a registry has for its package.
LEMMA AppendAsOf ==
  ASSUME NEW s, IsSeq(s), NEW registry, AsOf(s, registry), NEW e,
         e.rules = LoadProfileFiles(FactsOf[e.pkg], TRUE, registry)
  PROVE  AsOf(Append(s, e), registry)
  <1>1. \A i \in DOMAIN Append(s, e) : IF i \in DOMAIN s THEN Append(s, e)[i] = s[i] ELSE Append(s, e)[i] = e
    BY AppendIsSeq
  <1> QED BY <1>1 DEF AsOf

\* The fields of a call that its comparison rests on.
DryFields == {"op", "pc", "root", "seen", "before", "diff", "change", "version"}

\* While the registry stays, so does what is made of it.
LEMMA SameRegistry ==
  ASSUME live' = live, NEW s \in Thread, call'[s].diff = call[s].diff
  PROVE  /\ Current' = Current /\ CurrentVersion' = CurrentVersion
         /\ Laid(call[s])' = Laid(call[s])
  <1>1. Current' = Current /\ CurrentVersion' = CurrentVersion
    BY DEF Current, CurrentVersion
  <1> QED BY <1>1 DEF Laid

\* A dry-run keeps what it knows while others move, and is told of a release.
LEMMA ForetellFrame ==
  ASSUME NEW s \in Thread, call[s].op = "dry_run" => DryRunSound(s, call[s]),
         \A f \in DryFields : call'[s][f] = call[s][f],
         call'[s].alone => call[s].alone,
         call[s].op = "dry_run" => call'[s].released \/ (~call[s].released /\ live' = live),
         scratch'[s] = scratch[s]
  PROVE  call'[s].op = "dry_run" => DryRunSound(s, call[s])'
  <1>1. SUFFICES ASSUME call'[s].op = "dry_run" PROVE DryRunSound(s, call[s])'
    OBVIOUS
  <1>2. /\ call'[s].op = call[s].op /\ call'[s].pc = call[s].pc /\ call'[s].root = call[s].root
        /\ call'[s].seen = call[s].seen /\ call'[s].before = call[s].before
        /\ call'[s].diff = call[s].diff /\ call'[s].change = call[s].change
        /\ call'[s].version = call[s].version
    BY DEF DryFields
  <1>3. DryRunSound(s, call[s])
    BY <1>1, <1>2
  <1>4. CASE call'[s].released
    BY <1>2, <1>3, <1>4 DEF DryRunSound
  <1>5. CASE ~call[s].released /\ live' = live
    <2>1. /\ Current' = Current /\ CurrentVersion' = CurrentVersion
          /\ Laid(call[s])' = Laid(call[s])
      BY <1>2, <1>5, SameRegistry
    <2> QED BY <1>2, <1>3, <1>5, <2>1 DEF DryRunSound
  <1> QED BY <1>1, <1>2, <1>4, <1>5

\* As long as the registry is as it was, soundness is of the call and its scratch alone.
LEMMA ForetellStays ==
  ASSUME NEW t \in Thread, live' = live, call'[t].diff = call[t].diff,
         call'[t].pc \in Scanning \cup {"scanned", "record"},
         call'[t].pc = "record" => call'[t].root = "scratch",
         call'[t].alone /\ ~call'[t].released =>
           /\ call'[t].change = Changed(Current, call[t].diff)
           /\ call'[t].root = "live" => AsOf(call'[t].seen, live)
           /\ call'[t].root = "scratch" =>
                /\ call'[t].version = CurrentVersion
                /\ AsOf(call'[t].before, live) /\ AsOf(call'[t].seen, Laid(call[t]))
                /\ call'[t].pc # "record" => scratch'[t] = Laid(call[t])
  PROVE  DryRunSound(t, call[t])'
  <1>1. /\ Current' = Current /\ CurrentVersion' = CurrentVersion
        /\ Laid(call[t])' = Laid(call[t])
    BY SameRegistry
  <1> QED BY <1>1 DEF DryRunSound

\* A dry-run starts with no scan, and its change made on the version there is.
LEMMA StartForetells ==
  ASSUME Shapes, NEW t \in Thread, StartDryRun(t)
  PROVE  DryRunSound(t, call[t])'
  <1>1. PICK i \in DOMAIN proposals :
          Begins(t, "dry_run", Onto([proposal |-> i, diff |-> proposals[i].diff,
            change |-> Changed(Current, proposals[i].diff)], ToScan("live")))
    BY DEF StartDryRun
  <1>2. PICK d, ch : d = proposals[i].diff /\ ch = Changed(Current, d)
    OBVIOUS
  <1> DEFINE given == Onto([proposal |-> i, diff |-> d, change |-> ch], ToScan("live"))
  <1>3. /\ DOMAIN given = {"proposal", "diff", "change", "pc", "page", "fetched", "seen", "root"}
        /\ given.pc = "fetch" /\ given.seen = <<>> /\ given.root = "live" /\ given.diff = d /\ given.change = ch
    BY DEF Onto, ToScan
  <1>4. Begins(t, "dry_run", given)
    BY <1>1, <1>2
  <1> HIDE DEF given
  <1>5. PICK b : b = (t \in Timer \/ (DryRunning = {} /\ ~entangled))
    OBVIOUS
  <1> DEFINE idle == [Idle EXCEPT !.op = "dry_run", !.steady = approved, !.alone = b]
  <1>6. call'[t] = Onto(given, idle)
    BY <1>4, <1>5 DEF Begins
  <1> HIDE DEF idle
  <1>7. /\ call'[t].pc = "fetch" /\ call'[t].seen = <<>> /\ call'[t].root = "live"
        /\ call'[t].diff = d /\ call'[t].change = Changed(Current, d)
    BY <1>2, <1>3, <1>6 DEF Onto
  <1>8. live' = live
    BY <1>4 DEF Begins
  <1>9. Current' = Current
    BY <1>8 DEF Current
  <1> QED BY <1>7, <1>8, <1>9 DEF DryRunSound, AsOf, Scanning

\* The gate of a dry-run on its own reads the registry that its scan names.
LEMMA GateReadsItsRoot ==
  ASSUME RootsInv, NEW t \in Thread, call[t].op = "dry_run", call[t].pc = "gate", call[t].alone, NEW p
  PROVE  GateRules(t, p) =
           LoadProfileFiles(FactsOf[p], TRUE, IF call[t].root = "live" THEN live ELSE scratch[t])
  <1>1. Env(t) = RootNamed(t, call[t].root)
    BY AloneKnows DEF Overriding
  <1>2. CASE call[t].root = "live"
    <2>1. Env(t) = "live"
      BY <1>1, <1>2 DEF RootNamed
    <2>2. Registry("live") = live
      BY DEF Registry
    <2> QED BY <1>2, <2>1, <2>2 DEF GateRules
  <1>3. CASE call[t].root # "live"
    <2>1. Env(t) = t /\ t # "unset" /\ t # "live"
      BY <1>1, <1>3, PlannerAssumption DEF RootNamed
    <2>2. Registry(t) = scratch[t]
      BY <2>1 DEF Registry
    <2> QED BY <1>3, <2>1, <2>2 DEF GateRules
  <1> QED BY <1>2, <1>3

\* The steps of a dry-run, from its first scan to the end of its second.
LEMMA ScanForetells ==
  ASSUME Shapes, RootsInv, live \in Seq(Rules), scratch = [u \in Thread |-> scratch[u]], NEW t \in Thread,
         call[t].op = "dry_run", DryRunSound(t, call[t]),
         FetchPage(t) \/ Override(t) \/ RunGate(t) \/ Restore(t) \/ SeedScratch(t) \/ RemoveScratch(t)
  PROVE  DryRunSound(t, call[t])'
  <1> DEFINE Own == DryFields \cup {"alone", "released"}
  <1>k. ASSUME NEW F, Keeps(t, F)
        PROVE  \A f \in Own \ F : call'[t][f] = call[t][f]
    <2>1. Own \subseteq Fields
      BY DEF DryFields, Fields
    <2> HIDE DEF Own, Fields
    <2> QED BY <1>k, <2>1 DEF Keeps
  <1>0. live' = live
    BY DEF FetchPage, Override, RunGate, Restore, SeedScratch, RemoveScratch
  <1>m. ASSUME NEW F, Keeps(t, F), F \cap Own \subseteq {"pc"}, scratch' = scratch,
               call[t].pc \in Scanning, call'[t].pc \in Scanning \cup {"scanned"}
        PROVE  DryRunSound(t, call[t])'
    <2>1. /\ call'[t].root = call[t].root /\ call'[t].seen = call[t].seen
          /\ call'[t].before = call[t].before /\ call'[t].diff = call[t].diff
          /\ call'[t].change = call[t].change /\ call'[t].version = call[t].version
          /\ call'[t].alone = call[t].alone /\ call'[t].released = call[t].released
      BY <1>k, <1>m DEF DryFields
    <2>2. call[t].pc # "record" /\ call'[t].pc # "record"
      BY <1>m DEF Scanning
    <2> QED BY <1>0, <1>m, <2>1, <2>2, ForetellStays DEF DryRunSound
  <1>1. CASE FetchPage(t)
    <2>1. PICK F : Keeps(t, F) /\ F \cap Own \subseteq {"pc"}
      BY <1>1, ScanSets DEF DryFields
    <2>2. call'[t].pc \in Scanning \cup {"scanned"} /\ call[t].pc \in Scanning /\ scratch' = scratch
      BY <1>1, ScanSets DEF FetchPage, Scanning
    <2> QED BY <1>m, <2>1, <2>2
  <1>2. CASE Override(t)
    <2>1. Keeps(t, {"pc", "saved"}) /\ {"pc", "saved"} \cap Own \subseteq {"pc"}
      BY <1>2, ScanSets DEF DryFields
    <2>2. call'[t].pc \in Scanning \cup {"scanned"} /\ call[t].pc \in Scanning /\ scratch' = scratch
      BY <1>2, ScanSets DEF Override, Scanning
    <2> QED BY <1>m, <2>1, <2>2
  <1>3. CASE Restore(t)
    <2>1. Keeps(t, {"pc", "fetched"}) /\ {"pc", "fetched"} \cap Own \subseteq {"pc"}
      BY <1>3, ScanSets DEF DryFields
    <2>2. call'[t].pc \in Scanning \cup {"scanned"} /\ call[t].pc \in Scanning /\ scratch' = scratch
      BY <1>3, ScanSets, AdvanceMoves DEF Restore, Scanning
    <2> QED BY <1>m, <2>1, <2>2
  <1>4. CASE RunGate(t)
    <2>1. /\ call'[t].pc = "restore" /\ call'[t].seen = Scan(t) /\ Keeps(t, {"pc", "seen"})
          /\ call[t].pc = "gate" /\ scratch' = scratch
      BY <1>4, ScanSets DEF RunGate
    <2>2. /\ call'[t].root = call[t].root
          /\ call'[t].before = call[t].before /\ call'[t].diff = call[t].diff
          /\ call'[t].change = call[t].change /\ call'[t].version = call[t].version
          /\ call'[t].alone = call[t].alone /\ call'[t].released = call[t].released
      BY <1>k, <2>1 DEF DryFields
    <2> DEFINE p == Head(call[t].fetched)
               registry == IF call[t].root = "live" THEN live ELSE scratch[t]
    <2>3. PICK e : /\ Scan(t) = Append(call[t].seen, e) /\ e.pkg = p
                   /\ e.rules = GateRules(t, p)
      BY DEF Scan
    <2>4. ASSUME call[t].alone, AsOf(call[t].seen, registry)
          PROVE  AsOf(call'[t].seen, registry)
      <3>1. e.rules = LoadProfileFiles(FactsOf[e.pkg], TRUE, registry)
        BY <2>1, <2>3, <2>4, GateReadsItsRoot
      <3>2. IsSeq(call[t].seen)
        BY DEF Shapes, CallTyped
      <3> HIDE DEF registry
      <3>3. AsOf(Append(call[t].seen, e), registry)
        BY <2>4, <3>1, <3>2, AppendAsOf
      <3> QED BY <2>1, <2>3, <3>3
    <2> QED BY <1>0, <2>1, <2>2, <2>4, ForetellStays DEF DryRunSound, Scanning
  <1>5. CASE SeedScratch(t)
    <2>1. /\ call'[t].pc = "fetch" /\ call'[t].seen = <<>> /\ call'[t].root = "scratch"
          /\ call'[t].before = call[t].seen /\ call'[t].version = CurrentVersion
          /\ Keeps(t, {"pc", "page", "fetched", "seen", "root", "before", "version"})
          /\ call[t].root = "live"
          /\ scratch' = [scratch EXCEPT ![t] = [v \in {CurrentVersion} |-> Overlaid(t)]]
      BY <1>5, DryRunSets DEF SeedScratch
    <2>2. /\ call'[t].diff = call[t].diff /\ call'[t].change = call[t].change
          /\ call'[t].alone = call[t].alone /\ call'[t].released = call[t].released
      BY <1>k, <2>1 DEF DryFields
    <2>3. scratch'[t] = [v \in {CurrentVersion} |-> Overlaid(t)]
      BY <2>1
    <2>4. ASSUME call[t].change = Changed(Current, call[t].diff)
          PROVE  scratch'[t] = Laid(call[t])
      <3>1. Overlaid(t) = Changed(Current, call[t].diff)
        BY <2>4, CurrentIsRules, OverlaidIsChanged
      <3> QED BY <2>3, <3>1 DEF Laid
    <2>5. AsOf(<<>>, Laid(call[t]))
      BY DEF AsOf
    <2>6. ASSUME call[t].alone, ~call[t].released
          PROVE  /\ call[t].change = Changed(Current, call[t].diff) /\ AsOf(call[t].seen, live)
                 /\ scratch'[t] = Laid(call[t])
      BY <2>1, <2>4, <2>6 DEF DryRunSound
    <2>7. call'[t].pc \in Scanning \cup {"scanned", "record"} /\ call'[t].pc # "record"
      BY <2>1 DEF Scanning
    <2> HIDE DEF Own
    <2> QED BY <1>0, <2>1, <2>2, <2>5, <2>6, <2>7, ForetellStays
  <1>6. CASE RemoveScratch(t)
    <2>1. /\ call'[t].pc = "record" /\ Keeps(t, {"pc"}) /\ call[t].root = "scratch" /\ call[t].pc = "scanned"
      BY <1>6, DryRunSets DEF RemoveScratch
    <2>2. /\ call'[t].root = call[t].root /\ call'[t].seen = call[t].seen
          /\ call'[t].before = call[t].before /\ call'[t].diff = call[t].diff
          /\ call'[t].change = call[t].change /\ call'[t].version = call[t].version
          /\ call'[t].alone = call[t].alone /\ call'[t].released = call[t].released
      BY <1>k, <2>1 DEF DryFields
    <2> QED BY <1>0, <2>1, <2>2, ForetellStays DEF DryRunSound
  <1> QED BY <1>1, <1>2, <1>3, <1>4, <1>5, <1>6

\* No other call starts as a dry-run.
LEMMA OtherStarts ==
  ASSUME NEW t \in Thread, StandardSweep(t) \/ DashboardRecompute(t) \/ ValidatePackage(t)
  PROVE  call'[t].op # "dry_run"
  <1>1. ASSUME NEW op, NEW rest, Begins(t, op, rest), "op" \notin DOMAIN rest, op # "dry_run"
        PROVE  call'[t].op # "dry_run"
    <2>1. PICK b : b = (t \in Timer \/ (DryRunning = {} /\ ~entangled))
      OBVIOUS
    <2> DEFINE idle == [Idle EXCEPT !.op = op, !.steady = approved, !.alone = b]
    <2>2. call'[t] = Onto(rest, idle)
      BY <1>1, <2>1 DEF Begins
    <2>3. "op" \in DOMAIN idle /\ idle.op = op
      BY DEF Idle
    <2> HIDE DEF idle
    <2> QED BY <1>1, <2>2, <2>3 DEF Onto
  <1>2. "op" \notin DOMAIN ToScan("none")
    BY DEF ToScan
  <1>3. CASE StandardSweep(t) \/ DashboardRecompute(t)
    <2>1. PICK op \in {"sweep", "recompute"} : Begins(t, op, ToScan("none"))
      BY <1>3 DEF StandardSweep, DashboardRecompute
    <2> QED BY <1>1, <1>2, <2>1
  <1>4. CASE ValidatePackage(t)
    <2>1. PICK p \in Package \ purged :
            Begins(t, "validate", [pc |-> "report", seen |->
              <<[pkg |-> p, rules |-> GateRules(t, p), root |-> Env(t)]>>])
      BY <1>4 DEF ValidatePackage
    <2>2. PICK rest : /\ rest = [pc |-> "report", seen |->
                                   <<[pkg |-> p, rules |-> GateRules(t, p), root |-> Env(t)]>>]
                      /\ Begins(t, "validate", rest)
      BY <2>1
    <2>3. DOMAIN rest = {"pc", "seen"}
      BY <2>2
    <2> QED BY <1>1, <2>2, <2>3
  <1> QED BY <1>3, <1>4

\* A decision that releases tells every call; nothing else changes the registry.
LEMMA ReleasesAreTold ==
  ASSUME Shapes, live \in Seq(Rules),
         Meanwhile
  PROVE  /\ live' \in Seq(Rules) /\ scratch' = scratch
         /\ \A s \in Thread : call[s].op = "dry_run" =>
              call'[s].released \/ (~call[s].released /\ live' = live)
  <1>f. \A s \in Thread : DOMAIN call[s] = Fields /\ {"steady", "left", "released"} \subseteq Fields
    BY DEF Shapes, CallTyped, Fields
  <1> HIDE DEF Fields
  <1>1. CASE \E p \in Package : SetStatus(p) \/ Purge(p)
    <2>1. live' = live /\ scratch' = scratch
      BY <1>1 DEF SetStatus, Purge
    <2>2. \/ call' = call
          \/ \E p : call' = [t \in Thread |-> IF call[t].op = "none" THEN call[t]
                                    ELSE [call[t] EXCEPT !.steady = @ \ {p}, !.left = TRUE]]
      BY <1>1 DEF SetStatus, Purge
    <2>3. \A s \in Thread : call[s].op = "dry_run" => call'[s].released = call[s].released
      <3>1. CASE call' = call
        BY <3>1
      <3>2. ASSUME NEW p, call' = [t \in Thread |-> IF call[t].op = "none" THEN call[t]
                                    ELSE [call[t] EXCEPT !.steady = @ \ {p}, !.left = TRUE]]
            PROVE  \A s \in Thread : call[s].op = "dry_run" => call'[s].released = call[s].released
        BY <1>f, <3>2
      <3> QED BY <2>2, <3>1, <3>2
    <2>4. \A s \in Thread : call[s].op = "dry_run" => call'[s].released \/ ~call[s].released
      BY <2>3
    <2> QED BY <2>1, <2>4
  <1>2. ASSUME NEW i \in DOMAIN proposals, Decide(i)
        PROVE  /\ live' \in Seq(Rules) /\ scratch' = scratch
               /\ \A s \in Thread : call[s].op = "dry_run" =>
                    call'[s].released \/ (~call[s].released /\ live' = live)
    <2>1. CASE UNCHANGED <<live, call>>
      BY <1>2, <2>1 DEF Decide
    <2>2. CASE /\ live' = (IF live = <<>> THEN <<RepoRules>> ELSE live) \o <<Changed(Current, proposals[i].diff)>>
               /\ call' = [t \in Thread |-> IF call[t].op = "none" THEN call[t] ELSE [call[t] EXCEPT !.released = TRUE]]
      <3>1. proposals[i].diff \in Diff
        <4>1. proposals \in Seq(Proposal) /\ i \in 1..Len(proposals)
          BY <1>2 DEF Shapes
        <4>2. proposals[i] \in Proposal
          BY <4>1
        <4> QED BY <4>2 DEF Proposal
      <3>2. PICK r \in Rules : r = Changed(Current, proposals[i].diff)
        BY <3>1, CurrentIsRules, ChangedIsRules
      <3>3. PICK old \in Seq(Rules) : old = IF live = <<>> THEN <<RepoRules>> ELSE live
        <4>1. <<RepoRules>> \in Seq(Rules)
          BY GateAssumption
        <4> QED BY <4>1
      <3>4. live' = old \o <<r>>
        BY <2>2, <3>2, <3>3
      <3>5. \A s \in Thread : call[s].op = "dry_run" => call'[s].released
        BY <1>f, <2>2
      <3> QED BY <1>2, <3>4, <3>5 DEF Decide
    <2> QED BY <1>2, <2>1, <2>2 DEF Decide
  <1>3. ASSUME NEW d \in ByHand, CreateByHand(d)
        PROVE  live' = live /\ scratch' = scratch /\ call' = call
    BY <1>3 DEF CreateByHand
  <1> QED BY <1>1, <1>2, <1>3 DEF Meanwhile

\* At the start no dry-run is under way.
LEMMA ForetellInit ==
  ASSUME Init
  PROVE  ForetellInv
  <1>1. live \in Seq(Rules)
    <2>1. CASE live = <<>>
      BY <2>1
    <2>2. ASSUME NEW c \in Code, live = <<RepoRules, Changed(RepoRules, c)>> PROVE live \in Seq(Rules)
      <3>1. RepoRules \in Rules /\ Changed(RepoRules, c) \in Rules
        BY GateAssumption, ChangedIsRules DEF Diff
      <3> QED BY <2>2, <3>1
    <2> QED BY <2>1, <2>2 DEF Init
  <1>2. \A t \in Thread : call[t].op = "none"
    BY IdleTyped DEF Init
  <1>3. scratch = [t \in Thread |-> scratch[t]]
    BY DEF Init
  <1> QED BY <1>1, <1>2, <1>3 DEF ForetellInv

\* Every step keeps what the dry-runs have read true of the registry.
LEMMA ForetellStep ==
  ASSUME Shapes, RootsInv, CoverInv, ForetellInv, [Next]_vars
  PROVE  ForetellInv'
  <1>0. /\ live \in Seq(Rules) /\ scratch = [u \in Thread |-> scratch[u]]
        /\ \A s \in Thread : call[s].op = "dry_run" => DryRunSound(s, call[s])
    BY DEF ForetellInv
  <1>f. DryFields \cup {"released"} \subseteq Fields \ {"alone"}
    BY DEF DryFields, Fields
  <1>m. ASSUME NEW t \in Thread, live' = live, scratch' = [u \in Thread |-> scratch'[u]],
               \A s \in Thread \ {t} : call'[s] = call[s] /\ scratch'[s] = scratch[s],
               call'[t].op = "dry_run" => DryRunSound(t, call[t])'
        PROVE  ForetellInv'
    <2>1. ASSUME NEW s \in Thread, s # t
          PROVE  call'[s].op = "dry_run" => DryRunSound(s, call[s])'
      <3>1. call'[s] = call[s] /\ scratch'[s] = scratch[s]
        BY <1>m, <2>1
      <3>2. call[s].op = "dry_run" => DryRunSound(s, call[s])
        BY <1>0
      <3> QED BY <1>m, <3>1, <3>2, ForetellFrame
    <2> QED BY <1>0, <1>m, <2>1 DEF ForetellInv
  <1>e. ASSUME NEW t \in Thread, Ended(t), live' = live, scratch' = [u \in Thread |-> scratch'[u]],
               \A s \in Thread \ {t} : scratch'[s] = scratch[s]
        PROVE  ForetellInv'
    <2>1. call'[t].op # "dry_run" /\ \A s \in Thread \ {t} : call'[s] = call[s]
      BY <1>e, IdleTyped DEF Ended
    <2> QED BY <1>e, <1>m, <2>1
  <1>1. ASSUME NEW t \in Thread,
               StandardSweep(t) \/ DashboardRecompute(t) \/ ValidatePackage(t) \/ StartDryRun(t)
        PROVE  ForetellInv'
    <2>1. /\ live' = live /\ scratch' = scratch
          /\ \A s \in Thread \ {t} : \A f \in Fields \ {"alone"} : call'[s][f] = call[s][f]
      BY <1>1, BeginSets
    <2>2. call'[t].op = "dry_run" => DryRunSound(t, call[t])'
      BY <1>1, OtherStarts, StartForetells
    <2>3. NoneFreed(Thread \ {t})
      <3>1. PICK op, rest : Begins(t, op, rest) /\ DOMAIN rest \subseteq Fields \ {"op", "steady", "alone"}
        BY <1>1, StartMoves
      <3> QED BY <3>1, BeginMoves
    <2>4. ASSUME NEW s \in Thread, s # t
          PROVE  call'[s].op = "dry_run" => DryRunSound(s, call[s])'
      <3>1. \A f \in DryFields \cup {"released"} : call'[s][f] = call[s][f]
        BY <1>f, <2>1, <2>4
      <3>2. \A f \in DryFields : call'[s][f] = call[s][f]
        BY <3>1
      <3>3. call'[s].released = call[s].released /\ scratch'[s] = scratch[s]
        BY <2>1, <3>1
      <3>4. call'[s].alone => call[s].alone
        BY <2>3, <2>4 DEF NoneFreed
      <3>5. call'[s].released \/ (~call[s].released /\ live' = live)
        BY <2>1, <3>3
      <3> QED BY <1>0, <3>2, <3>3, <3>4, <3>5, ForetellFrame
    <2> QED BY <1>0, <2>1, <2>2, <2>4 DEF ForetellInv
  <1>2. ASSUME NEW t \in Thread,
               FetchPage(t) \/ Override(t) \/ RunGate(t) \/ Restore(t) \/ SeedScratch(t) \/ RemoveScratch(t)
        PROVE  ForetellInv'
    <2>1. /\ live' = live /\ scratch' = [u \in Thread |-> scratch'[u]]
          /\ \A s \in Thread \ {t} : scratch'[s] = scratch[s]
      BY <1>0, <1>2 DEF FetchPage, Override, RunGate, Restore, SeedScratch, RemoveScratch
    <2>2. \E F : Keeps(t, F) /\ "op" \notin F
      BY <1>2, ScanSets, DryRunSets
    <2>3. call'[t].op = call[t].op
      BY <1>f, <2>2 DEF Keeps, DryFields
    <2>4. \A s \in Thread \ {t} : call'[s] = call[s]
      <3>1. \E pcs, F : Moved(t, pcs, F)
        BY <1>2, ScanMoves, DryRunMoves
      <3> QED BY <3>1 DEF Moved
    <2>5. call'[t].op = "dry_run" => DryRunSound(t, call[t])'
      BY <1>0, <1>2, <2>3, ScanForetells
    <2> QED BY <1>m, <2>1, <2>4, <2>5
  <1>3. ASSUME NEW t \in Thread, ScanPackage(t)
        PROVE  ForetellInv'
    <2>1. live' = live /\ scratch' = scratch /\ call[t].root = "none"
      BY <1>3 DEF ScanPackage
    <2>2. call[t].op # "dry_run"
      BY <2>1 DEF RootsInv, RoleSound
    <2>3. Moved(t, {"scan", "fetch", "scanned"}, {"seen"})
      BY <1>3, ScanMoves
    <2>4. call'[t].op # "dry_run" /\ \A s \in Thread \ {t} : call'[s] = call[s]
      BY <2>2, <2>3 DEF Moved, Core
    <2> QED BY <1>0, <1>m, <2>1, <2>4
  <1>4. ASSUME NEW t \in Thread, ScanFails(t) \/ RecordDryRun(t) \/ Return(t)
        PROVE  ForetellInv'
    <2>1. Ended(t)
      BY <1>4, ScanMoves, DryRunMoves, DraftMoves
    <2>2. /\ live' = live /\ scratch' = [u \in Thread |-> scratch'[u]]
          /\ \A s \in Thread \ {t} : scratch'[s] = scratch[s]
      BY <1>0, <1>4 DEF ScanFails, RecordDryRun, Return
    <2> QED BY <1>e, <2>1, <2>2
  <1>5. ASSUME NEW t \in Thread,
               BuildSnapshot(t) \/ ReadTrend(t) \/ ReplaceTrend(t)
                 \/ DraftProposal(t) \/ CheckDuplicate(t) \/ CreateProposal(t)
        PROVE  ForetellInv'
    <2>1. live' = live /\ scratch' = scratch
      BY <1>5 DEF BuildSnapshot, ReadTrend, ReplaceTrend, DraftProposal, CheckDuplicate, CreateProposal
    <2>2. call[t].op # "dry_run"
      <3>1. call[t].op \in {"sweep", "recompute"} \/ call[t].pc \in Drafting
        BY <1>5 DEF BuildSnapshot, ReadTrend, ReplaceTrend, DraftProposal, CheckDuplicate, CreateProposal,
             Drafting
      <3> QED BY <1>0, <3>1 DEF DryRunSound, Scanning, Drafting
    <2>3. CASE Ended(t)
      BY <1>0, <1>e, <2>1, <2>3
    <2>4. CASE Keeps(t, {"pc", "run", "read", "seen", "todo", "diff", "ruledOut"})
      <3>1. call'[t].op # "dry_run"
        BY <1>f, <2>2, <2>4 DEF Keeps, DryFields
      <3>2. \A s \in Thread \ {t} : call'[s] = call[s]
        <4>1. Ended(t) \/ \E pcs, F : Moved(t, pcs, F)
          BY <1>5, TrendMoves, DraftMoves
        <4> QED BY <4>1 DEF Ended, Moved
      <3> QED BY <1>0, <1>m, <2>1, <3>1, <3>2
    <2> QED BY <1>5, <2>3, <2>4, AfterScan
  <1>6. ASSUME Meanwhile
        PROVE  ForetellInv'
    <2>1. /\ live' \in Seq(Rules) /\ scratch' = scratch
          /\ \A s \in Thread : call[s].op = "dry_run" =>
               call'[s].released \/ (~call[s].released /\ live' = live)
      BY <1>0, <1>6, ReleasesAreTold
    <2>2. ASSUME NEW s \in Thread
          PROVE  call'[s].op = "dry_run" => DryRunSound(s, call[s])'
      <3>1. \A f \in Fields \ {"steady", "left", "released"} : call'[s][f] = call[s][f]
        BY <1>6, OutsideSets
      <3>2. DryFields \cup {"alone"} \subseteq Fields \ {"steady", "left", "released"}
        BY DEF DryFields, Fields
      <3> HIDE DEF Fields
      <3>3. \A f \in DryFields \cup {"alone"} : call'[s][f] = call[s][f]
        BY <3>1, <3>2
      <3>4. \A f \in DryFields : call'[s][f] = call[s][f]
        BY <3>3
      <3>5. call'[s].alone = call[s].alone /\ scratch'[s] = scratch[s]
        BY <2>1, <3>3
      <3> QED BY <1>0, <2>1, <3>4, <3>5, ForetellFrame
    <2> QED BY <1>0, <2>1, <2>2 DEF ForetellInv
  <1>7. ASSUME UNCHANGED vars
        PROVE  ForetellInv'
    <2>1. live' = live /\ scratch' = scratch /\ call' = call
      BY <1>7 DEF vars
    <2>2. \A s \in Thread : call[s].op = "dry_run" => DryRunSound(s, call[s])'
      BY <1>0, <2>1, ForetellFrame
    <2> QED BY <1>0, <2>1, <2>2 DEF ForetellInv
  <1> QED BY <1>1, <1>2, <1>3, <1>4, <1>5, <1>6, <1>7 DEF Next, Step

\* A scan has a last row of each package that it has a row of.
LEMMA LastRow ==
  ASSUME NEW s, IsSeq(s), NEW i \in DOMAIN s
  PROVE  \E k \in DOMAIN s : /\ s[k].pkg = s[i].pkg
                            /\ \A l \in DOMAIN s : l > k => s[l].pkg # s[k].pkg
  <1>1. PICK n \in Nat : DOMAIN s = 1..n
    BY DEF IsSeq
  <1> DEFINE Rows == {k \in 1..n : s[k].pkg = s[i].pkg}
             FromEnd == {n - k : k \in Rows}
             R == OpToRel(<, Nat)
  <1>2. FromEnd \subseteq Nat /\ FromEnd # {}
    BY <1>1
  <1>3. IsWellFoundedOn(R, Nat)
    BY NatLessThanWellFounded
  <1>4. PICK u \in FromEnd : \A v \in FromEnd : ~(<<v, u>> \in R)
    <2> HIDE DEF R, FromEnd
    <2> QED BY <1>2, <1>3, WFMin
  <1>5. \A v \in FromEnd : ~(v < u)
    BY <1>2, <1>4 DEF OpToRel
  <1>6. PICK k \in Rows : u = n - k
    OBVIOUS
  <1>7. ASSUME NEW l \in 1..n, l > k PROVE s[l].pkg # s[k].pkg
    <2>1. n - l < u
      BY <1>6, <1>7
    <2>2. n - l \notin FromEnd
      BY <1>5, <2>1
    <2> QED BY <1>6, <2>2
  <1> QED BY <1>1, <1>6, <1>7

\* What a dry-run reports is what the proposed rules would make of the corpus.
LEMMA ForetellSuffices ==
  ASSUME Shapes, RootsInv, CoverInv, ForetellInv
  PROVE  DryRunForetells
  <1> SUFFICES ASSUME NEW t \in Thread, call[t].pc = "record", call[t].alone, ~call[t].left, ~call[t].released
               PROVE  {p \in NewlyFailing(call[t].before, call[t].seen) \cap call[t].steady :
                         FactsOf[p].version = call[t].version} =
                      {p \in call[t].steady :
                         /\ FactsOf[p].version = call[t].version
                         /\ IsSound(FactsOf[p], LoadProfileFiles(FactsOf[p], TRUE, live))
                         /\ ~IsSound(FactsOf[p], Changed(Current, call[t].diff))}
    BY DEF DryRunForetells
  <1> DEFINE before == call[t].before
             after == call[t].seen
             proposed == Changed(Current, call[t].diff)
             SoundNow(p) == IsSound(FactsOf[p], LoadProfileFiles(FactsOf[p], TRUE, live))
             SoundThen(p) == IsSound(FactsOf[p], proposed)
  <1>1. call[t].version = CurrentVersion /\ AsOf(before, live) /\ AsOf(after, Laid(call[t]))
    <2>1. call[t].op = "dry_run"
      BY DEF RootsInv, RoleSound
    <2>2. DryRunSound(t, call[t])
      BY <2>1 DEF ForetellInv
    <2> QED BY <2>2 DEF DryRunSound
  <1>2. call[t].steady \subseteq Scanned(before) /\ call[t].steady \subseteq Scanned(after)
    <2>1. ScanSound(call[t])
      BY DEF CoverInv
    <2>2. call[t].root = "scratch"
      <3>1. call[t].op = "dry_run"
        BY DEF RootsInv, RoleSound
      <3>2. DryRunSound(t, call[t])
        BY <3>1 DEF ForetellInv
      <3> QED BY <3>2 DEF DryRunSound
    <2>3. Pending(call[t]) = {} /\ \A p : Behind(call[t], p)
      BY <2>1 DEF ScanSound, Pending, Behind, Scanning, Gating
    <2> QED BY <2>1, <2>2, <2>3 DEF ScanSound
  <1>3. ASSUME NEW s, NEW p, s.pkg = p PROVE Good(s) <=> IsSound(FactsOf[p], s.rules)
    BY <1>3, GateIsSound DEF Good, OutcomesOf
  <1>4. \A j \in DOMAIN before : Good(before[j]) <=> SoundNow(before[j].pkg)
    BY <1>1, <1>3 DEF AsOf
  <1>5. ASSUME NEW p, FactsOf[p].version = CurrentVersion
        PROVE  LoadProfileFiles(FactsOf[p], TRUE, Laid(call[t])) = proposed
    <2>1. CurrentVersion # 0
      BY CurrentIsRules DEF ForetellInv
    <2>2. CurrentVersion \in DOMAIN Laid(call[t]) /\ Laid(call[t])[CurrentVersion] = proposed
      BY DEF Laid
    <2> QED BY <1>5, <2>1, <2>2 DEF LoadProfileFiles
  <1>6. \A k \in DOMAIN after : FactsOf[after[k].pkg].version = CurrentVersion
           => (Good(after[k]) <=> SoundThen(after[k].pkg))
    BY <1>1, <1>3, <1>5 DEF AsOf
  <1> HIDE DEF before, after, SoundNow, SoundThen, proposed
  <1>7. ASSUME NEW p \in call[t].steady, FactsOf[p].version = CurrentVersion
        PROVE  p \in NewlyFailing(before, after) <=> SoundNow(p) /\ ~SoundThen(p)
    <2>1. ASSUME p \in NewlyFailing(before, after) PROVE SoundNow(p) /\ ~SoundThen(p)
      <3>1. PICK j \in DOMAIN before, k \in DOMAIN after :
              before[j].pkg = p /\ Good(before[j]) /\ after[k].pkg = p /\ ~Good(after[k])
        BY <2>1 DEF NewlyFailing
      <3> QED BY <1>4, <1>6, <1>7, <3>1
    <2>2. ASSUME SoundNow(p), ~SoundThen(p) PROVE p \in NewlyFailing(before, after)
      <3>1. PICK j \in DOMAIN before : before[j].pkg = p
        BY <1>2 DEF Scanned
      <3>2. PICK i \in DOMAIN after : after[i].pkg = p
        BY <1>2 DEF Scanned
      <3>3. PICK k \in DOMAIN after : after[k].pkg = p /\ \A l \in DOMAIN after : l > k => after[l].pkg # after[k].pkg
        <4>1. IsSeq(after)
          BY DEF Shapes, CallTyped, after
        <4> QED BY <3>2, <4>1, LastRow
      <3>4. Good(before[j]) /\ ~Good(after[k])
        BY <1>4, <1>6, <1>7, <2>2, <3>1, <3>3
      <3> QED BY <3>1, <3>3, <3>4 DEF NewlyFailing
    <2> QED BY <2>1, <2>2
  <1> QED BY <1>1, <1>7 DEF before, after, SoundNow, SoundThen, proposed

-----------------------------------------------------------------------------
(* The theorems. *)

\* What holds of every reachable state, in parts that keep each other.
THEOREM PlannerInvariant ==
  Spec => [](Shapes /\ RootsInv /\ TrendInv /\ QueueInv /\ CoverInv /\ ForetellInv)
  <1>1. Init => Shapes /\ RootsInv /\ TrendInv /\ QueueInv /\ CoverInv /\ ForetellInv
    BY ShapesInit, RootsInit, TrendInit, QueueInit, CoverInit, ForetellInit
  <1>2. Shapes /\ RootsInv /\ TrendInv /\ QueueInv /\ CoverInv /\ ForetellInv /\ [Next]_vars
          => (Shapes /\ RootsInv /\ TrendInv /\ QueueInv /\ CoverInv /\ ForetellInv)'
    BY ShapesStep, RootsStep, TrendStep, QueueStep, CoverStep, ForetellStep
  <1> QED BY <1>1, <1>2, PTL DEF Spec

\* A gate resolves profiles against the root meant for it, whichever of the
\* process's dry-runs come and go, unless two of them overlap; and the variable
\* _registry_root_override sets is back when none runs.
THEOREM GatesSeeTheirOwnRoot == Spec => []GatesSeeTheirRoot
  <1>1. RootsInv => GatesSeeTheirRoot
    BY DEF RootsInv, SeenSound, VariableSound, GatesSeeTheirRoot, RootOf, RootNamed
  <1> QED BY <1>1, PlannerInvariant, PTL

\* "append_snapshot never edits or drops a prior row": every run is in the file,
\* or still to be appended, in order, up to appends that overlapped.
THEOREM TrendIsTheHistory == Spec => []TrendIsRunHistory
  <1>1. TrendInv => TrendIsRunHistory
    BY DEF TrendInv
  <1> QED BY <1>1, PlannerInvariant, PTL

\* "weekly sweeps must not spam the queue": of two open proposals with one
\* target, the later was made by hand, or its check could not have listed the earlier.
THEOREM QueueIsNotSpammed == Spec => []OneOpenProposalPerTarget
  <1>1. QueueInv => OneOpenProposalPerTarget
    BY DEF QueueInv
  <1> QED BY <1>1, PlannerInvariant, PTL

\* scan_corpus misses no package that was approved from its first page to its
\* last, however many are approved meanwhile and wherever they shift the pages,
\* unless one left that status.
THEOREM ScansMissNothing == Spec => []ScansCoverTheCorpus
  <1>1. CoverInv => ScansCoverTheCorpus
    BY CoverSuffices
  <1> QED BY <1>1, PlannerInvariant, PTL

\* "record_dry_run": what _diff calls newly failing is what the proposed version
\* would fail, for a dry-run with no other, no release and no withdrawal under way.
THEOREM DryRunsForetell == Spec => []DryRunForetells
  <1>1. Shapes /\ RootsInv /\ CoverInv /\ ForetellInv => DryRunForetells
    BY ForetellSuffices
  <1> QED BY <1>1, PlannerInvariant, PTL
=============================================================================
