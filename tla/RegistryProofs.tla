---------------------------- MODULE RegistryProofs -----------------------------
(***************************************************************************)
(* Proofs about ProfileRegistry, for any threads, codes, texts and number  *)
(* of versions: the types, and, for a profile whose vendored tree has      *)
(* files in it, that the rename of the version directory is all the mutual *)
(* exclusion there is, that versions are immutable, that the changelog is  *)
(* truthful, and that the registry implements RegistrySpec.  Then about    *)
(* ProposalWorkflow, for any proposals, diffs and identities: every step   *)
(* of it is a step of the registry (so that the first part carries over),  *)
(* what is approved is applied, no two approvals claim one version, and    *)
(* decisions are final.                                                    *)
(***************************************************************************)
EXTENDS ProposalWorkflow, TLAPS


\* The pcs at which a call has a version number, and at which it has a base.
HasNew == {"compute", "check", "dir", "rename", "tmp", "pointer", "log"}
HasBase == {"dir", "rename", "tmp", "pointer", "log"}

\* What a call carries is there: the version it starts from, the one it made.
CallSound(c) ==
  /\ c.pc \in HasNew => c.new \in Version
  /\ c.pc \in {"current", "compute", "check", "log"} => pointer # 0
  /\ c.pc \in HasBase /\ c.base # 0 => Written(c.base)
  /\ c.pc \in {"tmp", "pointer", "log"} => Written(c.new)

TypeInv ==
  /\ RegistryTypeOK
  /\ pointer # 0 => Written(pointer)
  /\ pointerTmp # 0 => Written(pointerTmp)
  /\ \A t \in Thread : CallSound(call[t])

-----------------------------------------------------------------------------
\* In the middle of a release: the directory is there, the flip is not done.
Releasing(c) == c.pc \in {"tmp", "pointer"}

\* The directories run without a gap up to the live version, and at most one
\* further, which is being released or was left behind by a crash.
DirsInOrder ==
  \A v \in Version : /\ v <= pointer => Written(v)
                     /\ Written(v) => v <= pointer + 1

(* What a call has read is either about the live version, or about one that  *)
(* has been superseded, and then its own version number is taken.            *)
ReadSound(c) ==
  /\ c.pc \in HasNew => c.new <= pointer + 1
  /\ c.pc = "check" /\ c.new = pointer + 1 => c.codes = dirs[pointer].codes
  /\ c.pc \in HasBase => c.base = c.new - 1
  /\ c.pc \in {"dir", "rename", "tmp", "pointer"} /\ c.base # 0 => c.codes = dirs[c.base].codes

\* NewContent, of a call and a table of directories.
ContentFrom(c, table) ==
  IF c.base = 0 THEN SeedContent
  ELSE Promise!Patched(table[c.base],
         IF c.diff.kind = "reason_code_add" THEN c.codes ELSE table[c.base].codes, c.diff)

\* The release in progress makes the next version, of the content it should have.
ReleaseSound(c) ==
  /\ Releasing(c) => c.new = pointer + 1 /\ dirs[c.new] = ContentFrom(c, dirs)
  /\ c.pc = "pointer" => pointerTmp = c.new
  /\ c.pc = "log" => c.new <= pointer

ReleaseInv ==
  /\ DirsInOrder
  /\ \A t \in Thread : ReadSound(call[t]) /\ ReleaseSound(call[t])
  /\ OneReleaserAtATime
  /\ ChangelogTruthful

-----------------------------------------------------------------------------
(* Contents and diffs. *)

\* Every diff of a content is a content.
LEMMA PatchedIsContent ==
  ASSUME NEW base \in Promise!Content, NEW codes \in SUBSET Code, NEW d \in Promise!Diff
  PROVE  Promise!Patched(base, codes, d) \in Promise!Content
  BY DEF Promise!Patched, Promise!CodesAfter, Promise!Content, Promise!Diff

\* A call that does nothing is a call.
LEMMA IdleIsCall == IdleCall \in Call
  <1>1. \E d \in Promise!Diff : TRUE
    <2>1. SeedContent.other \in Text
      BY RegistryAssumption DEF Promise!Content
    <2>2. [kind |-> "profile_change", after |-> SeedContent.other] \in Promise!Diff
      BY <2>1 DEF Promise!Diff
    <2> QED BY <2>2
  <1>2. NoDiff \in Promise!Diff
    BY <1>1 DEF NoDiff
  <1>3. 0 \in 0..MaxVersion
    BY RegistryAssumption
  <1> QED BY <1>2, <1>3 DEF IdleCall, Call

\* The content of a version under way is a content.
LEMMA NewContentIsContent ==
  ASSUME TypeInv, NEW t \in Thread, call[t].pc \in HasBase
  PROVE  NewContent(call[t]) \in Promise!Content
  <1> DEFINE c == call[t]
  <1>1. c \in Call /\ (c.base # 0 => Written(c.base)) /\ c.base \in 0..MaxVersion
    BY DEF TypeInv, RegistryTypeOK, CallSound, Call
  <1>2. CASE c.base = 0
    BY <1>2, RegistryAssumption DEF NewContent
  <1>3. CASE c.base # 0
    <2>1. dirs[c.base] \in Promise!Content
      BY <1>1, <1>3, RegistryAssumption DEF TypeInv, RegistryTypeOK, Written, Version
    <2>2. c.codes \in SUBSET Code /\ dirs[c.base].codes \in SUBSET Code /\ c.diff \in Promise!Diff
      BY <1>1, <2>1 DEF Call, Promise!Content
    <2> QED BY <1>3, <2>1, <2>2, PatchedIsContent DEF NewContent
  <1> QED BY <1>2, <1>3

-----------------------------------------------------------------------------
(* Types. *)

\* A step of one thread that leaves the directories and the pointer alone.
LEMMA QuietType ==
  ASSUME TypeInv, UNCHANGED <<dirs, pointer>>, pointerTmp' \in 0..MaxVersion,
         pointerTmp' # 0 => Written(pointerTmp'),
         changelog' \subseteq Version,
         NEW t \in Thread, NEW d \in Call, call' = [call EXCEPT ![t] = d], CallSound(d)
  PROVE  TypeInv'
  <1>1. call \in [Thread -> Call] /\ \A s \in Thread : CallSound(call[s])
    BY DEF TypeInv, RegistryTypeOK
  <1>2. \A s \in Thread : call'[s] = IF s = t THEN d ELSE call[s]
    BY <1>1
  <1>3. call' \in [Thread -> Call]
    BY <1>1
  <1>4. \A s \in Thread : CallSound(call[s])'
    BY <1>1, <1>2 DEF CallSound, Written
  <1> QED BY <1>3, <1>4 DEF TypeInv, RegistryTypeOK, Written

\* What a call's own fields are after a step that moves it on.
LEMMA TypeStep == TypeInv /\ [RegistryNext]_registryVars => TypeInv'
  <1> SUFFICES ASSUME TypeInv, [RegistryNext]_registryVars PROVE TypeInv'
    OBVIOUS
  <1>0. /\ call \in [Thread -> Call] /\ dirs \in [Version -> Promise!Content \cup {NoContent}]
        /\ pointer \in 0..MaxVersion /\ pointerTmp \in 0..MaxVersion /\ changelog \subseteq Version
        /\ pointer # 0 => Written(pointer)
        /\ pointerTmp # 0 => Written(pointerTmp)
        /\ MaxVersion \in Nat \ {0} /\ 1 \in Version /\ Version = 1..MaxVersion
    BY RegistryAssumption DEF TypeInv, RegistryTypeOK, Version
  <1>1. ASSUME NEW t \in Thread, NEW d \in Promise!Diff, Apply(t, d) PROVE TypeInv'
    <2> DEFINE e == [IdleCall EXCEPT !.pc = "seed", !.diff = d]
    <2>1. e \in Call /\ CallSound(e)
      BY IdleIsCall DEF IdleCall, Call, CallSound, HasNew, HasBase
    <2> QED BY <1>0, <1>1, <2>1, QuietType DEF Apply
  <1>2. ASSUME NEW t \in Thread, Step(t) PROVE TypeInv'
    <2> DEFINE c == call[t]
    <2>0. c \in Call /\ CallSound(c)
      BY <1>0 DEF TypeInv
    <2>1. ASSUME EnsureSeeded(t) PROVE TypeInv'
      <3> DEFINE e == IF pointer = 0 THEN [c EXCEPT !.pc = "dir", !.new = 1, !.base = 0]
                      ELSE [c EXCEPT !.pc = "current"]
      <3>1. call' = [call EXCEPT ![t] = e]
        BY <1>0, <2>1 DEF EnsureSeeded, Goto
      <3>2. CASE pointer = 0
        <4> DEFINE f == [c EXCEPT !.pc = "dir", !.new = 1, !.base = 0]
        <4>0. 0 \in 0..MaxVersion /\ 1 \in 0..MaxVersion
          BY <1>0
        <4>1. f \in Call /\ f.pc = "dir" /\ f.new = 1 /\ f.base = 0
          BY <2>0, <4>0 DEF Call
        <4>1a. e = f
          BY <3>2
        <4> HIDE DEF e, f
        <4>2. CallSound(e)
          BY <1>0, <4>1, <4>1a DEF CallSound
        <4> QED BY <1>0, <2>1, <3>1, <4>1, <4>1a, <4>2, QuietType DEF EnsureSeeded
      <3>3. CASE pointer # 0
        <4> DEFINE f == [c EXCEPT !.pc = "current"]
        <4>1. f \in Call /\ f.pc = "current" /\ e = f
          BY <2>0, <3>3 DEF Call
        <4> HIDE DEF e, f
        <4>2. CallSound(e)
          BY <3>3, <4>1 DEF CallSound, HasNew, HasBase
        <4> QED BY <1>0, <2>1, <3>1, <4>1, <4>2, QuietType DEF EnsureSeeded
      <3> QED BY <3>2, <3>3
    <2>2. ASSUME ReadCurrent(t) PROVE TypeInv'
      <3> DEFINE e == [c EXCEPT !.pc = "compute", !.new = pointer + 1]
      <3>1. call' = [call EXCEPT ![t] = e]
        BY <1>0, <2>2 DEF ReadCurrent
      <3>a. pointer + 1 \in Version /\ pointer + 1 \in 0..MaxVersion /\ pointer # 0
        BY <1>0, <2>0, <2>2 DEF ReadCurrent, CallSound
      <3>b. e \in Call /\ e.pc = "compute" /\ e.new = pointer + 1
        BY <2>0, <3>a DEF Call
      <3> HIDE DEF e
      <3>2. e \in Call /\ CallSound(e)
        BY <3>a, <3>b DEF CallSound, HasBase
      <3> QED BY <1>0, <2>2, <3>1, <3>2, QuietType DEF ReadCurrent
    <2>3. ASSUME ComputeChangedFiles(t) PROVE TypeInv'
      <3> DEFINE e == [c EXCEPT !.pc = "check", !.codes = dirs[pointer].codes]
      <3>1. call' = [call EXCEPT ![t] = e]
        BY <1>0, <2>3 DEF ComputeChangedFiles
      <3>2. dirs[pointer].codes \in SUBSET Code
        BY <1>0, <2>0, <2>3, RegistryAssumption
           DEF ComputeChangedFiles, CallSound, Written, Promise!Content
      <3>3. e \in Call /\ CallSound(e)
        BY <1>0, <2>0, <2>3, <3>2 DEF ComputeChangedFiles, Call, CallSound, HasNew, HasBase
      <3> QED BY <1>0, <2>3, <3>1, <3>3, QuietType DEF ComputeChangedFiles
    <2>4. ASSUME CheckMonotone(t) PROVE TypeInv'
      <3> DEFINE e == IF c.new > pointer THEN [c EXCEPT !.pc = "dir", !.base = pointer]
                      ELSE [c EXCEPT !.pc = "failed"]
      <3>1. call' = [call EXCEPT ![t] = e]
        BY <1>0, <2>4 DEF CheckMonotone, Goto
      <3>2. e \in Call /\ CallSound(e)
        BY <1>0, <2>0, <2>4 DEF CheckMonotone, Call, CallSound, HasNew, HasBase
      <3> QED BY <1>0, <2>4, <3>1, <3>2, QuietType DEF CheckMonotone
    <2>5. ASSUME CheckVersionDir(t) PROVE TypeInv'
      <3> DEFINE e == [c EXCEPT !.pc = IF Written(c.new) THEN "failed" ELSE "rename"]
      <3>1. call' = [call EXCEPT ![t] = e]
        BY <1>0, <2>5 DEF CheckVersionDir, Goto
      <3>2. e \in Call /\ CallSound(e)
        BY <1>0, <2>0, <2>5 DEF CheckVersionDir, Call, CallSound, HasNew, HasBase
      <3> QED BY <1>0, <2>5, <3>1, <3>2, QuietType DEF CheckVersionDir
    <2>6. ASSUME RenameVersionDir(t) PROVE TypeInv'
      <3>0. c.pc = "rename" /\ c.new \in Version
        BY <2>0, <2>6 DEF RenameVersionDir, CallSound, HasNew
      <3>1. CASE Written(c.new) /\ ~Replaceable(c.new)
        <4> DEFINE e == [c EXCEPT !.pc = "failed"]
        <4>1. call' = [call EXCEPT ![t] = e] /\ UNCHANGED dirs
          BY <1>0, <2>6, <3>1 DEF RenameVersionDir, Goto
        <4>2. e \in Call /\ CallSound(e)
          BY <2>0 DEF Call, CallSound, HasNew, HasBase
        <4> QED BY <1>0, <2>6, <4>1, <4>2, QuietType DEF RenameVersionDir
      <3>2. CASE ~(Written(c.new) /\ ~Replaceable(c.new))
        <4> DEFINE e == [c EXCEPT !.pc = "tmp"]
        <4>1. /\ call' = [call EXCEPT ![t] = e]
              /\ dirs' = [dirs EXCEPT ![c.new] = NewContent(c)]
              /\ UNCHANGED <<pointer, pointerTmp, changelog>>
          BY <1>0, <2>6, <3>2 DEF RenameVersionDir, Goto
        <4>2. NewContent(c) \in Promise!Content
          BY <3>0, NewContentIsContent DEF HasBase
        <4>3. /\ dirs' \in [Version -> Promise!Content \cup {NoContent}]
              /\ dirs'[c.new] # NoContent
              /\ \A v : Written(v) /\ v \in Version => dirs'[v] # NoContent
          BY <1>0, <3>0, <4>1, <4>2, RegistryAssumption DEF Written
        <4>4. e \in Call /\ e.new = c.new /\ e.base = c.base /\ e.pc = "tmp"
          BY <2>0 DEF Call
        <4> HIDE DEF e
        <4>5. /\ call' \in [Thread -> Call]
              /\ \A s \in Thread : call'[s] = IF s = t THEN e ELSE call[s]
          BY <1>0, <4>1, <4>4
        <4>6. \A s \in Thread : CallSound(call[s])'
          <5> SUFFICES ASSUME NEW s \in Thread PROVE CallSound(call[s])'
            OBVIOUS
          <5>1. CallSound(call[s]) /\ call[s] \in Call
            BY <1>0 DEF TypeInv
          <5>2. CASE s = t
            BY <1>0, <2>0, <3>0, <4>1, <4>3, <4>4, <4>5, <5>2
               DEF CallSound, HasNew, HasBase, Written, Call
          <5>3. CASE s # t
            BY <1>0, <4>1, <4>3, <4>5, <5>1, <5>3 DEF CallSound, HasNew, HasBase, Written, Call
          <5> QED BY <5>2, <5>3
        <4> QED BY <1>0, <4>1, <4>3, <4>5, <4>6 DEF TypeInv, RegistryTypeOK, Written
      <3> QED BY <3>1, <3>2
    <2>7. ASSUME WritePointerTmp(t) PROVE TypeInv'
      <3> DEFINE e == [c EXCEPT !.pc = "pointer"]
      <3>1. call' = [call EXCEPT ![t] = e] /\ c.pc = "tmp" /\ pointerTmp' = c.new
            /\ UNCHANGED <<dirs, pointer, changelog>>
        BY <1>0, <2>7 DEF WritePointerTmp, Goto
      <3>2. e \in Call /\ CallSound(e) /\ c.new \in 0..MaxVersion /\ Written(c.new)
        BY <2>0, <3>1 DEF Call, CallSound, HasNew, HasBase
      <3> QED BY <1>0, <3>1, <3>2, QuietType
    <2>8. ASSUME ReplacePointer(t) PROVE TypeInv'
      <3>0. c.pc = "pointer" /\ UNCHANGED <<dirs, changelog>>
        BY <2>8 DEF ReplacePointer
      <3>1. CASE pointerTmp = 0
        <4> DEFINE e == [c EXCEPT !.pc = "failed"]
        <4>1. call' = [call EXCEPT ![t] = e] /\ UNCHANGED <<pointer, pointerTmp>>
          BY <1>0, <2>8, <3>1 DEF ReplacePointer, Goto
        <4>2. e \in Call /\ CallSound(e)
          BY <2>0 DEF Call, CallSound, HasNew, HasBase
        <4> QED BY <1>0, <3>0, <4>1, <4>2, QuietType
      <3>2. CASE pointerTmp # 0
        <4> DEFINE e == [c EXCEPT !.pc = "log"]
        <4>1. call' = [call EXCEPT ![t] = e] /\ pointer' = pointerTmp /\ pointerTmp' = 0
          BY <1>0, <2>8, <3>2 DEF ReplacePointer, Goto
        <4>2. e \in Call /\ e.pc = "log" /\ e.new = c.new /\ e.base = c.base
          BY <2>0 DEF Call
        <4> HIDE DEF e
        <4>3. /\ call' \in [Thread -> Call]
              /\ \A s \in Thread : call'[s] = IF s = t THEN e ELSE call[s]
          BY <1>0, <4>1, <4>2
        <4>4. \A s \in Thread : CallSound(call[s])
          BY DEF TypeInv
        <4>5. \A s \in Thread : CallSound(call[s])'
          BY <3>0, <3>2, <4>1, <4>2, <4>3, <4>4 DEF CallSound, Written, HasNew, HasBase
        <4> QED BY <1>0, <3>0, <3>2, <4>1, <4>3, <4>5 DEF TypeInv, RegistryTypeOK, Written
      <3> QED BY <3>1, <3>2
    <2>9. ASSUME AppendChangelog(t) PROVE TypeInv'
      <3> DEFINE e == [c EXCEPT !.pc = IF c.base = 0 THEN "current" ELSE "done"]
      <3>1. /\ call' = [call EXCEPT ![t] = e] /\ c.pc = "log"
            /\ changelog' = changelog \cup {c.new}
            /\ UNCHANGED <<dirs, pointer, pointerTmp>>
        BY <1>0, <2>9 DEF AppendChangelog, Goto
      <3>2. e \in Call /\ CallSound(e) /\ c.new \in Version
        BY <2>0, <3>1 DEF Call, CallSound, HasNew, HasBase
      <3> QED BY <1>0, <3>1, <3>2, QuietType
    <2> QED BY <1>2, <2>1, <2>2, <2>3, <2>4, <2>5, <2>6, <2>7, <2>8, <2>9 DEF Step
  <1>3. ASSUME NEW t \in Thread, Return(t) PROVE TypeInv'
    <2>1. CallSound(IdleCall)
      BY DEF CallSound, IdleCall, HasNew, HasBase
    <2> QED BY <1>0, <1>3, <2>1, IdleIsCall, QuietType DEF Return
  <1>4. CASE Crash
    <2>1. call' \in [Thread -> Call] /\ \A s \in Thread : call'[s] = IdleCall
      BY <1>4, IdleIsCall DEF Crash
    <2>2. \A s \in Thread : CallSound(call[s])'
      BY <2>1 DEF CallSound, IdleCall, HasNew, HasBase
    <2> QED BY <1>0, <1>4, <2>1, <2>2 DEF Crash, TypeInv, RegistryTypeOK, Written
  <1>5. CASE UNCHANGED registryVars
    BY <1>5 DEF registryVars, TypeInv, RegistryTypeOK, CallSound, Written
  <1>6. ASSUME NEW t \in Thread, FileError(t) PROVE TypeInv'
    <2> DEFINE e == [call[t] EXCEPT !.pc = "failed"]
    <2>1. call' = [call EXCEPT ![t] = e] /\ UNCHANGED <<dirs, pointer, pointerTmp, changelog>>
      BY <1>0, <1>6 DEF FileError, Goto
    <2>2. e \in Call /\ CallSound(e)
      BY <1>0 DEF Call, CallSound, HasNew, HasBase
    <2> QED BY <1>0, <2>1, <2>2, QuietType
  <1> QED BY <1>1, <1>2, <1>3, <1>4, <1>5, <1>6 DEF RegistryNext

\* Nothing has been read or written at the start.
LEMMA TypeInit == RegistryInit => TypeInv
  <1> SUFFICES ASSUME RegistryInit PROVE TypeInv
    OBVIOUS
  <1>1. call \in [Thread -> Call] /\ \A t \in Thread : call[t] = IdleCall
    BY IdleIsCall DEF RegistryInit
  <1>2. \A t \in Thread : CallSound(call[t])
    BY <1>1 DEF CallSound, IdleCall, HasNew, HasBase
  <1>3. dirs \in [Version -> Promise!Content \cup {NoContent}] /\ 0 \in 0..MaxVersion
    BY RegistryAssumption DEF RegistryInit
  <1> QED BY <1>1, <1>2, <1>3 DEF RegistryInit, TypeInv, RegistryTypeOK

\* The files and the calls are always well formed, and a version that a call
\* or the pointer names is there, also for a profile without a vendored tree.
THEOREM TypeInvariant == RegistrySpecification => []TypeInv
  BY TypeInit, TypeStep, PTL DEF RegistrySpecification

\* The type invariant of the registry's files and calls.
THEOREM Typing == RegistrySpecification => []RegistryTypeOK
  <1>1. TypeInv => RegistryTypeOK
    BY DEF TypeInv
  <1> QED BY <1>1, TypeInvariant, PTL

-----------------------------------------------------------------------------
(* Releases, for a profile with a vendored tree. *)

\* A version is a positive number, whose predecessor is 0 or a version.
LEMMA VersionArithmetic ==
  /\ MaxVersion \in Nat
  /\ \A v \in Version : v \in Nat /\ v # 0 /\ v - 1 \in Nat /\ v - 1 # v
  /\ TypeInv => pointer \in Nat /\ (pointer # 0 => pointer \in Version)
  BY RegistryAssumption DEF Version, TypeInv, RegistryTypeOK

\* A step of one thread that leaves the directories and the pointer alone.
LEMMA QuietRelease ==
  ASSUME TypeInv, ReleaseInv, UNCHANGED <<dirs, pointer>>,
         changelog' \subseteq 1..pointer,
         NEW t \in Thread, NEW d \in Call, call' = [call EXCEPT ![t] = d],
         pointerTmp' = pointerTmp \/ Releasing(call[t]),
         ReadSound(d),
         Releasing(d) => /\ Releasing(call[t])
                         /\ d.new = pointer + 1 /\ dirs[d.new] = ContentFrom(d, dirs),
         d.pc = "pointer" => pointerTmp' = d.new,
         d.pc = "log" => d.new <= pointer
  PROVE  ReleaseInv'
  <1>1. \A s \in Thread : call'[s] = IF s = t THEN d ELSE call[s]
    BY DEF TypeInv, RegistryTypeOK
  <1>2. \A s \in Thread : ReadSound(call[s]) /\ ReleaseSound(call[s])
    BY DEF ReleaseInv
  <1>3. OneReleaserAtATime'
    BY <1>1 DEF ReleaseInv, OneReleaserAtATime, Releasing
  <1>4. \A s \in Thread : ReadSound(call[s])'
    BY <1>1, <1>2 DEF ReadSound
  <1>5. \A s \in Thread : s # t => ~Releasing(call[s]) \/ pointerTmp' = pointerTmp
    BY DEF ReleaseInv, OneReleaserAtATime, Releasing
  <1>6. \A s \in Thread : ReleaseSound(call[s])'
    <2> SUFFICES ASSUME NEW s \in Thread PROVE ReleaseSound(call[s])'
      OBVIOUS
    <2>1. CASE s = t
      BY <1>1, <2>1 DEF ReleaseSound, Releasing, ContentFrom
    <2>2. CASE s # t
      BY <1>1, <1>2, <1>5, <2>2 DEF ReleaseSound, Releasing, ContentFrom
    <2> QED BY <2>1, <2>2
  <1> QED BY <1>3, <1>4, <1>6 DEF ReleaseInv, DirsInOrder, Written, ChangelogTruthful

\* A version directory is renamed into place: it is the next version's.
LEMMA RenameIsNext ==
  ASSUME SeedsFiles, TypeInv, ReleaseInv, NEW t \in Thread, RenameVersionDir(t),
         ~Written(call[t].new)
  PROVE  /\ call[t].new \in Version /\ call[t].new = pointer + 1
         /\ dirs' = [dirs EXCEPT ![call[t].new] = ContentFrom(call[t], dirs)]
         /\ call' = [call EXCEPT ![t] = [call[t] EXCEPT !.pc = "tmp"]]
         /\ UNCHANGED <<pointer, pointerTmp, changelog>>
         /\ \A s \in Thread : ~Releasing(call[s])
  <1> DEFINE c == call[t]
  <1>1. c.pc = "rename" /\ c \in Call /\ CallSound(c) /\ ReadSound(c)
    BY DEF RenameVersionDir, TypeInv, RegistryTypeOK, ReleaseInv
  <1>2. c.new \in Version /\ c.new <= pointer + 1
    BY <1>1 DEF CallSound, ReadSound, HasNew
  <1>3. c.new = pointer + 1
    BY <1>2, VersionArithmetic DEF ReleaseInv, DirsInOrder
  <1>4. NewContent(c) = ContentFrom(c, dirs)
    BY DEF NewContent, ContentFrom
  <1>5. /\ dirs' = [dirs EXCEPT ![c.new] = NewContent(c)]
        /\ UNCHANGED <<pointer, pointerTmp, changelog>>
        /\ call' = [call EXCEPT ![t].pc = "tmp"]
    BY DEF RenameVersionDir, Goto
  <1>6. call' = [call EXCEPT ![t] = [call[t] EXCEPT !.pc = "tmp"]]
    BY <1>5 DEF TypeInv, RegistryTypeOK
  <1>7. \A s \in Thread : Releasing(call[s]) => Written(pointer + 1)
    BY DEF ReleaseInv, ReleaseSound, Releasing, TypeInv, CallSound
  <1> QED BY <1>2, <1>3, <1>4, <1>5, <1>6, <1>7

\* The pointer is flipped: to the next version, by the one releaser.
LEMMA FlipIsNext ==
  ASSUME TypeInv, ReleaseInv, NEW t \in Thread, ReplacePointer(t)
  PROVE  /\ call[t].pc = "pointer" /\ call[t].new = pointer + 1 /\ call[t].new \in Version
         /\ pointer' = pointer + 1 /\ pointerTmp' = 0
         /\ call' = [call EXCEPT ![t] = [call[t] EXCEPT !.pc = "log"]]
         /\ UNCHANGED <<dirs, changelog>>
         /\ \A s \in Thread : s # t => ~Releasing(call[s])
  <1> DEFINE c == call[t]
  <1>1. c.pc = "pointer" /\ CallSound(c) /\ ReleaseSound(c) /\ c.new \in Version
    BY DEF ReplacePointer, TypeInv, ReleaseInv, CallSound, HasNew
  <1>2. pointerTmp = c.new /\ c.new = pointer + 1 /\ pointerTmp # 0
    BY <1>1, VersionArithmetic DEF ReleaseSound, Releasing
  <1>3. /\ pointer' = pointer + 1 /\ pointerTmp' = 0 /\ UNCHANGED <<dirs, changelog>>
        /\ call' = [call EXCEPT ![t].pc = "log"]
    BY <1>2 DEF ReplacePointer, Goto
  <1>4. call' = [call EXCEPT ![t] = [call[t] EXCEPT !.pc = "log"]]
    BY <1>3 DEF TypeInv, RegistryTypeOK
  <1>5. \A s \in Thread : s # t => ~Releasing(call[s])
    BY <1>1 DEF ReleaseInv, OneReleaserAtATime, Releasing
  <1> QED BY <1>1, <1>2, <1>3, <1>4, <1>5

\* Every step keeps the release invariant.
LEMMA ReleaseStep ==
  SeedsFiles /\ TypeInv /\ ReleaseInv /\ [RegistryNext]_registryVars => ReleaseInv'
  <1> SUFFICES ASSUME SeedsFiles, TypeInv, ReleaseInv, [RegistryNext]_registryVars
               PROVE  ReleaseInv'
    OBVIOUS
  <1>0. /\ call \in [Thread -> Call] /\ dirs \in [Version -> Promise!Content \cup {NoContent}]
        /\ pointer \in Nat /\ pointer \in 0..MaxVersion /\ MaxVersion \in Nat
        /\ changelog \subseteq 1..pointer /\ 1 \in Version
    BY VersionArithmetic, RegistryAssumption
       DEF TypeInv, RegistryTypeOK, ReleaseInv, ChangelogTruthful, Version
  <1>i. ReadSound(IdleCall) /\ IdleCall \in Call /\ IdleCall.pc = "idle"
    BY IdleIsCall DEF IdleCall, ReadSound, HasNew, HasBase
  <1>1. ASSUME NEW t \in Thread, NEW d \in Promise!Diff, Apply(t, d) PROVE ReleaseInv'
    <2> DEFINE e == [IdleCall EXCEPT !.pc = "seed", !.diff = d]
    <2>1. e \in Call /\ e.pc = "seed"
      BY IdleIsCall DEF IdleCall, Call
    <2>2. call' = [call EXCEPT ![t] = e] /\ UNCHANGED <<dirs, pointer, pointerTmp, changelog>>
      BY <1>1 DEF Apply
    <2> HIDE DEF e
    <2>3. ReadSound(e) /\ ~Releasing(e)
      BY <2>1 DEF ReadSound, HasNew, HasBase, Releasing
    <2> QED BY <1>0, <2>1, <2>2, <2>3, QuietRelease
  <1>2. ASSUME NEW t \in Thread, Step(t) PROVE ReleaseInv'
    <2> DEFINE c == call[t]
    <2>0. c \in Call /\ CallSound(c) /\ ReadSound(c) /\ ReleaseSound(c)
          /\ c.new \in Int /\ c.base \in Int
      BY <1>0 DEF TypeInv, ReleaseInv, Call
    \* A step that leaves all files alone, of a call that then makes no release.
    <2>a. ASSUME NEW e \in Call, call' = [call EXCEPT ![t] = e], ReadSound(e),
                 e.pc \notin {"tmp", "pointer", "log"},
                 UNCHANGED <<dirs, pointer, pointerTmp, changelog>>
          PROVE  ReleaseInv'
      BY <1>0, <2>a, QuietRelease DEF Releasing
    \* So in particular one that fails.
    <2>b. ASSUME Goto(t, "failed"), UNCHANGED <<dirs, pointer, pointerTmp, changelog>>
          PROVE  ReleaseInv'
      <3> DEFINE e == [c EXCEPT !.pc = "failed"]
      <3>1. e \in Call /\ e.pc = "failed"
        BY <2>0 DEF Call
      <3>2. call' = [call EXCEPT ![t] = e]
        BY <1>0, <2>b DEF Goto
      <3> HIDE DEF e
      <3>3. ReadSound(e)
        BY <3>1 DEF ReadSound, HasNew, HasBase
      <3> QED BY <2>a, <2>b, <3>1, <3>2, <3>3
    <2>1. ASSUME EnsureSeeded(t) PROVE ReleaseInv'
      <3>1. CASE pointer = 0
        <4> DEFINE e == [c EXCEPT !.pc = "dir", !.new = 1, !.base = 0]
        <4>0. 0 \in 0..MaxVersion /\ 1 \in 0..MaxVersion
          BY <1>0 DEF Version
        <4>1. e \in Call /\ e.pc = "dir" /\ e.new = 1 /\ e.base = 0
          BY <2>0, <4>0 DEF Call
        <4>2. call' = [call EXCEPT ![t] = e] /\ UNCHANGED <<dirs, pointer, pointerTmp, changelog>>
          BY <1>0, <2>1, <3>1 DEF EnsureSeeded
        <4> HIDE DEF e
        <4>3. ReadSound(e)
          BY <3>1, <4>1 DEF ReadSound
        <4> QED BY <2>a, <4>1, <4>2, <4>3
      <3>2. CASE pointer # 0
        <4> DEFINE e == [c EXCEPT !.pc = "current"]
        <4>1. e \in Call /\ e.pc = "current"
          BY <2>0 DEF Call
        <4>2. call' = [call EXCEPT ![t] = e] /\ UNCHANGED <<dirs, pointer, pointerTmp, changelog>>
          BY <1>0, <2>1, <3>2 DEF EnsureSeeded, Goto
        <4> HIDE DEF e
        <4>3. ReadSound(e)
          BY <4>1 DEF ReadSound, HasNew, HasBase
        <4> QED BY <2>a, <4>1, <4>2, <4>3
      <3> QED BY <3>1, <3>2
    <2>2. ASSUME ReadCurrent(t) PROVE ReleaseInv'
      <3> DEFINE e == [c EXCEPT !.pc = "compute", !.new = pointer + 1]
      <3>1. pointer + 1 \in 0..MaxVersion
        BY <1>0, <2>2 DEF ReadCurrent
      <3>2. e \in Call /\ e.pc = "compute" /\ e.new = pointer + 1
        BY <2>0, <3>1 DEF Call
      <3>3. call' = [call EXCEPT ![t] = e] /\ UNCHANGED <<dirs, pointer, pointerTmp, changelog>>
        BY <1>0, <2>2 DEF ReadCurrent
      <3> HIDE DEF e
      <3>4. ReadSound(e)
        BY <1>0, <3>2 DEF ReadSound, HasBase
      <3> QED BY <2>a, <3>2, <3>3, <3>4
    <2>3. ASSUME ComputeChangedFiles(t) PROVE ReleaseInv'
      <3> DEFINE e == [c EXCEPT !.pc = "check", !.codes = dirs[pointer].codes]
      <3>1. c.pc = "compute" /\ pointer \in Version /\ Written(pointer)
        BY <2>0, <2>3, VersionArithmetic DEF ComputeChangedFiles, CallSound, TypeInv
      <3>2. dirs[pointer].codes \in SUBSET Code
        BY <1>0, <3>1 DEF Written, Promise!Content
      <3>3. e \in Call /\ e.pc = "check" /\ e.codes = dirs[pointer].codes /\ e.new = c.new
        BY <2>0, <3>2 DEF Call
      <3>4. call' = [call EXCEPT ![t] = e] /\ UNCHANGED <<dirs, pointer, pointerTmp, changelog>>
        BY <1>0, <2>3 DEF ComputeChangedFiles
      <3> HIDE DEF e
      <3>5. ReadSound(e)
        BY <2>0, <3>1, <3>3 DEF ReadSound, HasNew, HasBase
      <3> QED BY <2>a, <3>3, <3>4, <3>5
    <2>4. ASSUME CheckMonotone(t) PROVE ReleaseInv'
      <3>1. CASE c.new > pointer
        <4> DEFINE e == [c EXCEPT !.pc = "dir", !.base = pointer]
        <4>1. e \in Call /\ e.pc = "dir" /\ e.base = pointer /\ e.codes = c.codes /\ e.new = c.new
          BY <1>0, <2>0 DEF Call
        <4>2. call' = [call EXCEPT ![t] = e] /\ UNCHANGED <<dirs, pointer, pointerTmp, changelog>>
          BY <1>0, <2>4, <3>1 DEF CheckMonotone
        <4> HIDE DEF e
        <4>3. c.pc = "check" /\ c.new <= pointer + 1
          BY <2>0, <2>4 DEF CheckMonotone, ReadSound, HasNew
        <4>4. c.new = pointer + 1 /\ c.codes = dirs[pointer].codes
          BY <1>0, <2>0, <3>1, <4>3 DEF ReadSound
        <4>5. ReadSound(e)
          BY <1>0, <4>1, <4>4 DEF ReadSound
        <4> QED BY <2>a, <4>1, <4>2, <4>5
      <3>2. CASE ~(c.new > pointer)
        BY <2>4, <2>b, <3>2 DEF CheckMonotone
      <3> QED BY <3>1, <3>2
    <2>5. ASSUME CheckVersionDir(t) PROVE ReleaseInv'
      <3>1. CASE Written(c.new)
        BY <2>5, <2>b, <3>1 DEF CheckVersionDir
      <3>2. CASE ~Written(c.new)
        <4> DEFINE e == [c EXCEPT !.pc = "rename"]
        <4>1. e \in Call /\ e.pc = "rename" /\ e.base = c.base /\ e.codes = c.codes /\ e.new = c.new
          BY <2>0 DEF Call
        <4>2. call' = [call EXCEPT ![t] = e] /\ UNCHANGED <<dirs, pointer, pointerTmp, changelog>>
              /\ c.pc = "dir"
          BY <1>0, <2>5, <3>2 DEF CheckVersionDir, Goto
        <4> HIDE DEF e
        <4>3. ReadSound(e)
          BY <2>0, <4>1, <4>2 DEF ReadSound, HasNew, HasBase
        <4> QED BY <2>a, <4>1, <4>2, <4>3
      <3> QED BY <3>1, <3>2
    <2>6. ASSUME RenameVersionDir(t) PROVE ReleaseInv'
      <3>1. CASE Written(c.new)
        <4>1. ~Replaceable(c.new)
          BY DEF Replaceable
        <4> QED BY <2>6, <2>b, <3>1, <4>1 DEF RenameVersionDir
      <3>2. CASE ~Written(c.new)
        <4> DEFINE e == [c EXCEPT !.pc = "tmp"]
        <4>1. /\ c.new \in Version /\ c.new = pointer + 1 /\ c.pc = "rename"
              /\ dirs' = [dirs EXCEPT ![c.new] = ContentFrom(c, dirs)]
              /\ call' = [call EXCEPT ![t] = e]
              /\ UNCHANGED <<pointer, pointerTmp, changelog>>
              /\ \A s \in Thread : ~Releasing(call[s])
          BY <2>6, <3>2, RenameIsNext DEF RenameVersionDir
        <4>2. /\ e \in Call /\ e.pc = "tmp" /\ e.new = c.new /\ e.base = c.base
              /\ e.codes = c.codes /\ e.diff = c.diff
          BY <2>0 DEF Call
        <4> HIDE DEF e
        <4>3. \A s \in Thread : call'[s] = IF s = t THEN e ELSE call[s]
          BY <1>0, <4>1
        <4>4. /\ dirs'[c.new] = ContentFrom(c, dirs)
              /\ \A v \in Version : v # c.new => dirs'[v] = dirs[v]
          BY <1>0, <4>1
        <4>5. ContentFrom(c, dirs) # NoContent
          <5>1. NewContent(c) \in Promise!Content
            BY <4>1, NewContentIsContent DEF HasBase
          <5> QED BY <5>1, RegistryAssumption DEF NewContent, ContentFrom
        <4>6. DirsInOrder'
          BY <1>0, <4>1, <4>4, <4>5, VersionArithmetic DEF ReleaseInv, DirsInOrder, Written
        <4>7. c.base # 0 => c.base \in Version /\ c.base # c.new
          BY <1>0, <2>0, <4>1, VersionArithmetic DEF ReadSound, HasBase
        <4>8. ContentFrom(e, dirs') = ContentFrom(c, dirs)
          BY <4>2, <4>4, <4>7 DEF ContentFrom
        <4>9. \A s \in Thread : ReadSound(call[s])'
          <5> SUFFICES ASSUME NEW s \in Thread PROVE ReadSound(call[s])'
            OBVIOUS
          <5>1. ReadSound(call[s]) /\ CallSound(call[s]) /\ call[s].base \in 0..MaxVersion
            BY <1>0 DEF ReleaseInv, TypeInv, Call
          <5>2. CASE s = t
            BY <2>0, <4>1, <4>2, <4>3, <4>4, <4>7, <5>2 DEF ReadSound, HasNew, HasBase
          <5>3. CASE s # t
            <6>1. call'[s] = call[s] /\ pointer' = pointer
              BY <4>1, <4>3, <5>3
            <6>2. call[s].pc = "check" => dirs'[pointer] = dirs[pointer]
              BY <4>1, <4>4, <5>1, VersionArithmetic DEF CallSound
            <6>3. call[s].pc \in HasBase /\ call[s].base # 0 =>
                    dirs'[call[s].base] = dirs[call[s].base]
              <7>1. call[s].pc \in HasBase /\ call[s].base # 0 =>
                      call[s].base \in Version /\ Written(call[s].base)
                BY <1>0, <5>1 DEF CallSound, Version
              <7> QED BY <3>2, <4>4, <7>1
            <6> QED BY <5>1, <6>1, <6>2, <6>3 DEF ReadSound, HasBase
          <5> QED BY <5>2, <5>3
        <4>10. \A s \in Thread : ReleaseSound(call[s])'
          <5> SUFFICES ASSUME NEW s \in Thread PROVE ReleaseSound(call[s])'
            OBVIOUS
          <5>1. CASE s = t
            BY <4>1, <4>2, <4>3, <4>4, <4>8, <5>1 DEF ReleaseSound
          <5>2. CASE s # t
            BY <4>1, <4>3, <5>2 DEF ReleaseInv, ReleaseSound, Releasing
          <5> QED BY <5>1, <5>2
        <4>11. OneReleaserAtATime'
          BY <4>1, <4>3 DEF OneReleaserAtATime, Releasing
        <4> QED BY <1>0, <4>1, <4>6, <4>9, <4>10, <4>11 DEF ReleaseInv, ChangelogTruthful
      <3> QED BY <3>1, <3>2
    <2>7. ASSUME WritePointerTmp(t) PROVE ReleaseInv'
      <3> DEFINE e == [c EXCEPT !.pc = "pointer"]
      <3>1. call' = [call EXCEPT ![t] = e] /\ c.pc = "tmp" /\ pointerTmp' = c.new
            /\ UNCHANGED <<dirs, pointer, changelog>>
        BY <1>0, <2>7 DEF WritePointerTmp, Goto
      <3>2. /\ e \in Call /\ e.pc = "pointer" /\ e.new = c.new /\ e.base = c.base
            /\ e.codes = c.codes /\ e.diff = c.diff
        BY <2>0 DEF Call
      <3> HIDE DEF e
      <3>3. ReadSound(e)
        BY <2>0, <3>1, <3>2 DEF ReadSound, HasNew, HasBase
      <3>4. Releasing(c) /\ e.new = pointer + 1 /\ dirs[e.new] = ContentFrom(e, dirs)
        BY <2>0, <3>1, <3>2 DEF ReleaseSound, Releasing, ContentFrom
      <3> QED BY <1>0, <3>1, <3>2, <3>3, <3>4, QuietRelease
    <2>8. ASSUME ReplacePointer(t) PROVE ReleaseInv'
      <3> DEFINE e == [c EXCEPT !.pc = "log"]
      <3>1. /\ c.pc = "pointer" /\ c.new = pointer + 1 /\ c.new \in Version
            /\ pointer' = pointer + 1 /\ pointerTmp' = 0
            /\ call' = [call EXCEPT ![t] = e]
            /\ UNCHANGED <<dirs, changelog>>
            /\ \A s \in Thread : s # t => ~Releasing(call[s])
        BY <2>8, FlipIsNext
      <3>2. /\ e \in Call /\ e.pc = "log" /\ e.new = c.new /\ e.base = c.base
        BY <2>0 DEF Call
      <3> HIDE DEF e
      <3>3. \A s \in Thread : call'[s] = IF s = t THEN e ELSE call[s]
        BY <1>0, <3>1
      <3>4. DirsInOrder'
        <4>1. Written(pointer + 1)
          BY <2>0, <3>1 DEF CallSound
        <4> QED BY <1>0, <3>1, <4>1, VersionArithmetic DEF ReleaseInv, DirsInOrder, Written
      <3>5. \A s \in Thread : ReadSound(call[s])'
        <4> SUFFICES ASSUME NEW s \in Thread PROVE ReadSound(call[s])'
          OBVIOUS
        <4>1. ReadSound(call[s]) /\ call[s].new \in Int
          BY <1>0 DEF ReleaseInv, Call
        <4>2. CASE s = t
          BY <1>0, <2>0, <3>1, <3>2, <3>3, <4>2 DEF ReadSound, HasNew, HasBase
        <4>3. CASE s # t
          BY <1>0, <3>1, <3>3, <4>1, <4>3 DEF ReadSound, HasNew
        <4> QED BY <4>2, <4>3
      <3>6. \A s \in Thread : ReleaseSound(call[s])'
        <4> SUFFICES ASSUME NEW s \in Thread PROVE ReleaseSound(call[s])'
          OBVIOUS
        <4>1. ReleaseSound(call[s]) /\ call[s].new \in Int
          BY <1>0 DEF ReleaseInv, Call
        <4>2. CASE s = t
          BY <1>0, <3>1, <3>2, <3>3, <4>2 DEF ReleaseSound, Releasing
        <4>3. CASE s # t
          BY <1>0, <3>1, <3>3, <4>1, <4>3 DEF ReleaseSound, Releasing
        <4> QED BY <4>2, <4>3
      <3>7. OneReleaserAtATime'
        BY <3>1, <3>2, <3>3 DEF OneReleaserAtATime, Releasing
      <3>8. ChangelogTruthful'
        BY <1>0, <3>1 DEF ChangelogTruthful
      <3> QED BY <3>4, <3>5, <3>6, <3>7, <3>8 DEF ReleaseInv
    <2>9. ASSUME AppendChangelog(t) PROVE ReleaseInv'
      <3> DEFINE e == [c EXCEPT !.pc = IF c.base = 0 THEN "current" ELSE "done"]
      <3>1. /\ call' = [call EXCEPT ![t] = e] /\ c.pc = "log"
            /\ changelog' = changelog \cup {c.new}
            /\ UNCHANGED <<dirs, pointer, pointerTmp>>
        BY <1>0, <2>9 DEF AppendChangelog, Goto
      <3>2. e \in Call /\ e.pc \in {"current", "done"}
        BY <2>0 DEF Call
      <3> HIDE DEF e
      <3>3. ReadSound(e) /\ ~Releasing(e)
        BY <3>2 DEF ReadSound, HasNew, HasBase, Releasing
      <3>4. c.new \in 1..pointer
        BY <1>0, <2>0, <3>1, VersionArithmetic DEF ReleaseSound, CallSound, HasNew
      <3> QED BY <1>0, <3>1, <3>2, <3>3, <3>4, QuietRelease
    <2> QED BY <1>2, <2>1, <2>2, <2>3, <2>4, <2>5, <2>6, <2>7, <2>8, <2>9 DEF Step
  <1>3. ASSUME NEW t \in Thread, Return(t) PROVE ReleaseInv'
    BY <1>0, <1>3, <1>i, QuietRelease DEF Return, Releasing
  <1>4. CASE Crash
    <2>1. /\ \A s \in Thread : call'[s] = IdleCall
          /\ UNCHANGED <<dirs, pointer, pointerTmp, changelog>>
      BY <1>4 DEF Crash
    <2>2. \A s \in Thread : ReadSound(call[s])' /\ ReleaseSound(call[s])' /\ ~Releasing(call'[s])
      BY <1>i, <2>1 DEF ReadSound, ReleaseSound, Releasing, HasNew, HasBase
    <2>3. OneReleaserAtATime'
      BY <2>2 DEF OneReleaserAtATime, Releasing
    <2> QED BY <2>1, <2>2, <2>3 DEF ReleaseInv, DirsInOrder, Written, ChangelogTruthful
  <1>5. CASE UNCHANGED registryVars
    BY <1>5 DEF registryVars, ReleaseInv, DirsInOrder, Written, ChangelogTruthful,
                OneReleaserAtATime, ReadSound, ReleaseSound, Releasing, ContentFrom
  <1>6. ASSUME NEW t \in Thread, FileError(t) PROVE ReleaseInv'
    <2> DEFINE e == [call[t] EXCEPT !.pc = "failed"]
    <2>1. call' = [call EXCEPT ![t] = e] /\ UNCHANGED <<dirs, pointer, pointerTmp, changelog>>
      BY <1>0, <1>6 DEF FileError, Goto
    <2>2. e \in Call /\ e.pc = "failed"
      BY <1>0 DEF Call
    <2> HIDE DEF e
    <2>3. ReadSound(e) /\ ~Releasing(e)
      BY <2>2 DEF ReadSound, HasNew, HasBase, Releasing
    <2> QED BY <1>0, <2>1, <2>2, <2>3, QuietRelease
  <1> QED BY <1>1, <1>2, <1>3, <1>4, <1>5, <1>6 DEF RegistryNext

\* Nothing is being released at the start.
LEMMA ReleaseInit == RegistryInit => ReleaseInv
  <1> SUFFICES ASSUME RegistryInit PROVE ReleaseInv
    OBVIOUS
  <1>1. \A t \in Thread : call[t].pc = "idle"
    BY DEF RegistryInit, IdleCall
  <1>2. \A v \in Version : ~Written(v) /\ ~(v <= pointer)
    BY VersionArithmetic, RegistryAssumption DEF RegistryInit, Written, Version
  <1> QED BY <1>1, <1>2 DEF RegistryInit, ReleaseInv, DirsInOrder, OneReleaserAtATime,
             ReadSound, ReleaseSound, Releasing, HasNew, HasBase, ChangelogTruthful

\* Every call's reads, and the release in progress, are sound.
THEOREM ReleaseInvariant ==
  ASSUME SeedsFiles
  PROVE  RegistrySpecification => []ReleaseInv
  <1>1. TypeInv /\ ReleaseInv /\ [RegistryNext]_registryVars => ReleaseInv'
    BY ReleaseStep
  <1> QED BY <1>1, ReleaseInit, TypeInvariant, PTL DEF RegistrySpecification

\* Without a lock: the rename of the version directory lets one thread at a
\* time on to the pointer, whatever interleaves or dies.
THEOREM RenameExcludes ==
  ASSUME SeedsFiles
  PROVE  RegistrySpecification => []OneReleaserAtATime
  <1>1. ReleaseInv => OneReleaserAtATime
    BY DEF ReleaseInv
  <1> QED BY <1>1, ReleaseInvariant, PTL

\* The changelog never tells of a version that readers cannot see.
THEOREM ChangelogIsTruthful ==
  ASSUME SeedsFiles
  PROVE  RegistrySpecification => []ChangelogTruthful
  <1>1. ReleaseInv => ChangelogTruthful
    BY DEF ReleaseInv
  <1> QED BY <1>1, ReleaseInvariant, PTL

-----------------------------------------------------------------------------
(* What readers of the live profile see of a step. *)

\* Every step but two leaves the directories and the pointer alone.
LEMMA FilesSteps ==
  ASSUME SeedsFiles, TypeInv, ReleaseInv, [RegistryNext]_registryVars
  PROVE  \/ UNCHANGED <<dirs, pointer>>
         \/ \E t \in Thread : RenameVersionDir(t) /\ ~Written(call[t].new)
         \/ \E t \in Thread : ReplacePointer(t)
  <1>1. ASSUME NEW t \in Thread, Step(t)
        PROVE  \/ UNCHANGED <<dirs, pointer>>
               \/ RenameVersionDir(t) /\ ~Written(call[t].new)
               \/ ReplacePointer(t)
    <2>1. RenameVersionDir(t) => UNCHANGED <<dirs, pointer>> \/ ~Written(call[t].new)
      BY DEF RenameVersionDir, Replaceable
    <2> QED BY <1>1, <2>1
            DEF Step, EnsureSeeded, ReadCurrent, ComputeChangedFiles, CheckMonotone,
                CheckVersionDir, WritePointerTmp, AppendChangelog
  <1>2. ASSUME NEW t \in Thread, Return(t) \/ FileError(t) \/ \E d \in Promise!Diff : Apply(t, d)
        PROVE  UNCHANGED <<dirs, pointer>>
    BY <1>2 DEF Return, FileError, Apply
  <1>3. Crash \/ UNCHANGED registryVars => UNCHANGED <<dirs, pointer>>
    BY DEF Crash, registryVars
  <1> QED BY <1>1, <1>2, <1>3 DEF RegistryNext

\* What a step does to the directories and the pointer.
LEMMA VersionsStep ==
  ASSUME SeedsFiles, TypeInv, ReleaseInv, [RegistryNext]_registryVars
  PROVE  /\ \A v \in Version : Written(v) => dirs'[v] = dirs[v]
         /\ pointer' \in {pointer, pointer + 1}
  <1> DEFINE A == /\ \A v \in Version : Written(v) => dirs'[v] = dirs[v]
                  /\ pointer' \in {pointer, pointer + 1}
  <1>1. CASE UNCHANGED <<dirs, pointer>>
    BY <1>1
  <1>2. ASSUME NEW t \in Thread, RenameVersionDir(t), ~Written(call[t].new) PROVE A
    BY <1>2, RenameIsNext DEF TypeInv, RegistryTypeOK
  <1>3. ASSUME NEW t \in Thread, ReplacePointer(t) PROVE A
    BY <1>3, FlipIsNext
  <1> QED BY <1>1, <1>2, <1>3, FilesSteps

\* A version is immutable once written, and the live version goes up by one.
THEOREM VersionsNeverChange ==
  ASSUME SeedsFiles
  PROVE  RegistrySpecification => VersionsImmutable
  <1> DEFINE A == /\ \A v \in Version : Written(v) => dirs'[v] = dirs[v]
                  /\ pointer' \in {pointer, pointer + 1}
  <1>1. TypeInv /\ ReleaseInv /\ [RegistryNext]_registryVars => [A]_registryVars
    BY VersionsStep
  <1> QED BY <1>1, ReleaseInvariant, TypeInvariant, PTL DEF RegistrySpecification, VersionsImmutable

\* A flip is a seed or a release: the diff it was called with, on top of the
\* profile that is live at that moment.
LEMMA FlipReleases ==
  ASSUME SeedsFiles, TypeInv, ReleaseInv, NEW t \in Thread, ReplacePointer(t)
  PROVE  Promise!RegistryNext
  <1> DEFINE c == call[t]
  <1>1. c.pc = "pointer" /\ c.new = pointer + 1 /\ pointer' = pointer + 1 /\ dirs' = dirs
    BY FlipIsNext
  <1>2. /\ ReadSound(c) /\ ReleaseSound(c) /\ c.diff \in Promise!Diff
        /\ pointer \in Nat
        /\ pointer # 0 => Written(pointer)
    BY VersionArithmetic DEF ReleaseInv, TypeInv, RegistryTypeOK, Call
  <1>3. c.base = pointer /\ dirs[pointer + 1] = ContentFrom(c, dirs)
        /\ (c.base # 0 => c.codes = dirs[c.base].codes)
    BY <1>1, <1>2 DEF ReadSound, ReleaseSound, Releasing, HasBase
  <1>4. Live' = ContentFrom(c, dirs)
    BY <1>1, <1>2, <1>3 DEF Live
  <1>5. CASE pointer = 0
    BY <1>3, <1>4, <1>5 DEF ContentFrom, Live, Promise!RegistryNext, Promise!Seeds
  <1>6. CASE pointer # 0
    <2>1. Live = dirs[pointer] /\ Live # NoContent
      BY <1>2, <1>6 DEF Live, Written
    <2>2. Live' = Promise!Patched(Live, Live.codes, c.diff)
      BY <1>3, <1>4, <1>6, <2>1 DEF ContentFrom
    <2> QED BY <1>2, <2>1, <2>2 DEF Promise!RegistryNext, Promise!Releases
  <1> QED BY <1>5, <1>6

\* Readers see a step of the registry as a release, a seed or nothing.
LEMMA ReadersSeeReleases ==
  ASSUME SeedsFiles, TypeInv, ReleaseInv, [RegistryNext]_registryVars
  PROVE  [Promise!RegistryNext]_Live
  <1>1. CASE UNCHANGED <<dirs, pointer>>
    BY <1>1 DEF Live
  <1>2. ASSUME NEW t \in Thread, RenameVersionDir(t), ~Written(call[t].new) PROVE Live' = Live
    <2>1. pointer # 0 => pointer \in Version /\ pointer # call[t].new
      BY <1>2, RenameIsNext, VersionArithmetic
    <2> QED BY <1>2, <2>1, RenameIsNext DEF Live, TypeInv, RegistryTypeOK
  <1>3. ASSUME NEW t \in Thread, ReplacePointer(t) PROVE Promise!RegistryNext
    BY <1>3, FlipReleases
  <1> QED BY <1>1, <1>2, <1>3, FilesSteps

LEMMA NothingIsPromised == RegistryInit => Promise!RegistryInit
  BY DEF RegistryInit, Promise!RegistryInit, Live

\* The registry implements its promise, with the pointer flip as the only step
\* that readers see: whole diffs, each on top of the last, none lost.
THEOREM ReleasesAreAtomicFlips ==
  ASSUME SeedsFiles
  PROVE  RegistrySpecification => ReleasesAreAtomic
  <1>1. TypeInv /\ ReleaseInv /\ [RegistryNext]_registryVars => [Promise!RegistryNext]_Live
    BY ReadersSeeReleases
  <1> QED BY <1>1, NothingIsPromised, ReleaseInvariant, TypeInvariant, PTL
          DEF RegistrySpecification, ReleasesAreAtomic, Promise!RegistrySpecification

-----------------------------------------------------------------------------
(* The proposals. *)

\* The types, and that a request under way is about a proposal.
RequestsTyped ==
  /\ proposals \in [Proposal -> ProposalRow]
  /\ specs \subseteq Proposal
  /\ dec \in [Thread -> Request]
  /\ \A t \in Thread : dec[t].pc # "idle" => dec[t].proposal \in Proposal

\* An apply that has flipped the pointer to a version of its own.
InHand(c) == c.pc = "done" \/ (c.pc = "log" /\ c.base # 0)

\* A version readers can see, of a content that holds the diff.
Released(v, d) == v \in 1..pointer /\ Reflects(v, d)

\* Without an edit, the diff that is applied is the proposal's own.
DiffSound(r) == ~r.edited => r.diff = DiffOf[r.proposal]

\* The approval of a declarative proposal, about to be written.
CommitsVersion(r) == r.pc = "commit" /\ r.to = "approved" /\ r.proposal \in Declarative

RequestSound(r) ==
  /\ r.pc = "apply" => r.proposal \in Declarative /\ r.to = "approved" /\ DiffSound(r)
  /\ r.pc = "export" => r.proposal \notin Declarative /\ r.to = "approved"
  /\ r.pc = "commit" => r.to \notin {"none", "pending_hitl"}
  /\ CommitsVersion(r) => Released(r.version, r.diff) /\ DiffSound(r)
  /\ r.pc = "commit" /\ r.to = "approved" /\ r.proposal \notin Declarative => r.proposal \in specs

\* The registry call of a thread is the one its request waits for.
CallSoundFor(r, c) ==
  /\ r.pc = "apply" => c.pc # "idle" /\ c.diff = r.diff
  /\ r.pc # "apply" => c.pc = "idle"
  /\ InHand(c) => Released(c.new, c.diff)

\* The version a thread will put in the proposal's row, from its flip to its UPDATE.
Claim(r, c) ==
  IF CommitsVersion(r) THEN {r.version} ELSE IF InHand(c) THEN {c.new} ELSE {}

\* Each released version is claimed by one thread or by one approved proposal.
ClaimsDisjoint ==
  /\ \A t, u \in Thread : t # u => Claim(dec[t], call[t]) \cap Claim(dec[u], call[u]) = {}
  /\ \A p \in Declarative, t \in Thread :
       proposals[p].status = "approved" =>
         proposals[p].applied_version \notin Claim(dec[t], call[t])

ApprovalInv ==
  /\ \A t \in Thread : RequestSound(dec[t]) /\ CallSoundFor(dec[t], call[t])
  /\ ApprovedIsApplied
  /\ ClaimsDisjoint
  /\ VersionsNotShared

-----------------------------------------------------------------------------
(* The registry under the proposals. *)

\* What an approver applies is a diff: the stored one, or an allowed edit.
LEMMA DiffsAreDiffs ==
  /\ NoDiff \in Promise!Diff
  /\ \A p \in Declarative : DiffOf[p] \in Promise!Diff
  /\ \A d \in EditedDiffs : d \in Promise!Diff
  BY IdleIsCall, ProposalAssumption DEF IdleCall, Call

\* Every step is a step of the registry, or leaves it alone.
LEMMA RegistryMoves == TypeInv /\ [Next]_vars => [RegistryNext]_registryVars
  <1> SUFFICES ASSUME TypeInv, [Next]_vars PROVE [RegistryNext]_registryVars
    OBVIOUS
  <1>1. ASSUME NEW t \in Thread, Decide(t) PROVE [RegistryNext]_registryVars
    <2>1. ASSUME NEW p \in Proposal, NEW a \in Actor, NEW e, NEW d,
                 e => d \in EditedDiffs, ApproveDeclarative(t, p, a, e, d)
          PROVE  RegistryNext
      <3>1. EffectiveDiff(p, d, e) \in Promise!Diff
        BY <2>1, DiffsAreDiffs DEF ApproveDeclarative, EffectiveDiff
      <3> QED BY <2>1, <3>1 DEF ApproveDeclarative, RegistryNext
    <2>2. ASSUME NEW p \in Proposal, NEW a \in Actor,
                 \/ ApproveCode(t, p, a)
                 \/ \E to \in {"rejected", "withdrawn"} : DecideAgainst(t, p, to, a)
          PROVE  UNCHANGED registryVars
      BY <2>2 DEF ApproveCode, DecideAgainst
    <2> QED BY <1>1, <2>1, <2>2 DEF Decide
  <1>2. ASSUME NEW t \in Thread, ApplyStep(t) \/ AfterApply(t) PROVE [RegistryNext]_registryVars
    BY <1>2 DEF ApplyStep, AfterApply, RegistryNext
  <1>3. CASE Restart
    <2>1. /\ MayBreak /\ call' = [t \in Thread |-> IdleCall]
          /\ UNCHANGED <<dirs, pointer, pointerTmp, changelog>>
      BY <1>3 DEF Restart
    <2>2. CASE \E t \in Thread : call[t] # IdleCall
      BY <2>1, <2>2 DEF Crash, RegistryNext
    <2>3. CASE \A t \in Thread : call[t] = IdleCall
      <3>1. call' = call
        BY <2>1, <2>3 DEF TypeInv, RegistryTypeOK
      <3> QED BY <2>1, <3>1 DEF registryVars
    <2> QED BY <2>2, <2>3
  <1>4. ASSUME NEW p \in Proposal, Create(p) PROVE UNCHANGED registryVars
    BY <1>4 DEF Create
  <1>5. ASSUME NEW t \in Thread,
               \/ RecordDryRun(t) \/ ExportSpec(t) \/ SetStatus(t) \/ RequestFails(t)
               \/ \E p \in Proposal : DryRun(t, p)
        PROVE  UNCHANGED registryVars
    BY <1>5 DEF RecordDryRun, ExportSpec, SetStatus, RequestFails, DryRun
  <1>6. UNCHANGED vars => UNCHANGED registryVars
    BY DEF vars
  <1> QED BY <1>1, <1>2, <1>3, <1>4, <1>5, <1>6 DEF Next

\* The registry's invariants hold under the proposals.
LEMMA RegistryHolds ==
  ASSUME SeedsFiles
  PROVE  Spec => [](TypeInv /\ ReleaseInv)
  <1>1. Init => TypeInv /\ ReleaseInv
    BY TypeInit, ReleaseInit DEF Init
  <1>2. TypeInv /\ ReleaseInv /\ [Next]_vars => (TypeInv /\ ReleaseInv)'
    BY RegistryMoves, TypeStep, ReleaseStep
  <1> QED BY <1>1, <1>2, PTL DEF Spec

\* What ProfileRegistry promises its callers it keeps under the workflow: with
\* any number of threads deciding, file operations failing and the process dying
\* inside a decision, readers still see whole releases, each on top of the last,
\* versions are never rewritten, one call releases at a time and the changelog
\* is true.
THEOREM ApprovalsReleaseAtomically ==
  ASSUME SeedsFiles
  PROVE  Spec => /\ ReleasesAreAtomic
                 /\ VersionsImmutable
                 /\ [](OneReleaserAtATime /\ ChangelogTruthful)
  <1> DEFINE A == /\ \A v \in Version : Written(v) => dirs'[v] = dirs[v]
                  /\ pointer' \in {pointer, pointer + 1}
  <1>1. Init => Promise!RegistryInit
    BY NothingIsPromised DEF Init
  <1>2. TypeInv /\ ReleaseInv /\ [Next]_vars => [Promise!RegistryNext]_Live
    BY RegistryMoves, ReadersSeeReleases
  <1>3. TypeInv /\ ReleaseInv /\ [Next]_vars => [A]_registryVars
    BY RegistryMoves, VersionsStep
  <1>4. ReleaseInv => OneReleaserAtATime /\ ChangelogTruthful
    BY DEF ReleaseInv
  <1> QED BY <1>1, <1>2, <1>3, <1>4, RegistryHolds, PTL
          DEF Spec, ReleasesAreAtomic, Promise!RegistrySpecification, VersionsImmutable

\* A released version is there for good, with the diff it holds.
LEMMA ReleasedStays ==
  ASSUME SeedsFiles, TypeInv, ReleaseInv, [RegistryNext]_registryVars,
         NEW v, NEW d, Released(v, d)
  PROVE  Released(v, d)'
  <1>1. v \in 1..pointer /\ v \in Version /\ pointer \in Nat
    BY VersionArithmetic, RegistryAssumption DEF Released, Version, TypeInv, RegistryTypeOK
  <1>2. Written(v) /\ dirs'[v] = dirs[v] /\ pointer' \in {pointer, pointer + 1}
    BY <1>1, VersionsStep DEF ReleaseInv, DirsInOrder
  <1> QED BY <1>1, <1>2 DEF Released, Reflects

\* A step of an apply moves its call on; it gets its version with the flip,
\* and the new live content holds the diff it was called with.
LEMMA ApplyMoves ==
  ASSUME SeedsFiles, TypeInv, ReleaseInv, NEW t \in Thread, Step(t) \/ FileError(t)
  PROVE  \E c \in Call :
           /\ call' = [call EXCEPT ![t] = c]
           /\ c.pc # "idle" /\ c.diff = call[t].diff
           /\ InHand(c) => \/ InHand(call[t]) /\ c.new = call[t].new
                           \/ /\ c.new = pointer + 1 /\ pointer' = pointer + 1
                              /\ dirs' = dirs /\ Reflects(c.new, c.diff)
  <1> DEFINE b == call[t]
             G(c) == /\ call' = [call EXCEPT ![t] = c]
                     /\ c.pc # "idle" /\ c.diff = b.diff
                     /\ InHand(c) => \/ InHand(b) /\ c.new = b.new
                                     \/ /\ c.new = pointer + 1 /\ pointer' = pointer + 1
                                        /\ dirs' = dirs /\ Reflects(c.new, c.diff)
  <1>0. call \in [Thread -> Call] /\ b \in Call /\ call' \in [Thread -> Call]
    <2>1. TypeInv'
      BY TypeStep DEF RegistryNext
    <2> QED BY <2>1 DEF TypeInv, RegistryTypeOK
  <1>1. CASE ReplacePointer(t)
    <2> DEFINE c == [b EXCEPT !.pc = "log"]
    <2>1. /\ b.pc = "pointer" /\ b.new = pointer + 1 /\ pointer' = pointer + 1
          /\ call' = [call EXCEPT ![t] = c] /\ dirs' = dirs
      BY <1>1, FlipIsNext
    <2>2. c \in Call /\ c.pc = "log" /\ c.diff = b.diff /\ c.new = b.new /\ c.base = b.base
      BY <1>0 DEF Call
    <2>3. dirs[b.new] = ContentFrom(b, dirs)
      BY <2>1 DEF ReleaseInv, ReleaseSound, Releasing
    <2>4. b.base # 0 => Reflects(b.new, b.diff)
      <3>1. b.diff \in Promise!Diff
        BY <1>0 DEF Call
      <3> QED BY <2>3, <3>1 DEF ContentFrom, Reflects, Promise!Patched, Promise!CodesAfter, Promise!Diff
    <2> HIDE DEF c
    <2>5. G(c)
      BY <2>1, <2>2, <2>4 DEF InHand
    <2> QED BY <2>2, <2>5
  <1>2. CASE AppendChangelog(t)
    <2> DEFINE c == [b EXCEPT !.pc = IF b.base = 0 THEN "current" ELSE "done"]
    <2>1. call' = [call EXCEPT ![t] = c] /\ b.pc = "log"
      BY <1>0, <1>2 DEF AppendChangelog, Goto
    <2>2. /\ c \in Call /\ c.diff = b.diff /\ c.new = b.new
          /\ c.pc = IF b.base = 0 THEN "current" ELSE "done"
      BY <1>0 DEF Call
    <2> HIDE DEF c
    <2>3. G(c)
      BY <2>1, <2>2 DEF InHand
    <2> QED BY <2>2, <2>3
  <1>3. CASE ~ReplacePointer(t) /\ ~AppendChangelog(t)
    <2> DEFINE c == call'[t]
    <2>1. c.diff = b.diff /\ c.pc \notin {"idle", "log", "done"} /\ call' = [call EXCEPT ![t] = c]
      BY <1>0, <1>3 DEF Step, EnsureSeeded, ReadCurrent, ComputeChangedFiles, CheckMonotone,
            CheckVersionDir, RenameVersionDir, WritePointerTmp, FileError, Goto, Call
    <2> QED BY <1>0, <2>1 DEF InHand
  <1> QED BY <1>1, <1>2, <1>3

-----------------------------------------------------------------------------
(* Types. *)

\* A request that does nothing is a request.
LEMMA IdleIsRequest ==
  /\ IdleRequest \in Request
  /\ IdleRequest.pc = "idle" /\ IdleRequest.edited = FALSE /\ IdleRequest.version = 0
  BY DiffsAreDiffs, RegistryAssumption DEF IdleRequest, Request, ProposalStatus

\* A step of one thread's request, that leaves the rows well formed.
LEMMA TypedMove ==
  ASSUME RequestsTyped, proposals' \in [Proposal -> ProposalRow], specs' \subseteq Proposal,
         NEW t \in Thread, NEW r \in Request, dec' = [dec EXCEPT ![t] = r],
         r.pc # "idle" => r.proposal \in Proposal
  PROVE  RequestsTyped'
  BY DEF RequestsTyped

\* Every step keeps the types of the proposals and of the requests.
LEMMA TypedStep == TypeInv /\ RequestsTyped /\ [Next]_vars => RequestsTyped'
  <1> SUFFICES ASSUME TypeInv, RequestsTyped, [Next]_vars PROVE RequestsTyped'
    OBVIOUS
  <1>0. /\ proposals \in [Proposal -> ProposalRow] /\ specs \subseteq Proposal
        /\ dec \in [Thread -> Request] /\ call \in [Thread -> Call]
    BY DEF RequestsTyped, TypeInv, RegistryTypeOK
  <1>i. IdleRequest \in Request /\ IdleRequest.pc = "idle"
    BY IdleIsRequest
  <1>1. ASSUME NEW p \in Proposal, Create(p) PROVE RequestsTyped'
    <2>1. proposals' \in [Proposal -> ProposalRow]
      BY <1>0, <1>1 DEF Create, ProposalRow, ProposalStatus
    <2> QED BY <1>1, <2>1 DEF Create, RequestsTyped
  <1>2. ASSUME NEW t \in Thread, NEW p \in Proposal, DryRun(t, p) PROVE RequestsTyped'
    <2> DEFINE r == [IdleRequest EXCEPT !.pc = "record", !.proposal = p]
    <2>1. r \in Request /\ r.pc = "record" /\ r.proposal = p
      BY <1>i DEF Request
    <2> QED BY <1>0, <1>2, <2>1, TypedMove DEF DryRun
  <1>3. ASSUME NEW t \in Thread, RecordDryRun(t) PROVE RequestsTyped'
    <2>1. proposals' \in [Proposal -> ProposalRow]
      BY <1>0, <1>3 DEF RecordDryRun, ProposalRow, ProposalStatus
    <2> QED BY <1>0, <1>3, <1>i, <2>1, TypedMove DEF RecordDryRun
  <1>4. ASSUME NEW t \in Thread, NEW p \in Proposal, NEW a \in Actor,
               NEW to \in {"rejected", "withdrawn"}, DecideAgainst(t, p, to, a)
        PROVE  RequestsTyped'
    <2> DEFINE r == [IdleRequest EXCEPT !.pc = "commit", !.proposal = p, !.to = to]
    <2>1. r \in Request /\ r.pc = "commit" /\ r.proposal = p
      BY <1>i DEF Request, ProposalStatus
    <2> QED BY <1>0, <1>4, <2>1, TypedMove DEF DecideAgainst
  <1>5. ASSUME NEW t \in Thread, NEW p \in Proposal, NEW a \in Actor, NEW e \in BOOLEAN, NEW d,
               e => d \in EditedDiffs, ApproveDeclarative(t, p, a, e, d)
        PROVE  RequestsTyped'
    <2> DEFINE x == EffectiveDiff(p, d, e)
               r == [IdleRequest EXCEPT !.pc = "apply", !.proposal = p, !.to = "approved",
                       !.diff = x, !.edited = e]
    <2>1. x \in Promise!Diff
      BY <1>5, DiffsAreDiffs DEF ApproveDeclarative, EffectiveDiff
    <2> HIDE DEF x
    <2>2. r \in Request /\ r.pc = "apply" /\ r.proposal = p
      BY <1>i, <2>1 DEF Request, ProposalStatus
    <2>3. dec' = [dec EXCEPT ![t] = r] /\ UNCHANGED <<proposals, specs>>
      BY <1>5 DEF ApproveDeclarative, x
    <2> QED BY <1>0, <2>2, <2>3, TypedMove
  <1>6. ASSUME NEW t \in Thread, NEW p \in Proposal, NEW a \in Actor, ApproveCode(t, p, a)
        PROVE  RequestsTyped'
    <2> DEFINE r == [IdleRequest EXCEPT !.pc = "export", !.proposal = p, !.to = "approved"]
    <2>1. r \in Request /\ r.pc = "export" /\ r.proposal = p
      BY <1>i DEF Request, ProposalStatus
    <2> QED BY <1>0, <1>6, <2>1, TypedMove DEF ApproveCode
  <1>7. ASSUME NEW t \in Thread, Decide(t) PROVE RequestsTyped'
    BY <1>4, <1>5, <1>6, <1>7 DEF Decide
  <1>8. ASSUME NEW t \in Thread, ApplyStep(t) PROVE RequestsTyped'
    BY <1>8 DEF ApplyStep, RequestsTyped
  <1>9. ASSUME NEW t \in Thread, AfterApply(t) PROVE RequestsTyped'
    <2> DEFINE r == [dec[t] EXCEPT !.pc = "commit", !.version = call[t].new]
    <2>1. r \in Request /\ r.proposal = dec[t].proposal /\ dec[t].proposal \in Proposal
      <3>1. dec[t] \in Request /\ dec[t].pc = "apply" /\ call[t].new \in 0..MaxVersion
        BY <1>0, <1>9 DEF AfterApply, Call
      <3> QED BY <3>1 DEF Request, RequestsTyped
    <2>2. UNCHANGED <<proposals, specs>>
      BY <1>9 DEF AfterApply
    <2>3. CASE call[t].pc = "done"
      <3>1. dec' = [dec EXCEPT ![t] = r]
        BY <1>0, <1>9, <2>3 DEF AfterApply
      <3> QED BY <1>0, <2>1, <2>2, <3>1, TypedMove
    <2>4. CASE call[t].pc # "done"
      <3>1. dec' = [dec EXCEPT ![t] = IdleRequest]
        BY <1>9, <2>4 DEF AfterApply
      <3> QED BY <1>0, <1>i, <2>2, <3>1, TypedMove
    <2> QED BY <2>3, <2>4
  <1>10. ASSUME NEW t \in Thread, ExportSpec(t) PROVE RequestsTyped'
    <2> DEFINE r == [dec[t] EXCEPT !.pc = "commit"]
    <2>1. /\ r \in Request /\ r.proposal = dec[t].proposal /\ dec[t].proposal \in Proposal
          /\ dec' = [dec EXCEPT ![t] = r]
      BY <1>0, <1>10 DEF ExportSpec, Request, RequestsTyped
    <2> QED BY <1>0, <1>10, <2>1, TypedMove DEF ExportSpec
  <1>11. ASSUME NEW t \in Thread, SetStatus(t) PROVE RequestsTyped'
    <2>1. dec[t] \in Request /\ dec[t].proposal \in Proposal
      BY <1>0, <1>11 DEF SetStatus, RequestsTyped
    <2>2. proposals[dec[t].proposal] \in ProposalRow
      BY <1>0, <2>1
    <2>3. Decided(dec[t]) \in ProposalRow
      <3> DEFINE b == dec[t].to = "approved" /\ dec[t].proposal \notin Declarative
      <3>1. b \in BOOLEAN
        OBVIOUS
      <3> HIDE DEF b
      <3>2. Decided(dec[t]) = [proposals[dec[t].proposal] EXCEPT
              !.status = dec[t].to, !.edited = dec[t].edited, !.diff = dec[t].diff,
              !.applied_version = dec[t].version, !.spec = b]
        BY DEF Decided, b
      <3> QED BY <2>1, <2>2, <3>1, <3>2 DEF ProposalRow, Request
    <2> HIDE DEF Decided
    <2>4. proposals' \in [Proposal -> ProposalRow]
      BY <1>0, <1>11, <2>1, <2>3 DEF SetStatus
    <2> QED BY <1>0, <1>11, <1>i, <2>4, TypedMove DEF SetStatus
  <1>12. CASE Restart
    BY <1>0, <1>12, <1>i DEF Restart, RequestsTyped
  <1>13. CASE UNCHANGED vars
    BY <1>13 DEF vars, RequestsTyped
  <1>14. ASSUME NEW t \in Thread, RequestFails(t) PROVE RequestsTyped'
    BY <1>0, <1>14, <1>i, TypedMove DEF RequestFails
  <1> QED BY <1>1, <1>2, <1>3, <1>7, <1>8, <1>9, <1>10, <1>11, <1>12, <1>13, <1>14, Zenon DEF Next

\* The tables and the requests are well formed, and the registry below them.
THEOREM ProposalTyping == Spec => []TypeOK
  <1>1. Init => RequestsTyped
    <2> SUFFICES ASSUME Init PROVE RequestsTyped
      OBVIOUS
    <2>1. proposals \in [Proposal -> ProposalRow]
      BY DiffsAreDiffs, RegistryAssumption DEF Init, ProposalRow, ProposalStatus
    <2> QED BY <2>1, IdleIsRequest DEF Init, RequestsTyped
  <1>2. TypeInv /\ RequestsTyped => TypeOK
    BY DEF TypeInv, RequestsTyped, TypeOK
  <1>3. Init => TypeInv
    BY TypeInit DEF Init
  <1>4. TypeInv /\ [Next]_vars => TypeInv'
    BY RegistryMoves, TypeStep
  <1> QED BY <1>1, <1>2, <1>3, <1>4, TypedStep, PTL DEF Spec

-----------------------------------------------------------------------------
(* Approvals. *)

\* A decision that was taken stays as it is, an open one is not approved.
KeepsApprovals ==
  \A p \in Proposal :
    \/ /\ proposals'[p].status = proposals[p].status
       /\ proposals'[p].applied_version = proposals[p].applied_version
       /\ proposals'[p].edited = proposals[p].edited
       /\ proposals'[p].diff = proposals[p].diff
       /\ proposals'[p].spec = proposals[p].spec
    \/ proposals[p].status # "approved" /\ proposals'[p].status # "approved"

\* What a thread that is left alone relies on.
LEMMA OthersStaySound ==
  ASSUME SeedsFiles, TypeInv, ReleaseInv, [RegistryNext]_registryVars, specs \subseteq specs',
         NEW r, NEW c, RequestSound(r), CallSoundFor(r, c)
  PROVE  RequestSound(r)' /\ CallSoundFor(r, c)'
  <1>1. CommitsVersion(r) => Released(r.version, r.diff)'
    BY ReleasedStays DEF RequestSound
  <1>2. InHand(c) => Released(c.new, c.diff)'
    BY ReleasedStays DEF CallSoundFor
  <1> QED BY <1>1, <1>2 DEF RequestSound, CallSoundFor, DiffSound, CommitsVersion, InHand

\* What is approved stays applied, and its version its own.
LEMMA ApprovedStay ==
  ASSUME SeedsFiles, TypeInv, ReleaseInv, RequestsTyped, ApprovalInv,
         [RegistryNext]_registryVars, specs \subseteq specs', KeepsApprovals
  PROVE  ApprovedIsApplied' /\ VersionsNotShared'
  <1>1. ASSUME NEW p \in Proposal, proposals'[p].status = "approved"
        PROVE  IF p \in Declarative
               THEN /\ proposals'[p].applied_version \in 1..pointer'
                    /\ ~proposals'[p].edited => proposals'[p].diff = DiffOf[p]
                    /\ Reflects(proposals[p].applied_version, proposals[p].diff)'
               ELSE p \in specs' /\ proposals'[p].spec
    <2>0. /\ proposals[p].status = "approved" /\ proposals'[p].spec = proposals[p].spec
          /\ proposals'[p].applied_version = proposals[p].applied_version
          /\ proposals'[p].edited = proposals[p].edited
          /\ proposals'[p].diff = proposals[p].diff
      BY <1>1 DEF KeepsApprovals
    <2>1. CASE p \in Declarative
      <3>1. /\ ~proposals[p].edited => proposals[p].diff = DiffOf[p]
            /\ Reflects(proposals[p].applied_version, proposals[p].diff)
        BY <2>0, <2>1 DEF ApprovalInv, ApprovedIsApplied
      <3>2. PICK v, d : v = proposals[p].applied_version /\ d = proposals[p].diff
        OBVIOUS
      <3>3. Released(v, d)
        BY <2>0, <2>1, <3>1, <3>2 DEF ApprovalInv, ApprovedIsApplied, Released
      <3>4. Released(v, d)'
        BY <3>3, ReleasedStays
      <3>5. v = proposals'[p].applied_version /\ d = proposals'[p].diff
        BY <2>0, <3>2
      <3> QED BY <2>0, <2>1, <3>1, <3>4, <3>5 DEF Released, Reflects
    <2>2. CASE p \notin Declarative
      BY <2>0, <2>2 DEF ApprovalInv, ApprovedIsApplied
    <2> QED BY <2>1, <2>2
  <1>2. ApprovedIsApplied'
    BY <1>1 DEF ApprovedIsApplied
  <1>3. VersionsNotShared'
    BY DEF ApprovalInv, VersionsNotShared, KeepsApprovals
  <1> QED BY <1>2, <1>3

\* A step of one thread, after which it claims at most what it did before, or
\* the version it has just flipped to.
LEMMA QuietApproval ==
  ASSUME SeedsFiles, TypeInv, ReleaseInv, RequestsTyped, ApprovalInv,
         [RegistryNext]_registryVars, specs \subseteq specs', KeepsApprovals,
         NEW t \in Thread, NEW r \in Request, NEW c \in Call,
         dec' = [dec EXCEPT ![t] = r], call' = [call EXCEPT ![t] = c],
         RequestSound(r)', CallSoundFor(r, c)',
         Claim(r, c) \subseteq Claim(dec[t], call[t]) \cup {pointer + 1}
  PROVE  ApprovalInv'
  <1>0. /\ pointer \in Nat
        /\ \A s \in Thread : /\ dec'[s] = IF s = t THEN r ELSE dec[s]
                            /\ call'[s] = IF s = t THEN c ELSE call[s]
    BY VersionArithmetic DEF TypeInv, RegistryTypeOK, RequestsTyped
  <1>1. \A s \in Thread : RequestSound(dec[s])' /\ CallSoundFor(dec[s], call[s])'
    <2> SUFFICES ASSUME NEW s \in Thread
                 PROVE  RequestSound(dec[s])' /\ CallSoundFor(dec[s], call[s])'
      OBVIOUS
    <2>1. PICK q, b : q = dec'[s] /\ b = call'[s]
      OBVIOUS
    <2>2. CASE s = t
      <3>1. q = r /\ b = c
        BY <1>0, <2>1, <2>2
      <3>2. RequestSound(q)' /\ CallSoundFor(q, b)'
        BY <3>1
      <3> QED BY <2>1, <3>2 DEF RequestSound, CallSoundFor, CommitsVersion, DiffSound, InHand, Released, Reflects
    <2>3. CASE s # t
      <3>1. q = dec[s] /\ b = call[s]
        BY <1>0, <2>1, <2>3
      <3>2. RequestSound(q) /\ CallSoundFor(q, b)
        BY <3>1 DEF ApprovalInv
      <3>3. RequestSound(q)' /\ CallSoundFor(q, b)'
        BY <3>2, OthersStaySound
      <3> QED BY <2>1, <3>3 DEF RequestSound, CallSoundFor, CommitsVersion, DiffSound, InHand, Released, Reflects
    <2> QED BY <2>2, <2>3
  <1>2. \A s \in Thread : pointer + 1 \notin Claim(dec[s], call[s])
    BY <1>0 DEF ApprovalInv, RequestSound, CallSoundFor, Claim, Released
  <1>3. \A s \in Thread : Claim(dec[s], call[s])' = IF s = t THEN Claim(r, c) ELSE Claim(dec[s], call[s])
    <2>1. Claim(dec[t], call[t])' = Claim(r, c)
      BY <1>0 DEF Claim, CommitsVersion, InHand
    <2>2. ASSUME NEW s \in Thread, s # t PROVE Claim(dec[s], call[s])' = Claim(dec[s], call[s])
      BY <1>0, <2>2 DEF Claim, CommitsVersion, InHand
    <2> QED BY <2>1, <2>2
  <1>4. \A p \in Declarative :
          proposals'[p].status = "approved" =>
            /\ proposals[p].status = "approved"
            /\ proposals'[p].applied_version = proposals[p].applied_version
            /\ proposals[p].applied_version # pointer + 1
    BY <1>0, ProposalAssumption DEF KeepsApprovals, ApprovalInv, ApprovedIsApplied
  <1>5. ClaimsDisjoint'
    <2>1. ASSUME NEW s \in Thread, NEW u \in Thread, s # u
          PROVE  Claim(dec[s], call[s])' \cap Claim(dec[u], call[u])' = {}
      <3>1. Claim(dec[s], call[s]) \cap Claim(dec[u], call[u]) = {}
        BY <2>1 DEF ApprovalInv, ClaimsDisjoint
      <3> QED BY <1>2, <1>3, <2>1, <3>1
    <2>2. ASSUME NEW p \in Declarative, NEW s \in Thread, proposals'[p].status = "approved"
          PROVE  proposals'[p].applied_version \notin Claim(dec[s], call[s])'
      <3>1. \A u \in Thread : proposals[p].applied_version \notin Claim(dec[u], call[u])
        BY <1>4, <2>2 DEF ApprovalInv, ClaimsDisjoint
      <3> QED BY <1>3, <1>4, <2>2, <3>1
    <2> QED BY <2>1, <2>2 DEF ClaimsDisjoint
  <1>6. ApprovedIsApplied' /\ VersionsNotShared'
    BY ApprovedStay
  <1> QED BY <1>1, <1>5, <1>6 DEF ApprovalInv

\* A step of one thread's request that leaves the registry alone.
LEMMA RequestMoves ==
  ASSUME SeedsFiles, TypeInv, ReleaseInv, RequestsTyped, ApprovalInv,
         UNCHANGED registryVars, specs \subseteq specs', KeepsApprovals,
         NEW t \in Thread, dec[t].pc # "apply",
         NEW r \in Request, dec' = [dec EXCEPT ![t] = r],
         r.pc # "apply", ~CommitsVersion(r), RequestSound(r)'
  PROVE  ApprovalInv'
  <1>1. PICK c \in Call : c = call[t]
    BY DEF TypeInv, RegistryTypeOK
  <1>2. call' = [call EXCEPT ![t] = c]
    BY <1>1 DEF registryVars, TypeInv, RegistryTypeOK
  <1>3. c.pc = "idle"
    BY <1>1 DEF ApprovalInv, CallSoundFor
  <1>4. CallSoundFor(r, c)' /\ Claim(r, c) = {}
    BY <1>3 DEF CallSoundFor, InHand, Claim
  <1> QED BY <1>2, <1>4, QuietApproval

\* No step of the requests at all.
LEMMA NoRequestMoves ==
  ASSUME SeedsFiles, TypeInv, ReleaseInv, RequestsTyped, ApprovalInv,
         UNCHANGED <<registryVars, dec, specs>>, KeepsApprovals
  PROVE  ApprovalInv'
  <1>1. ASSUME NEW t \in Thread PROVE ApprovalInv'
    <2>1. PICK r \in Request, c \in Call : r = dec[t] /\ c = call[t]
      BY DEF TypeInv, RegistryTypeOK, RequestsTyped
    <2>2. dec' = [dec EXCEPT ![t] = r] /\ call' = [call EXCEPT ![t] = c]
      BY <2>1 DEF registryVars, TypeInv, RegistryTypeOK, RequestsTyped
    <2>3. RequestSound(r)' /\ CallSoundFor(r, c)'
      BY <2>1, OthersStaySound DEF ApprovalInv
    <2> QED BY <2>1, <2>2, <2>3, QuietApproval
  <1>2. CASE Thread = {}
    BY <1>2, ApprovedStay DEF ApprovalInv, ClaimsDisjoint
  <1> QED BY <1>1, <1>2

\* An approval is written: the version it was about is now the proposal's.
LEMMA ApprovalIsWritten ==
  ASSUME SeedsFiles, TypeInv, ReleaseInv, RequestsTyped, ApprovalInv, NEW t \in Thread,
         SetStatus(t), dec[t].to = "approved", proposals[dec[t].proposal].status = "pending_hitl"
  PROVE  ApprovalInv'
  <1>0. PICK r \in Request, c \in Call, p \in Proposal :
          r = dec[t] /\ c = call[t] /\ p = r.proposal
    BY DEF SetStatus, TypeInv, RegistryTypeOK, RequestsTyped
  <1>1. /\ r.pc = "commit" /\ r.to = "approved" /\ proposals[p].status = "pending_hitl"
        /\ RequestSound(r) /\ CallSoundFor(r, c) /\ c.pc = "idle"
        /\ UNCHANGED <<registryVars, specs>>
    BY <1>0 DEF SetStatus, ApprovalInv, CallSoundFor
  <1>2. \A s \in Thread : /\ dec'[s] = IF s = t THEN IdleRequest ELSE dec[s]
                        /\ call'[s] = call[s]
    BY <1>1 DEF SetStatus, RequestsTyped, registryVars
  <1>3. /\ \A q \in Proposal : q # p => proposals'[q] = proposals[q]
        /\ proposals'[p].status = "approved" /\ proposals'[p].edited = r.edited
        /\ proposals'[p].diff = r.diff
        /\ proposals'[p].applied_version = r.version
        /\ p \notin Declarative => proposals'[p].spec
    <2>1. proposals' = [proposals EXCEPT ![p] = Decided(r)]
      BY <1>0, <1>1 DEF SetStatus
    <2>2. proposals \in [Proposal -> ProposalRow]
      BY DEF RequestsTyped
    <2>3. /\ Decided(r).status = "approved" /\ Decided(r).edited = r.edited
          /\ Decided(r).diff = r.diff
          /\ Decided(r).applied_version = r.version
          /\ p \notin Declarative => Decided(r).spec
      BY <1>0, <1>1, <2>2 DEF Decided, ProposalRow
    <2> HIDE DEF Decided
    <2> QED BY <2>1, <2>2, <2>3
  <1>4. \A s \in Thread : RequestSound(dec[s])' /\ CallSoundFor(dec[s], call[s])'
    <2> SUFFICES ASSUME NEW s \in Thread
                 PROVE  RequestSound(dec[s])' /\ CallSoundFor(dec[s], call[s])'
      OBVIOUS
    <2>1. CASE s = t
      BY <1>0, <1>1, <1>2, <2>1, IdleIsRequest
         DEF RequestSound, CallSoundFor, CommitsVersion, InHand
    <2>2. CASE s # t
      BY <1>1, <1>2, <2>2
         DEF ApprovalInv, registryVars, RequestSound, CallSoundFor, CommitsVersion, DiffSound,
             InHand, Released, Reflects
    <2> QED BY <2>1, <2>2
  <1>5. /\ Claim(dec[t], call[t])' = {}
        /\ \A s \in Thread : s # t => Claim(dec[s], call[s])' = Claim(dec[s], call[s])
    <2>1. Claim(dec[t], call[t])' = {}
      BY <1>0, <1>1, <1>2, IdleIsRequest DEF Claim, CommitsVersion, InHand
    <2>2. ASSUME NEW s \in Thread, s # t PROVE Claim(dec[s], call[s])' = Claim(dec[s], call[s])
      BY <1>2, <2>2 DEF Claim, CommitsVersion, InHand
    <2> QED BY <2>1, <2>2
  <1>6. p \in Declarative => Claim(dec[t], call[t]) = {r.version}
    BY <1>0, <1>1 DEF Claim, CommitsVersion
  <1>7. ClaimsDisjoint'
    <2>1. \A s, u \in Thread : s # u => Claim(dec[s], call[s])' \cap Claim(dec[u], call[u])' = {}
      BY <1>5 DEF ApprovalInv, ClaimsDisjoint
    <2>2. ASSUME NEW q \in Declarative, NEW s \in Thread, proposals'[q].status = "approved"
          PROVE  proposals'[q].applied_version \notin Claim(dec[s], call[s])'
      <3>1. CASE s = t
        BY <1>5, <3>1
      <3>2. CASE s # t /\ q = p
        <4>1. Claim(dec[t], call[t]) \cap Claim(dec[s], call[s]) = {}
          BY <3>2 DEF ApprovalInv, ClaimsDisjoint
        <4> QED BY <1>3, <1>5, <1>6, <3>2, <4>1
      <3>3. CASE s # t /\ q # p
        <4>1. proposals'[q] = proposals[q]
          BY <1>3, <3>3, ProposalAssumption
        <4> QED BY <1>5, <2>2, <3>3, <4>1 DEF ApprovalInv, ClaimsDisjoint
      <3> QED BY <3>1, <3>2, <3>3
    <2> QED BY <2>1, <2>2 DEF ClaimsDisjoint
  <1>8. ApprovedIsApplied'
    <2>1. ASSUME NEW q \in Proposal, q # p, proposals'[q].status = "approved"
          PROVE  IF q \in Declarative
                 THEN /\ proposals[q].applied_version \in 1..pointer
                      /\ ~proposals[q].edited => proposals[q].diff = DiffOf[q]
                      /\ Reflects(proposals[q].applied_version, proposals[q].diff)
                 ELSE q \in specs /\ proposals[q].spec
      BY <1>3, <2>1 DEF ApprovalInv, ApprovedIsApplied
    <2>2. IF p \in Declarative
          THEN /\ r.version \in 1..pointer
               /\ ~r.edited => r.diff = DiffOf[p]
               /\ Reflects(r.version, r.diff)
          ELSE p \in specs
      BY <1>0, <1>1 DEF RequestSound, CommitsVersion, Released, DiffSound
    <2> QED BY <1>1, <1>3, <2>1, <2>2 DEF ApprovedIsApplied, registryVars, Reflects
  <1>9. VersionsNotShared'
    <2>1. \A q \in Declarative :
            proposals[q].status = "approved" /\ p \in Declarative => proposals[q].applied_version # r.version
      BY <1>6 DEF ApprovalInv, ClaimsDisjoint
    <2>2. \A q \in Declarative : q # p => proposals'[q] = proposals[q]
      BY <1>3, ProposalAssumption
    <2> QED BY <1>3, <2>1, <2>2 DEF ApprovalInv, VersionsNotShared
  <1> QED BY <1>4, <1>7, <1>8, <1>9 DEF ApprovalInv

\* Every step keeps what is approved applied, and the claims apart.
LEMMA ApprovalStep ==
  SeedsFiles /\ TypeInv /\ ReleaseInv /\ RequestsTyped /\ ApprovalInv /\ [Next]_vars => ApprovalInv'
  <1> SUFFICES ASSUME SeedsFiles, TypeInv, ReleaseInv, RequestsTyped, ApprovalInv, [Next]_vars
               PROVE  ApprovalInv'
    OBVIOUS
  <1>0. /\ proposals \in [Proposal -> ProposalRow]
        /\ dec \in [Thread -> Request] /\ call \in [Thread -> Call]
        /\ [RegistryNext]_registryVars
    BY RegistryMoves DEF RequestsTyped, TypeInv, RegistryTypeOK
  <1>i. IdleRequest \in Request /\ IdleRequest.pc = "idle" /\ ~CommitsVersion(IdleRequest)
        /\ RequestSound(IdleRequest)'
    BY IdleIsRequest DEF RequestSound, CommitsVersion
  <1>1. ASSUME NEW p \in Proposal, Create(p) PROVE ApprovalInv'
    <2>1. KeepsApprovals
      BY <1>0, <1>1 DEF Create, KeepsApprovals, ProposalRow
    <2> QED BY <1>1, <2>1, NoRequestMoves DEF Create
  <1>2. ASSUME NEW t \in Thread, NEW p \in Proposal, DryRun(t, p) PROVE ApprovalInv'
    <2>1. PICK r \in Request : /\ r = [IdleRequest EXCEPT !.pc = "record", !.proposal = p]
                               /\ r.pc = "record"
      <3> DEFINE z == [IdleRequest EXCEPT !.pc = "record", !.proposal = p]
      <3>1. z \in Request /\ z.pc = "record"
        BY <1>i DEF Request
      <3> QED BY <3>1
    <2>2. dec' = [dec EXCEPT ![t] = r] /\ UNCHANGED <<registryVars, proposals, specs>>
          /\ dec[t].pc = "idle"
      BY <1>2, <2>1 DEF DryRun
    <2>3. RequestSound(r)' /\ ~CommitsVersion(r) /\ KeepsApprovals
      BY <2>1, <2>2 DEF RequestSound, CommitsVersion, KeepsApprovals
    <2> QED BY <2>1, <2>2, <2>3, RequestMoves
  <1>3. ASSUME NEW t \in Thread, RecordDryRun(t) PROVE ApprovalInv'
    <2>1. KeepsApprovals
      BY <1>0, <1>3 DEF RecordDryRun, KeepsApprovals, ProposalRow
    <2> QED BY <1>3, <1>i, <2>1, RequestMoves DEF RecordDryRun
  <1>4. ASSUME NEW t \in Thread, NEW p \in Proposal, NEW a \in Actor,
               NEW to \in {"rejected", "withdrawn"}, DecideAgainst(t, p, to, a)
        PROVE  ApprovalInv'
    <2>1. PICK r \in Request : /\ r = [IdleRequest EXCEPT !.pc = "commit", !.proposal = p, !.to = to]
                               /\ r.pc = "commit" /\ r.to = to
      <3> DEFINE z == [IdleRequest EXCEPT !.pc = "commit", !.proposal = p, !.to = to]
      <3>1. z \in Request /\ z.pc = "commit" /\ z.to = to
        BY <1>i DEF Request, ProposalStatus
      <3> QED BY <3>1
    <2>2. dec' = [dec EXCEPT ![t] = r] /\ UNCHANGED <<registryVars, proposals, specs>>
          /\ dec[t].pc = "idle"
      BY <1>4, <2>1 DEF DecideAgainst, MayDecide
    <2>3. RequestSound(r)' /\ ~CommitsVersion(r) /\ KeepsApprovals
      BY <2>1, <2>2 DEF RequestSound, CommitsVersion, KeepsApprovals
    <2> QED BY <2>1, <2>2, <2>3, RequestMoves
  <1>5. ASSUME NEW t \in Thread, NEW p \in Proposal, NEW a \in Actor, NEW b \in BOOLEAN, NEW d,
               b => d \in EditedDiffs, ApproveDeclarative(t, p, a, b, d)
        PROVE  ApprovalInv'
    <2>1. PICK x : x = EffectiveDiff(p, d, b)
      OBVIOUS
    <2>2. /\ x \in Promise!Diff /\ p \in Declarative
          /\ (~b => x = DiffOf[p])
      BY <1>5, <2>1, DiffsAreDiffs DEF ApproveDeclarative, EffectiveDiff
    <2>3. PICK r \in Request :
            /\ r = [IdleRequest EXCEPT !.pc = "apply", !.proposal = p, !.to = "approved",
                      !.diff = x, !.edited = b]
            /\ r.pc = "apply" /\ r.proposal = p /\ r.to = "approved" /\ r.diff = x /\ r.edited = b
      <3> DEFINE z == [IdleRequest EXCEPT !.pc = "apply", !.proposal = p, !.to = "approved", !.diff = x, !.edited = b]
      <3>1. z \in Request /\ z.pc = "apply" /\ z.proposal = p /\ z.to = "approved" /\ z.diff = x /\ z.edited = b
        BY <1>i, <2>2 DEF Request, ProposalStatus
      <3> QED BY <3>1
    <2>4. PICK c \in Call : /\ c = [IdleCall EXCEPT !.pc = "seed", !.diff = x]
                            /\ c.pc = "seed" /\ c.diff = x
      <3> DEFINE z == [IdleCall EXCEPT !.pc = "seed", !.diff = x]
      <3>1. z \in Call /\ z.pc = "seed" /\ z.diff = x
        BY <2>2, IdleIsCall DEF IdleCall, Call
      <3> QED BY <3>1
    <2>5. /\ dec' = [dec EXCEPT ![t] = r] /\ call' = [call EXCEPT ![t] = c]
          /\ UNCHANGED <<proposals, specs>>
      BY <1>5, <2>1, <2>3, <2>4 DEF ApproveDeclarative, Apply
    <2>6. RequestSound(r)' /\ CallSoundFor(r, c)' /\ Claim(r, c) = {} /\ KeepsApprovals
      BY <2>2, <2>3, <2>4, <2>5
         DEF RequestSound, CallSoundFor, CommitsVersion, DiffSound, InHand, Claim, KeepsApprovals
    <2> QED BY <1>0, <2>5, <2>6, QuietApproval
  <1>6. ASSUME NEW t \in Thread, NEW p \in Proposal, NEW a \in Actor, ApproveCode(t, p, a)
        PROVE  ApprovalInv'
    <2>1. PICK r \in Request :
            /\ r = [IdleRequest EXCEPT !.pc = "export", !.proposal = p, !.to = "approved"]
            /\ r.pc = "export" /\ r.proposal = p /\ r.to = "approved"
      <3> DEFINE z == [IdleRequest EXCEPT !.pc = "export", !.proposal = p, !.to = "approved"]
      <3>1. z \in Request /\ z.pc = "export" /\ z.proposal = p /\ z.to = "approved"
        BY <1>i DEF Request, ProposalStatus
      <3> QED BY <3>1
    <2>2. /\ dec' = [dec EXCEPT ![t] = r] /\ UNCHANGED <<registryVars, proposals, specs>>
          /\ dec[t].pc = "idle" /\ p \notin Declarative
      BY <1>6, <2>1 DEF ApproveCode, MayDecide
    <2>3. RequestSound(r)' /\ ~CommitsVersion(r) /\ KeepsApprovals
      BY <2>1, <2>2 DEF RequestSound, CommitsVersion, KeepsApprovals
    <2> QED BY <2>1, <2>2, <2>3, RequestMoves
  <1>7. ASSUME NEW t \in Thread, Decide(t) PROVE ApprovalInv'
    BY <1>4, <1>5, <1>6, <1>7 DEF Decide
  <1>8. ASSUME NEW t \in Thread, ApplyStep(t) PROVE ApprovalInv'
    <2>1. PICK r \in Request, b \in Call : r = dec[t] /\ b = call[t]
      BY <1>0
    <2>2. PICK c \in Call :
            /\ call' = [call EXCEPT ![t] = c]
            /\ c.pc # "idle" /\ c.diff = b.diff
            /\ InHand(c) => \/ InHand(b) /\ c.new = b.new
                            \/ /\ c.new = pointer + 1 /\ pointer' = pointer + 1
                               /\ dirs' = dirs /\ Reflects(c.new, c.diff)
      BY <1>8, <2>1, ApplyMoves DEF ApplyStep
    <2>3. /\ r.pc = "apply" /\ dec' = [dec EXCEPT ![t] = r] /\ UNCHANGED <<proposals, specs>>
          /\ RequestSound(r) /\ CallSoundFor(r, b)
      BY <1>0, <1>8, <2>1 DEF ApplyStep, ApprovalInv
    <2>4. RequestSound(r)' /\ KeepsApprovals
      BY <1>0, <2>3, OthersStaySound DEF KeepsApprovals
    <2>5. InHand(c) => Released(c.new, c.diff)'
      <3>1. CASE InHand(b) /\ c.new = b.new
        <4>1. Released(b.new, b.diff)'
          BY <1>0, <2>3, <3>1, ReleasedStays DEF CallSoundFor
        <4> QED BY <2>2, <3>1, <4>1
      <3>2. CASE /\ c.new = pointer + 1 /\ pointer' = pointer + 1
                 /\ dirs' = dirs /\ Reflects(c.new, c.diff)
        BY <3>2, VersionArithmetic DEF Released, Reflects
      <3> QED BY <2>2, <3>1, <3>2
    <2>6. CallSoundFor(r, c)'
      BY <2>2, <2>3, <2>5 DEF CallSoundFor, InHand
    <2>7. Claim(r, c) \subseteq Claim(r, b) \cup {pointer + 1}
      BY <2>2, <2>3 DEF Claim, CommitsVersion
    <2> QED BY <1>0, <2>1, <2>2, <2>3, <2>4, <2>6, <2>7, QuietApproval
  <1>9. ASSUME NEW t \in Thread, AfterApply(t) PROVE ApprovalInv'
    <2>1. PICK q \in Request, b \in Call : q = dec[t] /\ b = call[t]
      BY <1>0
    <2>2. PICK c \in Call : c = IdleCall /\ c.pc = "idle"
      BY IdleIsCall DEF IdleCall
    <2>3. /\ q.pc = "apply" /\ RequestSound(q) /\ CallSoundFor(q, b)
          /\ call' = [call EXCEPT ![t] = c]
          /\ UNCHANGED <<dirs, pointer, proposals, specs>>
      BY <1>9, <2>1, <2>2 DEF AfterApply, Return, ApprovalInv
    <2>4. KeepsApprovals
      BY <2>3 DEF KeepsApprovals
    <2>5. CASE b.pc = "done"
      <3>1. PICK r \in Request :
              /\ r = [q EXCEPT !.pc = "commit", !.version = b.new]
              /\ r.pc = "commit" /\ r.version = b.new /\ r.proposal = q.proposal /\ r.to = q.to
              /\ r.diff = q.diff /\ r.edited = q.edited
        <4> DEFINE z == [q EXCEPT !.pc = "commit", !.version = b.new]
        <4>1. b.new \in 0..MaxVersion
          BY DEF Call
        <4>2. z \in Request /\ z.pc = "commit" /\ z.version = b.new /\ z.proposal = q.proposal /\ z.to = q.to /\ z.diff = q.diff /\ z.edited = q.edited
          BY <4>1 DEF Request
        <4> QED BY <4>2
      <3>2. dec' = [dec EXCEPT ![t] = r]
        BY <1>9, <2>1, <2>5, <3>1 DEF AfterApply
      <3>3. Released(r.version, r.diff) /\ DiffSound(r) /\ r.proposal \in Declarative /\ r.to = "approved"
        BY <2>3, <2>5, <3>1 DEF RequestSound, CallSoundFor, InHand, DiffSound
      <3>4. RequestSound(r)'
        BY <2>3, <3>1, <3>3 DEF RequestSound, Released, Reflects, DiffSound, CommitsVersion
      <3>5. CallSoundFor(r, c)'
        BY <2>2, <3>1 DEF CallSoundFor, InHand
      <3>6. Claim(r, c) = Claim(q, b)
        BY <2>3, <2>5, <3>1, <3>3 DEF Claim, CommitsVersion, InHand
      <3> QED BY <1>0, <2>1, <2>3, <2>4, <3>2, <3>4, <3>5, <3>6, QuietApproval
    <2>6. CASE b.pc # "done"
      <3>1. PICK r \in Request : r = IdleRequest
        BY <1>i
      <3>2. dec' = [dec EXCEPT ![t] = r]
        BY <1>9, <2>1, <2>6, <3>1 DEF AfterApply
      <3>3. RequestSound(r)' /\ CallSoundFor(r, c)' /\ Claim(r, c) = {}
        BY <1>i, <2>2, <3>1 DEF RequestSound, CommitsVersion, CallSoundFor, InHand, Claim
      <3> QED BY <1>0, <2>3, <2>4, <3>2, <3>3, QuietApproval
    <2> QED BY <2>5, <2>6
  <1>10. ASSUME NEW t \in Thread, ExportSpec(t) PROVE ApprovalInv'
    <2>1. PICK q \in Request : q = dec[t]
      BY <1>0
    <2>2. PICK r \in Request :
            /\ r = [q EXCEPT !.pc = "commit"]
            /\ r.pc = "commit" /\ r.proposal = q.proposal /\ r.to = q.to
      <3> DEFINE z == [q EXCEPT !.pc = "commit"]
      <3>1. z \in Request /\ z.pc = "commit" /\ z.proposal = q.proposal /\ z.to = q.to
        BY DEF Request
      <3> QED BY <3>1
    <2>3. /\ q.pc = "export" /\ RequestSound(q) /\ dec' = [dec EXCEPT ![t] = r]
          /\ UNCHANGED <<registryVars, proposals>> /\ specs' = specs \cup {q.proposal}
      BY <1>0, <1>10, <2>1, <2>2 DEF ExportSpec, ApprovalInv
    <2>4. RequestSound(r)' /\ ~CommitsVersion(r) /\ KeepsApprovals
      BY <2>2, <2>3 DEF RequestSound, CommitsVersion, KeepsApprovals
    <2> QED BY <2>1, <2>2, <2>3, <2>4, RequestMoves
  <1>11. ASSUME NEW t \in Thread, SetStatus(t) PROVE ApprovalInv'
    <2>1. /\ dec[t].pc = "commit" /\ dec[t] \in Request /\ dec[t].proposal \in Proposal
          /\ UNCHANGED <<registryVars, specs>> /\ dec' = [dec EXCEPT ![t] = IdleRequest]
      BY <1>0, <1>11 DEF SetStatus, RequestsTyped
    <2>2. CASE dec[t].to = "approved" /\ proposals[dec[t].proposal].status = "pending_hitl"
      BY <1>11, <2>2, ApprovalIsWritten
    <2>3. CASE ~(dec[t].to = "approved" /\ proposals[dec[t].proposal].status = "pending_hitl")
      <3>1. Decided(dec[t]).status = dec[t].to
        BY <1>0, <2>1 DEF Decided, ProposalRow
      <3> HIDE DEF Decided
      <3>2. KeepsApprovals
        BY <1>0, <1>11, <2>1, <2>3, <3>1 DEF SetStatus, KeepsApprovals
      <3> QED BY <1>i, <2>1, <3>2, RequestMoves
    <2> QED BY <2>2, <2>3
  <1>12. CASE Restart
    <2>1. /\ \A s \in Thread : dec'[s] = IdleRequest /\ call'[s] = IdleCall
          /\ UNCHANGED <<proposals, specs>>
      BY <1>12 DEF Restart
    <2>2. \A s \in Thread : RequestSound(dec[s])' /\ CallSoundFor(dec[s], call[s])'
                           /\ Claim(dec[s], call[s])' = {}
      BY <1>i, <2>1 DEF RequestSound, CallSoundFor, CommitsVersion, Claim, InHand, IdleCall
    <2>3. ClaimsDisjoint'
      BY <2>2 DEF ClaimsDisjoint
    <2>4. KeepsApprovals
      BY <2>1 DEF KeepsApprovals
    <2> QED BY <1>0, <2>1, <2>2, <2>3, <2>4, ApprovedStay DEF ApprovalInv
  <1>13. CASE UNCHANGED vars
    <2>1. KeepsApprovals
      BY <1>13 DEF vars, KeepsApprovals
    <2> QED BY <1>13, <2>1, NoRequestMoves DEF vars
  <1>14. ASSUME NEW t \in Thread, RequestFails(t) PROVE ApprovalInv'
    <2>1. KeepsApprovals
      BY <1>14 DEF RequestFails, KeepsApprovals
    <2> QED BY <1>14, <1>i, <2>1, RequestMoves DEF RequestFails
  <1> QED BY <1>1, <1>2, <1>3, <1>7, <1>8, <1>9, <1>10, <1>11, <1>12, <1>13, <1>14, Zenon DEF Next

\* What is approved is applied, and each released version has one claimant.
THEOREM ApprovalInvariant ==
  ASSUME SeedsFiles
  PROVE  Spec => [](RequestsTyped /\ ApprovalInv)
  <1>1. Init => RequestsTyped /\ ApprovalInv
    <2> SUFFICES ASSUME Init PROVE RequestsTyped /\ ApprovalInv
      OBVIOUS
    <2>1. proposals \in [Proposal -> ProposalRow]
      BY DiffsAreDiffs, RegistryAssumption DEF Init, ProposalRow, ProposalStatus
    <2>2. \A p \in Proposal : proposals[p].status = "none"
      BY DEF Init
    <2>3. \A t \in Thread : dec[t] = IdleRequest /\ call[t] = IdleCall
      BY DEF Init, RegistryInit
    <2>4. \A t \in Thread : RequestSound(dec[t]) /\ CallSoundFor(dec[t], call[t])
      BY <2>3, IdleIsRequest DEF RequestSound, CallSoundFor, CommitsVersion, InHand, IdleCall
    <2>5. \A t \in Thread : Claim(dec[t], call[t]) = {}
      BY <2>3, IdleIsRequest DEF Claim, CommitsVersion, InHand, IdleCall
    <2>6. ApprovedIsApplied /\ VersionsNotShared
      BY <2>2 DEF ApprovedIsApplied, VersionsNotShared
    <2>7. ClaimsDisjoint
      BY <2>2, <2>5, ProposalAssumption DEF ClaimsDisjoint
    <2> QED BY <2>1, <2>4, <2>6, <2>7, IdleIsRequest DEF Init, RequestsTyped, ApprovalInv
  <1>2. SeedsFiles /\ TypeInv /\ ReleaseInv /\ RequestsTyped /\ ApprovalInv /\ [Next]_vars
          => (RequestsTyped /\ ApprovalInv)'
    BY TypedStep, ApprovalStep
  <1> QED BY <1>1, <1>2, RegistryHolds, PTL DEF Spec

\* Never approved but silently unapplied: an approved proposal names a released
\* version that holds its diff (or has its spec file), whatever raced or died.
THEOREM ApprovedMeansApplied ==
  ASSUME SeedsFiles
  PROVE  Spec => []ApprovedIsApplied
  <1>1. ApprovalInv => ApprovedIsApplied
    BY DEF ApprovalInv
  <1> QED BY <1>1, ApprovalInvariant, PTL

\* No two approvals claim the same released version.
THEOREM VersionsHaveOneOwner ==
  ASSUME SeedsFiles
  PROVE  Spec => []VersionsNotShared
  <1>1. ApprovalInv => VersionsNotShared
    BY DEF ApprovalInv
  <1> QED BY <1>1, ApprovalInvariant, PTL

\* A decision is final: of two decisions that both read pending_hitl, one is
\* refused by the compare-and-swap of the status.
THEOREM DecisionsAreFinal == Spec => DecisionsFinal
  <1> DEFINE A == \A p \in Proposal : proposals[p].status \notin {"none", "pending_hitl"} =>
                    /\ proposals'[p].status = proposals[p].status
                    /\ proposals'[p].applied_version = proposals[p].applied_version
  <1>1. Init => TypeInv /\ RequestsTyped
    <2>1. Init => proposals \in [Proposal -> ProposalRow]
      BY DiffsAreDiffs, RegistryAssumption DEF Init, ProposalRow, ProposalStatus
    <2> QED BY <2>1, TypeInit, IdleIsRequest DEF Init, RequestsTyped
  <1>2. TypeInv /\ RequestsTyped /\ [Next]_vars => (TypeInv /\ RequestsTyped)'
    BY RegistryMoves, TypeStep, TypedStep
  <1>3. TypeInv /\ RequestsTyped /\ [Next]_vars => [A]_vars
    <2> SUFFICES ASSUME RequestsTyped, Next PROVE A
      BY DEF vars
    <2>0. proposals \in [Proposal -> ProposalRow]
      BY DEF RequestsTyped
    <2>1. ASSUME NEW p \in Proposal, Create(p) PROVE A
      BY <2>0, <2>1 DEF Create, ProposalRow
    <2>2. ASSUME NEW t \in Thread, RecordDryRun(t) PROVE A
      BY <2>0, <2>2 DEF RecordDryRun, ProposalRow
    <2>3. ASSUME NEW t \in Thread, SetStatus(t) PROVE A
      <3> HIDE DEF Decided
      <3> QED BY <2>0, <2>3 DEF SetStatus
    <2>4. ASSUME NEW t \in Thread,
                 \/ \E p \in Proposal : DryRun(t, p)
                 \/ Decide(t) \/ ApplyStep(t) \/ AfterApply(t) \/ ExportSpec(t) \/ RequestFails(t)
          PROVE  A
      <3>1. proposals' = proposals
        BY <2>4 DEF DryRun, Decide, DecideAgainst, ApproveDeclarative, ApproveCode, ApplyStep,
                    AfterApply, ExportSpec, RequestFails
      <3> QED BY <3>1
    <2>5. CASE Restart
      BY <2>5 DEF Restart
    <2> QED BY <2>1, <2>2, <2>3, <2>4, <2>5, Zenon DEF Next
  <1> QED BY <1>1, <1>2, <1>3, PTL DEF Spec, DecisionsFinal
=============================================================================
