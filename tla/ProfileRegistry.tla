--------------------------- MODULE ProfileRegistry ---------------------------
(***************************************************************************)
(* ap_registry.ProfileRegistry for one profile name, driven by             *)
(* ap_proposals.apply.apply_declarative in the worker threads of the API   *)
(* process.  There is no lock: each file operation is a step, and the only *)
(* thing two threads can collide on is the version directory, which is     *)
(* renamed into place once.  Version k stands for '0.k'.  A process that   *)
(* dies, or a file operation that fails, leaves the files as they are.     *)
(***************************************************************************)
EXTENDS Integers, FiniteSets

CONSTANTS
  Code, Text, SeedContent, NoContent,
  Thread,
  SeedsFiles,     \* whether the repo has a profiles/<name> tree; without one the seed is empty
  MaxVersion,     \* bound: the highest minor version
  MayBreak        \* whether the process may die or a file operation fail (bound of the instance)

VARIABLES
  dirs,           \* [1..MaxVersion -> Content or NoContent], the version directories
  pointer,        \* _pointer.json, 0 when it does not exist
  pointerTmp,     \* _pointer.json.tmp, one name for every writer
  changelog,      \* the versions with a row in _changelog.jsonl
  call            \* [Thread -> Call], the apply each thread is in

registryVars == <<dirs, pointer, pointerTmp, changelog, call>>

Live == IF pointer = 0 THEN NoContent ELSE dirs[pointer]

Promise == INSTANCE RegistrySpec WITH live <- Live

Version == 1..MaxVersion

ASSUME RegistryAssumption ==
  /\ MaxVersion \in Nat \ {0}
  /\ SeedContent \in Promise!Content
  /\ NoContent \notin Promise!Content
  /\ SeedsFiles \in BOOLEAN
  /\ MayBreak \in BOOLEAN

\* base: the version the new directory starts from, 0 while seeding.
\* codes: reason_codes.json as compute_changed_files read it.
Call == [pc    : {"idle", "seed", "current", "compute", "check", "dir", "rename", "tmp", "pointer", "log", "done", "failed"},
         diff  : Promise!Diff,
         new   : 0..MaxVersion,
         base  : 0..MaxVersion,
         codes : SUBSET Code]

Goto(t, pc) == call' = [call EXCEPT ![t].pc = pc]

NoDiff == CHOOSE d \in Promise!Diff : TRUE
IdleCall == [pc |-> "idle", diff |-> NoDiff, new |-> 0, base |-> 0, codes |-> {}]

RegistryInit ==
  /\ dirs = [v \in Version |-> NoContent]
  /\ pointer = 0
  /\ pointerTmp = 0
  /\ changelog = {}
  /\ call = [t \in Thread |-> IdleCall]

Written(v) == dirs[v] # NoContent

-----------------------------------------------------------------------------
(* apply_declarative *)

(* Bound: the calls in flight and this one, a seed included, find a version. *)
Apply(t, d) ==
  /\ call[t].pc = "idle"
  /\ pointer + Cardinality({u \in Thread : call[u].pc # "idle"}) + 2 <= MaxVersion
  /\ call' = [call EXCEPT ![t] = [IdleCall EXCEPT !.pc = "seed", !.diff = d]]
  /\ UNCHANGED <<dirs, pointer, pointerTmp, changelog>>

\* ensure_seeded: nothing to do when a pointer is there.
EnsureSeeded(t) ==
  /\ call[t].pc = "seed"
  /\ IF pointer = 0
     THEN call' = [call EXCEPT ![t].pc = "dir", ![t].new = 1, ![t].base = 0]
     ELSE Goto(t, "current")
  /\ UNCHANGED <<dirs, pointer, pointerTmp, changelog>>

\* registry.current_version (its bound never blocks, see Apply), from which _bump_minor makes the new version.
ReadCurrent(t) ==
  /\ call[t].pc = "current"
  /\ pointer < MaxVersion
  /\ call' = [call EXCEPT ![t].pc = "compute", ![t].new = pointer + 1]
  /\ UNCHANGED <<dirs, pointer, pointerTmp, changelog>>

\* Mutant of ComputeChangedFiles: edits the repo's codes instead of the live ones.
ComputeChangedFilesVendored(t) ==
  /\ call[t].pc = "compute"
  /\ call' = [call EXCEPT ![t].pc = "check", ![t].codes = SeedContent.codes]
  /\ UNCHANGED <<dirs, pointer, pointerTmp, changelog>>

\* compute_changed_files reads the pointer again.
ComputeChangedFiles(t) ==
  /\ call[t].pc = "compute"
  /\ call' = [call EXCEPT ![t].pc = "check", ![t].codes = dirs[pointer].codes]
  /\ UNCHANGED <<dirs, pointer, pointerTmp, changelog>>

\* bump_version reads it a third time: the new version must be greater.
CheckMonotone(t) ==
  /\ call[t].pc = "check"
  /\ IF call[t].new > pointer
     THEN call' = [call EXCEPT ![t].pc = "dir", ![t].base = pointer]
     ELSE Goto(t, "failed")
  /\ UNCHANGED <<dirs, pointer, pointerTmp, changelog>>

NewContent(c) ==
  IF c.base = 0 THEN SeedContent
  ELSE Promise!Patched(dirs[c.base],
         IF c.diff.kind = "reason_code_add" THEN c.codes ELSE dirs[c.base].codes, c.diff)

\* _write_version_dir, first part: refused when the directory is there.
CheckVersionDir(t) ==
  /\ call[t].pc = "dir"
  /\ Goto(t, IF Written(call[t].new) THEN "failed" ELSE "rename")
  /\ UNCHANGED <<dirs, pointer, pointerTmp, changelog>>

\* Mutant of RenameVersionDir: an existing directory is replaced.
RenameVersionDirAgain(t) ==
  /\ call[t].pc = "rename"
  /\ dirs' = [dirs EXCEPT ![call[t].new] = NewContent(call[t])]
  /\ Goto(t, "tmp")
  /\ UNCHANGED <<pointer, pointerTmp, changelog>>

\* Mutant of RenameVersionDir: the changelog row is written with the directory.
RenameVersionDirLogs(t) ==
  /\ call[t].pc = "rename"
  /\ IF Written(call[t].new)
     THEN Goto(t, "failed") /\ UNCHANGED <<dirs, changelog>>
     ELSE /\ dirs' = [dirs EXCEPT ![call[t].new] = NewContent(call[t])]
          /\ changelog' = changelog \cup {call[t].new}
          /\ Goto(t, "tmp")
  /\ UNCHANGED <<pointer, pointerTmp>>

\* Mutant of RenameVersionDir: wait for the directory to go away.
RenameVersionDirWaits(t) ==
  /\ call[t].pc = "rename"
  /\ ~Written(call[t].new)
  /\ dirs' = [dirs EXCEPT ![call[t].new] = NewContent(call[t])]
  /\ Goto(t, "tmp")
  /\ UNCHANGED <<pointer, pointerTmp, changelog>>

\* An empty seed's directory: os.replace renames over it.
Replaceable(v) == v = 1 /\ ~SeedsFiles

\* Built aside, then renamed into place: os.replace refuses a target with files in it.
RenameVersionDir(t) ==
  /\ call[t].pc = "rename"
  /\ IF Written(call[t].new) /\ ~Replaceable(call[t].new)
     THEN Goto(t, "failed") /\ UNCHANGED dirs
     ELSE /\ dirs' = [dirs EXCEPT ![call[t].new] = NewContent(call[t])]
          /\ Goto(t, "tmp")
  /\ UNCHANGED <<pointer, pointerTmp, changelog>>

WritePointerTmp(t) ==
  /\ call[t].pc = "tmp"
  /\ pointerTmp' = call[t].new
  /\ Goto(t, "pointer")
  /\ UNCHANGED <<dirs, pointer, changelog>>

\* os.replace(tmp, pointer): moves whatever the shared tmp holds by now.
ReplacePointer(t) ==
  /\ call[t].pc = "pointer"
  /\ IF pointerTmp = 0
     THEN Goto(t, "failed") /\ UNCHANGED <<pointer, pointerTmp>>
     ELSE /\ pointer' = pointerTmp
          /\ pointerTmp' = 0
          /\ Goto(t, "log")
  /\ UNCHANGED <<dirs, changelog>>

\* The changelog row; after a seed, apply goes on to the bump.
AppendChangelog(t) ==
  /\ call[t].pc = "log"
  /\ changelog' = changelog \cup {call[t].new}
  /\ Goto(t, IF call[t].base = 0 THEN "current" ELSE "done")
  /\ UNCHANGED <<dirs, pointer, pointerTmp>>

\* The caller takes the result, a version or an error.
Return(t) ==
  /\ call[t].pc \in {"done", "failed"}
  /\ call' = [call EXCEPT ![t] = IdleCall]
  /\ UNCHANGED <<dirs, pointer, pointerTmp, changelog>>

(* An OSError ends the call where it stands: the live version may be there  *)
(* without its changelog row, the directory without the pointer to it.  Of  *)
(* an append that fails midway nothing is kept here.                        *)
FileError(t) ==
  /\ MayBreak
  /\ call[t].pc \notin {"idle", "done", "failed"}
  /\ Goto(t, "failed")
  /\ UNCHANGED <<dirs, pointer, pointerTmp, changelog>>

Crash ==
  /\ MayBreak
  /\ \E t \in Thread : call[t] # IdleCall
  /\ call' = [t \in Thread |-> IdleCall]
  /\ UNCHANGED <<dirs, pointer, pointerTmp, changelog>>

Step(t) ==
  \/ EnsureSeeded(t) \/ ReadCurrent(t) \/ ComputeChangedFiles(t) \/ CheckMonotone(t)
  \/ CheckVersionDir(t) \/ RenameVersionDir(t) \/ WritePointerTmp(t) \/ ReplacePointer(t) \/ AppendChangelog(t)

RegistryNext ==
  \/ \E t \in Thread :
       (\E d \in Promise!Diff : Apply(t, d)) \/ Step(t) \/ FileError(t) \/ Return(t)
  \/ Crash

RegistryFairness == \A t \in Thread : WF_registryVars(Step(t))

RegistrySpecification == RegistryInit /\ [][RegistryNext]_registryVars /\ RegistryFairness

-----------------------------------------------------------------------------
(* Type invariant of the registry's files and of the calls. *)
RegistryTypeOK ==
  /\ dirs \in [Version -> Promise!Content \cup {NoContent}]
  /\ pointer \in 0..MaxVersion
  /\ pointerTmp \in 0..MaxVersion
  /\ changelog \subseteq Version
  /\ call \in [Thread -> Call]

(* Without a lock, at most one thread at a time is between having its       *)
(* version directory and having flipped the pointer to it: the rename of    *)
(* the directory is what excludes the others.                               *)
OneReleaserAtATime ==
  \A t, u \in Thread :
    call[t].pc \in {"tmp", "pointer"} /\ call[u].pc \in {"tmp", "pointer"} => t = u

(* A version is immutable once written, and the live version never goes back. *)
VersionsImmutable ==
  [][/\ \A v \in Version : Written(v) => dirs'[v] = dirs[v]
     /\ pointer' \in {pointer, pointer + 1}]_registryVars

(* "one atomic sequence with the pointer flip as its linearization point":  *)
(* readers of the live profile see whole diffs, each on top of the last, no *)
(* concurrent apply's change lost.                                          *)
ReleasesAreAtomic == Promise!RegistrySpecification

(* The changelog never tells of a version that readers cannot see: the row  *)
(* is written after the flip, whoever dies or races in between.             *)
ChangelogTruthful == changelog \subseteq 1..pointer

(* Every apply ends, with a version or an error, unless the process dies:   *)
(* no thread waits for another.                                             *)
ApplyEnds ==
  \A t \in Thread : call[t].pc = "seed" ~> call[t].pc \in {"done", "failed", "idle"}

(* ensure_seeded is "idempotent - a second call is a no-op and returns the  *)
(* existing current version untouched": seeding never takes the pointer     *)
(* back, also when two threads find no pointer.                             *)
SeedingIsIdempotent == [][pointer' >= pointer]_registryVars

(* "one atomic sequence": an apply that was cut short leaves the registry   *)
(* as it was, so that the next one can make the next version.               *)
NeverWedged ==
  (\A t \in Thread : call[t] = IdleCall) => \A v \in Version : v > pointer => ~Written(v)
=============================================================================
