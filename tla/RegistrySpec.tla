---------------------------- MODULE RegistrySpec -----------------------------
(***************************************************************************)
(* What ap_registry.ProfileRegistry promises about one profile name: the   *)
(* live profile is seeded once and then changes only by whole diffs, each  *)
(* applied on top of the profile that is live at that moment.  A content   *)
(* is the set of files of a version directory, of which reason_codes.json  *)
(* is kept apart because a reason_code_add diff edits it instead of        *)
(* replacing it.                                                           *)
(***************************************************************************)
CONSTANTS Code,        \* reason codes
          Text,        \* contents of the profile's other file
          SeedContent, \* the repo's vendored profiles/<name>/ tree
          NoContent    \* nothing seeded yet

VARIABLE live

Content == [codes : SUBSET Code, other : Text]

\* The two declarative kinds: profile_change and reason_code_add.
Diff == [kind : {"profile_change"}, after : Text]
          \cup [kind : {"reason_code_add"}, code : Code]

\* The codes a diff leaves in reason_codes.json, given those it found.
CodesAfter(codes, d) ==
  IF d.kind = "reason_code_add" THEN codes \cup {d.code} ELSE codes

\* A new version directory: the base version's files with the diff on top.
Patched(base, codes, d) ==
  [codes |-> CodesAfter(codes, d),
   other |-> IF d.kind = "profile_change" THEN d.after ELSE base.other]

RegistryInit == live = NoContent

Seeds == live = NoContent /\ live' = SeedContent

Releases(d) == live # NoContent /\ live' = Patched(live, live.codes, d)

RegistryNext == Seeds \/ \E d \in Diff : Releases(d)

RegistrySpecification == RegistryInit /\ [][RegistryNext]_live
=============================================================================
