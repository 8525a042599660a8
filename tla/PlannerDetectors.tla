---------------------------- MODULE PlannerDetectors ----------------------------
(***************************************************************************)
(* ap_planner_bot.detectors and analytics: what one corpus scan says.  A   *)
(* scan is a sequence of packages with the rules their gate resolved; a    *)
(* package may be in it twice, when the listing shifted between two pages. *)
(* Nothing here sees an author.                                            *)
(***************************************************************************)
EXTENDS PackageGate, Sequences, FiniteSets

CONSTANTS
  Package,           \* 1..n, in the order store.list returns them
  FactsOf,           \* [Package -> PackageFacts]
  RepoVersion,       \* profile_version in the repository's reason_codes.json
  UnknownMinCount,   \* UNKNOWN_REASON_CODE_MIN_COUNT
  OtherMinCount,     \* OTHER_THEME_MIN_COUNT
  MinPackages,       \* REPEATED_WAIVER_, REPEATED_OVERRIDE_, GATE_HOTSPOT_MIN_PACKAGES
  MinFailPercent     \* GATE_HOTSPOT_MIN_FAIL_RATE

ASSUME DetectorAssumption ==
  /\ Package \subseteq Nat \ {0} /\ IsFiniteSet(Package)
  /\ FactsOf \in [Package -> PackageFacts]
  /\ {RepoVersion, UnknownMinCount, OtherMinCount, MinPackages, MinFailPercent} \subseteq Nat

Scanned(scan) == {scan[i].pkg : i \in DOMAIN scan}
OutcomesOf(s) == RunAll(FactsOf[s.pkg], s.rules)

\* Packages of the scan with an outcome of some kind for a check.
With(scan, id, kinds) ==
  {scan[i].pkg : i \in {j \in DOMAIN scan : OutcomesOf(scan[j])[id] \in kinds}}

\* How many of the given rows of each package a scan meets, repeats included.
Hits(scan, rowsOf) ==
  Cardinality(UNION {{<<i, r>> : r \in rowsOf[scan[i].pkg]} : i \in DOMAIN scan})

-----------------------------------------------------------------------------
(* Codes are compared with the repository's default: the profile is passed  *)
(* without a version, so the registry is never asked.                       *)
UnknownCode(scan) ==
  {<<"reason_code_unknown", c>> : c \in {d \in Code \ RepoRules.codes :
     /\ RepoRules.listed
     /\ Hits(scan, [p \in Package |-> {r \in OverrideRows(FactsOf[p]) : r.code = d}]) >= UnknownMinCount}}

OtherHeavy(scan) ==
  LET themed == [p \in Package |-> {r \in OverrideRows(FactsOf[p]) :
                    r.code = Other /\ r.text /\ (RepoRules.listed => Other \in RepoRules.codes)}]
  IN  IF Hits(scan, themed) >= OtherMinCount THEN {<<"reason_code_other_heavy", Other>>} ELSE {}

RepeatedWaivers(scan) ==
  {<<"repeated_waivers", id>> : id \in {c \in CheckId : Cardinality(With(scan, c, {"waived"})) >= MinPackages}}

RepeatedOverrides(scan) ==
  LET Overriding(f, c) ==
        {p \in Scanned(scan) : \E r \in OverrideRows(FactsOf[p]) : r.field = f /\ r.code = c}
  IN  {<<"repeated_overrides", fc>> : fc \in
         {x \in {"cell", "split"} \X Code : Cardinality(Overriding(x[1], x[2])) >= MinPackages}}

GateFailureHotspot(scan) ==
  {<<"gate_failure_hotspot", id>> : id \in {c \in CheckId :
     LET failing == Cardinality(With(scan, c, {"fail", "advisory"}))
     IN  failing >= MinPackages /\ 100 * failing >= MinFailPercent * Len(scan)}}

ProfileVersionDrift(scan) ==
  {<<"profile_version_drift", v>> : v \in {FactsOf[p].version : p \in Scanned(scan)} \ {0, RepoVersion}}

RunAllDetectors(scan) ==
  UNION {UnknownCode(scan), OtherHeavy(scan), RepeatedWaivers(scan), RepeatedOverrides(scan),
         GateFailureHotspot(scan), ProfileVersionDrift(scan)}
=============================================================================
