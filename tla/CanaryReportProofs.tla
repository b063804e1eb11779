--------------------------- MODULE CanaryReportProofs ---------------------------
(***************************************************************************)
(* What a canary report rests on, for any releases, sidecars and clock.    *)
(***************************************************************************)
EXTENDS CanaryReport, TLAPS

\* What each stage of a report has established.
StageInv ==
  /\ pc \in {"idle", "begun"} => manifest = None /\ sidecar = NoSidecar
  /\ pc \in {"read", "hashing"} => manifest \in Manifests
  /\ pc = "read" => sidecar = NoSidecar
  /\ pc \in {"read", "hashing"} /\ ~replaced => manifest = manifestFile
  /\ ~args.sidecar => sidecar = NoSidecar
  /\ pc \in {"evident", "approved", "reported"} =>
       /\ artifact \in Releases /\ evidence # None
       /\ manifest # None /\ evidence # manifest =>
            replaced \/ (args.sidecar /\ sidecar.manifest = evidence)
  /\ pc \in {"idle", "begun", "read", "hashing", "evident"} => approval = None
  /\ approval # None => args.approval /\ approval > approvedAt
  /\ status # None => pc = "reported"
  /\ status = "REVIEW_PACKAGE_ONLY" => approval # None /\ ~args.reasons

LEMMA TypeStep ==
  ASSUME TypeOK, StageInv, [Next]_vars
  PROVE  TypeOK'
<1>1. CASE Begin
  BY <1>1 DEF TypeOK, Begin, Ended
<1>2. CASE ReadManifest
  BY <1>2 DEF TypeOK, ReadManifest, Ended
<1>3. CASE ReadSidecar
  <2>1. NoSidecar \in Sidecars
    BY DEF NoSidecar, Sidecars
  <2>2. sidecar' \in Sidecars
    BY <1>3, <2>1 DEF ReadSidecar
  <2>. QED
    BY <1>3, <2>2 DEF TypeOK, ReadSidecar, Ended
<1>4. CASE Hash
  <2>1. manifest \in Manifests
    BY <1>4 DEF Hash, StageInv
  <2>. QED
    BY <1>4, <2>1
       DEF TypeOK, Hash, FirstOf, Manifests, Sidecars, Args, Ended
<1>5. CASE BeginTool
  BY <1>5 DEF TypeOK, BeginTool, Args, Ended
<1>6. CASE ReadApproval \/ Report
  BY <1>6 DEF TypeOK, ReadApproval, Report, Ended
<1>7. CASE ReplaceManifest
  BY <1>7 DEF TypeOK, ReplaceManifest
<1>8. CASE Tick
  <2>1. now' \in 0..MaxTime
    BY <1>8, MaxTimeAssumption DEF TypeOK, Tick
  <2>. QED
    BY <1>8, <2>1 DEF TypeOK, Tick
<1>9. CASE Unreadable
  BY <1>9 DEF TypeOK, Unreadable, Ended
<1>10. CASE UNCHANGED vars
  BY <1>10 DEF TypeOK, vars
<1>. QED
  BY <1>1, <1>2, <1>3, <1>4, <1>5, <1>6, <1>7, <1>8, <1>9, <1>10 DEF Next

LEMMA StageStep ==
  ASSUME TypeOK, StageInv, [Next]_vars
  PROVE  StageInv'
<1>1. CASE Begin
  BY <1>1 DEF StageInv, Begin
<1>2. CASE ReadManifest
  BY <1>2 DEF TypeOK, StageInv, ReadManifest
<1>3. CASE ReadSidecar
  BY <1>3 DEF StageInv, ReadSidecar
<1>4. CASE Hash
  <2>1. manifest \in Manifests /\ manifestFile \in Manifests
    BY <1>4 DEF Hash, StageInv, TypeOK
  <2>2. manifest # None /\ manifestFile # None
    BY <2>1, NoManifestAssumption
  <2>3. pc' = "evident" => artifact' \in Releases
    <3>1. artifact' \in Releases \cup {None, Junk}
      BY <1>4, <2>1 DEF Hash, FirstOf, TypeOK, Args, Sidecars, Manifests
    <3>. QED
      BY <1>4, <3>1 DEF Hash
  <2>4. evidence' # None
    BY <1>4, <2>2 DEF Hash, FirstOf
  <2>5. evidence' # manifest => replaced \/ (args.sidecar /\ sidecar.manifest = evidence')
    <3>1. CASE sidecar.manifest = None
      BY <1>4, <2>2, <3>1 DEF Hash, FirstOf, StageInv
    <3>2. CASE sidecar.manifest # None
      BY <1>4, <3>2 DEF Hash, FirstOf, StageInv, NoSidecar
    <3>. QED
      BY <3>1, <3>2
  <2>6. pc' \in {"exited", "rejected", "evident"} /\ approval = None /\ status = None
        /\ UNCHANGED <<manifest, sidecar, args, approval, approvedAt, status, replaced>>
    BY <1>4 DEF Hash, StageInv
  <2>. QED
    BY <2>3, <2>4, <2>5, <2>6 DEF StageInv
<1>5. CASE BeginTool
  <2>1. /\ manifest = None /\ sidecar = NoSidecar /\ approval = None /\ status = None
        /\ UNCHANGED <<manifest, sidecar, approval, approvedAt, status, replaced>>
        /\ pc' \in {"rejected", "evident"}
    BY <1>5 DEF BeginTool, StageInv
  <2>2. pc' = "evident" => artifact' \in Releases
    BY <1>5 DEF BeginTool, Args
  <2>3. evidence' # None
    BY <1>5, NoManifestAssumption DEF BeginTool
  <2>. QED
    BY <2>1, <2>2, <2>3 DEF StageInv
<1>6. CASE ReadApproval
  BY <1>6 DEF TypeOK, StageInv, ReadApproval, InForce
<1>7. CASE Report
  BY <1>7 DEF StageInv, Report
<1>8. CASE ReplaceManifest \/ Tick \/ UNCHANGED vars
  BY <1>8 DEF StageInv, ReplaceManifest, Tick, vars
<1>9. CASE Unreadable
  BY <1>9 DEF StageInv, Unreadable
<1>. QED
  BY <1>1, <1>2, <1>3, <1>4, <1>5, <1>6, <1>7, <1>8, <1>9 DEF Next

LEMMA StagesAreInvariant == Spec => [](TypeOK /\ StageInv)
<1>1. Init => TypeOK
  <2>1. 0 \in 0..MaxTime
    BY MaxTimeAssumption
  <2>2. NoSidecar \in Sidecars
    BY DEF NoSidecar, Sidecars
  <2>3. Init => args \in Args
    BY DEF Init, Args
  <2>. QED
    BY <2>1, <2>2, <2>3 DEF Init, TypeOK
<1>2. Init => StageInv
  BY NoneAssumption DEF Init, StageInv
<1>3. TypeOK /\ StageInv /\ [Next]_vars => (TypeOK /\ StageInv)'
  BY TypeStep, StageStep
<1>. QED
  BY <1>1, <1>2, <1>3, PTL DEF Spec

\* No report is ready for review unless an approval was in force when it was
\* read and nobody objected, whichever way the report is asked for.
THEOREM ReadyReports == Spec => []ReadyMeansApproved
<1>1. TypeOK /\ StageInv => ReadyMeansApproved
  BY DEF TypeOK, StageInv, ReadyMeansApproved
<1>. QED
  BY StagesAreInvariant, <1>1, PTL

\* Only a replaced manifest or a foreign sidecar makes a report show one
\* manifest's status with another's hash.
THEOREM MismatchedReports == Spec => []MismatchHasACause
<1>1. TypeOK /\ StageInv => MismatchHasACause
  BY DEF TypeOK, StageInv, MismatchHasACause
<1>. QED
  BY StagesAreInvariant, <1>1, PTL

\* Every reachable state is well-typed.
THEOREM TypesAreKept == Spec => []TypeOK
BY StagesAreInvariant, PTL
===============================================================================
