------------------------------ MODULE CanaryReport ------------------------------
(***************************************************************************)
(* The canary readiness report: hermes-polymarket-executor canary-report   *)
(* and the tool polymarket_canary_report.                                  *)
(*                                                                         *)
(* The command reads up to four times from disk: the manifest, the         *)
(* sidecar, the manifest again to hash it, and the approval.  A file read  *)
(* once may hold anything by then; the manifest may be replaced between    *)
(* its two reads.  The tool is handed evidence and approval by its caller. *)
(* Both end in build_canary_readiness_report.                              *)
(*                                                                         *)
(* A release stands for the hash of its artifact, a manifest for its hash  *)
(* too: equal hashes mean equal contents.                                  *)
(***************************************************************************)
EXTENDS Naturals

CONSTANTS Releases,
          MaxTime,  \* bound on the clock
          Junk,     \* a hash argument that is not 64 hex digits
          None

ASSUME MaxTimeAssumption == MaxTime \in Nat
ASSUME NoneAssumption ==
  /\ None \notin Releases /\ Junk \notin Releases /\ Junk # None
  /\ None \notin {"BLOCKED", "REVIEW_PACKAGE_ONLY"}

\* artifact: null in the manifest of a source candidate.
Manifests == [release: Releases, artifact: Releases \cup {None}]
Sidecars == [artifact: Releases \cup {None}, manifest: Manifests \cup {None}]

ASSUME NoManifestAssumption == None \notin Manifests /\ Junk \notin Manifests

NoSidecar == [artifact |-> None, manifest |-> None]

\* What the command is called with.
Args == [artifact: Releases \cup {None, Junk}, sidecar: BOOLEAN, approval: BOOLEAN,
         reasons: BOOLEAN]

VARIABLES now,           \* the clock
          manifestFile,  \* the manifest in the release directory
          pc,            \* where the report is
          args,
          manifest,      \* the manifest as read first, None for the tool
          sidecar,       \* the sidecar as read, NoSidecar without one
          artifact, evidence,  \* the two hashes of the report
          approval,      \* the approval's expiry, None without one
          approvedAt,    \* when that approval was validated
          status,        \* of the report, None before there is one
          replaced       \* was the manifest replaced since it was read first?

vars == <<now, manifestFile, pc, args, manifest, sidecar, artifact, evidence, approval,
          approvedAt, status, replaced>>

Ended == {"reported", "exited", "rejected"}

TypeOK ==
  /\ now \in 0..MaxTime
  /\ manifestFile \in Manifests
  /\ pc \in {"idle", "begun", "read", "hashing", "evident", "approved"} \cup Ended
  /\ args \in Args
  /\ manifest \in Manifests \cup {None}
  /\ sidecar \in Sidecars
  /\ artifact \in Releases \cup {None, Junk}
  /\ evidence \in Manifests \cup {None}
  /\ approval \in 0..(MaxTime + 1) \cup {None}
  /\ approvedAt \in 0..MaxTime
  /\ status \in {"BLOCKED", "REVIEW_PACKAGE_ONLY", None}
  /\ replaced \in BOOLEAN

Init ==
  /\ now = 0
  /\ manifestFile \in Manifests
  /\ pc = "idle"
  /\ args = [artifact |-> None, sidecar |-> FALSE, approval |-> FALSE, reasons |-> FALSE]
  /\ manifest = None /\ sidecar = NoSidecar
  /\ artifact = None /\ evidence = None
  /\ approval = None /\ approvedAt = 0
  /\ status = None /\ replaced = FALSE

-------------------------------------------------------------------------------
(* The command, one read at a time.                                         *)

Begin ==
  /\ pc = "idle"
  /\ args' \in Args
  /\ pc' = "begun"
  /\ UNCHANGED <<now, manifestFile, manifest, sidecar, artifact, evidence, approval,
                 approvedAt, status, replaced>>

ReadManifest ==
  /\ pc = "begun"
  /\ manifest' = manifestFile
  /\ replaced' = FALSE
  /\ pc' = "read"
  /\ UNCHANGED <<now, manifestFile, args, sidecar, artifact, evidence, approval,
                 approvedAt, status>>

\* Mutant of ReadSidecar: a sidecar that lies there is read without being named.
ReadSidecarAnyway ==
  /\ pc = "read"
  /\ sidecar' \in Sidecars
  /\ pc' = "hashing"
  /\ UNCHANGED <<now, manifestFile, args, manifest, artifact, evidence, approval,
                 approvedAt, status, replaced>>

ReadSidecar ==
  /\ pc = "read"
  /\ sidecar' \in IF args.sidecar THEN Sidecars ELSE {NoSidecar}
  /\ pc' = "hashing"
  /\ UNCHANGED <<now, manifestFile, args, manifest, artifact, evidence, approval,
                 approvedAt, status, replaced>>

FirstOf(x, y, z) == IF x # None THEN x ELSE IF y # None THEN y ELSE z

\* Mutant of Hash: the sidecar's two hashes are taken for each other.
HashSwapped ==
  /\ pc = "hashing"
  /\ artifact' = FirstOf(args.artifact, sidecar.manifest, manifest.artifact)
  /\ evidence' = FirstOf(sidecar.artifact, manifestFile, None)
  /\ pc' = IF artifact' \in {None, Junk} THEN "rejected" ELSE "evident"
  /\ UNCHANGED <<now, manifestFile, args, manifest, sidecar, approval, approvedAt,
                 status, replaced>>

\* The argument, the sidecar, the manifest, in this order; and the sidecar's
\* manifest hash, or that of the file as it is by now.
Hash ==
  /\ pc = "hashing"
  /\ artifact' = FirstOf(args.artifact, sidecar.artifact, manifest.artifact)
  /\ evidence' = FirstOf(sidecar.manifest, manifestFile, None)
  /\ pc' = CASE artifact' = None -> "exited"
             [] artifact' = Junk -> "rejected"
             [] OTHER            -> "evident"
  /\ UNCHANGED <<now, manifestFile, args, manifest, sidecar, approval, approvedAt, status,
                 replaced>>

-------------------------------------------------------------------------------
(* The tool: its caller brings the evidence.                                *)

BeginTool ==
  /\ pc = "idle"
  /\ args' \in {a \in Args : a.artifact # None /\ ~a.sidecar}
  /\ artifact' = args'.artifact
  /\ evidence' \in Manifests
  /\ pc' = IF artifact' = Junk THEN "rejected" ELSE "evident"
  /\ UNCHANGED <<now, manifestFile, manifest, sidecar, approval, approvedAt, status, replaced>>

-------------------------------------------------------------------------------
(* Approval and report, for both; and what stops either.                    *)

\* Mutant of InForce: any expiry will do.
AnyExpiry(until) == TRUE

\* CanaryApprovalReference: expires_at is in the future.
InForce(until) == until > now

ReadApproval ==
  /\ pc = "evident"
  /\ IF args.approval
     THEN \E until \in 0..(MaxTime + 1) :
            IF InForce(until)
            THEN approval' = until /\ approvedAt' = now /\ pc' = "approved"
            ELSE pc' = "rejected" /\ UNCHANGED <<approval, approvedAt>>
     ELSE pc' = "approved" /\ UNCHANGED <<approval, approvedAt>>
  /\ UNCHANGED <<now, manifestFile, args, manifest, sidecar, artifact, evidence, status,
                 replaced>>

\* build_canary_readiness_report: BLOCKED without an approval or for any
\* reason given.  A reason is made up when there is neither.
Report ==
  /\ pc = "approved"
  /\ status' = IF approval # None /\ ~args.reasons THEN "REVIEW_PACKAGE_ONLY"
               ELSE "BLOCKED"
  /\ pc' = "reported"
  /\ UNCHANGED <<now, manifestFile, args, manifest, sidecar, artifact, evidence, approval,
                 approvedAt, replaced>>

\* A file is missing, holds no JSON or lacks a field of the approval; or the
\* tool's approval is malformed.  No report is made.
Unreadable ==
  /\ \/ pc = "begun"
     \/ pc = "read" /\ args.sidecar
     \/ pc = "hashing" /\ sidecar.manifest = None
     \/ pc = "evident" /\ args.approval
  /\ pc' = "rejected"
  /\ UNCHANGED <<now, manifestFile, args, manifest, sidecar, artifact, evidence, approval,
                 approvedAt, status, replaced>>

-------------------------------------------------------------------------------
(* Who publishes releases, external to this repository, and the clock.      *)

ReplaceManifest ==
  /\ manifestFile' \in Manifests \ {manifestFile}
  /\ replaced' = TRUE
  /\ UNCHANGED <<now, pc, args, manifest, sidecar, artifact, evidence, approval,
                 approvedAt, status>>

Tick ==
  /\ now < MaxTime
  /\ now' = now + 1
  /\ UNCHANGED <<manifestFile, pc, args, manifest, sidecar, artifact, evidence, approval,
                 approvedAt, status, replaced>>

Next ==
  \/ Begin \/ ReadManifest \/ ReadSidecar \/ Hash
  \/ BeginTool
  \/ ReadApproval \/ Report \/ Unreadable
  \/ ReplaceManifest \/ Tick

Spec == Init /\ [][Next]_vars

-------------------------------------------------------------------------------
(* Properties.                                                              *)

\* A report is REVIEW_PACKAGE_ONLY only under an approval that was in force
\* when it was read, however long ago that is, and against no objection; and
\* no report comes without a well-formed artifact hash.
ReadyMeansApproved ==
  /\ status = "REVIEW_PACKAGE_ONLY" =>
       args.approval /\ approval > approvedAt /\ ~args.reasons
  /\ status # None => artifact \in Releases /\ evidence # None

\* The evidence hash is of another manifest than the one the release status
\* was read from only if the manifest was replaced meanwhile or the operator
\* named a sidecar made for another manifest.
MismatchHasACause ==
  status # None /\ manifest # None /\ evidence # manifest =>
    replaced \/ (args.sidecar /\ sidecar.manifest = evidence)

\* cli.py, help of --evidence-sidecar: the sidecar binds artifact and
\* canonical evidence hashes.  A report made with it names the artifact and
\* the manifest the sidecar binds.
SidecarBindsTheReport ==
  status # None /\ args.sidecar /\ sidecar.artifact # None /\ sidecar.manifest # None =>
    artifact = sidecar.artifact /\ manifest = sidecar.manifest
===============================================================================
