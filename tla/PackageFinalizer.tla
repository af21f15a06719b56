-------------------------- MODULE PackageFinalizer --------------------------
(***************************************************************************)
(* One Review Package directory (artifacts/packager.py, finalizer.py): the *)
(* builder rewrites every file in place and the manifest last, and may be  *)
(* given a CRE shadow report, whose write it lets fail; the finalizer      *)
(* checks the files against the manifest and adds the report by three      *)
(* renames: report, provenance.yml, manifest.json.  Calls come from        *)
(* request threads of the API, nothing locks the directory, any write may  *)
(* fail and the process may die between two writes.                        *)
(***************************************************************************)
EXTENDS Naturals

CONSTANTS
    Threads,    \* request threads that may call build or finalize
    PreFiles,   \* artifacts written before provenance.yml, the report aside
    Prov,       \* provenance.yml
    Review,     \* review.md
    Man,        \* manifest.json
    Cre,        \* validation/cre_shadow_report.json
    Inputs,     \* contents a build may give the artifacts
    Reports,    \* CRE shadow reports; two are equal iff their hashes are
    None,       \* no report, no hash, no file
    Absent,     \* the file does not exist
    Torn,       \* truncated, or written in part
    MaxBuilds,  \* bound: builds started in a behaviour
    Faults      \* which of "io", "crash" may happen

VARIABLES
    disk,       \* content of each file of the directory
    stamp,      \* builds started so far; a build's provenance holds its stamp
    pc,         \* where each thread is in its call
    arg,        \* what the call was given: PackageInputs, or a report
    ticket,     \* stamp of the build the thread runs
    todo,       \* files the build has still to write
    file,       \* file the build has open
    kept,       \* the build wrote the report it was given
    man,        \* manifest the finalizer holds in memory
    prov        \* provenance content the finalizer holds in memory

locals == <<pc, arg, ticket, todo, file, kept, man, prov>>
vars == <<disk, stamp, locals>>

BodyFiles == PreFiles \cup {Review}
BuildFiles == BodyFiles \cup {Prov, Man}
Paths == BuildFiles \cup {Cre}

\* What build is given: the content of the artifacts and, or not, a report.
PackageInputs == [body : Inputs, cre : Reports \cup {None}]

\* cre_shadow_report_hash: build hashes the report object in canonical form,
\* finalize the bytes of the file.  The two hashes of one report differ.
CreHash == [of : {"object", "file"}, report : Reports]
Named(h) == IF h = None THEN None ELSE h.report

\* provenance.yml as its readers tell it apart: the build that wrote it
\* (it holds a time stamp; 0 is no build's) and the cre_shadow_report_hash line.
Provenance == [stamp : 0..MaxBuilds, cre : CreHash \cup {None}]

\* manifest.json: one ArtifactRef per artifact (the hash is the content), the
\* CRE refs as a set because finalize appends without looking for an old one.
Manifest == [body : [BodyFiles -> Inputs],
             prov : Provenance,
             creRefs : SUBSET Reports,
             creHash : CreHash \cup {None}]

ASSUME PathsDistinct ==
    /\ Prov \notin BodyFiles /\ Man \notin BodyFiles /\ Cre \notin BodyFiles
    /\ Prov # Man /\ Prov # Cre /\ Man # Cre
    /\ Review \notin PreFiles

ASSUME ContentsDistinct ==
    /\ Absent # Torn
    /\ {Absent, Torn} \cap (Inputs \cup Reports \cup Provenance \cup Manifest) = {}
    /\ None \notin Reports \cup CreHash \cup Paths /\ None \notin Nat

ASSUME BoundsOK == MaxBuilds \in Nat /\ Faults \subseteq {"io", "crash"}

Resting == {"idle", "built", "ok", "failed"}
Finalizing == {"open", "verify", "existing", "write_cre", "read_prov",
               "write_prov", "write_man"}
Building == {"truncate", "fill"}

\* Of the report build is given it takes the hash whether or not the file was
\* written, and lists the file only when it was.
BuiltHash(t) == IF arg[t].cre = None THEN None
                ELSE [of |-> "object", report |-> arg[t].cre]
BuiltProvenance(t) == [stamp |-> ticket[t], cre |-> BuiltHash(t)]

\* Mutant of BuiltManifest: provenance_hash of the provenance of the build before.
BuiltManifestStaleHash(t) ==
    [body |-> [f \in BodyFiles |-> arg[t].body],
     prov |-> [BuiltProvenance(t) EXCEPT !.stamp = @ - 1],
     creRefs |-> IF kept[t] THEN {arg[t].cre} ELSE {},
     creHash |-> BuiltHash(t)]

\* ReviewPackageManifest of the build that thread t runs.
BuiltManifest(t) ==
    [body |-> [f \in BodyFiles |-> arg[t].body],
     prov |-> BuiltProvenance(t),
     creRefs |-> IF kept[t] THEN {arg[t].cre} ELSE {},
     creHash |-> BuiltHash(t)]

\* Mutant of BuiltContent: provenance.yml is written like any other artifact.
BuiltContentNoProvenance(t, f) ==
    IF f = Man THEN BuiltManifest(t)
    ELSE IF f = Cre THEN arg[t].cre ELSE arg[t].body

\* What build writes into file f.
BuiltContent(t, f) ==
    IF f = Prov THEN BuiltProvenance(t)
    ELSE IF f = Man THEN BuiltManifest(t)
    ELSE IF f = Cre THEN arg[t].cre
    ELSE arg[t].body

\* _verify_all_artifact_hashes of the manifest m against the directory.
BodyVerifies(m) == disk[Prov] = m.prov /\ \A f \in BodyFiles : disk[f] = m.body[f]
Verifies(m) == BodyVerifies(m) /\ \A r \in m.creRefs : disk[Cre] = r

Init ==
    /\ disk = [f \in Paths |-> Absent]
    /\ stamp = 0
    /\ pc = [t \in Threads |-> "idle"]
    /\ arg = [t \in Threads |-> None]
    /\ ticket = [t \in Threads |-> 0]
    /\ todo = [t \in Threads |-> {}]
    /\ file = [t \in Threads |-> None]
    /\ kept = [t \in Threads |-> FALSE]
    /\ man = [t \in Threads |-> Absent]
    /\ prov = [t \in Threads |-> Absent]

Goto(t, l) == pc' = [pc EXCEPT ![t] = l]

-----------------------------------------------------------------------------
(* ReviewPackageBuilder.build *)

StartBuild(t, v) ==
    /\ pc[t] \in Resting
    /\ stamp < MaxBuilds
    /\ stamp' = stamp + 1
    /\ ticket' = [ticket EXCEPT ![t] = stamp + 1]
    /\ arg' = [arg EXCEPT ![t] = v]
    /\ todo' = [todo EXCEPT ![t] = IF v.cre = None THEN BuildFiles ELSE Paths]
    /\ kept' = [kept EXCEPT ![t] = FALSE]
    /\ Goto(t, "truncate")
    /\ UNCHANGED <<disk, file, man, prov>>

\* The order of the writes: the artifacts and the report, provenance.yml,
\* review.md, the manifest.  The artifacts' own order is left open: nothing
\* reads between.
NextToWrite(t, f) ==
    /\ f \in todo[t]
    /\ f = Prov => todo[t] \cap (PreFiles \cup {Cre}) = {}
    /\ f = Review => todo[t] \cap (PreFiles \cup {Cre, Prov}) = {}
    /\ f = Man => todo[t] = {Man}

\* _write_file opens with mode "w": the old content is gone before the new
\* one is there.
BuildTruncate(t, f) ==
    /\ pc[t] = "truncate"
    /\ NextToWrite(t, f)
    /\ disk' = [disk EXCEPT ![f] = Torn]
    /\ file' = [file EXCEPT ![t] = f]
    /\ Goto(t, "fill")
    /\ UNCHANGED <<stamp, arg, ticket, todo, kept, man, prov>>

BuildFill(t, f) ==
    /\ pc[t] = "fill"
    /\ f = file[t]
    /\ disk' = [disk EXCEPT ![f] = BuiltContent(t, f)]
    /\ todo' = [todo EXCEPT ![t] = @ \ {f}]
    /\ file' = [file EXCEPT ![t] = None]
    /\ kept' = [kept EXCEPT ![t] = @ \/ f = Cre]
    /\ Goto(t, IF f = Man THEN "built" ELSE "truncate")
    /\ UNCHANGED <<stamp, arg, ticket, man, prov>>

\* The report cannot be opened, or not be written: build goes on without it,
\* and the file keeps what it held, or what was written of it.
BuildLosesReport(t) ==
    /\ "io" \in Faults
    /\ Cre \in todo[t]
    /\ pc[t] = "truncate" \/ (pc[t] = "fill" /\ file[t] = Cre)
    /\ todo' = [todo EXCEPT ![t] = @ \ {Cre}]
    /\ file' = [file EXCEPT ![t] = None]
    /\ Goto(t, "truncate")
    /\ UNCHANGED <<disk, stamp, arg, ticket, kept, man, prov>>

\* Any other write raises: build propagates, the file keeps what it held.
BuildFails(t) ==
    /\ "io" \in Faults
    /\ \/ pc[t] = "truncate" /\ (\E f \in BuildFiles : NextToWrite(t, f))
       \/ pc[t] = "fill" /\ file[t] # Cre
    /\ Goto(t, "failed")
    /\ file' = [file EXCEPT ![t] = None]
    /\ UNCHANGED <<disk, stamp, arg, ticket, todo, kept, man, prov>>

-----------------------------------------------------------------------------
(* ReviewPackageFinalizer.finalize *)

StartFinalize(t, r) ==
    /\ pc[t] \in Resting
    /\ arg' = [arg EXCEPT ![t] = r]
    /\ Goto(t, "open")
    /\ UNCHANGED <<disk, stamp, ticket, todo, file, kept, man, prov>>

\* Steps 1 to 3.  The directory is missing, or has no manifest, or one that
\* does not parse: refused.  The identity check compares two values that only
\* build writes, derived from the directory's own name.
OpenManifest(t) ==
    /\ pc[t] = "open"
    /\ man' = [man EXCEPT ![t] = disk[Man]]
    /\ Goto(t, IF disk[Man] \in {Absent, Torn} THEN "failed" ELSE "verify")
    /\ UNCHANGED <<disk, stamp, arg, ticket, todo, file, kept, prov>>

\* Mutant of VerifyHashes: the hashes are not compared.
VerifyHashesSkipped(t) ==
    /\ pc[t] = "verify"
    /\ Goto(t, "existing")
    /\ UNCHANGED <<disk, stamp, arg, ticket, todo, file, kept, man, prov>>

\* Step 4.
VerifyHashes(t) ==
    /\ pc[t] = "verify"
    /\ Goto(t, IF Verifies(man[t]) THEN "existing" ELSE "failed")
    /\ UNCHANGED <<disk, stamp, arg, ticket, todo, file, kept, man, prov>>

\* Step 5: a report file with this very hash means the work is done.
CheckExisting(t) ==
    /\ pc[t] = "existing"
    /\ Goto(t, IF disk[Cre] = arg[t] THEN "ok" ELSE "write_cre")
    /\ UNCHANGED <<disk, stamp, arg, ticket, todo, file, kept, man, prov>>

\* Step 6, _atomic_write: a rename, never a half-written file.
WriteCre(t) ==
    /\ pc[t] = "write_cre"
    /\ disk' = [disk EXCEPT ![Cre] = arg[t]]
    /\ Goto(t, "read_prov")
    /\ UNCHANGED <<stamp, arg, ticket, todo, file, kept, man, prov>>

FileHash(r) == [of |-> "file", report |-> r]

\* Step 7, first half: read provenance.yml and set its hash line; a missing
\* file raises, and what a half-written one holds is no build's provenance.
ReadProvenance(t) ==
    /\ pc[t] = "read_prov"
    /\ prov' = [prov EXCEPT ![t] =
                   IF disk[Prov] \in Provenance
                   THEN [disk[Prov] EXCEPT !.cre = FileHash(arg[t])]
                   ELSE [stamp |-> 0, cre |-> FileHash(arg[t])]]
    /\ Goto(t, IF disk[Prov] = Absent THEN "failed" ELSE "write_prov")
    /\ UNCHANGED <<disk, stamp, arg, ticket, todo, file, kept, man>>

\* Step 7, second half.
WriteProvenance(t) ==
    /\ pc[t] = "write_prov"
    /\ disk' = [disk EXCEPT ![Prov] = prov[t]]
    /\ Goto(t, "write_man")
    /\ UNCHANGED <<stamp, arg, ticket, todo, file, kept, man, prov>>

\* Mutant of FinalManifest: cre_shadow_report_hash is not set.
FinalManifestNoHash(m, p, r) == [m EXCEPT !.prov = p, !.creRefs = @ \cup {r}]

\* The manifest finalize writes: the one it read, the report appended.
FinalManifest(m, p, r) ==
    [m EXCEPT !.prov = p, !.creRefs = @ \cup {r}, !.creHash = FileHash(r)]

\* Steps 8 and 9.
WriteManifest(t) ==
    /\ pc[t] = "write_man"
    /\ disk' = [disk EXCEPT ![Man] = FinalManifest(man[t], prov[t], arg[t])]
    /\ Goto(t, "ok")
    /\ UNCHANGED <<stamp, arg, ticket, todo, file, kept, man, prov>>

\* Any read or write raises: finalize returns success = False, INCOMPLETE.
FinalizeFails(t) ==
    /\ "io" \in Faults
    /\ pc[t] \in Finalizing
    /\ Goto(t, "failed")
    /\ UNCHANGED <<disk, stamp, arg, ticket, todo, file, kept, man, prov>>

-----------------------------------------------------------------------------
\* The process dies: calls and their memory are gone, the directory stays.
Crash ==
    /\ "crash" \in Faults
    /\ \E t \in Threads : pc[t] \notin Resting
    /\ pc' = [t \in Threads |-> "idle"]
    /\ arg' = [t \in Threads |-> None]
    /\ ticket' = [t \in Threads |-> 0]
    /\ todo' = [t \in Threads |-> {}]
    /\ file' = [t \in Threads |-> None]
    /\ kept' = [t \in Threads |-> FALSE]
    /\ man' = [t \in Threads |-> Absent]
    /\ prov' = [t \in Threads |-> Absent]
    /\ UNCHANGED <<disk, stamp>>

FinalizeStep(t) ==
    \/ OpenManifest(t) \/ VerifyHashes(t) \/ CheckExisting(t) \/ WriteCre(t)
    \/ ReadProvenance(t) \/ WriteProvenance(t) \/ WriteManifest(t)
    \/ FinalizeFails(t)

BuildStep(t) ==
    \/ \E f \in Paths : BuildTruncate(t, f) \/ BuildFill(t, f)
    \/ BuildLosesReport(t)
    \/ BuildFails(t)

Next ==
    \/ \E t \in Threads :
          \/ \E v \in PackageInputs : StartBuild(t, v)
          \/ \E r \in Reports : StartFinalize(t, r)
          \/ BuildStep(t)
          \/ FinalizeStep(t)
    \/ Crash

Spec == Init /\ [][Next]_vars

-----------------------------------------------------------------------------
TypeOK ==
    /\ disk \in [Paths -> Inputs \cup Reports \cup Provenance \cup Manifest
                            \cup {Absent, Torn}]
    /\ disk[Man] \in Manifest \cup {Absent, Torn}
    /\ disk[Prov] \in Provenance \cup {Absent, Torn}
    /\ disk[Cre] \in Reports \cup {Absent, Torn}
    /\ stamp \in 0..MaxBuilds
    /\ pc \in [Threads -> Resting \cup Finalizing \cup Building]
    /\ arg \in [Threads -> PackageInputs \cup Reports \cup {None}]
    /\ ticket \in [Threads -> 0..MaxBuilds]
    /\ todo \in [Threads -> SUBSET Paths]
    /\ file \in [Threads -> Paths \cup {None}]
    /\ kept \in [Threads -> BOOLEAN]
    /\ man \in [Threads -> Manifest \cup {Absent, Torn}]
    /\ prov \in [Threads -> Provenance \cup {Absent}]

\* In a package whose every file matches its manifest, the manifest's
\* cre_shadow_report_hash and the line of provenance.yml are the same hash,
\* and it is the hash of the report in the file wherever the manifest lists
\* that file, or finalize gave the hash.  So it is whatever was interrupted,
\* failed or ran at the same time (finalizer.py, Steps 6 to 8;
\* test_cre_provenance_manifest_hash_consistent).  The one report that is named
\* and need not be there is one that build was given and could not write: build
\* names it all the same and lists no file (packager.py:112-125, 813-817).
ReportsAgree ==
    disk[Man] \in Manifest /\ Verifies(disk[Man]) =>
        LET named == disk[Man].creHash IN
        /\ disk[Prov].cre = named
        /\ disk[Man].creRefs # {} \/ (named # None /\ named.of = "file")
               => disk[Cre] = Named(named)

\* With one call at a time, a build that returns has put right whatever
\* earlier crashed or failed calls left: every file matches the manifest.
BuildHeals ==
    \A t \in Threads :
        pc[t] = "built" => disk[Man] \in Manifest /\ Verifies(disk[Man])

\* With one call at a time, finalize reports success only over a package
\* whose own artifacts all match the manifest, however it was left before.
SuccessOverIntactBody ==
    \A t \in Threads :
        pc[t] = "ok" => disk[Man] \in Manifest /\ BodyVerifies(disk[Man])

\* Shown through its manifest the directory is a ReviewPackage: with one call
\* at a time, crashes and failures never show a mixture, and never another
\* report than the one that the build or the last finalize was given.
Shown == disk[Man] \in Manifest
Abs == INSTANCE ReviewPackage WITH
    Stamps <- 1..MaxBuilds,
    installed <- IF Shown THEN disk[Man].prov.stamp ELSE None,
    attached <- IF Shown THEN Named(disk[Man].creHash) ELSE None,
    listed <- Shown /\ Named(disk[Man].creHash) \in disk[Man].creRefs

ImplementsReviewPackage == Abs!AbsSpec

-----------------------------------------------------------------------------
(* What the code's own words promise, and the runs refute. *)

\* finalizer.py:204: a report that differs from the one on disk is updated by
\* overwriting; the package it leaves still matches its manifest.
SuccessMeansVerifiable ==
    \A t \in Threads :
        pc[t] = "ok" => disk[Man] \in Manifest /\ Verifies(disk[Man])
=============================================================================
