----------------------- MODULE PackageFinalizer_proof -----------------------
(***************************************************************************)
(* Theorems about PackageFinalizer, for any threads, files, inputs,        *)
(* reports, number of builds and set of faults.                            *)
(***************************************************************************)
EXTENDS PackageFinalizer, TLAPS

\* What a call holds in memory at each point of its run.
LocalsOK ==
    \A t \in Threads :
        /\ pc[t] \in Finalizing => arg[t] \in Reports
        /\ pc[t] \in Building => arg[t] \in PackageInputs
        /\ pc[t] \in Building /\ (kept[t] \/ Cre \in todo[t]) => arg[t].cre \in Reports
        /\ pc[t] = "fill" => NextToWrite(t, file[t])
        /\ pc[t] \in Finalizing \ {"open"} => man[t] \in Manifest
        /\ pc[t] \in {"write_prov", "write_man"} => prov[t] \in Provenance

TInv == TypeOK /\ LocalsOK

LEMMA BuiltManifestType ==
    ASSUME TypeOK, NEW t \in Threads, arg[t] \in PackageInputs,
           kept[t] => arg[t].cre \in Reports
    PROVE  BuiltProvenance(t) \in Provenance /\ BuiltManifest(t) \in Manifest
<1>1. BuiltHash(t) \in CreHash \cup {None}
  BY DEF BuiltHash, CreHash, PackageInputs
<1>2. BuiltProvenance(t) \in Provenance
  BY <1>1 DEF BuiltProvenance, Provenance, TypeOK
<1>3. arg[t].body \in Inputs
  BY DEF PackageInputs
<1> QED BY <1>1, <1>2, <1>3 DEF BuiltManifest, Manifest

LEMMA FinalManifestType ==
    ASSUME NEW m \in Manifest, NEW p \in Provenance, NEW r \in Reports
    PROVE  FinalManifest(m, p, r) \in Manifest
<1>1. FileHash(r) \in CreHash
  BY DEF FileHash, CreHash
<1> QED BY <1>1 DEF FinalManifest, Manifest

\* A write of a value of the file's own type keeps the directory typed.
LEMMA DiskType ==
    ASSUME TypeOK, NEW f \in Paths, NEW c, disk' = [disk EXCEPT ![f] = c],
           \/ f \in BodyFiles /\ c \in Inputs
           \/ c = Torn
           \/ f = Prov /\ c \in Provenance
           \/ f = Man /\ c \in Manifest
           \/ f = Cre /\ c \in Reports
    PROVE  /\ disk' \in [Paths -> Inputs \cup Reports \cup Provenance
                                   \cup Manifest \cup {Absent, Torn}]
           /\ disk'[Man] \in Manifest \cup {Absent, Torn}
           /\ disk'[Prov] \in Provenance \cup {Absent, Torn}
           /\ disk'[Cre] \in Reports \cup {Absent, Torn}
  BY PathsDistinct DEF TypeOK, Paths, BuildFiles, BodyFiles

LEMMA InitTyped == Init => TInv
  BY PathsDistinct, BoundsOK
     DEF Init, TInv, TypeOK, LocalsOK, Paths, BuildFiles, BodyFiles,
         Resting, Finalizing, Building

LEMMA BuildTyped ==
    ASSUME TInv, NEW t \in Threads, BuildStep(t)
    PROVE  TInv'
<1> USE DEF TInv, Resting, Finalizing, Building
<1>1. ASSUME NEW f \in Paths, BuildTruncate(t, f) PROVE TInv'
  <2>1. disk' = [disk EXCEPT ![f] = Torn]
    BY <1>1 DEF BuildTruncate
  <2>2. TypeOK'
    <3> HIDE DEF TInv
    <3>1. /\ disk' \in [Paths -> Inputs \cup Reports \cup Provenance
                                   \cup Manifest \cup {Absent, Torn}]
          /\ disk'[Man] \in Manifest \cup {Absent, Torn}
          /\ disk'[Prov] \in Provenance \cup {Absent, Torn}
          /\ disk'[Cre] \in Reports \cup {Absent, Torn}
      BY <2>1, DiskType DEF TInv
    <3>2. QED BY <1>1, <3>1 DEF BuildTruncate, Goto, TypeOK, locals, TInv
  <2>3. NextToWrite(t, f) /\ todo' = todo BY <1>1 DEF BuildTruncate
  <2>4. LocalsOK'
    BY <1>1, <2>3 DEF BuildTruncate, Goto, LocalsOK, TypeOK, NextToWrite
  <2>5. QED BY <2>2, <2>4
<1>2. ASSUME NEW f \in Paths, BuildFill(t, f) PROVE TInv'
  <2>1. disk' = [disk EXCEPT ![f] = BuiltContent(t, f)]
    BY <1>2 DEF BuildFill
  <2>2. /\ arg[t] \in PackageInputs /\ f \in todo[t]
        /\ kept[t] \/ Cre \in todo[t] => arg[t].cre \in Reports
    BY <1>2 DEF BuildFill, LocalsOK, NextToWrite
  <2>3. \/ f \in BodyFiles /\ BuiltContent(t, f) \in Inputs
        \/ f = Prov /\ BuiltContent(t, f) \in Provenance
        \/ f = Man /\ BuiltContent(t, f) \in Manifest
        \/ f = Cre /\ BuiltContent(t, f) \in Reports
    BY <2>2, BuiltManifestType, PathsDistinct
       DEF BuiltContent, Paths, BuildFiles, PackageInputs
  <2>4. TypeOK'
    <3> HIDE DEF TInv
    <3>1. /\ disk' \in [Paths -> Inputs \cup Reports \cup Provenance
                                   \cup Manifest \cup {Absent, Torn}]
          /\ disk'[Man] \in Manifest \cup {Absent, Torn}
          /\ disk'[Prov] \in Provenance \cup {Absent, Torn}
          /\ disk'[Cre] \in Reports \cup {Absent, Torn}
      BY <2>1, <2>3, DiskType DEF TInv
    <3>2. QED BY <1>2, <3>1 DEF BuildFill, Goto, TypeOK, TInv
  <2>5. LocalsOK'
    BY <1>2, <2>2 DEF BuildFill, Goto, LocalsOK, TypeOK, NextToWrite
  <2>6. QED BY <2>4, <2>5
<1>3. CASE BuildLosesReport(t)
  BY <1>3 DEF BuildLosesReport, Goto, TypeOK, LocalsOK, NextToWrite
<1>4. CASE BuildFails(t)
  BY <1>4 DEF BuildFails, Goto, TypeOK, LocalsOK, NextToWrite
<1>5. QED BY <1>1, <1>2, <1>3, <1>4 DEF BuildStep

LEMMA FinalizeTyped ==
    ASSUME TInv, NEW t \in Threads, FinalizeStep(t)
    PROVE  TInv'
<1> USE DEF TInv, Resting, Finalizing, Building
<1>1. CASE OpenManifest(t)
  BY <1>1 DEF OpenManifest, Goto, TypeOK, LocalsOK, NextToWrite
<1>2. CASE VerifyHashes(t)
  BY <1>2 DEF VerifyHashes, Goto, TypeOK, LocalsOK, NextToWrite
<1>3. CASE CheckExisting(t)
  BY <1>3 DEF CheckExisting, Goto, TypeOK, LocalsOK, NextToWrite
<1>4. CASE WriteCre(t)
  <2>1. arg[t] \in Reports BY <1>4 DEF WriteCre, LocalsOK
  <2>2. TypeOK'
    <3> HIDE DEF TInv
    <3>1. /\ disk' \in [Paths -> Inputs \cup Reports \cup Provenance
                                   \cup Manifest \cup {Absent, Torn}]
          /\ disk'[Man] \in Manifest \cup {Absent, Torn}
          /\ disk'[Prov] \in Provenance \cup {Absent, Torn}
          /\ disk'[Cre] \in Reports \cup {Absent, Torn}
      BY <1>4, <2>1, DiskType DEF TInv, WriteCre, Paths
    <3>2. QED BY <1>4, <3>1 DEF WriteCre, Goto, TypeOK, TInv
  <2>3. LocalsOK' BY <1>4 DEF WriteCre, Goto, LocalsOK, TypeOK, NextToWrite
  <2>4. QED BY <2>2, <2>3
<1>5. CASE ReadProvenance(t)
  <2>1. prov'[t] \in Provenance
    <3>1. arg[t] \in Reports BY <1>5 DEF ReadProvenance, LocalsOK
    <3>2. FileHash(arg[t]) \in CreHash
      BY <3>1 DEF FileHash, CreHash
    <3>3. [stamp |-> 0, cre |-> FileHash(arg[t])] \in Provenance
      BY <3>2, BoundsOK DEF Provenance
    <3>4. disk[Prov] \in Provenance =>
              [disk[Prov] EXCEPT !.cre = FileHash(arg[t])] \in Provenance
      BY <3>2 DEF Provenance
    <3>5. QED BY <1>5, <3>3, <3>4 DEF ReadProvenance, TypeOK
  <2>2. \A u \in Threads \ {t} : prov'[u] = prov[u]
    BY <1>5 DEF ReadProvenance, TypeOK
  <2>3. TypeOK'
    BY <1>5, <2>1, <2>2 DEF ReadProvenance, Goto, TypeOK
  <2>4. LocalsOK'
    BY <1>5, <2>1, <2>2 DEF ReadProvenance, Goto, LocalsOK, TypeOK, NextToWrite
  <2>5. QED BY <2>3, <2>4
<1>6. CASE WriteProvenance(t)
  <2>1. prov[t] \in Provenance BY <1>6 DEF WriteProvenance, LocalsOK
  <2>2. TypeOK'
    <3> HIDE DEF TInv
    <3>1. /\ disk' \in [Paths -> Inputs \cup Reports \cup Provenance
                                   \cup Manifest \cup {Absent, Torn}]
          /\ disk'[Man] \in Manifest \cup {Absent, Torn}
          /\ disk'[Prov] \in Provenance \cup {Absent, Torn}
          /\ disk'[Cre] \in Reports \cup {Absent, Torn}
      BY <1>6, <2>1, DiskType DEF TInv, WriteProvenance, Paths, BuildFiles
    <3>2. QED BY <1>6, <3>1 DEF WriteProvenance, Goto, TypeOK, TInv
  <2>3. LocalsOK' BY <1>6 DEF WriteProvenance, Goto, LocalsOK, TypeOK, NextToWrite
  <2>4. QED BY <2>2, <2>3
<1>7. CASE WriteManifest(t)
  <2>1. FinalManifest(man[t], prov[t], arg[t]) \in Manifest
    BY <1>7, FinalManifestType DEF WriteManifest, LocalsOK
  <2>2. TypeOK'
    <3> HIDE DEF TInv
    <3>1. /\ disk' \in [Paths -> Inputs \cup Reports \cup Provenance
                                   \cup Manifest \cup {Absent, Torn}]
          /\ disk'[Man] \in Manifest \cup {Absent, Torn}
          /\ disk'[Prov] \in Provenance \cup {Absent, Torn}
          /\ disk'[Cre] \in Reports \cup {Absent, Torn}
      BY <1>7, <2>1, DiskType DEF TInv, WriteManifest, Paths, BuildFiles
    <3>2. QED BY <1>7, <3>1 DEF WriteManifest, Goto, TypeOK, TInv
  <2>3. LocalsOK' BY <1>7 DEF WriteManifest, Goto, LocalsOK, TypeOK, NextToWrite
  <2>4. QED BY <2>2, <2>3
<1>8. CASE FinalizeFails(t)
  BY <1>8 DEF FinalizeFails, Goto, TypeOK, LocalsOK, NextToWrite
<1>9. QED BY <1>1, <1>2, <1>3, <1>4, <1>5, <1>6, <1>7, <1>8 DEF FinalizeStep

LEMMA NextTyped == TInv /\ [Next]_vars => TInv'
<1> SUFFICES ASSUME TInv, [Next]_vars PROVE TInv'
  OBVIOUS
<1> USE DEF TInv, Resting, Finalizing, Building
<1>1. ASSUME NEW t \in Threads, NEW v \in PackageInputs, StartBuild(t, v) PROVE TInv'
  <2>1. todo'[t] \in SUBSET Paths /\ (Cre \in todo'[t] => v.cre \in Reports)
    BY <1>1, PathsDistinct DEF StartBuild, TypeOK, Paths, BuildFiles, PackageInputs
  <2>2. TypeOK'
    BY <1>1, <2>1, BoundsOK DEF StartBuild, Goto, TypeOK
  <2>3. LocalsOK'
    BY <1>1, <2>1 DEF StartBuild, Goto, TypeOK, LocalsOK, NextToWrite
  <2>4. QED BY <2>2, <2>3
<1>2. ASSUME NEW t \in Threads, NEW r \in Reports, StartFinalize(t, r) PROVE TInv'
  BY <1>2 DEF StartFinalize, Goto, TypeOK, LocalsOK, NextToWrite
<1>3. CASE Crash
  BY <1>3, BoundsOK DEF Crash, TypeOK, LocalsOK
<1>4. CASE UNCHANGED vars
  BY <1>4 DEF vars, locals, TypeOK, LocalsOK, NextToWrite
<1>5. QED
  BY <1>1, <1>2, <1>3, <1>4, BuildTyped, FinalizeTyped DEF Next

\* Every file holds a value of its kind, and every call the values its point
\* of progress needs, in all behaviours.
THEOREM TypeCorrect == Spec => []TypeOK
<1>1. Spec => []TInv BY InitTyped, NextTyped, PTL DEF Spec
<1>2. TInv => TypeOK BY DEF TInv
<1>3. QED BY <1>1, <1>2, PTL

-----------------------------------------------------------------------------
(* ReportsAgree, with any number of calls at the same time. *)

\* A manifest that names its report the same way in all its fields.
Coherent(m) ==
    /\ m.prov.cre = m.creHash
    /\ m.creRefs # {} \/ (m.creHash # None /\ m.creHash.of = "file")
           => Named(m.creHash) \in m.creRefs

RInv ==
    /\ disk[Man] \in Manifest => Coherent(disk[Man])
    /\ \A t \in Threads :
         /\ pc[t] \in Finalizing \ {"open"} => Coherent(man[t])
         /\ pc[t] \in {"write_prov", "write_man"} => prov[t].cre = FileHash(arg[t])

\* What a build or a finalize writes as manifest is coherent.
LEMMA BuiltCoherent ==
    ASSUME NEW t \in Threads, kept[t] => arg[t].cre \in Reports
    PROVE  Coherent(BuiltManifest(t))
<1>1. /\ BuiltManifest(t).prov.cre = BuiltHash(t) /\ BuiltManifest(t).creHash = BuiltHash(t)
      /\ BuiltManifest(t).creRefs = IF kept[t] THEN {arg[t].cre} ELSE {}
  BY DEF BuiltManifest, BuiltProvenance
<1>2. CASE arg[t].cre = None
  BY <1>1, <1>2, ContentsDistinct DEF Coherent, BuiltHash
<1>3. CASE arg[t].cre # None
  <2>1. BuiltHash(t) = [of |-> "object", report |-> arg[t].cre]
    BY <1>3 DEF BuiltHash
  <2>2. BuiltHash(t).of = "object" /\ BuiltHash(t).report = arg[t].cre
    BY <2>1
  <2>3. kept[t] => BuiltHash(t) # None
    <3>1. kept[t] => BuiltHash(t) \in CreHash BY <2>1 DEF CreHash
    <3>2. QED BY <3>1, ContentsDistinct
  <2>4. QED BY <1>1, <2>1, <2>2, <2>3 DEF Coherent, Named
<1>4. QED BY <1>2, <1>3

LEMMA FinalCoherent ==
    ASSUME NEW m \in Manifest, NEW p \in Provenance, NEW r \in Reports, p.cre = FileHash(r)
    PROVE  Coherent(FinalManifest(m, p, r))
<1>1. FinalManifest(m, p, r).prov = p /\ FinalManifest(m, p, r).creHash = FileHash(r)
      /\ r \in FinalManifest(m, p, r).creRefs
  BY DEF FinalManifest, Manifest
<1>2. FileHash(r) # None /\ FileHash(r).report = r
  <2>1. FileHash(r) \in CreHash BY DEF FileHash, CreHash
  <2>2. QED BY <2>1, ContentsDistinct DEF FileHash
<1> QED BY <1>1, <1>2 DEF Coherent, Named

LEMMA RInvStep == TInv /\ RInv /\ [Next]_vars => RInv'
<1> SUFFICES ASSUME TInv, RInv, [Next]_vars PROVE RInv'
  OBVIOUS
<1> USE DEF Resting, Finalizing, Building
<1>0. TypeOK /\ LocalsOK BY DEF TInv
<1>1. ASSUME NEW t \in Threads, NEW v \in PackageInputs, StartBuild(t, v) PROVE RInv'
  BY <1>0, <1>1 DEF StartBuild, Goto, TypeOK, RInv
<1>2. ASSUME NEW t \in Threads, NEW r \in Reports, StartFinalize(t, r) PROVE RInv'
  BY <1>0, <1>2 DEF StartFinalize, Goto, TypeOK, RInv
<1>3. ASSUME NEW t \in Threads, NEW f \in Paths, BuildTruncate(t, f)
      PROVE  RInv'
  <2>1. disk'[Man] \in {disk[Man], Torn}
    BY <1>0, <1>3 DEF BuildTruncate, TypeOK, Paths, BuildFiles
  <2>2. QED
    BY <1>0, <1>3, <2>1, ContentsDistinct DEF BuildTruncate, Goto, TypeOK, RInv
<1>4. ASSUME NEW t \in Threads, NEW f \in Paths, BuildFill(t, f) PROVE RInv'
  <2>1. Coherent(BuiltManifest(t))
    BY <1>0, <1>4, BuiltCoherent DEF BuildFill, LocalsOK
  <2>2. disk'[Man] \in {disk[Man], BuiltManifest(t)}
    BY <1>0, <1>4, PathsDistinct
       DEF BuildFill, BuiltContent, TypeOK, Paths, BuildFiles
  <2>3. disk'[Man] \in Manifest => Coherent(disk'[Man])
    BY <2>1, <2>2 DEF RInv
  <2>4. QED
    <3> HIDE DEF Coherent
    <3>1. QED BY <1>0, <1>4, <2>3 DEF BuildFill, Goto, TypeOK, RInv
<1>5. ASSUME NEW t \in Threads, BuildLosesReport(t) \/ BuildFails(t) \/ FinalizeFails(t)
      PROVE  RInv'
  BY <1>0, <1>5 DEF BuildLosesReport, BuildFails, FinalizeFails, Goto, TypeOK, RInv
<1>6. ASSUME NEW t \in Threads, OpenManifest(t) PROVE RInv'
  <2>1. disk[Man] \notin {Absent, Torn} => Coherent(disk[Man])
    BY <1>0 DEF TypeOK, RInv
  <2>2. QED BY <1>0, <1>6, <2>1 DEF OpenManifest, Goto, TypeOK, RInv
<1>7. ASSUME NEW t \in Threads, VerifyHashes(t) \/ CheckExisting(t) PROVE RInv'
  BY <1>0, <1>7 DEF VerifyHashes, CheckExisting, Goto, TypeOK, RInv
<1>8. ASSUME NEW t \in Threads, WriteCre(t) PROVE RInv'
  <2>1. disk'[Man] = disk[Man]
    BY <1>0, <1>8, PathsDistinct DEF WriteCre, TypeOK
  <2>2. QED BY <1>0, <1>8, <2>1 DEF WriteCre, Goto, TypeOK, RInv
<1>9. ASSUME NEW t \in Threads, ReadProvenance(t) PROVE RInv'
  <2>1. prov'[t].cre = FileHash(arg[t])
    <3>1. CASE disk[Prov] \in Provenance
      <4>1. [disk[Prov] EXCEPT !.cre = FileHash(arg[t])].cre = FileHash(arg[t])
        BY <3>1 DEF Provenance
      <4>2. QED BY <1>0, <1>9, <3>1, <4>1 DEF ReadProvenance, TypeOK
    <3>2. CASE disk[Prov] \notin Provenance
      BY <1>0, <1>9, <3>2 DEF ReadProvenance, TypeOK
    <3>3. QED BY <3>1, <3>2
  <2>2. \A u \in Threads \ {t} : prov'[u] = prov[u]
    BY <1>0, <1>9 DEF ReadProvenance, TypeOK
  <2>3. QED BY <1>0, <1>9, <2>1, <2>2 DEF ReadProvenance, Goto, TypeOK, RInv
<1>10. ASSUME NEW t \in Threads, WriteProvenance(t) PROVE RInv'
  <2>1. disk'[Man] = disk[Man]
    BY <1>0, <1>10, PathsDistinct DEF WriteProvenance, TypeOK
  <2>2. QED BY <1>0, <1>10, <2>1 DEF WriteProvenance, Goto, TypeOK, RInv
<1>11. ASSUME NEW t \in Threads, WriteManifest(t) PROVE RInv'
  <2>1. /\ man[t] \in Manifest /\ prov[t] \in Provenance /\ arg[t] \in Reports
        /\ prov[t].cre = FileHash(arg[t])
    BY <1>0, <1>11 DEF WriteManifest, LocalsOK, RInv
  <2>2. Coherent(FinalManifest(man[t], prov[t], arg[t]))
    BY <2>1, FinalCoherent
  <2>3. disk'[Man] = FinalManifest(man[t], prov[t], arg[t])
    BY <1>0, <1>11 DEF WriteManifest, TypeOK, Paths, BuildFiles
  <2>4. QED
    <3> HIDE DEF Coherent
    <3>1. QED BY <1>0, <1>11, <2>2, <2>3 DEF WriteManifest, Goto, TypeOK, RInv
<1>12. CASE Crash
  BY <1>0, <1>12 DEF Crash, TypeOK, RInv
<1>13. CASE UNCHANGED vars
  BY <1>13 DEF vars, locals, RInv
<1>14. QED
  BY <1>1, <1>2, <1>3, <1>4, <1>5, <1>6, <1>7, <1>8, <1>9, <1>10, <1>11,
     <1>12, <1>13 DEF Next, BuildStep, FinalizeStep

\* A package whose files all match its manifest has one hash in the manifest
\* and in provenance.yml, and it is that of the report file wherever the file
\* is listed or finalize gave the hash, however many calls overlap, fail or die.
THEOREM ReportsAlwaysAgree == Spec => []ReportsAgree
<1>1. Init => RInv
  BY PathsDistinct, ContentsDistinct
     DEF Init, RInv, Finalizing, Paths, BuildFiles
<1>2. RInv => ReportsAgree
  BY DEF RInv, Coherent, ReportsAgree, Verifies, BodyVerifies
<1>3. Spec => []TInv BY InitTyped, NextTyped, PTL DEF Spec
<1>4. Spec => []RInv BY <1>1, <1>3, RInvStep, PTL DEF Spec
<1>5. QED BY <1>2, <1>4, PTL

-----------------------------------------------------------------------------
(* One call at a time: what a single client at a time may rely on. *)

OneCallAtATime == \A t, u \in Threads : t = u

\* The body of the directory is the one manifest m lists.
BodyMatches(m) == \A f \in BodyFiles : disk[f] = m.body[f]

\* How far a build or a finalize has come, told by the files alone.
SInv ==
    \A t \in Threads :
        /\ pc[t] \in Building =>
             /\ Man \in todo[t]
             /\ ticket[t] \in 1..MaxBuilds
             /\ \A f \in BuildFiles \ todo[t] : disk[f] = BuiltContent(t, f)
             /\ kept[t] => Cre \notin todo[t] /\ disk[Cre] = arg[t].cre
        /\ pc[t] = "built" => disk[Man] \in Manifest /\ Verifies(disk[Man])
        /\ pc[t] \in Finalizing \ {"open"} => disk[Man] = man[t]
        /\ pc[t] \in Finalizing \ {"open", "verify"} => BodyMatches(man[t])
        /\ pc[t] \in {"existing", "write_cre", "read_prov"} => disk[Prov] = man[t].prov
        /\ pc[t] \in {"write_prov", "write_man"} => prov[t].stamp = man[t].prov.stamp
        /\ pc[t] = "write_man" => disk[Prov] = prov[t]
        /\ pc[t] = "ok" => disk[Man] \in Manifest /\ BodyVerifies(disk[Man])

LEMMA SerialBuild ==
    ASSUME OneCallAtATime, TInv, SInv, NEW t \in Threads, BuildStep(t)
    PROVE  SInv'
<1> USE DEF Resting, Finalizing, Building
<1>0. /\ TypeOK /\ LocalsOK
      /\ \A u \in Threads : u = t
  BY DEF TInv, OneCallAtATime
<1>1. ASSUME NEW f \in Paths, BuildTruncate(t, f) PROVE SInv'
  <2>1. \A g \in Paths \ {f} : disk'[g] = disk[g]
    BY <1>0, <1>1 DEF BuildTruncate, TypeOK
  <2>2. /\ f \in todo[t] /\ todo' = todo /\ pc'[t] = "fill" /\ ticket' = ticket
        /\ arg' = arg /\ kept' = kept
    BY <1>0, <1>1 DEF BuildTruncate, Goto, NextToWrite, TypeOK
  <2>3. \A g \in BuildFiles : BuiltContent(t, g)' = BuiltContent(t, g) /\ g \in Paths
    BY <1>1 DEF BuildTruncate, BuiltContent, BuiltManifest, BuiltProvenance, BuiltHash, Paths
  <2>4. pc[t] \in Building BY <1>1 DEF BuildTruncate
  <2>5. kept[t] => Cre # f /\ Cre \in Paths
    BY <2>2, <2>4 DEF SInv, Paths
  <2>6. QED BY <1>0, <2>1, <2>2, <2>3, <2>4, <2>5 DEF SInv
<1>2. ASSUME NEW f \in Paths, BuildFill(t, f), f # Man PROVE SInv'
  <2>1. \A g \in Paths \ {f} : disk'[g] = disk[g]
    BY <1>0, <1>2 DEF BuildFill, TypeOK
  <2>2. disk'[f] = BuiltContent(t, f)
    BY <1>0, <1>2 DEF BuildFill, TypeOK
  <2>3. /\ todo'[t] = todo[t] \ {f}
        /\ pc'[t] = "truncate"
        /\ ticket' = ticket /\ arg' = arg
        /\ kept'[t] = (kept[t] \/ f = Cre)
    BY <1>0, <1>2 DEF BuildFill, Goto, TypeOK
  <2>4. \A g \in BuildFiles \ {Man} : BuiltContent(t, g)' = BuiltContent(t, g) /\ g \in Paths
    BY <1>2 DEF BuildFill, BuiltContent, BuiltProvenance, BuiltHash, Paths
  <2>5. pc[t] \in Building /\ f \in todo[t]
    BY <1>0, <1>2 DEF BuildFill, LocalsOK, NextToWrite
  <2>6. Man \in todo[t] /\ ticket[t] \in 1..MaxBuilds
        /\ \A g \in BuildFiles \ todo[t] : disk[g] = BuiltContent(t, g)
    BY <2>5 DEF SInv
  <2>7. \A g \in BuildFiles \ todo'[t] : disk'[g] = BuiltContent(t, g)'
    <3> TAKE g \in BuildFiles \ todo'[t]
    <3>1. g # Man /\ BuiltContent(t, g)' = BuiltContent(t, g) /\ g \in Paths
      BY <1>2, <2>3, <2>4, <2>6
    <3>2. QED BY <2>1, <2>2, <2>3, <2>6, <3>1
  <2>8. kept'[t] => Cre \notin todo'[t] /\ disk'[Cre] = arg'[t].cre
    <3>1. CASE f = Cre
      <4>1. BuiltContent(t, Cre) = arg[t].cre
        BY PathsDistinct DEF BuiltContent
      <4>2. QED BY <2>2, <2>3, <3>1, <4>1
    <3>2. CASE f # Cre
      <4>1. Cre \in Paths /\ (kept[t] => Cre \notin todo[t] /\ disk[Cre] = arg[t].cre)
        BY <2>5 DEF SInv, Paths
      <4>2. QED BY <2>1, <2>3, <3>2, <4>1
    <3>3. QED BY <3>1, <3>2
  <2>9. Man \in todo'[t]
    BY <1>2, <2>3, <2>6
  <2>10. QED BY <1>0, <2>3, <2>6, <2>7, <2>8, <2>9 DEF SInv
<1>3. ASSUME BuildFill(t, Man) PROVE SInv'
  <2>1. pc[t] \in Building /\ pc'[t] = "built" /\ todo[t] = {Man}
    BY <1>0, <1>3 DEF BuildFill, Goto, TypeOK, LocalsOK, NextToWrite
  <2>2. disk'[Man] = BuiltManifest(t)
    BY <1>0, <1>3, PathsDistinct
       DEF BuildFill, BuiltContent, TypeOK, Paths, BuildFiles
  <2>3. \A f \in BuildFiles \ {Man} : disk'[f] = BuiltContent(t, f)
    BY <1>0, <1>3, <2>1 DEF BuildFill, TypeOK, Paths, SInv
  <2>4. disk'[Prov] = BuiltManifest(t).prov
    BY <2>3, PathsDistinct DEF BuiltContent, BuiltManifest, BuildFiles
  <2>5. \A f \in BodyFiles : disk'[f] = BuiltManifest(t).body[f]
    BY <2>3, PathsDistinct DEF BuiltContent, BuiltManifest, BuildFiles
  <2>6. BuiltManifest(t) \in Manifest
    BY <1>0, <2>1, BuiltManifestType DEF LocalsOK
  <2>7. \A r \in BuiltManifest(t).creRefs : disk'[Cre] = r
    <3>1. BuiltManifest(t).creRefs = IF kept[t] THEN {arg[t].cre} ELSE {}
      BY DEF BuiltManifest
    <3>2. kept[t] => disk[Cre] = arg[t].cre
      BY <2>1 DEF SInv
    <3>3. disk'[Cre] = disk[Cre]
      BY <1>0, <1>3, PathsDistinct DEF BuildFill, TypeOK, Paths
    <3>4. QED BY <3>1, <3>2, <3>3
  <2>8. disk'[Man] \in Manifest /\ Verifies(disk[Man])'
    BY <2>2, <2>4, <2>5, <2>6, <2>7 DEF Verifies, BodyVerifies
  <2>9. QED BY <1>0, <2>1, <2>8 DEF SInv
<1>4. CASE BuildLosesReport(t)
  <2>1. /\ pc[t] \in Building /\ pc'[t] = "truncate" /\ todo'[t] = todo[t] \ {Cre}
        /\ Cre \in todo[t] /\ UNCHANGED <<disk, arg, ticket, kept>>
    BY <1>0, <1>4 DEF BuildLosesReport, Goto, TypeOK
  <2>2. /\ Man \in todo[t] /\ ticket[t] \in 1..MaxBuilds /\ ~kept[t]
        /\ \A f \in BuildFiles \ todo[t] : disk[f] = BuiltContent(t, f)
    BY <2>1 DEF SInv
  <2>3. \A f \in BuildFiles : BuiltContent(t, f)' = BuiltContent(t, f)
    BY <2>1 DEF BuiltContent, BuiltManifest, BuiltProvenance, BuiltHash
  <2>4. Man \in todo'[t] /\ \A f \in BuildFiles \ todo'[t] : f \in BuildFiles \ todo[t]
    BY <2>1, <2>2, PathsDistinct DEF BuildFiles
  <2>5. \A f \in BuildFiles \ todo'[t] : disk'[f] = BuiltContent(t, f)'
    BY <2>1, <2>2, <2>3, <2>4
  <2>6. QED BY <1>0, <2>1, <2>2, <2>4, <2>5 DEF SInv
<1>5. CASE BuildFails(t)
  BY <1>0, <1>5 DEF BuildFails, Goto, TypeOK, SInv
<1>6. QED BY <1>1, <1>2, <1>3, <1>4, <1>5 DEF BuildStep

LEMMA SerialFinalize ==
    ASSUME OneCallAtATime, TInv, SInv, NEW t \in Threads, FinalizeStep(t)
    PROVE  SInv'
<1> USE DEF Resting, Finalizing, Building
<1>0. /\ TypeOK /\ LocalsOK
      /\ \A u \in Threads : u = t
  BY DEF TInv, OneCallAtATime
<1>1. CASE OpenManifest(t)
  BY <1>0, <1>1 DEF OpenManifest, Goto, TypeOK, SInv
<1>2. CASE VerifyHashes(t)
  BY <1>0, <1>2
     DEF VerifyHashes, Verifies, BodyVerifies, BodyMatches, Goto, TypeOK, SInv
<1>3. CASE CheckExisting(t)
  <2>1. man[t] \in Manifest BY <1>0, <1>3 DEF CheckExisting, LocalsOK
  <2>2. QED
    BY <1>0, <1>3, <2>1
       DEF CheckExisting, BodyVerifies, BodyMatches, Goto, TypeOK, SInv
<1>4. CASE WriteCre(t)
  <2>1. /\ disk'[Man] = disk[Man] /\ disk'[Prov] = disk[Prov]
        /\ \A f \in BodyFiles : disk'[f] = disk[f]
    BY <1>0, <1>4, PathsDistinct DEF WriteCre, TypeOK, Paths, BuildFiles
  <2>2. QED BY <1>0, <1>4, <2>1 DEF WriteCre, BodyMatches, Goto, TypeOK, SInv
<1>5. CASE ReadProvenance(t)
  <2>1. disk[Prov] = man[t].prov /\ man[t].prov \in Provenance
    BY <1>0, <1>5 DEF ReadProvenance, SInv, LocalsOK, Manifest
  <2>2. prov'[t].stamp = man[t].prov.stamp
    <3>1. [man[t].prov EXCEPT !.cre = FileHash(arg[t])].stamp = man[t].prov.stamp
      BY <2>1 DEF Provenance
    <3>2. QED BY <1>0, <1>5, <2>1, <3>1 DEF ReadProvenance, TypeOK
  <2>3. /\ pc[t] = "read_prov" /\ pc'[t] \in {"failed", "write_prov"}
        /\ UNCHANGED <<disk, arg, ticket, todo, man>>
    BY <1>0, <1>5 DEF ReadProvenance, Goto, TypeOK
  <2>4. QED BY <1>0, <2>2, <2>3 DEF BodyMatches, SInv
<1>6. CASE WriteProvenance(t)
  <2>1. /\ disk'[Man] = disk[Man] /\ disk'[Prov] = prov[t]
        /\ \A f \in BodyFiles : disk'[f] = disk[f]
    BY <1>0, <1>6, PathsDistinct DEF WriteProvenance, TypeOK, Paths, BuildFiles
  <2>2. QED
    BY <1>0, <1>6, <2>1 DEF WriteProvenance, BodyMatches, Goto, TypeOK, SInv
<1>7. CASE WriteManifest(t)
  <2> DEFINE m == FinalManifest(man[t], prov[t], arg[t])
  <2>1. /\ man[t] \in Manifest /\ prov[t] \in Provenance /\ arg[t] \in Reports
        /\ pc'[t] = "ok"
    BY <1>0, <1>7 DEF WriteManifest, LocalsOK, Goto, TypeOK
  <2>2. m \in Manifest /\ m.prov = prov[t] /\ m.body = man[t].body
    BY <2>1, FinalManifestType DEF FinalManifest, Manifest
  <2>3. /\ disk'[Man] = m /\ disk'[Prov] = disk[Prov]
        /\ \A f \in BodyFiles : disk'[f] = disk[f]
    BY <1>0, <1>7, PathsDistinct DEF WriteManifest, TypeOK, Paths, BuildFiles
  <2>4. disk[Prov] = prov[t] /\ BodyMatches(man[t])
    BY <1>7 DEF WriteManifest, SInv
  <2>5. disk'[Man] \in Manifest /\ BodyVerifies(disk[Man])'
    BY <2>2, <2>3, <2>4 DEF BodyVerifies, BodyMatches
  <2>6. QED BY <1>0, <2>1, <2>5 DEF SInv
<1>8. CASE FinalizeFails(t)
  BY <1>0, <1>8 DEF FinalizeFails, Goto, TypeOK, SInv
<1>9. QED BY <1>1, <1>2, <1>3, <1>4, <1>5, <1>6, <1>7, <1>8 DEF FinalizeStep

LEMMA SerialStep ==
    ASSUME OneCallAtATime
    PROVE  TInv /\ SInv /\ [Next]_vars => SInv'
<1> SUFFICES ASSUME TInv, SInv, [Next]_vars PROVE SInv'
  OBVIOUS
<1> USE DEF Resting, Finalizing, Building
<1>0. TypeOK BY DEF TInv
<1>1. ASSUME NEW t \in Threads, NEW v \in PackageInputs, StartBuild(t, v) PROVE SInv'
  <2>1. \A u \in Threads : u = t BY DEF OneCallAtATime
  <2>2. /\ pc'[t] = "truncate" /\ BuildFiles \subseteq todo'[t]
        /\ ticket'[t] = stamp + 1 /\ kept'[t] = FALSE
    BY <1>0, <1>1 DEF StartBuild, Goto, TypeOK, Paths
  <2>3. stamp + 1 \in 1..MaxBuilds
    BY <1>0, <1>1, BoundsOK DEF StartBuild, TypeOK
  <2>4. QED BY <2>1, <2>2, <2>3 DEF SInv, BuildFiles
<1>2. ASSUME NEW t \in Threads, NEW r \in Reports, StartFinalize(t, r) PROVE SInv'
  <2>1. \A u \in Threads : u = t BY DEF OneCallAtATime
  <2>2. pc'[t] = "open" BY <1>0, <1>2 DEF StartFinalize, Goto, TypeOK
  <2>3. QED BY <2>1, <2>2 DEF SInv
<1>3. CASE Crash BY <1>0, <1>3 DEF Crash, SInv
<1>4. CASE UNCHANGED vars
  BY <1>4 DEF vars, locals, SInv, Verifies, BodyVerifies, BodyMatches,
              BuiltContent, BuiltManifest, BuiltProvenance, BuiltHash
<1>5. QED BY <1>1, <1>2, <1>3, <1>4, SerialBuild, SerialFinalize DEF Next

LEMMA SerialInductive ==
    ASSUME OneCallAtATime
    PROVE  Spec => [](TInv /\ SInv)
<1>1. Init => SInv BY DEF Init, SInv, Finalizing, Building
<1>2. QED BY <1>1, InitTyped, NextTyped, SerialStep, PTL DEF Spec

\* With one call at a time a build that returns leaves every file matching
\* the manifest, whatever crashes and failed calls left before it.
THEOREM BuildAlwaysHeals ==
    ASSUME OneCallAtATime
    PROVE  Spec => []BuildHeals
<1>1. SInv => BuildHeals BY DEF SInv, BuildHeals
<1>2. QED BY <1>1, SerialInductive, PTL

\* With one call at a time finalize succeeds only over an intact body.
THEOREM SuccessIsOverIntactBody ==
    ASSUME OneCallAtATime
    PROVE  Spec => []SuccessOverIntactBody
<1>1. SInv => SuccessOverIntactBody BY DEF SInv, SuccessOverIntactBody
<1>2. QED BY <1>1, SerialInductive, PTL

-----------------------------------------------------------------------------
(* The directory, read through its manifest, is a ReviewPackage. *)

LEMMA StepImplements ==
    ASSUME OneCallAtATime
    PROVE  TInv /\ SInv /\ [Next]_vars => [Abs!AbsNext]_(Abs!absVars)
<1> SUFFICES ASSUME TInv, SInv, [Next]_vars
             PROVE  [Abs!AbsNext]_(Abs!absVars)
  OBVIOUS
<1> USE DEF Resting, Finalizing, Building
<1>0. TypeOK /\ LocalsOK BY DEF TInv
<1>1. ASSUME disk'[Man] = disk[Man] PROVE UNCHANGED Abs!absVars
  BY <1>1 DEF Abs!absVars, Shown, Named
<1>2. ASSUME NEW t \in Threads, NEW f \in Paths, BuildTruncate(t, f)
      PROVE  [Abs!AbsNext]_(Abs!absVars)
  <2>1. CASE f = Man
    <3>1. disk'[Man] = Torn
      BY <1>0, <1>2, <2>1 DEF BuildTruncate, TypeOK, Paths, BuildFiles
    <3>2. Torn \notin Manifest BY ContentsDistinct
    <3>3. Abs!Withdraw BY <3>1, <3>2 DEF Abs!Withdraw, Abs!Nothing, Shown
    <3>4. QED BY <3>3 DEF Abs!AbsNext
  <2>2. CASE f # Man
    BY <1>0, <1>1, <1>2, <2>2 DEF BuildTruncate, TypeOK
  <2>3. QED BY <2>1, <2>2
<1>3. ASSUME NEW t \in Threads, NEW f \in Paths, BuildFill(t, f)
      PROVE  [Abs!AbsNext]_(Abs!absVars)
  <2>1. CASE f = Man
    <3>1. disk'[Man] = BuiltManifest(t)
      BY <1>0, <1>3, <2>1, PathsDistinct
         DEF BuildFill, BuiltContent, TypeOK, Paths, BuildFiles
    <3>2. /\ arg[t] \in PackageInputs /\ ticket[t] \in 1..MaxBuilds
          /\ kept[t] => arg[t].cre \in Reports
      BY <1>0, <1>3 DEF BuildFill, LocalsOK, SInv
    <3>3. BuiltManifest(t) \in Manifest BY <1>0, <3>2, BuiltManifestType
    <3>4. BuiltManifest(t).prov.stamp = ticket[t]
      BY DEF BuiltManifest, BuiltProvenance
    <3>5. Named(BuiltManifest(t).creHash) = arg[t].cre
      <4>1. BuiltManifest(t).creHash = BuiltHash(t) BY DEF BuiltManifest
      <4>2. CASE arg[t].cre = None BY <4>1, <4>2 DEF BuiltHash, Named
      <4>3. CASE arg[t].cre # None
        <5>1. BuiltHash(t) = [of |-> "object", report |-> arg[t].cre]
          BY <4>3 DEF BuiltHash
        <5>2. BuiltHash(t) \in CreHash BY <3>2, <4>3, <5>1 DEF CreHash, PackageInputs
        <5>3. BuiltHash(t) # None BY <5>2, ContentsDistinct
        <5>4. QED BY <4>1, <5>1, <5>3 DEF Named
      <4>4. QED BY <4>2, <4>3
    <3>6. arg[t].cre = None => None \notin BuiltManifest(t).creRefs
      BY <3>2, ContentsDistinct DEF BuiltManifest
    <3>7. arg[t].cre \in Reports \cup {None} BY <3>2 DEF PackageInputs
    <3>8. Abs!Install(ticket[t])
      BY <3>1, <3>3, <3>4, <3>5, <3>6, <3>7 DEF Abs!Install, Shown
    <3>9. QED BY <3>2, <3>8 DEF Abs!AbsNext
  <2>2. CASE f # Man
    BY <1>0, <1>1, <1>3, <2>2 DEF BuildFill, TypeOK
  <2>3. QED BY <2>1, <2>2
<1>4. ASSUME NEW t \in Threads, WriteManifest(t)
      PROVE  [Abs!AbsNext]_(Abs!absVars)
  <2> DEFINE m == FinalManifest(man[t], prov[t], arg[t])
  <2>1. /\ man[t] \in Manifest /\ prov[t] \in Provenance /\ arg[t] \in Reports
        /\ disk[Man] = man[t] /\ prov[t].stamp = man[t].prov.stamp
    BY <1>0, <1>4 DEF WriteManifest, LocalsOK, SInv
  <2>2. /\ m \in Manifest /\ m.prov = prov[t] /\ m.creHash = FileHash(arg[t])
        /\ arg[t] \in m.creRefs
    BY <2>1, FinalManifestType DEF FinalManifest, Manifest
  <2>3. disk'[Man] = m
    BY <1>0, <1>4 DEF WriteManifest, TypeOK, Paths, BuildFiles
  <2>4. man[t].prov.stamp # None
    <3>1. man[t].prov.stamp \in Nat
      BY <2>1, BoundsOK DEF Manifest, Provenance
    <3>2. QED BY <3>1, ContentsDistinct
  <2>5. Named(FileHash(arg[t])) = arg[t]
    <3>1. FileHash(arg[t]) \in CreHash BY <2>1 DEF FileHash, CreHash
    <3>2. QED BY <3>1, ContentsDistinct DEF Named, FileHash
  <2>6. Abs!Attach(arg[t])
    BY <2>1, <2>2, <2>3, <2>4, <2>5 DEF Abs!Attach, Shown
  <2>7. QED BY <2>1, <2>6 DEF Abs!AbsNext
<1>5. ASSUME NEW t \in Threads, WriteCre(t) \/ WriteProvenance(t)
      PROVE  disk'[Man] = disk[Man]
  <2>1. CASE WriteCre(t) BY <1>0, <2>1, PathsDistinct DEF WriteCre, TypeOK
  <2>2. CASE WriteProvenance(t)
    BY <1>0, <2>2, PathsDistinct DEF WriteProvenance, TypeOK
  <2>3. QED BY <1>5, <2>1, <2>2
<1>6. ASSUME NEW t \in Threads,
             \/ \E v \in PackageInputs : StartBuild(t, v)
             \/ \E r \in Reports : StartFinalize(t, r)
             \/ BuildLosesReport(t) \/ BuildFails(t) \/ FinalizeFails(t) \/ OpenManifest(t)
             \/ VerifyHashes(t) \/ CheckExisting(t) \/ ReadProvenance(t)
      PROVE  disk'[Man] = disk[Man]
  BY <1>6 DEF StartBuild, StartFinalize, BuildLosesReport, BuildFails, FinalizeFails,
              OpenManifest, VerifyHashes, CheckExisting, ReadProvenance
<1>7. ASSUME Crash \/ UNCHANGED vars PROVE disk'[Man] = disk[Man]
  BY <1>7 DEF Crash, vars
<1>8. QED
  BY <1>1, <1>2, <1>3, <1>4, <1>5, <1>6, <1>7 DEF Next, BuildStep, FinalizeStep

\* With one call at a time, no crash, failed write or retry ever shows a
\* mixture of builds, or a report that the shown build was not given and no
\* finalize attached to it; only a build's own report may be without its file.
THEOREM Refinement ==
    ASSUME OneCallAtATime
    PROVE  Spec => ImplementsReviewPackage
<1>1. Init => Abs!AbsInit
  <2>1. Absent \notin Manifest BY ContentsDistinct
  <2>2. QED
    BY <2>1 DEF Init, Abs!AbsInit, Abs!Nothing, Shown, Paths, BuildFiles
<1>2. QED
  BY <1>1, SerialInductive, StepImplements, PTL
     DEF Spec, ImplementsReviewPackage, Abs!AbsSpec
=============================================================================
