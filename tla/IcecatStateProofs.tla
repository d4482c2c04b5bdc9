--------------------------- MODULE IcecatStateProofs ---------------------------
(***************************************************************************)
(* The two things of Icecat that outlive a call: a snapshot in its         *)
(* directory, and a graph with its prepared index. They share nothing, and *)
(* the module has a part for each.                                         *)
(***************************************************************************)
EXTENDS SnapshotStore, PreparedGraph, FiniteSetTheorems, FunctionTheorems, TLAPS

-----------------------------------------------------------------------------
(* The snapshot store. For any number of writers and readers, any graphs   *)
(* and any damage: what read_snapshot returns is what one successful       *)
(* write_snapshot published. StoreInv is inductive; it says that a running *)
(* writer is alone in an unpublished directory and that a manifest is only *)
(* there when complete.                                                    *)

\* The sections of a snapshot are those of its graph.
LEMMA SnapshotShape ==
  ASSUME NEW w \in Writers
  PROVE  /\ SnapshotOf(w) \in Files
         /\ Names(SnapshotOf(w)) = PartsOf[w]
  BY StoreAssumption DEF SnapshotOf, Files, Names, Content

\* Initially nobody works and nothing is there.
LEMMA StoreInitInv == StoreInit => StoreInv
<1> SUFFICES ASSUME StoreInit PROVE StoreInv
  OBVIOUS
<1> USE DEF StoreInit
<1>1. StoreTypeOK
  BY DEF StoreTypeOK, Files, NoFiles, WriterPCs, ReaderPCs
<1>2. WriterOwns /\ Untouched /\ ManifestHonest /\ ReaderAgrees
  BY DEF WriterOwns, Untouched, ManifestHonest, ReaderAgrees, Writing, Reading,
         NoFiles, Names
<1> QED BY <1>1, <1>2 DEF StoreInv

\* Types are preserved by every step.
LEMMA StoreTypeStep == StoreTypeOK /\ [StoreNext]_storeVars => StoreTypeOK'
<1> SUFFICES ASSUME StoreTypeOK, [StoreNext]_storeVars PROVE StoreTypeOK'
  OBVIOUS
<1> USE DEF StoreTypeOK, Goto, Reject, fvars, wvars, rvars
<1>1. ASSUME NEW w \in Writers,
             CreateDir(w) \/ WriteTemporary(w) \/ Persist(w) \/ Fail(w)
      PROVE  StoreTypeOK'
  <2>1. CASE CreateDir(w)
    BY <2>1 DEF CreateDir, WriterPCs
  <2>2. CASE WriteTemporary(w)
    BY <2>2 DEF WriteTemporary, WriterPCs
  <2>3. CASE Persist(w)
    BY <2>3 DEF Persist, WriterPCs
  <2>4. CASE Fail(w)
    BY <2>4 DEF Fail, WriterPCs
  <2> QED BY <1>1, <2>1, <2>2, <2>3, <2>4
<1>2. ASSUME NEW w \in Writers, NEW s \in Sections, CreateSection(w, s)
      PROVE  StoreTypeOK'
  BY <1>2 DEF CreateSection, WriterPCs, Files, Content
<1>3. ASSUME NEW w \in Writers, NEW s \in Sections, WriteSection(w, s)
      PROVE  StoreTypeOK'
  BY <1>3 DEF WriteSection, WriterPCs, Files, Content
<1>4. ASSUME NEW w \in Writers, NEW s \in Sections, DigestSection(w, s)
      PROVE  StoreTypeOK'
  BY <1>4 DEF DigestSection, WriterPCs, Files, Content
<1>5. ASSUME NEW r \in Readers, OpenManifest(r) \/ RejectAnyhow(r)
      PROVE  StoreTypeOK'
  BY <1>5 DEF OpenManifest, RejectAnyhow, ReaderPCs
<1>6. ASSUME NEW r \in Readers, NEW s \in Sections, VerifySection(r, s)
      PROVE  StoreTypeOK'
  <2>1. CASE rpc' = [rpc EXCEPT ![r] = "rejected"] /\ checked' = checked
    BY <1>6, <2>1 DEF VerifySection, ReaderPCs
  <2>2. CASE checked' = [checked EXCEPT ![r] = @ \cup {s}]
    <3>1. checked' \in [Readers -> SUBSET Sections]
      BY <2>2
    <3>2. rpc' \in [Readers -> ReaderPCs]
      BY <1>6 DEF VerifySection, ReaderPCs
    <3> QED BY <1>6, <3>1, <3>2 DEF VerifySection
  <2> QED BY <1>6, <2>1, <2>2 DEF VerifySection
<1>7. ASSUME NEW r \in Readers, NEW s \in Sections, LoadSection(r, s)
      PROVE  StoreTypeOK'
  <2>1. CASE loaded' = loaded
    BY <1>7, <2>1 DEF LoadSection, ReaderPCs
  <2>2. CASE /\ loaded' = [loaded EXCEPT ![r][s] = file[s]]
             /\ rpc' \in {[rpc EXCEPT ![r] = "accepted"], [rpc EXCEPT ![r] = "load"]}
    <3>1. loaded' \in [Readers -> Files]
      BY <2>2 DEF Files
    <3>2. rpc' \in [Readers -> ReaderPCs]
      BY <2>2 DEF ReaderPCs
    <3> QED BY <1>7, <3>1, <3>2 DEF LoadSection
  <2> QED BY <1>7, <2>1, <2>2 DEF LoadSection
<1>8. CASE Damage
  BY <1>8 DEF Damage, Files
<1>9. CASE Remove
  BY <1>9 DEF Remove, Files, NoFiles
<1>10. CASE UNCHANGED storeVars
  BY <1>10 DEF storeVars
<1> QED
  BY <1>1, <1>2, <1>3, <1>4, <1>5, <1>6, <1>7, <1>8, <1>9, <1>10 DEF StoreNext

\* A manifest of a success stays one as long as no writer leaves "ok".
LEMMA SuccessStays ==
  ASSUME NEW m,
         \A w \in Writers : pc[w] = "ok" => pc'[w] = "ok",
         ManifestOfSuccess(m)
  PROVE  ManifestOfSuccess(m)'
  BY DEF ManifestOfSuccess, SnapshotOf

\* create_dir: whoever succeeds finds an empty place.
LEMMA CreateDirStep ==
  ASSUME StoreInv, NEW w \in Writers, CreateDir(w)
  PROVE  WriterOwns' /\ Untouched' /\ ManifestHonest' /\ ReaderAgrees'
<1> USE DEF CreateDir, Goto, StoreInv
<1>0. /\ \A v \in Writers : pc[v] = "ok" => pc'[v] = "ok"
      /\ \A v \in Writers : v # w => pc'[v] = pc[v]
      /\ pc'[w] \in {"failed", "create"}
      /\ UNCHANGED <<file, manifest, sums, rpc, checked, loaded, listed>>
  BY DEF StoreTypeOK, rvars
<1>a. Reading' = Reading
  BY <1>0 DEF Reading
<1>1. CASE dir
  <2>1. dir' = dir /\ Writing' = Writing
    BY <1>1 DEF Writing, StoreTypeOK, WriterPCs
  <2>2. WriterOwns'
    BY <1>0, <1>a, <2>1 DEF WriterOwns, Turn, Names, Writing
  <2>3. Untouched' /\ ManifestHonest'
    BY <1>0, <2>1, SuccessStays DEF Untouched, ManifestHonest
  <2>4. ReaderAgrees'
    BY <1>0, <1>a, <2>1, SuccessStays DEF ReaderAgrees, Names
  <2> QED BY <2>2, <2>3, <2>4
<1>2. CASE ~dir
  <2>1. /\ file = NoFiles /\ manifest = Absent
        /\ Writing = {} /\ Reading = {}
        /\ sums[w] = NoFiles
    <3>1. file = NoFiles /\ manifest = Absent /\ sums[w] = NoFiles
      BY <1>2 DEF Untouched
    <3>2. Writing = {}
      BY <1>2 DEF WriterOwns
    <3>3. Reading = {}
      BY <1>2 DEF ReaderAgrees, Reading
    <3> QED BY <3>1, <3>2, <3>3
  <2>2. dir' /\ pc'[w] = "create" /\ Writing' = {w}
    BY <1>2, <2>1 DEF Writing, StoreTypeOK
  <2>3. WriterOwns'
    <3>1. Names(sums[w]) = {} /\ \A s \in Sections : file[s] = Absent
      BY <2>1 DEF Names, NoFiles
    <3>2. /\ Names(sums[w])' = {} /\ \A s \in Sections : file'[s] = Absent
          /\ manifest' = Absent /\ Reading' = {}
      BY <1>0, <1>a, <2>1, <3>1 DEF Names
    <3> QED BY <2>2, <3>2 DEF WriterOwns
  <2>4. Untouched' /\ ManifestHonest'
    BY <1>0, <2>1, <2>2 DEF Untouched, ManifestHonest
  <2>5. ReaderAgrees'
    BY <1>0, <1>a, <2>1, SuccessStays DEF ReaderAgrees, Names
  <2> QED BY <2>3, <2>4, <2>5
<1> QED BY <1>1, <1>2

\* What a running writer can rely on, whichever step it takes next.
LEMMA WriterAlone ==
  ASSUME StoreInv, NEW w \in Writing
  PROVE  /\ w \in Writers /\ Writing = {w} /\ dir /\ manifest = Absent /\ Reading = {}
         /\ \A s \in Names(sums[w]) : s \in PartsOf[w] /\ sums[w][s] = w /\ file[s] = w
         /\ \A s \in Sections \ Names(sums[w]) :
              file[s] = CASE pc[w] = "write" /\ Turn(w, s)  -> Torn
                          [] pc[w] = "digest" /\ Turn(w, s) -> w
                          [] OTHER                          -> Absent
  BY DEF StoreInv, WriterOwns, Writing

\* A step of a lone writer leaves the invariants about readers and about the
\* published manifest alone when the directory stays unpublished.
LEMMA UnpublishedStep ==
  ASSUME StoreInv, NEW w \in Writing,
         manifest' = manifest, dir' = dir, UNCHANGED rvars,
         pc' = [pc EXCEPT ![w] = pc'[w]], pc'[w] \notin {"start", "ok"},
         \A v \in Writers : v # w => sums'[v] = sums[v]
  PROVE  Untouched' /\ ManifestHonest' /\ ReaderAgrees'
<1>1. \A v \in Writers : v # w => pc'[v] = pc[v]
  BY DEF StoreInv, StoreTypeOK
<1>2. \A v \in Writers : pc[v] = "ok" => pc'[v] = "ok"
  BY <1>1 DEF Writing
<1>3. Untouched' /\ ManifestHonest'
  BY <1>1, <1>2, WriterAlone DEF Untouched, ManifestHonest, StoreInv
<1>4. Reading' = {}
  BY WriterAlone DEF Reading, rvars
<1>5. ReaderAgrees'
  BY <1>2, <1>4, SuccessStays, WriterAlone DEF ReaderAgrees, StoreInv, rvars, Reading, Names
<1> QED BY <1>3, <1>5

\* Only the writer that owns the directory creates a section, and nothing is
\* published yet.
LEMMA CreateSectionStep ==
  ASSUME StoreInv, NEW w \in Writers, NEW s \in Sections, CreateSection(w, s)
  PROVE  WriterOwns' /\ Untouched' /\ ManifestHonest' /\ ReaderAgrees'
<1> USE DEF CreateSection, Goto
<1>0. w \in Writing /\ StoreTypeOK
  BY DEF Writing, StoreInv
<1>1. pc'[w] \in {"failed", "write"} /\ \A v \in Writers : v # w => pc'[v] = pc[v]
  BY <1>0 DEF StoreTypeOK
<1>2. Untouched' /\ ManifestHonest' /\ ReaderAgrees'
  BY <1>0, <1>1, UnpublishedStep DEF StoreTypeOK
<1>3. file[s] = Absent
  BY <1>0, WriterAlone DEF Turn
<1>4. Writing' = {w} /\ pc'[w] = "write"
  BY <1>0, <1>1, <1>3, WriterAlone DEF Writing, StoreTypeOK
<1>5. \A q \in Sections : Turn(w, q) <=> q = s
  BY <1>0 DEF Turn, Sections
<1>6. WriterOwns'
  <2>1. /\ \A q \in Sections : file'[q] = IF q = s THEN Torn ELSE file[q]
        /\ Names(sums[w])' = Names(sums[w]) /\ Reading' = Reading
    BY <1>0, <1>3 DEF Names, Reading, rvars, StoreTypeOK, Files
  <2>2. \A q \in Sections : Turn(w, q)' <=> q = s
    BY <1>5, <2>1 DEF Turn, Names
  <2>3. s \notin Names(sums[w])
    BY DEF Turn
  <2> QED BY <1>0, <1>4, <2>1, <2>2, <2>3, WriterAlone DEF WriterOwns, Names
<1> QED BY <1>2, <1>6

\* A section is written while nothing is published and nobody reads.
LEMMA WriteSectionStep ==
  ASSUME StoreInv, NEW w \in Writers, NEW s \in Sections, WriteSection(w, s)
  PROVE  WriterOwns' /\ Untouched' /\ ManifestHonest' /\ ReaderAgrees'
<1> USE DEF WriteSection, Goto
<1>0. w \in Writing /\ StoreTypeOK
  BY DEF Writing, StoreInv
<1>1. pc'[w] = "digest" /\ \A v \in Writers : v # w => pc'[v] = pc[v]
  BY <1>0 DEF StoreTypeOK
<1>2. Untouched' /\ ManifestHonest' /\ ReaderAgrees'
  BY <1>0, <1>1, UnpublishedStep DEF StoreTypeOK
<1>4. Writing' = {w}
  BY <1>0, <1>1, WriterAlone DEF Writing, StoreTypeOK
<1>5. \A q \in Sections : Turn(w, q) <=> q = s
  BY <1>0 DEF Turn, Sections
<1>6. WriterOwns'
  <2>1. /\ \A q \in Sections : file'[q] = IF q = s THEN w ELSE file[q]
        /\ Names(sums[w])' = Names(sums[w]) /\ Reading' = Reading
    BY <1>0 DEF Names, Reading, rvars, StoreTypeOK, Files
  <2>2. \A q \in Sections : Turn(w, q)' <=> q = s
    BY <1>5, <2>1 DEF Turn, Names
  <2>3. s \notin Names(sums[w])
    BY DEF Turn
  <2> QED BY <1>0, <1>1, <1>4, <1>5, <2>1, <2>2, <2>3, WriterAlone DEF WriterOwns, Names
<1> QED BY <1>2, <1>6

\* The digest is that of the section as it was written.
LEMMA DigestSectionStep ==
  ASSUME StoreInv, NEW w \in Writers, NEW s \in Sections, DigestSection(w, s)
  PROVE  WriterOwns' /\ Untouched' /\ ManifestHonest' /\ ReaderAgrees'
<1> USE DEF DigestSection, Goto
<1>0. w \in Writing /\ StoreTypeOK
  BY DEF Writing, StoreInv
<1>1. pc'[w] \in {"temp", "create"} /\ \A v \in Writers : v # w => pc'[v] = pc[v]
  BY <1>0 DEF StoreTypeOK
<1>2. Untouched' /\ ManifestHonest' /\ ReaderAgrees'
  BY <1>0, <1>1, UnpublishedStep DEF StoreTypeOK, fvars
<1>4. Writing' = {w}
  BY <1>0, <1>1, WriterAlone DEF Writing, StoreTypeOK
<1>5. \A q \in Sections : Turn(w, q) <=> q = s
  BY <1>0 DEF Turn, Sections
<1>6. WriterOwns'
  <2>1. UNCHANGED <<dir, file, manifest>> /\ Reading' = Reading
    BY DEF Reading, rvars, fvars
  <2>2. file[s] = w /\ s \in PartsOf[w] /\ s \notin Names(sums[w])
    BY <1>0, <1>5, WriterAlone DEF Turn
  <2>3. \A q \in Sections : sums'[w][q] = IF q = s THEN w ELSE sums[w][q]
    BY <1>0, <2>2 DEF StoreTypeOK, Files
  <2>4. Names(sums[w])' = Names(sums[w]) \cup {s}
    BY <2>3, StoreAssumption DEF Names
  <2>5. \A q \in Names(sums'[w]) : q \in PartsOf[w] /\ sums'[w][q] = w /\ file'[q] = w
    BY <1>0, <2>1, <2>2, <2>3, <2>4, WriterAlone DEF Names
  <2>6. \A q \in Sections \ Names(sums'[w]) : file'[q] = Absent
    BY <1>0, <1>5, <2>1, <2>4, WriterAlone
  <2>7. pc'[w] = "temp" => PartsOf[w] \subseteq Names(sums'[w])
    BY <1>0 DEF StoreTypeOK
  <2>8. dir' /\ manifest' = Absent /\ Reading' = {}
    BY <1>0, <2>1, WriterAlone
  <2>9. \A q \in Sections \ Names(sums[w])' :
          file'[q] = CASE pc'[w] = "write" /\ Turn(w, q)'  -> Torn
                       [] pc'[w] = "digest" /\ Turn(w, q)' -> w
                       [] OTHER                            -> Absent
    BY <1>1, <2>4, <2>6, <2>3 DEF Names
  <2> QED BY <1>1, <1>4, <2>5, <2>7, <2>8, <2>9 DEF WriterOwns, Names
<1> QED BY <1>2, <1>6

\* The temporary manifest is written when every section has its digest.
LEMMA WriteTemporaryStep ==
  ASSUME StoreInv, NEW w \in Writers, WriteTemporary(w)
  PROVE  WriterOwns' /\ Untouched' /\ ManifestHonest' /\ ReaderAgrees'
<1> USE DEF WriteTemporary, Goto
<1>0. w \in Writing /\ StoreTypeOK
  BY DEF Writing, StoreInv
<1>1. pc'[w] = "persist" /\ \A v \in Writers : v # w => pc'[v] = pc[v]
  BY <1>0 DEF StoreTypeOK
<1>2. Untouched' /\ ManifestHonest' /\ ReaderAgrees'
  BY <1>0, <1>1, UnpublishedStep DEF StoreTypeOK, fvars
<1>3. Writing' = {w} /\ Reading' = Reading
  BY <1>0, <1>1, WriterAlone DEF Writing, Reading, StoreTypeOK, rvars
<1>4. PartsOf[w] \subseteq Names(sums[w])
  BY <1>0 DEF StoreInv, WriterOwns
<1>5. WriterOwns'
  BY <1>0, <1>1, <1>3, <1>4, WriterAlone DEF WriterOwns, fvars, Names
<1> QED BY <1>2, <1>5

\* A writer that fails leaves what is published as it was.
LEMMA FailStep ==
  ASSUME StoreInv, NEW w \in Writers, Fail(w)
  PROVE  WriterOwns' /\ Untouched' /\ ManifestHonest' /\ ReaderAgrees'
<1> USE DEF Fail, Goto
<1>0. w \in Writing /\ StoreTypeOK
  BY DEF StoreInv
<1>1. pc'[w] = "failed" /\ \A v \in Writers : v # w => pc'[v] = pc[v]
  BY <1>0 DEF StoreTypeOK
<1>2. Untouched' /\ ManifestHonest' /\ ReaderAgrees'
  BY <1>0, <1>1, UnpublishedStep DEF StoreTypeOK, fvars
<1>3. Writing' = {}
  BY <1>0, <1>1, WriterAlone DEF Writing, StoreTypeOK
<1> QED BY <1>2, <1>3 DEF WriterOwns

\* Publication: the files map of the lone writer is its whole snapshot.
LEMMA PersistStep ==
  ASSUME StoreInv, NEW w \in Writers, Persist(w)
  PROVE  /\ WriterOwns' /\ Untouched' /\ ManifestHonest' /\ ReaderAgrees'
         /\ pc'[w] = "ok" /\ manifest' = SnapshotOf(w) /\ file' = SnapshotOf(w)
<1> USE DEF Persist, Goto
<1>0. w \in Writing /\ StoreTypeOK
  BY DEF Writing, StoreInv
<1>1. /\ manifest = Absent /\ manifest' = sums[w] /\ dir /\ dir' = dir
      /\ pc'[w] = "ok" /\ \A v \in Writers : v # w => pc'[v] = pc[v]
  BY <1>0, WriterAlone DEF StoreTypeOK
<1>2. Names(sums[w]) = PartsOf[w]
  <2>1. Names(sums[w]) \subseteq PartsOf[w]
    BY <1>0, WriterAlone
  <2>2. PartsOf[w] \subseteq Names(sums[w])
    BY <1>0 DEF StoreInv, WriterOwns
  <2> QED BY <2>1, <2>2
<1>3. sums[w] = SnapshotOf(w)
  BY <1>0, <1>2, WriterAlone DEF SnapshotOf, StoreTypeOK, Files, Names
<1>4. file = SnapshotOf(w)
  BY <1>0, <1>2, WriterAlone DEF SnapshotOf, StoreTypeOK, Files
<1>5. Writing' = {} /\ Reading' = {}
  BY <1>0, <1>1, WriterAlone DEF Writing, Reading, StoreTypeOK, rvars
<1>6. \A v \in Writers : pc[v] = "ok" => pc'[v] = "ok"
  BY <1>1
<1>7. WriterOwns' /\ Untouched'
  BY <1>1, <1>5 DEF WriterOwns, Untouched, StoreInv
<1>8. ManifestHonest'
  BY <1>1, <1>3 DEF ManifestHonest, ManifestOfSuccess, SnapshotOf
<1>9. ReaderAgrees'
  BY <1>5, <1>6, SuccessStays DEF ReaderAgrees, StoreInv, rvars, Names, Reading
<1> QED BY <1>1, <1>3, <1>4, <1>7, <1>8, <1>9

\* Readers change nothing a writer looks at: only whether someone reads.
LEMMA ReaderFrame ==
  ASSUME StoreInv, UNCHANGED <<fvars, wvars>>,
         Reading' # {} => manifest \notin {Absent, Torn}
  PROVE  WriterOwns' /\ Untouched' /\ ManifestHonest'
<1>1. Writing' = Writing /\ (Writing # {} => manifest = Absent)
  BY DEF Writing, wvars, StoreInv, WriterOwns
<1>2. Writing # {} => Reading' = {}
  BY <1>1
<1>3. WriterOwns'
  BY <1>1, <1>2 DEF WriterOwns, StoreInv, fvars, wvars, Turn, Names
<1>4. Untouched' /\ ManifestHonest'
  BY SuccessStays DEF Untouched, ManifestHonest, ManifestOfSuccess, StoreInv, fvars, wvars, SnapshotOf
<1> QED BY <1>3, <1>4

\* Leaving with an error keeps every invariant.
LEMMA RejectStep ==
  ASSUME StoreInv, NEW r \in Readers, Reject(r), UNCHANGED <<fvars, wvars>>
  PROVE  WriterOwns' /\ Untouched' /\ ManifestHonest' /\ ReaderAgrees'
<1> USE DEF Reject
<1>1. rpc'[r] = "rejected" /\ \A q \in Readers : q # r => rpc'[q] = rpc[q]
  BY DEF StoreInv, StoreTypeOK
<1>2. Reading' \subseteq Reading /\ r \notin Reading'
  BY <1>1 DEF Reading
<1>3. ReaderAgrees'
  BY <1>1, <1>2, SuccessStays
  DEF ReaderAgrees, StoreInv, Reading, fvars, wvars, Names, ManifestOfSuccess, SnapshotOf
<1>4. Reading' # {} => manifest \notin {Absent, Torn}
  BY <1>2 DEF StoreInv, ReaderAgrees, Reading
<1> QED BY <1>3, <1>4, ReaderFrame

\* The manifest that a reader opens is the one of a write that succeeded.
LEMMA OpenManifestStep ==
  ASSUME StoreInv, NEW r \in Readers, OpenManifest(r)
  PROVE  WriterOwns' /\ Untouched' /\ ManifestHonest' /\ ReaderAgrees'
<1>1. CASE Reject(r)
  BY <1>1, RejectStep DEF OpenManifest
<1>2. CASE ~Reject(r)
  <2>1. /\ manifest \notin {Absent, Torn}
        /\ rpc' = [rpc EXCEPT ![r] = "verify"]
        /\ listed' = [listed EXCEPT ![r] = manifest]
        /\ UNCHANGED <<checked, loaded, fvars, wvars>>
        /\ rpc[r] = "start"
    BY <1>2 DEF OpenManifest
  <2>2. /\ rpc'[r] = "verify" /\ listed'[r] = manifest
        /\ \A q \in Readers : q # r => rpc'[q] = rpc[q] /\ listed'[q] = listed[q]
    BY <2>1 DEF StoreInv, StoreTypeOK
  <2>3. dir /\ ManifestOfSuccess(manifest) /\ checked[r] = {} /\ Names(loaded[r]) = {}
    BY <2>1 DEF StoreInv, ManifestHonest, ReaderAgrees, Names, NoFiles
  <2>4. ReaderAgrees'
    BY <2>1, <2>2, <2>3, SuccessStays
    DEF ReaderAgrees, StoreInv, Reading, fvars, wvars, Names, ManifestOfSuccess, SnapshotOf
  <2> QED BY <2>1, <2>4, ReaderFrame
<1> QED BY <1>1, <1>2

\* A reader accepts a section only if its contents match the manifest it
\* opened.
LEMMA VerifySectionStep ==
  ASSUME StoreInv, NEW r \in Readers, NEW s \in Sections, VerifySection(r, s)
  PROVE  WriterOwns' /\ Untouched' /\ ManifestHonest' /\ ReaderAgrees'
<1>1. CASE Reject(r)
  BY <1>1, RejectStep DEF VerifySection
<1>2. CASE ~Reject(r)
  <2>1. /\ file[s] = listed[r][s]
        /\ checked' = [checked EXCEPT ![r] = @ \cup {s}]
        /\ rpc' = [rpc EXCEPT
             ![r] = IF checked'[r] = Names(listed[r]) THEN "load" ELSE "verify"]
        /\ UNCHANGED <<loaded, listed, fvars, wvars>>
        /\ rpc[r] = "verify"
    BY <1>2 DEF VerifySection
  <2>2. /\ checked'[r] = checked[r] \cup {s}
        /\ rpc'[r] \in {"load", "verify"}
        /\ rpc'[r] = "load" => checked'[r] = Names(listed[r])
        /\ \A q \in Readers : q # r => rpc'[q] = rpc[q] /\ checked'[q] = checked[q]
    BY <2>1 DEF StoreInv, StoreTypeOK
  <2>3. r \in Reading /\ Reading' = Reading
    BY <2>1, <2>2 DEF Reading
  <2>4. ReaderAgrees'
    BY <2>1, <2>2, <2>3, SuccessStays
    DEF ReaderAgrees, StoreInv, Reading, fvars, wvars, Names, ManifestOfSuccess, SnapshotOf
  <2>5. manifest \notin {Absent, Torn}
    BY <2>3 DEF StoreInv, ReaderAgrees
  <2> QED BY <2>1, <2>4, <2>5, ReaderFrame
<1> QED BY <1>1, <1>2

\* A section loaded is one that was verified, as published files do not
\* change.
LEMMA LoadSectionStep ==
  ASSUME StoreInv, NEW r \in Readers, NEW s \in Sections, LoadSection(r, s)
  PROVE  WriterOwns' /\ Untouched' /\ ManifestHonest' /\ ReaderAgrees'
<1>1. CASE Reject(r)
  BY <1>1, RejectStep DEF LoadSection
<1>2. CASE ~Reject(r)
  <2>1. /\ loaded' = [loaded EXCEPT ![r][s] = file[s]]
        /\ rpc' = [rpc EXCEPT
             ![r] = IF Names(loaded'[r]) = Names(listed[r]) THEN "accepted" ELSE "load"]
        /\ UNCHANGED <<checked, listed, fvars, wvars>>
        /\ rpc[r] = "load" /\ s \in Names(listed[r])
    BY <1>2 DEF LoadSection
  <2>2. r \in Reading
    BY <2>1 DEF Reading
  <2>3. file[s] = listed[r][s]
    BY <2>1, <2>2 DEF StoreInv, ReaderAgrees
  <2>4. /\ loaded'[r] = [loaded[r] EXCEPT ![s] = file[s]]
        /\ loaded'[r] \in Files
        /\ rpc'[r] \in {"accepted", "load"}
        /\ rpc'[r] = "accepted" => Names(loaded'[r]) = Names(listed[r])
        /\ \A q \in Readers : q # r => rpc'[q] = rpc[q] /\ loaded'[q] = loaded[q]
    BY <2>1 DEF StoreInv, StoreTypeOK, Files
  <2>5. \A q \in Names(loaded'[r]) : loaded'[r][q] = listed[r][q]
    BY <2>2, <2>3, <2>4 DEF StoreInv, ReaderAgrees, Names, StoreTypeOK, Files
  <2>6. rpc'[r] = "accepted" => loaded'[r] = listed[r]
    BY <2>4, <2>5 DEF Names, StoreInv, StoreTypeOK, Files
  <2>7. Reading' \subseteq Reading /\ manifest \notin {Absent, Torn}
    BY <2>2, <2>4 DEF Reading, StoreInv, ReaderAgrees
  <2>8. ReaderAgrees'
    BY <2>1, <2>2, <2>4, <2>5, <2>6, <2>7, SuccessStays
    DEF ReaderAgrees, StoreInv, Reading, fvars, wvars, Names, ManifestOfSuccess, SnapshotOf
  <2> QED BY <2>1, <2>7, <2>8, ReaderFrame
<1> QED BY <1>1, <1>2

\* The environment acts on a directory nobody works in.
LEMMA DamageStep ==
  ASSUME StoreInv, Damage
  PROVE  WriterOwns' /\ Untouched' /\ ManifestHonest' /\ ReaderAgrees'
<1>1. /\ Writing = {} /\ Reading = {} /\ Writing' = Writing /\ Reading' = Reading
      /\ dir /\ dir' = dir /\ manifest' \in {manifest, Torn}
      /\ UNCHANGED <<pc, sums, rpc, checked, loaded, listed>>
  BY DEF Damage, StoreInv, WriterOwns, ManifestHonest, Writing, Reading, wvars, rvars
<1>2. WriterOwns' /\ Untouched' /\ ManifestHonest'
  BY <1>1, SuccessStays DEF WriterOwns, Untouched, ManifestHonest, StoreInv
<1>3. ReaderAgrees'
  BY <1>1, SuccessStays DEF ReaderAgrees, StoreInv, Names
<1> QED BY <1>2, <1>3

\* A snapshot is removed as a whole, and nobody is reading it.
LEMMA RemoveStep ==
  ASSUME StoreInv, Remove
  PROVE  WriterOwns' /\ Untouched' /\ ManifestHonest' /\ ReaderAgrees'
<1>1. /\ Writing' = {} /\ Reading' = {} /\ Reading = {}
      /\ file' = NoFiles /\ manifest' = Absent
      /\ UNCHANGED <<pc, sums, rpc, checked, loaded, listed>>
  BY DEF Remove, Writing, Reading, wvars, rvars
<1>2. WriterOwns' /\ Untouched' /\ ManifestHonest'
  BY <1>1 DEF WriterOwns, Untouched, ManifestHonest, StoreInv, NoFiles
<1>3. ReaderAgrees'
  BY <1>1, SuccessStays DEF ReaderAgrees, StoreInv, Names
<1> QED BY <1>2, <1>3

\* StoreInv is inductive: every step of a writer, a reader or the disk
\* preserves it.
LEMMA StoreStep == StoreInv /\ [StoreNext]_storeVars => StoreInv'
<1> SUFFICES ASSUME StoreInv, [StoreNext]_storeVars PROVE StoreInv'
  OBVIOUS
<1> DEFINE Rest == WriterOwns /\ Untouched /\ ManifestHonest /\ ReaderAgrees
<1>1. StoreTypeOK'
  BY StoreTypeStep DEF StoreInv
<1>2. ASSUME NEW w \in Writers,
             CreateDir(w) \/ WriteTemporary(w) \/ Persist(w) \/ Fail(w)
      PROVE  Rest'
  BY <1>2, CreateDirStep, WriteTemporaryStep, PersistStep, FailStep
<1>3. ASSUME NEW w \in Writers, NEW s \in Sections,
             CreateSection(w, s) \/ WriteSection(w, s) \/ DigestSection(w, s)
      PROVE  Rest'
  BY <1>3, CreateSectionStep, WriteSectionStep, DigestSectionStep
<1>4. ASSUME NEW r \in Readers, OpenManifest(r) \/ RejectAnyhow(r)
      PROVE  Rest'
  BY <1>4, OpenManifestStep, RejectStep DEF RejectAnyhow
<1>5. ASSUME NEW r \in Readers, NEW s \in Sections,
             VerifySection(r, s) \/ LoadSection(r, s)
      PROVE  Rest'
  BY <1>5, VerifySectionStep, LoadSectionStep
<1>6. ASSUME Damage \/ Remove PROVE Rest'
  BY <1>6, DamageStep, RemoveStep
<1>7. ASSUME UNCHANGED storeVars PROVE Rest'
  <2>1. UNCHANGED <<fvars, wvars>> /\ UNCHANGED rvars /\ Reading' = Reading
    BY <1>7 DEF storeVars, Reading, rvars
  <2>2. Reading' # {} => manifest \notin {Absent, Torn}
    BY <2>1 DEF StoreInv, ReaderAgrees, Reading
  <2>3. ReaderAgrees'
    BY <2>1 DEF StoreInv, ReaderAgrees, fvars, wvars, rvars, Names, ManifestOfSuccess, SnapshotOf
  <2> QED BY <2>1, <2>2, <2>3, ReaderFrame
<1>8. Rest'
  BY <1>2, <1>3, <1>4, <1>5, <1>6, <1>7 DEF StoreNext
<1> QED BY <1>1, <1>8 DEF StoreInv

-----------------------------------------------------------------------------
(* The inductive invariant holds in every reachable state of write_snapshot *)
(* and read_snapshot, whatever fails, is killed or damaged.                *)
THEOREM StoreInvariance == StoreSpec => []StoreInv
  BY StoreInitInv, StoreStep, PTL DEF StoreSpec

(* A graph read_snapshot returns is, in every section, the graph of one    *)
(* writer whose write_snapshot published it.                               *)
THEOREM ReadersSeePublished == StoreSpec => []AcceptedIsPublished
<1>1. StoreInv => AcceptedIsPublished
  BY DEF StoreInv, ReaderAgrees, ManifestOfSuccess, AcceptedIsPublished
<1> QED BY <1>1, StoreInvariance, PTL

(* When write_snapshot succeeds, every section is on disk and listed.      *)
THEOREM SuccessIsComplete == StoreSpec => OkIsComplete
<1> DEFINE Complete == \A w \in Writers : pc[w] # "ok" /\ pc'[w] = "ok" =>
                         file' = SnapshotOf(w) /\ manifest' = SnapshotOf(w)
<1>1. StoreInv /\ [StoreNext]_storeVars => [Complete]_storeVars
  <2> SUFFICES ASSUME StoreInv, StoreNext, NEW w \in Writers, pc[w] # "ok", pc'[w] = "ok"
               PROVE  file' = SnapshotOf(w) /\ manifest' = SnapshotOf(w)
    BY DEF storeVars
  <2>1. Persist(w)
    BY DEF StoreNext, StoreInv, StoreTypeOK, Goto, wvars, CreateDir, WriteTemporary, Persist,
           Fail, CreateSection, WriteSection, DigestSection, OpenManifest,
           RejectAnyhow, VerifySection, LoadSection, Damage, Remove
  <2> QED BY <2>1, PersistStep
<1> QED BY <1>1, StoreInvariance, PTL DEF StoreSpec, OkIsComplete

(* No step of a writer touches a directory that has its manifest.          *)
THEOREM TargetsNeverReused == StoreSpec => PublishedUntouched
<1>1. StoreInv /\ [StoreNext]_storeVars => [manifest # Absent /\ pc' # pc => UNCHANGED fvars]_storeVars
  <2> SUFFICES ASSUME StoreInv, StoreNext, manifest # Absent, pc' # pc
               PROVE  UNCHANGED fvars
    BY DEF storeVars
  <2>1. Writing = {} /\ dir
    BY DEF StoreInv, WriterOwns, Untouched
  <2>2. PICK w \in Writers : CreateDir(w)
    BY <2>1 DEF StoreNext, wvars, Writing, WriteTemporary, Persist,
                Fail, CreateSection, WriteSection, DigestSection, OpenManifest,
                RejectAnyhow, VerifySection, LoadSection, Damage, Remove
  <2> QED BY <2>1, <2>2 DEF CreateDir, fvars
<1> QED BY <1>1, StoreInvariance, PTL DEF StoreSpec, PublishedUntouched

-----------------------------------------------------------------------------
(* The prepared graph. For any number of callers, handles and              *)
(* reservations, any graph and any limit: the context's counter is exactly *)
(* what the indexes and the calls under way were charged, and no index     *)
(* exists without its charge.                                              *)

\* Calls that hold a scratch buffer.
Active(fs) == {t \in Threads : fs[t].pc \in {"count", "fill", "finish"}}

\* The charges of a set of reservations and of a set of calls.
Charge(rids, calls) ==
  Cardinality(rids) * IndexBytes + Cardinality(calls) * ScratchBytes

Inv == GraphInv /\ NoLeak

-----------------------------------------------------------------------------
\* Charges are numbers of bytes, and the offsets are part of an index.
LEMMA BytesType == OffsetBytes \in Nat /\ IndexBytes \in Nat /\ ScratchBytes \in Nat /\ OffsetBytes <= IndexBytes
<1>1. OffsetBytes \in Nat /\ ScratchBytes \in Nat
  BY PreparedAssumption DEF OffsetBytes, ScratchBytes
<1>2. 16 * Slots \in Nat /\ 8 * Slots \in Nat
  BY PreparedAssumption
<1> QED BY <1>1, <1>2, PreparedAssumption DEF IndexBytes

\* Multiplying by a charge distributes.
LEMMA Distributes ==
  ASSUME NEW a \in Int, NEW b \in Int, NEW k \in Int
  PROVE  (a + b) * k = a * k + b * k /\ (a - b) * k = a * k - b * k /\ a * k \in Int
  OBVIOUS

\* So are their multiples.
LEMMA ProductType == ASSUME NEW a \in Nat, NEW k \in Nat PROVE a * k \in Nat
  OBVIOUS

\* The sizes of two disjoint finite sets add up.
LEMMA DisjointUnion ==
  ASSUME NEW S, NEW T, IsFiniteSet(S), IsFiniteSet(T), S \cap T = {}
  PROVE  /\ IsFiniteSet(S \cup T)
         /\ Cardinality(S \cup T) = Cardinality(S) + Cardinality(T)
<1>1. /\ IsFiniteSet(S \cup T)
      /\ Cardinality(S \cup T) = Cardinality(S) + Cardinality(T) - Cardinality(S \cap T)
  BY FS_Union
<1>2. Cardinality(S \cap T) = 0
  BY FS_EmptySet
<1>3. Cardinality(S) \in Nat /\ Cardinality(T) \in Nat
  BY FS_CardinalityType
<1> QED BY <1>1, <1>2, <1>3

\* What is kept alive is finite, and known by who keeps it.
LEMMA KeptMembers ==
  ASSUME NEW hs, NEW fs, NEW r
  PROVE  r \in Kept(hs, fs) <=>
           \/ \E h \in Handles : hs[h] # None /\ r \in hs[h].retains
           \/ r # None /\ \E t \in Threads : r = fs[t].rid
  BY DEF Kept

\* One more reservation, one more call.
LEMMA ChargeMore ==
  ASSUME NEW rids \in SUBSET Rids, NEW calls \in SUBSET Threads, NEW r \in Rids \ rids
  PROVE  Charge(rids \cup {r}, calls) = Charge(rids, calls) + IndexBytes
<1>1. IsFiniteSet(rids) /\ IsFiniteSet(calls)
  BY PreparedAssumption, FS_Subset
<1>2. Cardinality(rids) \in Nat /\ Cardinality(calls) \in Nat
  BY <1>1, FS_CardinalityType
<1>3. Cardinality(rids \cup {r}) = Cardinality(rids) + 1
  BY <1>1, FS_AddElement
<1>4. (Cardinality(rids) + 1) * IndexBytes = Cardinality(rids) * IndexBytes + IndexBytes
  BY <1>2, BytesType, Distributes
<1>5. Cardinality(rids) * IndexBytes \in Nat /\ Cardinality(calls) * ScratchBytes \in Nat
  BY <1>2, BytesType, ProductType
<1> QED BY <1>3, <1>4, <1>5, BytesType DEF Charge

\* One more call with a scratch buffer.
LEMMA ChargeJoin ==
  ASSUME NEW rids \in SUBSET Rids, NEW calls \in SUBSET Threads, NEW t \in Threads \ calls
  PROVE  Charge(rids, calls \cup {t}) = Charge(rids, calls) + ScratchBytes
<1>1. IsFiniteSet(rids) /\ IsFiniteSet(calls)
  BY PreparedAssumption, FS_Subset
<1>2. Cardinality(rids) \in Nat /\ Cardinality(calls) \in Nat
  BY <1>1, FS_CardinalityType
<1>3. Cardinality(calls \cup {t}) = Cardinality(calls) + 1
  BY <1>1, FS_AddElement
<1>4. (Cardinality(calls) + 1) * ScratchBytes = Cardinality(calls) * ScratchBytes + ScratchBytes
  BY <1>2, BytesType, Distributes
<1>5. Cardinality(rids) * IndexBytes \in Nat /\ Cardinality(calls) * ScratchBytes \in Nat
  BY <1>2, BytesType, ProductType
<1> QED BY <1>3, <1>4, <1>5, BytesType DEF Charge

\* Reservations dropped are taken off the charge one by one.
LEMMA ChargeFewer ==
  ASSUME NEW rids \in SUBSET Rids, NEW kept \in SUBSET rids, NEW calls \in SUBSET Threads
  PROVE  /\ Charge(kept, calls) = Charge(rids, calls) - Cardinality(rids \ kept) * IndexBytes
         /\ Cardinality(rids \ kept) * IndexBytes \in Nat
<1>1. IsFiniteSet(rids) /\ IsFiniteSet(calls)
  BY PreparedAssumption, FS_Subset
<1>2. kept = rids \cap kept
  OBVIOUS
<1>3. /\ IsFiniteSet(kept) /\ IsFiniteSet(rids \ kept)
      /\ Cardinality(rids \ kept) = Cardinality(rids) - Cardinality(kept)
  <2>1. IsFiniteSet(kept)
    BY <1>1, FS_Subset
  <2>2. /\ IsFiniteSet(rids \ kept)
        /\ Cardinality(rids \ kept) = Cardinality(rids) - Cardinality(rids \cap kept)
    BY <1>1, FS_Difference
  <2> QED BY <1>2, <2>1, <2>2
<1>4. /\ Cardinality(rids) \in Nat /\ Cardinality(kept) \in Nat /\ Cardinality(calls) \in Nat
      /\ Cardinality(rids \ kept) \in Nat
  BY <1>1, <1>3, FS_CardinalityType
<1>5. Cardinality(rids \ kept) * IndexBytes
        = Cardinality(rids) * IndexBytes - Cardinality(kept) * IndexBytes
  BY <1>3, <1>4, BytesType, Distributes
<1>6. /\ Cardinality(rids) * IndexBytes \in Nat /\ Cardinality(kept) * IndexBytes \in Nat
      /\ Cardinality(calls) * ScratchBytes \in Nat /\ Cardinality(rids \ kept) * IndexBytes \in Nat
  BY <1>4, BytesType, ProductType
<1> QED BY <1>5, <1>6 DEF Charge

\* A call that gives its scratch buffer back.
LEMMA ChargeLeave ==
  ASSUME NEW rids \in SUBSET Rids, NEW calls \in SUBSET Threads, NEW t \in calls
  PROVE  Charge(rids, calls \ {t}) = Charge(rids, calls) - ScratchBytes
<1>1. IsFiniteSet(rids) /\ IsFiniteSet(calls)
  BY PreparedAssumption, FS_Subset
<1>2. Cardinality(rids) \in Nat /\ Cardinality(calls) \in Nat
  BY <1>1, FS_CardinalityType
<1>3. Cardinality(calls \ {t}) = Cardinality(calls) - 1
  BY <1>1, FS_RemoveElement
<1>4. (Cardinality(calls) - 1) * ScratchBytes = Cardinality(calls) * ScratchBytes - ScratchBytes
  BY <1>2, BytesType, Distributes
<1>5. Cardinality(rids) * IndexBytes \in Nat /\ Cardinality(calls) * ScratchBytes \in Nat
  BY <1>2, BytesType, ProductType
<1> QED BY <1>3, <1>4, <1>5, BytesType DEF Charge

\* A charge is a number of bytes, also where nothing changes it.
LEMMA ChargeType ==
  ASSUME NEW rids \in SUBSET Rids, NEW calls \in SUBSET Threads
  PROVE  Charge(rids, calls) \in Nat
<1>1. Cardinality(rids) \in Nat /\ Cardinality(calls) \in Nat
  BY PreparedAssumption, FS_Subset, FS_CardinalityType
<1>2. Cardinality(rids) * IndexBytes \in Nat /\ Cardinality(calls) * ScratchBytes \in Nat
  BY <1>1, BytesType, ProductType
<1> QED BY <1>2 DEF Charge

-----------------------------------------------------------------------------
\* The type invariant without the bound on the counter.
Shapes ==
  /\ cancelled \in BOOLEAN
  /\ handle \in [Handles -> Snapshot \cup {None}]
  /\ frame \in [Threads -> [pc : PCs, from : Handles \cup {None},
                            into : Handles \cup {None}, rid : Rids \cup {None}]]

\* The type invariant is the shapes and the limit.
LEMMA TypeParts == TypeOK <=> Shapes /\ used \in 0 .. Limit
  BY DEF TypeOK, Shapes

\* Only reservations are kept alive, and only callers hold scratch buffers.
LEMMA KeptType == Shapes => Kept(handle, frame) \in SUBSET Rids /\ Active(frame) \in SUBSET Threads
<1> SUFFICES ASSUME Shapes, NEW r \in Kept(handle, frame) PROVE r \in Rids
  BY DEF Active
<1>1. CASE \E h \in Handles : handle[h] # None /\ r \in handle[h].retains
  BY <1>1 DEF Shapes, Snapshot
<1>2. CASE r # None /\ \E t \in Threads : r = frame[t].rid
  BY <1>2 DEF Shapes
<1> QED BY <1>1, <1>2, KeptMembers

\* An empty graph has no scratch buffer, and every call is charged nothing.
LEMMA NoLeakIsCharge ==
  Shapes => (NoLeak <=> used = Charge(Kept(handle, frame), Active(frame)))
<1> SUFFICES ASSUME Shapes
             PROVE  Cardinality(Building) * ScratchBytes = Cardinality(Active(frame)) * ScratchBytes
  BY DEF NoLeak, Charge
<1>1. CASE ScratchBytes = 0
  <2>1. Building \in SUBSET Threads /\ Active(frame) \in SUBSET Threads
    BY DEF Building, Active
  <2>2. Cardinality(Building) \in Nat /\ Cardinality(Active(frame)) \in Nat
    BY <2>1, PreparedAssumption, FS_Subset, FS_CardinalityType
  <2> QED BY <1>1, <2>2
<1>2. CASE ScratchBytes # 0
  <2>1. Building = Active(frame)
    BY <1>2 DEF Building, Active, ScratchOf
  <2> QED BY <2>1
<1> QED BY <1>1, <1>2

\* The same facts after a step.
LEMMA NoLeakIsChargeNext ==
  Shapes' => (NoLeak' <=> used' = Charge(Kept(handle', frame'), Active(frame')))
<1>1. (Shapes => (NoLeak <=> used = Charge(Kept(handle, frame), Active(frame))))'
  BY NoLeakIsCharge, PTL
<1> QED BY <1>1

\* The same facts after a step.
LEMMA KeptTypeNext ==
  Shapes' => Kept(handle', frame') \in SUBSET Rids /\ Active(frame') \in SUBSET Threads
<1>1. (Shapes => Kept(handle, frame) \in SUBSET Rids /\ Active(frame) \in SUBSET Threads)'
  BY KeptType, PTL
<1> QED BY <1>1

\* The same facts after a step.
LEMMA TypePartsNext == TypeOK' <=> Shapes' /\ used' \in 0 .. Limit
<1>1. (TypeOK <=> Shapes /\ used \in 0 .. Limit)'
  BY TypeParts, PTL
<1> QED BY <1>1

\* Reservations whose last owner goes, and the scratch buffer of a call that
\* leaves, are given back exactly.
LEMMA DropStep ==
  ASSUME Shapes, Shapes', NoLeak, used \in 0 .. Limit,
         Kept(handle', frame') \subseteq Kept(handle, frame),
         NEW scratch, DropUnreachable(scratch),
         \/ Active(frame') = Active(frame) /\ scratch = 0
         \/ \E t \in Active(frame) : Active(frame') = Active(frame) \ {t} /\ scratch = ScratchBytes
  PROVE  NoLeak' /\ used' \in 0 .. Limit
<1> DEFINE K == Kept(handle, frame)  L == Kept(handle', frame')
           A == Active(frame)        B == Active(frame')
<1>1. K \in SUBSET Rids /\ A \in SUBSET Threads /\ L \in SUBSET K /\ B \in SUBSET Threads
  BY KeptType, KeptTypeNext
<1>2. used = Charge(K, A)
  BY NoLeakIsCharge
<1>3. used' = used - scratch - Cardinality(K \ L) * IndexBytes
  BY DEF DropUnreachable, Released
<1> HIDE DEF K, L, A, B
<1>4. Charge(L, A) = Charge(K, A) - Cardinality(K \ L) * IndexBytes
      /\ Cardinality(K \ L) * IndexBytes \in Nat
  BY <1>1, ChargeFewer
<1>5. Charge(K, A) \in Nat /\ Charge(L, A) \in Nat /\ Charge(L, B) \in Nat
  BY <1>1, ChargeType
<1>6. Charge(L, B) = Charge(L, A) - scratch /\ scratch \in Nat
  <2>1. ASSUME NEW t \in A, B = A \ {t}, scratch = ScratchBytes
        PROVE  Charge(L, B) = Charge(L, A) - scratch /\ scratch \in Nat
    BY <1>1, <2>1, ChargeLeave, BytesType
  <2>2. CASE B = A /\ scratch = 0
    BY <1>5, <2>2
  <2> QED BY <2>1, <2>2 DEF A, B
<1>7. used' = Charge(L, B) /\ used' <= used
  BY <1>2, <1>3, <1>4, <1>5, <1>6, BytesType
<1>8. used' \in 0 .. Limit
  BY <1>2, <1>5, <1>7, PreparedAssumption
<1> QED BY <1>7, <1>8, NoLeakIsChargeNext DEF L, B

-----------------------------------------------------------------------------
\* What every step keeps besides the counter.
Owners == CallsHold /\ CallsApart /\ IndexRetained

\* The invariant in the parts the steps are proved for.
LEMMA InvParts == Inv <=> Shapes /\ Owners /\ NoLeak /\ used \in 0 .. Limit
  BY TypeParts DEF Inv, GraphInv, Owners

\* The invariant in these parts after a step.
LEMMA InvPartsNext == Inv' <=> Shapes' /\ Owners' /\ NoLeak' /\ used' \in 0 .. Limit
<1>1. (Inv <=> Shapes /\ Owners /\ NoLeak /\ used \in 0 .. Limit)'
  BY InvParts, PTL
<1> QED BY <1>1

\* Nothing is charged or given back when the same reservations and the same
\* calls are there after the step.
LEMMA SameCharge ==
  ASSUME Inv, Shapes', used' = used,
         Kept(handle', frame') = Kept(handle, frame), Active(frame') = Active(frame)
  PROVE  NoLeak' /\ used' \in 0 .. Limit
  BY InvParts, NoLeakIsCharge, NoLeakIsChargeNext

\* At first one handle without an index is there, and nothing is charged.
LEMMA InitInv == Init => Inv
<1> SUFFICES ASSUME Init PROVE Inv
  OBVIOUS
<1>1. PICK h \in Handles : handle = [x \in Handles |->
                              IF x = h THEN [index |-> None, retains |-> {}] ELSE None]
  BY DEF Init
<1>2. frame = [t \in Threads |-> Idle] /\ used = 0 /\ cancelled = FALSE
  BY DEF Init
<1>3. Shapes
  BY <1>1, <1>2 DEF Shapes, Snapshot, Idle, PCs
<1>4. Owners
  BY <1>1, <1>2 DEF Owners, CallsHold, CallsApart, IndexRetained, InUse, Idle
<1>5. Kept(handle, frame) = {} /\ Active(frame) = {}
  <2>1. ASSUME NEW r, r \in Kept(handle, frame) PROVE FALSE
    BY <1>1, <1>2, <2>1, KeptMembers DEF Idle
  <2>2. Active(frame) = {}
    BY <1>2 DEF Active, Idle
  <2> QED BY <2>1, <2>2
<1>6. Charge({}, {}) = 0
  BY FS_EmptySet, BytesType DEF Charge
<1>7. used \in 0 .. Limit
  BY <1>2, PreparedAssumption
<1> QED BY <1>2, <1>3, <1>4, <1>5, <1>6, <1>7, NoLeakIsCharge, InvParts

\* Copies keep the same reservations, and so do calls that go on.
LEMMA SameOwners ==
  ASSUME \A h \in Handles : handle'[h] # None =>
           \E x \in Handles : handle[x] # None /\ handle'[h].retains = handle[x].retains,
         \A h \in Handles : handle[h] # None => handle'[h] = handle[h],
         \A t \in Threads : frame'[t].rid = frame[t].rid
  PROVE  Kept(handle', frame') = Kept(handle, frame)
<1>1. ASSUME NEW r, r \in Kept(handle', frame') PROVE r \in Kept(handle, frame)
  <2>1. CASE \E h \in Handles : handle'[h] # None /\ r \in handle'[h].retains
    BY <2>1, KeptMembers
  <2>2. CASE r # None /\ \E t \in Threads : r = frame'[t].rid
    BY <2>2, KeptMembers
  <2> QED BY <1>1, <2>1, <2>2, KeptMembers
<1>2. ASSUME NEW r, r \in Kept(handle, frame) PROVE r \in Kept(handle', frame')
  <2>1. CASE \E h \in Handles : handle[h] # None /\ r \in handle[h].retains
    BY <2>1, KeptMembers
  <2>2. CASE r # None /\ \E t \in Threads : r = frame[t].rid
    BY <2>2, KeptMembers
  <2> QED BY <1>2, <2>1, <2>2, KeptMembers
<1> QED BY <1>1, <1>2

\* A handle is copied: clone, with_properties, and prepare_incoming of a
\* graph that has its index.
LEMMA CopyStep ==
  ASSUME Inv, NEW h \in Handles, NEW into \in Free, handle[h] # None,
         handle' = [handle EXCEPT ![into] = handle[h]],
         UNCHANGED <<used, cancelled, frame>>
  PROVE  Inv'
<1>0. Shapes /\ CallsHold /\ CallsApart /\ IndexRetained
  BY InvParts DEF Owners
<1>1. into \in Handles /\ handle[into] = None
  BY DEF Free
<1>2. /\ \A x \in Handles : handle'[x] = IF x = into THEN handle[h] ELSE handle[x]
      /\ frame' = frame
  BY <1>0 DEF Shapes
<1>3. Shapes'
  BY <1>0, <1>1 DEF Shapes
<1>4. Owners'
  <2>1. CallsHold'
    BY <1>0, <1>1, <1>2 DEF CallsHold, InUse
  <2>2. CallsApart'
    BY <1>0, <1>1, <1>2 DEF CallsApart, InUse
  <2>3. IndexRetained'
    BY <1>0, <1>1, <1>2 DEF IndexRetained
  <2> QED BY <2>1, <2>2, <2>3 DEF Owners
<1>5. Kept(handle', frame') = Kept(handle, frame)
  BY <1>1, <1>2, SameOwners
<1> QED BY <1>2, <1>3, <1>4, <1>5, SameCharge, InvPartsNext

\* A call goes on, and holds a scratch buffer now or did before.
LEMMA AdvanceStep ==
  ASSUME Inv, NEW t \in Threads, InUse(t), NEW stage \in PCs, stage # "idle",
         frame' = [frame EXCEPT ![t].pc = stage], UNCHANGED <<cancelled, handle>>
  PROVE  /\ Shapes' /\ Owners' /\ Kept(handle', frame') = Kept(handle, frame)
         /\ frame'[t].pc = stage /\ \A s \in Threads : s # t => frame'[s] = frame[s]
<1>0. Shapes /\ CallsHold /\ CallsApart /\ IndexRetained
  BY InvParts DEF Owners
<1>1. \A s \in Threads :
        /\ frame'[s].rid = frame[s].rid /\ frame'[s].from = frame[s].from
        /\ s = t => frame'[s].pc = stage
        /\ s # t => frame'[s] = frame[s]
  BY <1>0 DEF Shapes
<1>2. Shapes'
  BY <1>0 DEF Shapes
<1>3. \A s \in Threads : InUse(s)' <=> InUse(s)
  BY <1>1 DEF InUse
<1>4. Owners'
  <2>1. CallsHold'
    BY <1>0, <1>1, <1>3 DEF CallsHold, InUse
  <2>2. CallsApart'
    BY <1>0, <1>1, <1>3 DEF CallsApart, InUse
  <2>3. IndexRetained'
    BY <1>0 DEF IndexRetained
  <2> QED BY <2>1, <2>2, <2>3 DEF Owners
<1>5. Kept(handle', frame') = Kept(handle, frame)
  BY <1>1, SameOwners
<1>6. frame'[t].pc = stage /\ \A s \in Threads : s # t => frame'[s] = frame[s]
  BY <1>1
<1> QED BY <1>2, <1>4, <1>5, <1>6

\* A call returns with an error: what only it owned is given back, and its
\* scratch buffer when it had one.
LEMMA ReturnStep ==
  ASSUME Inv, NEW t \in Threads, InUse(t),
         Return(t), DropUnreachable(ScratchOf(t)), UNCHANGED <<cancelled, handle>>
  PROVE  Inv'
<1>0. Shapes /\ CallsHold /\ CallsApart /\ IndexRetained /\ NoLeak /\ used \in 0 .. Limit
  BY InvParts DEF Owners
<1>1. \A s \in Threads : frame'[s] = IF s = t THEN Idle ELSE frame[s]
  BY <1>0 DEF Shapes, Return
<1>2. Shapes'
  BY <1>0 DEF Shapes, Return, Idle, PCs
<1>3. Owners'
  <2>1. CallsHold'
    BY <1>0, <1>1 DEF CallsHold, InUse, Idle
  <2>2. CallsApart'
    BY <1>0, <1>1 DEF CallsApart, InUse, Idle
  <2>3. IndexRetained'
    BY <1>0 DEF IndexRetained
  <2> QED BY <2>1, <2>2, <2>3 DEF Owners
<1>4. Kept(handle', frame') \subseteq Kept(handle, frame)
  <2> SUFFICES ASSUME NEW r, r \in Kept(handle', frame') PROVE r \in Kept(handle, frame)
    OBVIOUS
  <2>1. CASE \E h \in Handles : handle'[h] # None /\ r \in handle'[h].retains
    BY <2>1, KeptMembers
  <2>2. CASE r # None /\ \E s \in Threads : r = frame'[s].rid
    BY <1>1, <2>2, KeptMembers DEF Idle
  <2> QED BY <2>1, <2>2, KeptMembers
<1>5. Active(frame') = Active(frame) \ {t}
  BY <1>1 DEF Active, Idle
<1>6. \/ t \in Active(frame) /\ ScratchOf(t) = ScratchBytes
      \/ Active(frame') = Active(frame) /\ ScratchOf(t) = 0
  BY <1>5 DEF ScratchOf, Active
<1>7. NoLeak' /\ used' \in 0 .. Limit
  BY <1>0, <1>2, <1>4, <1>5, <1>6, DropStep
<1> QED BY <1>2, <1>3, <1>7, InvPartsNext

\* The last handle on an index takes its reservation along.
LEMMA DropHandleStep == ASSUME Inv, NEW h \in Handles, DropHandle(h) PROVE Inv'
<1>0. Shapes /\ CallsHold /\ CallsApart /\ IndexRetained /\ NoLeak /\ used \in 0 .. Limit
  BY InvParts DEF Owners
<1>1. /\ \A x \in Handles : handle'[x] = IF x = h THEN None ELSE handle[x]
      /\ frame' = frame /\ cancelled' = cancelled /\ DropUnreachable(0)
      /\ \A t \in Threads : frame[t].from # h
  BY <1>0 DEF Shapes, DropHandle
<1>2. Shapes'
  BY <1>0 DEF Shapes, DropHandle
<1>3. Owners'
  <2>1. CallsHold'
    BY <1>0, <1>1 DEF CallsHold, InUse
  <2>2. CallsApart'
    BY <1>0, <1>1 DEF CallsApart, InUse
  <2>3. IndexRetained'
    BY <1>0, <1>1 DEF IndexRetained
  <2> QED BY <2>1, <2>2, <2>3 DEF Owners
<1>4. Kept(handle', frame') \subseteq Kept(handle, frame)
  <2> SUFFICES ASSUME NEW r, r \in Kept(handle', frame') PROVE r \in Kept(handle, frame)
    OBVIOUS
  <2>1. CASE \E x \in Handles : handle'[x] # None /\ r \in handle'[x].retains
    BY <1>1, <2>1, KeptMembers
  <2>2. CASE r # None /\ \E s \in Threads : r = frame'[s].rid
    BY <1>1, <2>2, KeptMembers
  <2> QED BY <2>1, <2>2, KeptMembers
<1>5. Active(frame') = Active(frame)
  BY <1>1
<1>6. NoLeak' /\ used' \in 0 .. Limit
  BY <1>0, <1>1, <1>2, <1>4, <1>5, DropStep
<1> QED BY <1>2, <1>3, <1>6, InvPartsNext

\* A step that changes nothing keeps the invariant.
LEMMA UnchangedStep == ASSUME Inv, UNCHANGED vars PROVE Inv'
<1>1. /\ used' = used /\ cancelled' = cancelled /\ handle' = handle /\ frame' = frame
  BY DEF vars
<1>2. Shapes' /\ Owners'
  BY <1>1, InvParts DEF Shapes, Owners, CallsHold, CallsApart, IndexRetained, InUse
<1> QED BY <1>1, <1>2, SameCharge, InvPartsNext

\* A call that finishes hands its reservation to the new handle.
LEMMA FinishStep == ASSUME Inv, NEW t \in Threads, Finish(t) PROVE Inv'
<1> DEFINE into == frame[t].into
           rid == frame[t].rid
           from == frame[t].from
           made == [index |-> rid, retains |-> handle[from].retains \cup {rid}]
<1>0. Shapes /\ CallsHold /\ CallsApart /\ IndexRetained /\ NoLeak /\ used \in 0 .. Limit
  BY InvParts DEF Owners
<1>1. /\ frame[t].pc = "finish" /\ InUse(t) /\ rid \in Rids /\ from \in Handles /\ handle[from] # None
      /\ handle[from] \in Snapshot /\ made \in Snapshot
  <2>1. frame[t].pc = "finish" /\ InUse(t)
    BY DEF Finish, InUse
  <2>2. rid \in Rids /\ from \in Handles /\ handle[from] # None
    BY <1>0, <2>1 DEF CallsHold
  <2>3. handle[from] \in Snapshot
    BY <1>0, <2>2 DEF Shapes
  <2> QED BY <2>1, <2>2, <2>3 DEF Snapshot
<1>2. /\ \A h \in Handles : handle'[h] = IF h = into THEN made ELSE handle[h]
      /\ \A s \in Threads : frame'[s] = IF s = t THEN Idle ELSE frame[s]
      /\ cancelled' = cancelled /\ DropUnreachable(ScratchOf(t))
  BY <1>0 DEF Finish, Return, Shapes
<1>3. Shapes'
  <2>1. handle' \in [Handles -> Snapshot \cup {None}]
    BY <1>0, <1>1 DEF Finish, Shapes
  <2>2. frame' \in [Threads -> [pc : PCs, from : Handles \cup {None},
                                into : Handles \cup {None}, rid : Rids \cup {None}]]
    BY <1>0 DEF Finish, Return, Shapes, Idle, PCs
  <2> QED BY <1>0, <1>2, <2>1, <2>2 DEF Shapes
<1>4. Owners'
  <2>1. \A h \in Handles : handle[h] # None => handle'[h] # None
    BY <1>1, <1>2, PreparedAssumption DEF Snapshot
  <2>2. \A s \in Threads : InUse(s)' <=> InUse(s) /\ s # t
    BY <1>2 DEF InUse, Idle
  <2>3. CallsHold'
    BY <1>0, <1>2, <2>1, <2>2 DEF CallsHold, InUse
  <2>4. CallsApart'
    <3> SUFFICES ASSUME NEW s \in Threads, InUse(s), s # t
                 PROVE  /\ \A x \in Threads : InUse(x) /\ x # t /\ x # s => frame[x].rid # frame[s].rid
                        /\ \A h \in Handles : handle'[h] # None => frame[s].rid \notin handle'[h].retains
      BY <1>2, <2>2 DEF CallsApart
    <3>1. frame[s].rid # rid /\ frame[s].rid \notin handle[from].retains
      BY <1>0, <1>1 DEF CallsApart
    <3> QED BY <1>0, <1>2, <3>1 DEF CallsApart
  <2>5. IndexRetained'
    BY <1>0, <1>2 DEF IndexRetained
  <2> QED BY <2>3, <2>4, <2>5 DEF Owners
<1>5. Kept(handle', frame') \subseteq Kept(handle, frame)
  <2> SUFFICES ASSUME NEW r, r \in Kept(handle', frame') PROVE r \in Kept(handle, frame)
    OBVIOUS
  <2>1. rid \in Kept(handle, frame)
    BY <1>1, PreparedAssumption, KeptMembers
  <2>2. \A x \in handle[from].retains : x \in Kept(handle, frame)
    BY <1>1, KeptMembers
  <2>3. CASE \E h \in Handles : handle'[h] # None /\ r \in handle'[h].retains
    BY <1>2, <2>1, <2>2, <2>3, KeptMembers
  <2>4. CASE r # None /\ \E s \in Threads : r = frame'[s].rid
    BY <1>2, <2>4, KeptMembers DEF Idle
  <2> QED BY <2>3, <2>4, KeptMembers
<1>6. /\ t \in Active(frame) /\ Active(frame') = Active(frame) \ {t}
      /\ ScratchOf(t) = ScratchBytes
  BY <1>1, <1>2 DEF Active, Idle, ScratchOf
<1>7. NoLeak' /\ used' \in 0 .. Limit
  BY <1>0, <1>2, <1>3, <1>5, <1>6, DropStep
<1> QED BY <1>3, <1>4, <1>7, InvPartsNext

\* The two passes: one goes on, or the call returns.
LEMMA PassStep ==
  ASSUME Inv, NEW t \in Threads, CountArcs(t) \/ FillArcs(t)
  PROVE  Inv'
<1>0. Shapes /\ NoLeak /\ used \in 0 .. Limit
  BY InvParts
<1>1. PICK from \in {"count", "fill"}, to \in {"fill", "finish"} : Pass(t, from, to)
  BY DEF CountArcs, FillArcs
<1>2. InUse(t) /\ t \in Active(frame)
  BY <1>1 DEF Pass, InUse, Active
<1>3. CASE cancelled
  BY <1>1, <1>2, <1>3, ReturnStep DEF Pass
<1>4. CASE ~cancelled
  <2>1. /\ frame' = [frame EXCEPT ![t].pc = to] /\ used' = used
        /\ UNCHANGED <<cancelled, handle>> /\ to \in PCs /\ to # "idle"
    BY <1>1, <1>4 DEF Pass, PCs
  <2>2. /\ Shapes' /\ Owners' /\ Kept(handle', frame') = Kept(handle, frame)
        /\ frame'[t].pc = to /\ \A s \in Threads : s # t => frame'[s] = frame[s]
    BY <1>2, <2>1, AdvanceStep
  <2>3. Active(frame') = Active(frame)
    BY <1>2, <2>2 DEF Active
  <2> QED BY <2>1, <2>2, <2>3, SameCharge, InvPartsNext
<1> QED BY <1>3, <1>4

\* The scratch buffer is charged when it fits.
LEMMA ReserveScratchStep == ASSUME Inv, NEW t \in Threads, ReserveScratch(t) PROVE Inv'
<1>0. Shapes /\ NoLeak /\ used \in 0 .. Limit
  BY InvParts
<1>1. frame[t].pc = "scratch" /\ InUse(t) /\ t \notin Active(frame) /\ ScratchOf(t) = 0
  BY DEF ReserveScratch, InUse, Active, ScratchOf
<1>2. CASE ~cancelled /\ used + ScratchBytes <= Limit
  <2>1. /\ frame' = [frame EXCEPT ![t].pc = "count"] /\ used' = used + ScratchBytes
        /\ UNCHANGED <<cancelled, handle>> /\ "count" \in PCs
    BY <1>2 DEF ReserveScratch, PCs
  <2>2. /\ Shapes' /\ Owners' /\ Kept(handle', frame') = Kept(handle, frame)
        /\ frame'[t].pc = "count" /\ \A s \in Threads : s # t => frame'[s] = frame[s]
    BY <1>1, <2>1, AdvanceStep
  <2>3. Active(frame') = Active(frame) \cup {t}
    BY <2>2 DEF Active
  <2>4. Charge(Kept(handle, frame), Active(frame) \cup {t})
          = Charge(Kept(handle, frame), Active(frame)) + ScratchBytes
    BY <1>0, <1>1, KeptType, ChargeJoin
  <2>5. NoLeak'
    BY <1>0, <2>1, <2>2, <2>3, <2>4, NoLeakIsCharge, NoLeakIsChargeNext
  <2>6. used' \in 0 .. Limit
    BY <1>0, <1>2, <2>1, BytesType, PreparedAssumption
  <2> QED BY <2>2, <2>5, <2>6, InvPartsNext
<1>3. CASE ~(~cancelled /\ used + ScratchBytes <= Limit)
  BY <1>1, <1>3, ReturnStep DEF ReserveScratch
<1> QED BY <1>2, <1>3

\* The retained buffers are charged when they fit.
LEMMA PrepareStep ==
  ASSUME Inv, NEW t \in Threads, NEW h \in Handles, NEW into \in Handles, NEW r \in Rids,
         Prepare(t, h, into, r)
  PROVE  Inv'
<1>0. Shapes /\ CallsHold /\ CallsApart /\ IndexRetained /\ NoLeak /\ used \in 0 .. Limit
  BY InvParts DEF Owners
<1>1. /\ frame[t].pc = "idle" /\ ~InUse(t) /\ handle[h] # None /\ into \in Free
      /\ r \notin Kept(handle, frame) /\ cancelled' = cancelled
  BY DEF Prepare, InUse
<1>2. CASE UNCHANGED <<used, handle, frame>>
  BY <1>1, <1>2, UnchangedStep DEF vars
<1>3. CASE handle' = [handle EXCEPT ![into] = handle[h]] /\ UNCHANGED <<used, frame>>
  BY <1>1, <1>3, CopyStep
<1>4. CASE /\ used + IndexBytes <= Limit /\ used' = used + IndexBytes /\ handle' = handle
           /\ frame' = [frame EXCEPT ![t] = [pc |-> "scratch", from |-> h, into |-> into, rid |-> r]]
  <2>1. \A s \in Threads :
          frame'[s] = IF s = t THEN [pc |-> "scratch", from |-> h, into |-> into, rid |-> r]
                      ELSE frame[s]
    BY <1>0, <1>4 DEF Shapes
  <2>2. Shapes'
    BY <1>0, <1>1, <1>4 DEF Shapes, PCs
  <2>3. Owners'
    <3>1. \A s \in Threads : InUse(s)' <=> InUse(s) \/ s = t
      BY <2>1 DEF InUse
    <3>2. CallsHold'
      BY <1>0, <1>1, <1>4, <2>1, <3>1 DEF CallsHold, InUse
    <3>3. \A s \in Threads : frame[s].rid # r
      BY <1>1, PreparedAssumption, KeptMembers
    <3>4. \A x \in Handles : handle[x] # None => r \notin handle[x].retains
      BY <1>1, KeptMembers
    <3>5. CallsApart'
      BY <1>0, <1>4, <2>1, <3>1, <3>3, <3>4 DEF CallsApart
    <3>6. IndexRetained'
      BY <1>0, <1>4 DEF IndexRetained
    <3> QED BY <3>2, <3>5, <3>6 DEF Owners
  <2>4. Kept(handle', frame') = Kept(handle, frame) \cup {r}
    <3>1. frame[t].rid = None
      BY <1>0, <1>1 DEF CallsHold, Idle
    <3>2. ASSUME NEW x PROVE x \in Kept(handle', frame') <=> x \in Kept(handle, frame) \/ x = r
      <4>1. (x # None /\ \E s \in Threads : x = frame'[s].rid)
              <=> (x # None /\ \E s \in Threads : x = frame[s].rid) \/ x = r
        BY <2>1, <3>1, PreparedAssumption
      <4>2. x \in Kept(handle', frame') <=>
              \/ \E y \in Handles : handle'[y] # None /\ x \in handle'[y].retains
              \/ x # None /\ \E s \in Threads : x = frame'[s].rid
        BY KeptMembers
      <4>3. x \in Kept(handle, frame) <=>
              \/ \E y \in Handles : handle[y] # None /\ x \in handle[y].retains
              \/ x # None /\ \E s \in Threads : x = frame[s].rid
        BY KeptMembers
      <4> QED BY <1>4, <4>1, <4>2, <4>3
    <3> QED BY <3>2
  <2>5. Active(frame') = Active(frame)
    BY <1>1, <2>1 DEF Active
  <2>6. Charge(Kept(handle, frame) \cup {r}, Active(frame))
          = Charge(Kept(handle, frame), Active(frame)) + IndexBytes
    BY <1>0, <1>1, KeptType, ChargeMore
  <2>7. NoLeak'
    BY <1>0, <1>4, <2>2, <2>4, <2>5, <2>6, NoLeakIsCharge, NoLeakIsChargeNext
  <2>8. used' \in 0 .. Limit
    BY <1>0, <1>4, BytesType, PreparedAssumption
  <2> QED BY <2>2, <2>3, <2>7, <2>8, InvPartsNext
<1> QED BY <1>2, <1>3, <1>4 DEF Prepare

\* Every step keeps the invariant.
LEMMA Inductive == Inv /\ [Next]_vars => Inv'
<1> SUFFICES ASSUME Inv, [Next]_vars PROVE Inv'
  OBVIOUS
<1>1. ASSUME NEW h \in Handles, NEW into \in Handles, Clone(h, into) PROVE Inv'
  BY <1>1, CopyStep DEF Clone
<1>2. ASSUME NEW h \in Handles, NEW into \in Handles, WithProperties(h, into) PROVE Inv'
  <2>1. handle[h] \in Snapshot
    BY <1>2, InvParts DEF Shapes, WithProperties
  <2>2. handle[h] = [index |-> handle[h].index, retains |-> handle[h].retains]
    BY <2>1 DEF Snapshot
  <2> QED BY <1>2, <2>2, CopyStep DEF WithProperties
<1>3. ASSUME NEW h \in Handles, NEW into \in Handles, NEW t \in Threads, NEW r \in Rids,
             Prepare(t, h, into, r)
      PROVE  Inv'
  BY <1>3, PrepareStep
<1>4. ASSUME NEW h \in Handles, DropHandle(h) PROVE Inv'
  BY <1>4, DropHandleStep
<1>5. ASSUME NEW t \in Threads, ReserveScratch(t) PROVE Inv'
  BY <1>5, ReserveScratchStep
<1>6. ASSUME NEW t \in Threads, CountArcs(t) \/ FillArcs(t) PROVE Inv'
  BY <1>6, PassStep
<1>7. ASSUME NEW t \in Threads, Finish(t) PROVE Inv'
  BY <1>7, FinishStep
<1>8. CASE Cancel
  <2>1. cancelled' = TRUE /\ used' = used /\ handle' = handle /\ frame' = frame
    BY <1>8 DEF Cancel
  <2>2. Shapes' /\ Owners'
    BY <2>1, InvParts DEF Shapes, Owners, CallsHold, CallsApart, IndexRetained, InUse
  <2> QED BY <2>1, <2>2, SameCharge, InvPartsNext
<1>9. CASE UNCHANGED vars
  BY <1>9, UnchangedStep
<1> QED BY <1>1, <1>2, <1>3, <1>4, <1>5, <1>6, <1>7, <1>8, <1>9 DEF Next

(* The counter and the owners of every reservation are known at any time. *)
THEOREM InvHolds == Spec => []Inv
  BY InitInv, Inductive, PTL DEF Spec

(* The limit holds, and every reservation of an index under construction   *)
(* has exactly one owner, whatever the callers do.                         *)
THEOREM OwnersKnown == Spec => []GraphInv
<1>1. Inv => GraphInv
  BY DEF Inv
<1> QED BY <1>1, InvHolds, PTL

(* After any clones, drops, refusals and cancellations the counter of the  *)
(* context is the charge of the indexes and calls that are left.           *)
THEOREM NothingLeaks == Spec => []NoLeak
<1>1. Inv => NoLeak
  BY DEF Inv
<1> QED BY <1>1, InvHolds, PTL

-----------------------------------------------------------------------------
\* The calls that hold a scratch buffer own as many reservations, none of
\* which belongs to an index of a handle.
LEMMA OwnersCounted ==
  ASSUME Inv
  PROVE  Cardinality(Indexes) + Cardinality(Active(frame)) <= Cardinality(Kept(handle, frame))
<1> DEFINE A == Active(frame)
           R == {frame[t].rid : t \in A}
           f == [t \in A |-> frame[t].rid]
<1>0. Shapes /\ CallsHold /\ CallsApart /\ IndexRetained
  BY InvParts DEF Owners
<1>1. \A t \in A : t \in Threads /\ InUse(t) /\ frame[t].rid \in Rids
  BY <1>0 DEF Active, InUse, CallsHold
<1>2. Indexes \subseteq Kept(handle, frame)
  BY <1>0, KeptMembers DEF Indexes, IndexRetained
<1>3. R \subseteq Kept(handle, frame)
  BY <1>1, KeptMembers, PreparedAssumption
<1>4. R \cap Indexes = {}
  <2> SUFFICES ASSUME NEW t \in A, NEW h \in Handles, handle[h] # None, handle[h].index = frame[t].rid
               PROVE  FALSE
    BY DEF Indexes
  <2> QED BY <1>0, <1>1, PreparedAssumption DEF CallsApart, IndexRetained
<1>5. IsFiniteSet(Kept(handle, frame))
  BY <1>0, KeptType, PreparedAssumption, FS_Subset
<1>6. IsFiniteSet(R) /\ IsFiniteSet(Indexes)
  BY <1>2, <1>3, <1>5, FS_Subset
<1>7. Cardinality(A) = Cardinality(R)
  <2>1. f \in Bijection(A, R)
    BY <1>0, <1>1 DEF Bijection, Injection, Surjection, IsInjective, CallsApart
  <2>2. ExistsBijection(A, R)
    BY <2>1 DEF ExistsBijection
  <2>3. IsFiniteSet(A)
    BY <1>0, KeptType, PreparedAssumption, FS_Subset
  <2> QED BY <2>2, <2>3, FS_Bijection
<1>8. Cardinality(R \cup Indexes) = Cardinality(R) + Cardinality(Indexes)
  BY <1>4, <1>6, DisjointUnion
<1>9. Cardinality(R \cup Indexes) <= Cardinality(Kept(handle, frame))
  <2>1. R \cup Indexes \in SUBSET Kept(handle, frame)
    BY <1>2, <1>3
  <2> QED BY <1>5, <2>1, FS_Subset
<1>10. Cardinality(R) \in Nat /\ Cardinality(Indexes) \in Nat
  BY <1>6, FS_CardinalityType
<1> QED BY <1>7, <1>8, <1>9, <1>10

\* Of these calls, those in the first pass have allocated the offsets only.
LEMMA AllocationBound ==
  ASSUME NEW i \in Nat, NEW c \in Nat, NEW d \in Nat, NEW k \in Nat, i + (c + d) <= k
  PROVE  i * IndexBytes + c * OffsetBytes + d * (IndexBytes + ScratchBytes)
           <= k * IndexBytes + (c + d) * ScratchBytes
<1>1. c * OffsetBytes <= c * IndexBytes
  BY BytesType
<1>2. /\ d * (IndexBytes + ScratchBytes) = d * IndexBytes + d * ScratchBytes
      /\ (c + d) * ScratchBytes = c * ScratchBytes + d * ScratchBytes
      /\ (i + (c + d)) * IndexBytes = i * IndexBytes + (c * IndexBytes + d * IndexBytes)
  BY BytesType
<1>3. (i + (c + d)) * IndexBytes <= k * IndexBytes
  BY BytesType
<1>4. /\ c * ScratchBytes \in Nat /\ d * ScratchBytes \in Nat /\ d * IndexBytes \in Nat
      /\ c * IndexBytes \in Nat /\ i * IndexBytes \in Nat /\ k * IndexBytes \in Nat
      /\ c * OffsetBytes \in Nat
  BY BytesType, ProductType
<1> QED BY <1>1, <1>2, <1>3, <1>4

(* No index and no scratch buffer exists without bytes charged for it.     *)
THEOREM NothingUncharged == Spec => []BuffersCharged
<1>1. Inv => BuffersCharged
  <2> SUFFICES ASSUME Inv PROVE BuffersCharged
    OBVIOUS
  <2> DEFINE during(stage) == {t \in Threads : frame[t].pc = stage}
             C == during("count")  F == during("fill")  G == during("finish")
             A == Active(frame)    K == Kept(handle, frame)
  <2>0. Shapes /\ IndexRetained /\ NoLeak
    BY InvParts DEF Owners
  <2>1. Indexes \subseteq K
    BY <2>0, KeptMembers DEF Indexes, IndexRetained
  <2>2. /\ IsFiniteSet(C) /\ IsFiniteSet(F) /\ IsFiniteSet(G) /\ IsFiniteSet(K)
        /\ IsFiniteSet(Indexes)
    <3>1. C \in SUBSET Threads /\ F \in SUBSET Threads /\ G \in SUBSET Threads
      OBVIOUS
    <3>2. IsFiniteSet(K)
      BY <2>0, KeptType, PreparedAssumption, FS_Subset
    <3>3. IsFiniteSet(C) /\ IsFiniteSet(F) /\ IsFiniteSet(G)
      BY <3>1, PreparedAssumption, FS_Subset
    <3>4. IsFiniteSet(Indexes)
      BY <2>1, <3>2, FS_Subset
    <3> QED BY <3>2, <3>3, <3>4
  <2>3. /\ Cardinality(C) \in Nat /\ Cardinality(F) \in Nat /\ Cardinality(G) \in Nat
        /\ Cardinality(K) \in Nat /\ Cardinality(Indexes) \in Nat
    BY <2>2, FS_CardinalityType
  <2>4. Cardinality(A) = Cardinality(C) + (Cardinality(F) + Cardinality(G))
    <3>1. A = C \cup (F \cup G) /\ F \cap G = {} /\ C \cap (F \cup G) = {}
      BY DEF Active
    <3> HIDE DEF C, F, G, A
    <3>2. IsFiniteSet(F \cup G) /\ Cardinality(F \cup G) = Cardinality(F) + Cardinality(G)
      BY <2>2, <3>1, DisjointUnion
    <3>3. Cardinality(C \cup (F \cup G)) = Cardinality(C) + Cardinality(F \cup G)
      BY <2>2, <3>1, <3>2, DisjointUnion
    <3> QED BY <3>1, <3>2, <3>3
  <2>5. used = Cardinality(K) * IndexBytes + Cardinality(A) * ScratchBytes
    BY <2>0, NoLeakIsCharge DEF Charge
  <2>6. Cardinality(Indexes) + Cardinality(A) <= Cardinality(K)
    BY OwnersCounted
  <2>7. Allocated = Cardinality(Indexes) * IndexBytes + Cardinality(C) * OffsetBytes
                      + (Cardinality(F) + Cardinality(G)) * (IndexBytes + ScratchBytes)
    BY DEF Allocated
  <2>8. Allocated <= used
    <3> HIDE DEF C, F, G, A, K
    <3>1. Cardinality(F) + Cardinality(G) \in Nat
      BY <2>3
    <3> QED BY <2>3, <2>4, <2>5, <2>6, <2>7, <3>1, AllocationBound
  <2> QED BY <2>1, <2>8 DEF BuffersCharged
<1> QED BY <1>1, InvHolds, PTL
=============================================================================
