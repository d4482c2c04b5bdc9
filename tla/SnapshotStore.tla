---------------------------- MODULE SnapshotStore ----------------------------
(***************************************************************************)
(* icebug-io: write_snapshot and read_snapshot on one directory path, used *)
(* by any number of writer and reader processes that may fail or be killed *)
(* at every system call. A snapshot is a set of Arrow sections and, last,  *)
(* a manifest that names every section with its checksum.                  *)
(*                                                                         *)
(* A section's content is the writer whose graph it encodes (each writer   *)
(* has a graph of its own), Torn when it is anything else: half written,   *)
(* or damaged after publication. Checksums tell contents apart.            *)
(***************************************************************************)
EXTENDS Integers, FiniteSets

CONSTANTS
  Writers, Readers,
  PartsOf,      \* [Writers -> sections the graph of each writer has]
  Torn, Absent,
  MaxDamage     \* how many files of one snapshot may be damaged (a bound)

\* The sections in the order write_snapshot writes them and read_snapshot
\* loads them: out_offsets, out_arcs, in_offsets, in_arcs, nodes, edges,
\* slot_edges.
Sections == 1 .. 7
Outgoing == {1, 2}
Incoming == {3, 4}

\* Place of a section in the manifest's BTreeMap, which sorts by file name.
NameRank == <<6, 5, 3, 2, 4, 1, 7>>

ASSUME StoreAssumption ==
  /\ PartsOf \in [Writers -> SUBSET Sections]
  /\ \A w \in Writers : /\ Outgoing \subseteq PartsOf[w]
                        /\ Incoming \subseteq PartsOf[w] \/ Incoming \cap PartsOf[w] = {}
  /\ MaxDamage \in Nat
  /\ Torn \notin Writers /\ Absent \notin Writers /\ Torn # Absent

VARIABLES
  dir,        \* the directory exists
  file,       \* [Sections -> content of each section file, or Absent]
  manifest,   \* manifest.json: Absent, Torn, or the checksum of each section
  pc,         \* [Writers -> where write_snapshot stands]
  sums,       \* [Writers -> the files map write_snapshot accumulates]
  rpc,        \* [Readers -> where read_snapshot stands]
  checked,    \* [Readers -> sections whose checksum was compared]
  loaded,     \* [Readers -> content of the sections loaded]
  listed      \* [Readers -> the manifest parsed]

wvars == <<pc, sums>>
rvars == <<rpc, checked, loaded, listed>>
fvars == <<dir, file, manifest>>
storeVars == <<fvars, wvars, rvars>>

Content == Writers \cup {Torn}
Files == [Sections -> Content \cup {Absent}]
NoFiles == [s \in Sections |-> Absent]
Names(files) == {s \in Sections : files[s] # Absent}

WriterPCs == {"start", "create", "write", "digest", "temp", "persist", "ok", "failed"}
ReaderPCs == {"start", "verify", "load", "accepted", "rejected"}

StoreInit ==
  /\ dir = FALSE
  /\ file = NoFiles
  /\ manifest = Absent
  /\ pc = [w \in Writers |-> "start"]
  /\ sums = [w \in Writers |-> NoFiles]
  /\ rpc = [r \in Readers |-> "start"]
  /\ checked = [r \in Readers |-> {}]
  /\ loaded = [r \in Readers |-> NoFiles]
  /\ listed = [r \in Readers |-> NoFiles]

-----------------------------------------------------------------------------
(* write_snapshot *)

Goto(w, label) == pc' = [pc EXCEPT ![w] = label]

\* fs::create_dir fails when the directory exists.
CreateDirAll(w) ==        \* mutant: an existing directory is accepted
  /\ pc[w] = "start"
  /\ Goto(w, "create") /\ dir' = TRUE
  /\ UNCHANGED <<file, manifest, sums, rvars>>

CreateDir(w) ==
  /\ pc[w] = "start"
  /\ IF dir
     THEN Goto(w, "failed") /\ UNCHANGED dir
     ELSE Goto(w, "create") /\ dir' = TRUE
  /\ UNCHANGED <<file, manifest, sums, rvars>>

\* The section at hand: the first the files map does not name yet.
Turn(w, s) ==
  /\ s \in PartsOf[w] \ Names(sums[w])
  /\ \A q \in PartsOf[w] : q < s => q \in Names(sums[w])

\* OpenOptions::create_new fails when the file exists; a new file is empty.
CreateSection(w, s) ==
  /\ pc[w] = "create" /\ Turn(w, s)
  /\ IF file[s] # Absent
     THEN Goto(w, "failed") /\ UNCHANGED file
     ELSE Goto(w, "write") /\ file' = [file EXCEPT ![s] = Torn]
  /\ UNCHANGED <<dir, manifest, sums, rvars>>

\* write, finish and sync_all: the whole section is in the file.
WriteSection(w, s) ==
  /\ pc[w] = "write" /\ Turn(w, s)
  /\ file' = [file EXCEPT ![s] = w]
  /\ Goto(w, "digest")
  /\ UNCHANGED <<dir, manifest, sums, rvars>>

\* The checksum is taken from the file, read back.
DigestSectionEarly(w, s) ==  \* mutant: the manifest is due after the first section
  /\ pc[w] = "digest" /\ Turn(w, s)
  /\ sums' = [sums EXCEPT ![w][s] = file[s]]
  /\ Goto(w, IF Outgoing \subseteq Names(sums'[w]) THEN "temp" ELSE "create")
  /\ UNCHANGED <<fvars, rvars>>

DigestSection(w, s) ==
  /\ pc[w] = "digest" /\ Turn(w, s)
  /\ sums' = [sums EXCEPT ![w][s] = file[s]]
  /\ Goto(w, IF PartsOf[w] = Names(sums'[w]) THEN "temp" ELSE "create")
  /\ UNCHANGED <<fvars, rvars>>

\* The manifest is written to a temporary file of the directory and synced.
WriteTemporary(w) ==
  /\ pc[w] = "temp"
  /\ Goto(w, "persist")
  /\ UNCHANGED <<fvars, sums, rvars>>

\* persist_noclobber: publish, unless a manifest is there.
Persist(w) ==
  /\ pc[w] = "persist"
  /\ IF manifest # Absent
     THEN Goto(w, "failed") /\ UNCHANGED manifest
     ELSE Goto(w, "ok") /\ manifest' = sums[w]
  /\ UNCHANGED <<dir, file, sums, rvars>>

Writing == {w \in Writers : pc[w] \notin {"start", "ok", "failed"}}

\* Any call returns an error, or the process is killed: what is on disk stays.
Fail(w) ==
  /\ w \in Writing
  /\ Goto(w, "failed")
  /\ UNCHANGED <<fvars, sums, rvars>>

-----------------------------------------------------------------------------
(* read_snapshot *)

Reading == {r \in Readers : rpc[r] \in {"verify", "load"}}

Reject(r) ==
  /\ rpc' = [rpc EXCEPT ![r] = "rejected"]
  /\ UNCHANGED <<checked, loaded, listed>>

\* The manifest is parsed and its section names are checked as a whole.
WellFormed(files) ==
  /\ Outgoing \subseteq Names(files)
  /\ (3 \in Names(files)) = (4 \in Names(files))

OpenManifest(r) ==
  /\ rpc[r] = "start"
  /\ IF manifest \in {Absent, Torn}
     THEN Reject(r)
     ELSE IF ~WellFormed(manifest)
     THEN Reject(r)
     ELSE /\ rpc' = [rpc EXCEPT ![r] = "verify"]
          /\ listed' = [listed EXCEPT ![r] = manifest]
          /\ UNCHANGED <<checked, loaded>>
  /\ UNCHANGED <<fvars, wvars>>

VerifySectionExists(r, s) ==  \* mutant: the checksum is not compared
  /\ rpc[r] = "verify"
  /\ s \in Names(listed[r]) \ checked[r]
  /\ IF file[s] = Absent
     THEN Reject(r)
     ELSE /\ checked' = [checked EXCEPT ![r] = @ \cup {s}]
          /\ rpc' = [rpc EXCEPT
               ![r] = IF checked'[r] = Names(listed[r]) THEN "load" ELSE "verify"]
          /\ UNCHANGED <<loaded, listed>>
  /\ UNCHANGED <<fvars, wvars>>

\* One turn of the loop over manifest.files: the section exists and its
\* digest is the manifest's.
VerifySection(r, s) ==
  /\ rpc[r] = "verify"
  /\ s \in Names(listed[r]) \ checked[r]
  /\ \A q \in Names(listed[r]) : NameRank[q] < NameRank[s] => q \in checked[r]
  /\ IF file[s] = Absent \/ file[s] # listed[r][s]
     THEN Reject(r)
     ELSE /\ checked' = [checked EXCEPT ![r] = @ \cup {s}]
          /\ rpc' = [rpc EXCEPT
               ![r] = IF checked'[r] = Names(listed[r]) THEN "load" ELSE "verify"]
          /\ UNCHANGED <<loaded, listed>>
  /\ UNCHANGED <<fvars, wvars>>

\* The sections are opened again by name, decoded and validated; the last one
\* completes the graph. Validation may reject any content; it never accepts
\* what does not decode.
LoadSection(r, s) ==
  /\ rpc[r] = "load"
  /\ s \in Names(listed[r]) \ Names(loaded[r])
  /\ \A q \in Names(listed[r]) : q < s => q \in Names(loaded[r])
  /\ IF file[s] \in {Absent, Torn}
     THEN Reject(r)
     ELSE /\ loaded' = [loaded EXCEPT ![r][s] = file[s]]
          /\ rpc' = [rpc EXCEPT
               ![r] = IF Names(loaded'[r]) = Names(listed[r]) THEN "accepted" ELSE "load"]
          /\ UNCHANGED <<checked, listed>>
  /\ UNCHANGED <<fvars, wvars>>

\* The encoded size exceeds the caller's limit, a symbolic link, an I/O error.
RejectAnyhow(r) ==
  /\ r \in Reading
  /\ Reject(r)
  /\ UNCHANGED <<fvars, wvars>>

-----------------------------------------------------------------------------
(* The environment *)

\* A published file is damaged, lost, or replaced by a file of another
\* snapshot. Snapshot files are immutable during loading.
Damage ==
  /\ manifest \notin {Absent, Torn} /\ Reading = {}
  /\ \/ /\ Cardinality({s \in Sections : file[s] # manifest[s]}) < MaxDamage
        /\ \E s \in Sections, c \in Content \cup {Absent} : file' = [file EXCEPT ![s] = c]
        /\ UNCHANGED manifest
     \/ manifest' = Torn /\ UNCHANGED file
  /\ UNCHANGED <<dir, wvars, rvars>>

\* The directory is removed, to be written again, while nothing works in it.
Remove ==
  /\ dir /\ Writing = {} /\ Reading = {}
  /\ dir' = FALSE /\ file' = NoFiles /\ manifest' = Absent
  /\ UNCHANGED <<wvars, rvars>>

StoreNext ==
  \/ \E w \in Writers :
       \/ CreateDir(w) \/ WriteTemporary(w) \/ Persist(w) \/ Fail(w)
       \/ \E s \in Sections : CreateSection(w, s) \/ WriteSection(w, s) \/ DigestSection(w, s)
  \/ \E r \in Readers :
       \/ OpenManifest(r) \/ RejectAnyhow(r)
       \/ \E s \in Sections : VerifySection(r, s) \/ LoadSection(r, s)
  \/ Damage
  \/ Remove

StoreSpec == StoreInit /\ [][StoreNext]_storeVars

-----------------------------------------------------------------------------
StoreTypeOK ==
  /\ dir \in BOOLEAN
  /\ file \in Files
  /\ manifest \in Files \cup {Absent, Torn}
  /\ pc \in [Writers -> WriterPCs]
  /\ sums \in [Writers -> Files]
  /\ rpc \in [Readers -> ReaderPCs]
  /\ checked \in [Readers -> SUBSET Sections]
  /\ loaded \in [Readers -> Files]
  /\ listed \in [Readers -> Files]

\* Every section of the graph of w, whole.
SnapshotOf(w) == [s \in Sections |-> IF s \in PartsOf[w] THEN w ELSE Absent]

\* A writer at work owns the directory: nobody else is in it, nothing is
\* published, and its sections so far are whole.
WriterOwns ==
  \A w \in Writing :
    /\ dir /\ manifest = Absent /\ Reading = {}
    /\ \A v \in Writing : v = w
    /\ \A s \in Names(sums[w]) : s \in PartsOf[w] /\ sums[w][s] = w /\ file[s] = w
    /\ \A s \in Sections \ Names(sums[w]) :
         file[s] = CASE pc[w] = "write" /\ Turn(w, s)  -> Torn
                     [] pc[w] = "digest" /\ Turn(w, s) -> w
                     [] OTHER                          -> Absent
    /\ pc[w] \in {"temp", "persist"} => PartsOf[w] \subseteq Names(sums[w])

\* Nothing is recorded, and nothing is on disk, before there is cause to.
Untouched ==
  /\ \A w \in Writers : pc[w] = "start" => sums[w] = NoFiles
  /\ ~dir => file = NoFiles /\ manifest = Absent

\* A manifest that parses is the one of a write that succeeded.
ManifestOfSuccess(m) == \E w \in Writers : pc[w] = "ok" /\ m = SnapshotOf(w)
ManifestHonest ==
  manifest \notin {Absent, Torn} => dir /\ ManifestOfSuccess(manifest)

\* What a reader has found so far agrees with the manifest it parsed.
ReaderAgrees ==
  \A r \in Readers :
    /\ r \in Reading => dir /\ manifest \notin {Absent, Torn}
    /\ r \in Reading \/ rpc[r] = "accepted" => ManifestOfSuccess(listed[r])
    /\ r \in Reading =>
         /\ \A s \in checked[r] : file[s] = listed[r][s]
         /\ \A s \in Names(loaded[r]) : loaded[r][s] = listed[r][s]
    /\ rpc[r] = "start" => checked[r] = {} /\ loaded[r] = NoFiles
    /\ rpc[r] = "load" => Names(listed[r]) \subseteq checked[r]
    /\ rpc[r] = "accepted" => loaded[r] = listed[r]

(* The inductive strengthening of AcceptedIsPublished.                     *)
StoreInv == StoreTypeOK /\ WriterOwns /\ Untouched /\ ManifestHonest /\ ReaderAgrees

(* What read_snapshot returns is, section by section, the graph of one     *)
(* writer whose write_snapshot published it: never a write that failed or  *)
(* was killed, nor sections of two snapshots, nor a damaged one.           *)
AcceptedIsPublished ==
  \A r \in Readers : rpc[r] = "accepted" =>
    \E w \in Writers : pc[w] = "ok" /\ loaded[r] = SnapshotOf(w)

(* When write_snapshot returns Ok every section is on disk, whole, and the *)
(* manifest names exactly these sections with their checksums.             *)
OkIsComplete ==
  [][\A w \in Writers : pc[w] # "ok" /\ pc'[w] = "ok" =>
       file' = SnapshotOf(w) /\ manifest' = SnapshotOf(w)]_storeVars

(* Existing targets are never reused: no step of any writer touches a      *)
(* directory whose manifest is published, also not one that failed or was  *)
(* overtaken.                                                              *)
PublishedUntouched ==
  [][manifest # Absent /\ pc' # pc => UNCHANGED fvars]_storeVars
=============================================================================
