------------------------------- MODULE Dataset -------------------------------
(***************************************************************************)
(* The SQLite dataset: the task that writes a database, its archive and a  *)
(* manifest one after the other, and GET /v1/dataset/version and /download *)
(* while it does.                                                          *)
(*                                                                         *)
(* A version of the static data is an edition.  SHA-256 of an archive is   *)
(* the pair of its version and the run that made it: the time of the       *)
(* database in it differs from run to run.                                 *)
(***************************************************************************)
EXTENDS Release

CONSTANTS
    MaxRuns,        \* bound: runs of the generator
    NoFile          \* a file does not exist, or nothing was answered

Edition == 1..LastEdition
Manifests == [version : 0..LastEdition, sha256 : (0..LastEdition) \X (0..MaxRuns)]

ASSUME RunsAssumption == MaxRuns \in Nat /\ NoFile \notin Manifests

VARIABLES
    zip,            \* zip[v]: the archive sg_bus_<v>.db.zip
    manifest,       \* manifest.json
    gen,            \* the generator
    runs,           \* how often it was started
    again,          \* versions generated again once the manifest named them (history)
    app             \* an app that updates its dataset

datasetVars == <<zip, manifest, gen, runs, again, app>>

NoGen == [at |-> "idle", version |-> 0]
NewApp == [at |-> "idle", version |-> 0, checksum |-> NoFile, named |-> NoFile, got |-> NoFile]

Making(label) == gen.at = label
GenGoto(label) == gen' = [gen EXCEPT !.at = label]

Archive(v, run) == <<v, run>>
Truncated == <<0, 0>>
HalfManifest == [version |-> 0, sha256 |-> Truncated]

-----------------------------------------------------------------------------
(* generate_sqlite_dataset. *)

\* get_package_payload.
ReadPackage ==
    /\ Making("idle")
    /\ runs < MaxRuns
    /\ runs' = runs + 1
    /\ gen' = [at |-> "database", version |-> table]
    /\ again' = IF manifest # NoFile /\ manifest.version = table THEN again \cup {table} ELSE again
    /\ UNCHANGED <<zip, manifest, app>>

\* Mutant: the manifest is written before the archive.
AfterDatabaseManifest == "manifest"
AfterDatabase == "unlink"
AfterManifest == IF AfterDatabase = "unlink" THEN "idle" ELSE "unlink"

\* A database of its own, copied to its two names.
WriteDatabase ==
    /\ Making("database")
    /\ GenGoto(AfterDatabase)
    /\ UNCHANGED <<zip, manifest, runs, again, app>>

Unlink ==
    /\ Making("unlink")
    /\ zip' = [zip EXCEPT ![gen.version] = NoFile]
    /\ GenGoto("open_zip")
    /\ UNCHANGED <<manifest, runs, again, app>>

OpenZip ==
    /\ Making("open_zip")
    /\ zip' = [zip EXCEPT ![gen.version] = Truncated]
    /\ GenGoto("write_zip")
    /\ UNCHANGED <<manifest, runs, again, app>>

WriteZip ==
    /\ Making("write_zip")
    /\ zip' = [zip EXCEPT ![gen.version] = Archive(gen.version, runs)]
    /\ GenGoto("manifest")
    /\ UNCHANGED <<manifest, runs, again, app>>

\* write_text empties the file first.
OpenManifest ==
    /\ Making("manifest")
    /\ manifest' = HalfManifest
    /\ GenGoto("write_manifest")
    /\ UNCHANGED <<zip, runs, again, app>>

WriteManifest ==
    /\ Making("write_manifest")
    /\ manifest' = [version |-> gen.version, sha256 |-> Archive(gen.version, runs)]
    /\ gen' = IF AfterManifest = "idle" THEN NoGen ELSE [gen EXCEPT !.at = AfterManifest]
    /\ UNCHANGED <<zip, runs, again, app>>

\* The task is killed, or a write fails.
GenerationFails ==
    /\ ~Making("idle")
    /\ gen' = NoGen
    /\ UNCHANGED <<zip, manifest, runs, again, app>>

Generate ==
    \/ ReadPackage \/ WriteDatabase \/ Unlink \/ OpenZip \/ WriteZip
    \/ OpenManifest \/ WriteManifest \/ GenerationFails

-----------------------------------------------------------------------------
(* The app and the API. *)

\* get_dataset_version: the version, and the checksum of the rows, which no run
\* of the generator made.
Checksum(v) == <<v, 0>>

AskVersion ==
    /\ app.at \in {"idle", "zip", "package", "error"}
    /\ api.at = "up"
    /\ app' = [NewApp EXCEPT !.at = "asked", !.version = table, !.checksum = Checksum(table)]
    /\ UNCHANGED <<zip, manifest, gen, runs, again>>

\* _read_dataset_manifest: without a manifest the package in JSON is the answer,
\* and half a manifest is an error.
ReadManifest ==
    /\ app.at = "asked"
    /\ api.at = "up"
    /\ app' = CASE manifest = NoFile -> [app EXCEPT !.at = "package"]
                [] manifest = HalfManifest -> [app EXCEPT !.at = "error"]
                [] OTHER -> [app EXCEPT !.at = "named", !.named = manifest]
    /\ UNCHANGED <<zip, manifest, gen, runs, again>>

\* package_path.exists().
FindZip ==
    /\ app.at = "named"
    /\ app' = [app EXCEPT !.at = IF zip[app.named.version] = NoFile THEN "package" ELSE "send"]
    /\ UNCHANGED <<zip, manifest, gen, runs, again>>

\* FileResponse opens the file when it is sent.
SendZip ==
    /\ app.at = "send"
    /\ app' = IF zip[app.named.version] = NoFile THEN [app EXCEPT !.at = "error"]
              ELSE [app EXCEPT !.at = "zip", !.got = zip[app.named.version]]
    /\ UNCHANGED <<zip, manifest, gen, runs, again>>

Download == AskVersion \/ ReadManifest \/ FindZip \/ SendZip

\* A download ends with the API process; the generator is a process of its own.
DownloadsUnder(step) ==
    /\ step
    /\ app' = IF api' = api THEN app ELSE NewApp
    /\ UNCHANGED <<zip, manifest, gen, runs, again>>

DatasetInit ==
    /\ zip = [v \in Edition |-> NoFile]
    /\ manifest = NoFile
    /\ gen = NoGen
    /\ runs = 0
    /\ again = {}
    /\ app = NewApp

DatasetNext ==
    \/ DownloadsUnder(ReleaseStep)
    \/ (Generate \/ Download) /\ UNCHANGED releaseVars

DatasetSpec == ReleaseInit /\ DatasetInit /\ [][DatasetNext]_<<releaseVars, datasetVars>>

-----------------------------------------------------------------------------
(* Properties. *)

\* An archive is answered whole and under its own ETag, although the API reads
\* the manifest and then opens the archive while both may be replaced; only an
\* archive that is generated again under its name may be cut off or another.
DownloadIsWhole ==
    app.at = "zip" /\ app.named.version \notin again => app.got = app.named.sha256

\* SERVER_ADJUSTMENT_FROM_AI_SPEC: the app computes the sha256 of the archive
\* and compares it with the one that /v1/dataset/version answers.
DownloadVerifies ==
    app.at = "zip" /\ app.named.version = app.version => app.got = app.checksum
=============================================================================
