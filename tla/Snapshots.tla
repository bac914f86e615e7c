----------------------------- MODULE Snapshots -----------------------------
(* Named snapshots on disk: state/manager.py. A snapshot is a directory of three files
   that save() writes in place one after another, or an archive of them; import
   renames files into the directory without the save lock; load takes no lock at all.
   The process may crash between any two steps: what is on disk stays.

   A file is Missing, Torn (opened for writing and not complete) or holds the number
   of the save that wrote it; 0 stands for an imported snapshot, which is older. A
   save without a name takes the same steps into one directory without an archive.
   Hooks that abort a save or a load do so before they change anything. *)
EXTENDS Naturals, FiniteSets, FiniteSetsExt

CONSTANTS
  Names,
  Archives, ArchiveOf,  \* the file names of archives; load_dir.with_suffix(".tar.gz")
  MaxSaves, MaxImports, MaxCrashes,  \* bounds
  Loaders,              \* the loads at a time
  MayCompress,          \* are there compressed saves?
  Missing, Torn

Parts == {"moto", "native"}
Files == Parts \cup {"meta"}
Stamps == 0..MaxSaves
File == Stamps \cup {Missing, Torn}
Content == [Files -> File]

ASSUME SnapshotsAssumption ==
  /\ MaxSaves \in Nat /\ MaxImports \in Nat /\ MaxCrashes \in Nat /\ MayCompress \in BOOLEAN
  /\ ArchiveOf \in [Names -> Archives]
  /\ Missing \notin Nat \cup Content \cup {Torn} /\ Torn \notin Nat \cup Content

VARIABLES
  dir,       \* the files in the directory of each name, and whether it exists
  archive,   \* the files in each archive, or Missing or Torn
  saver,     \* the save that holds _save_lock
  importer,  \* an import in progress
  load,      \* loads in progress or just ended
  saves, imports, crashes,
  partial,   \* history: the saves that stored no Moto state
  writers,   \* history: per name what has begun to write it, if it was one
  good       \* history: per name the save or import that has ended since others began

vars == <<dir, archive, saver, importer, load, saves, imports, crashes, partial, writers, good>>

Nothing == [f \in Files |-> Missing]
Idle == [step |-> "idle"]
Savers == [step : Files \cup {"archive", "rmtree", "unlink"}, name : Names, open : BOOLEAN, compress : BOOLEAN, alone : BOOLEAN]
Importers == [step : Files \cup {"next"}, name : Names, todo : SUBSET Files, alone : BOOLEAN]
Loads == [step : {"meta", "moto", "native", "loaded"}, name : Names, got : [Parts -> Stamps \cup {Missing}], ok : BOOLEAN]

TypeOK ==
  /\ dir \in [Names -> [exists : BOOLEAN, files : Content]]
  /\ archive \in [Archives -> Content \cup {Missing, Torn}]
  /\ saver \in {Idle} \cup Savers
  /\ importer \in {Idle} \cup Importers
  /\ load \in [Loaders -> {Idle} \cup Loads]
  /\ saves \in Stamps /\ imports \in 0..MaxImports /\ crashes \in 0..MaxCrashes /\ partial \subseteq Stamps
  /\ writers \in [Names -> {"none", "save", "compressed", "import", "several"}]
  /\ good \in [Names -> Stamps \cup {Missing}]

Init ==
  /\ dir = [n \in Names |-> [exists |-> FALSE, files |-> Nothing]]
  /\ archive = [a \in Archives |-> Missing]
  /\ saver = Idle /\ importer = Idle /\ load = [l \in Loaders |-> Idle]
  /\ saves = 0 /\ imports = 0 /\ crashes = 0 /\ partial = {}
  /\ writers = [n \in Names |-> "none"] /\ good = [n \in Names |-> Missing]

Put(n, f, v) == dir' = [dir EXCEPT ![n].exists = TRUE, ![n].files[f] = v]
Writes(p, n) == p # Idle /\ p.name = n
(* A save or an import begins to write a name that another may be writing. *)
Announce(n, kind) ==
  /\ writers' = [writers EXCEPT ![n] = IF @ = "none" THEN kind ELSE "several"]
  /\ good' = [good EXCEPT ![n] = Missing]
Ended(n, p, stamp) == good' = IF p.alone THEN [good EXCEPT ![n] = stamp] ELSE good

----------------------------------------------------------------------------
(* save(), under _save_lock. *)
SaveBegin(n, compress) ==
  /\ saver = Idle /\ saves < MaxSaves
  /\ saves' = saves + 1
  /\ saver' = [step |-> "moto", name |-> n, open |-> FALSE, compress |-> compress, alone |-> ~Writes(importer, n)]
  /\ importer' = IF Writes(importer, n) THEN [importer EXCEPT !.alone = FALSE] ELSE importer
  /\ dir' = [dir EXCEPT ![n].exists = TRUE]
  /\ Announce(n, IF compress THEN "compressed" ELSE "save")
  /\ UNCHANGED <<archive, load, imports, crashes, partial>>

(* As SaveOrder, with the metadata before the files it describes. *)
SaveOrder_MetaFirst == [moto |-> "meta", meta |-> "native", native |-> "end"]

(* The file that is written after each. *)
SaveOrder == [moto |-> "native", native |-> "meta", meta |-> "end"]

Following(s) ==
  IF SaveOrder[s.step] # "end" THEN SaveOrder[s.step] ELSE IF s.compress THEN "archive" ELSE "unlink"

OpenFile ==
  /\ saver.step \in Files /\ ~saver.open
  /\ Put(saver.name, saver.step, Torn)
  /\ saver' = [saver EXCEPT !.open = TRUE]
  /\ UNCHANGED <<archive, importer, load, saves, imports, crashes, partial, writers, good>>

(* What is written is lost with the open file if an import has replaced it. *)
WriteFile ==
  /\ saver.step \in Files /\ saver.open
  /\ Put(saver.name, saver.step, IF dir[saver.name].files[saver.step] = Torn THEN saves ELSE dir[saver.name].files[saver.step])
  /\ saver' = [saver EXCEPT !.open = FALSE, !.step = Following(saver)]
  /\ UNCHANGED <<archive, importer, load, saves, imports, crashes, partial, writers, good>>

(* Pickling fails: the file is removed, and the save goes on. *)
MotoFails ==
  /\ saver.step = "moto" /\ saver.open
  /\ Put(saver.name, "moto", Missing)
  /\ partial' = partial \cup {saves}
  /\ saver' = [saver EXCEPT !.open = FALSE, !.step = Following(saver)]
  /\ UNCHANGED <<archive, importer, load, saves, imports, crashes, writers, good>>

OpenArchive ==
  /\ saver.step = "archive" /\ archive[ArchiveOf[saver.name]] # Torn
  /\ archive' = [archive EXCEPT ![ArchiveOf[saver.name]] = Torn]
  /\ UNCHANGED <<dir, saver, importer, load, saves, imports, crashes, partial, writers, good>>

WriteArchive ==
  /\ saver.step = "archive" /\ archive[ArchiveOf[saver.name]] = Torn
  /\ archive' = [archive EXCEPT ![ArchiveOf[saver.name]] = dir[saver.name].files]
  /\ saver' = [saver EXCEPT !.step = "rmtree"]
  /\ UNCHANGED <<dir, importer, load, saves, imports, crashes, partial, writers, good>>

(* rmtree removes one file after another, in no order that is known, and then the
   directory; the save ends. *)
RemoveFile(f) ==
  /\ saver.step = "rmtree" /\ dir[saver.name].files[f] # Missing
  /\ Put(saver.name, f, Missing)
  /\ UNCHANGED <<archive, saver, importer, load, saves, imports, crashes, partial, writers, good>>

RemoveDirectory ==
  /\ saver.step = "rmtree" /\ dir[saver.name].files = Nothing
  /\ dir' = [dir EXCEPT ![saver.name].exists = FALSE]
  /\ saver' = Idle
  /\ Ended(saver.name, saver, saves)
  /\ UNCHANGED <<archive, importer, load, saves, imports, crashes, partial, writers>>

(* The archives an uncompressed save removes. *)
Stale(n) == {ArchiveOf[n]}

UnlinkArchive ==
  /\ saver.step = "unlink"
  /\ archive' = [a \in Archives |-> IF a \in Stale(saver.name) THEN Missing ELSE archive[a]]
  /\ saver' = Idle
  /\ Ended(saver.name, saver, saves)
  /\ UNCHANGED <<dir, importer, load, saves, imports, crashes, partial, writers>>

Save ==
  \/ \E n \in Names, compress \in (IF MayCompress THEN BOOLEAN ELSE {FALSE}) : SaveBegin(n, compress)
  \/ OpenFile \/ WriteFile \/ MotoFails
  \/ OpenArchive \/ WriteArchive \/ \E f \in Files : RemoveFile(f)
  \/ RemoveDirectory \/ UnlinkArchive

----------------------------------------------------------------------------
(* load(): a directory is preferred to an archive, and nothing is loaded from one
   without metadata. *)
Empty == [f \in Parts |-> Missing]
Fails(l) == load' = [load EXCEPT ![l] = Idle]
Succeeds(l, n, got) == load' = [load EXCEPT ![l] = [step |-> "loaded", name |-> n, got |-> got, ok |-> TRUE]]

(* As FromArchive, preferring the archive. *)
FromArchive_First(n) == archive[ArchiveOf[n]] # Missing

FromArchive(n) == ~dir[n].exists /\ archive[ArchiveOf[n]] # Missing

(* The archive is unpacked, and loaded from there. *)
Unpacked(n) == IF archive[ArchiveOf[n]] \in {Missing, Torn} THEN Nothing ELSE archive[ArchiveOf[n]]

LoadBegin(l, n) ==
  IF FromArchive(n) THEN
    LET c == Unpacked(n) IN
    IF c["meta"] \in Stamps /\ Torn \notin {c[f] : f \in Parts}
    THEN Succeeds(l, n, [f \in Parts |-> c[f]]) ELSE Fails(l)
  ELSE IF dir[n].files["meta"] = Missing THEN Fails(l)
  ELSE load' = [load EXCEPT ![l] = [step |-> "meta", name |-> n, got |-> Empty, ok |-> TRUE]]

MayLoad(l) == load[l].step \in {"idle", "loaded"}

LoadRequest(l, n) ==
  /\ MayLoad(l)
  /\ LoadBegin(l, n)
  /\ UNCHANGED <<dir, archive, saver, importer, saves, imports, crashes, partial, writers, good>>

LoadMeta(l) ==
  /\ load[l].step = "meta"
  /\ IF dir[load[l].name].files["meta"] \in Stamps
     THEN load' = [load EXCEPT ![l].step = "moto"]
     ELSE Fails(l)
  /\ UNCHANGED <<dir, archive, saver, importer, saves, imports, crashes, partial, writers, good>>

(* A file that is not there is passed over; a torn one makes the load a failure that
   has loaded the other file. *)
LoadPart(l, f) ==
  /\ load[l].step = f
  /\ LET v == dir[load[l].name].files[f]
         got == [load[l].got EXCEPT ![f] = IF v = Torn THEN Missing ELSE v]
         ok == load[l].ok /\ v # Torn
     IN IF f = "native" THEN IF ok THEN Succeeds(l, load[l].name, got) ELSE Fails(l)
        ELSE load' = [load EXCEPT ![l].step = "native", ![l].got = got, ![l].ok = ok]
  /\ UNCHANGED <<dir, archive, saver, importer, saves, imports, crashes, partial, writers, good>>

Load == \E l \in Loaders :
          \/ \E n \in Names : LoadRequest(l, n)
          \/ LoadMeta(l) \/ LoadPart(l, "moto") \/ LoadPart(l, "native")

----------------------------------------------------------------------------
(* import_snapshot_bytes(), of an archive that has all three files. *)
ImportBegin(n) ==
  /\ importer = Idle /\ imports < MaxImports
  /\ imports' = imports + 1
  /\ importer' = [step |-> "next", name |-> n, todo |-> Files, alone |-> ~Writes(saver, n)]
  /\ saver' = IF Writes(saver, n) THEN [saver EXCEPT !.alone = FALSE] ELSE saver
  /\ dir' = [dir EXCEPT ![n].exists = TRUE]
  /\ Announce(n, "import")
  /\ UNCHANGED <<archive, load, saves, crashes, partial>>

ImportUnlink(f) ==
  /\ importer.step = "next" /\ f \in importer.todo
  /\ Put(importer.name, f, Missing)
  /\ importer' = [importer EXCEPT !.step = f]
  /\ UNCHANGED <<archive, saver, load, saves, imports, crashes, partial, writers, good>>

ImportRename ==
  /\ importer.step \in Files
  /\ Put(importer.name, importer.step, 0)
  /\ importer' = [importer EXCEPT !.step = "next", !.todo = @ \ {importer.step}]
  /\ UNCHANGED <<archive, saver, load, saves, imports, crashes, partial, writers, good>>

(* The import ends with a load of what it has stored. *)
ImportLoad(l) ==
  /\ MayLoad(l)
  /\ importer.step = "next" /\ importer.todo = {}
  /\ LoadBegin(l, importer.name)
  /\ importer' = Idle
  /\ Ended(importer.name, importer, 0)
  /\ UNCHANGED <<dir, archive, saver, saves, imports, crashes, partial, writers>>

Import == \/ \E n \in Names : ImportBegin(n)
          \/ \E f \in Files : ImportUnlink(f)
          \/ ImportRename \/ \E l \in Loaders : ImportLoad(l)

(* The process ends at any point and is started again. *)
Crash ==
  /\ crashes < MaxCrashes
  /\ crashes' = crashes + 1
  /\ saver' = Idle /\ importer' = Idle /\ load' = [l \in Loaders |-> Idle]
  /\ UNCHANGED <<dir, archive, saves, imports, partial, writers, good>>

Next == Save \/ Load \/ Import \/ Crash

Spec == Init /\ [][Next]_vars

----------------------------------------------------------------------------
(* What list_snapshots tells of a name, and _find_latest_snapshot. *)
SavedAt(n) ==
  LET c == IF dir[n].exists THEN dir[n].files ELSE Unpacked(n) IN
  IF c["meta"] \in Stamps THEN c["meta"] ELSE Missing
Dated == {n \in Names : SavedAt(n) # Missing}
Latest == CHOOSE n \in Dated : \A m \in Dated : SavedAt(n) >= SavedAt(m)

Holds(n) == IF FromArchive(n) THEN Unpacked(n) ELSE dir[n].files
OfSave(c, s) ==
  c["native"] = s /\ c["moto"] = IF s \in partial THEN Missing ELSE s

(* What a save or an import has stored stays there to be loaded, until another one
   begins to write its name: whatever crashes, saves and imports of other names and
   loads do, and whatever directory or archive an earlier save of that name has left.
   Restoring the latest snapshot restores nothing older. *)
Durable ==
  \A n \in Names : good[n] # Missing =>
    /\ OfSave(Holds(n), good[n])
    /\ Holds(n)["meta"] = good[n]
    /\ SavedAt(Latest) >= good[n]

(* The first uncompressed save of a name is atomic although its files are not: a load
   that reports success, during the save or after a crash in the middle of it, has
   restored all that the save has stored. *)
FirstSaveAtomic ==
  \A l \in Loaders : load[l].step = "loaded" =>
    LET n == load[l].name IN
    writers[n] = "save" => OfSave(load[l].got, dir[n].files["meta"])
=============================================================================
