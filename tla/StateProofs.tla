----------------------------- MODULE StateProofs -----------------------------
(* Theorems about the two components of the package state/: the snapshots that the
   state manager keeps on disk (Snapshots) and its read-write lock (ReadWriteLock).
   They share nothing.

   The snapshots: for any number of names, saves, imports, crashes and loads, as long
   as every name has an archive of its own. A run of TLC shows what two names of one
   archive lose. The invariant, DiskInv, says for each name what the files hold at
   every step of what writes it, as far as nothing else does.

   The lock: for any number of readers, with and without cancellation, as long as one
   task at most ever asks for write access. With two writers Exclusion and NeverHangs
   fail, as runs of TLC show. *)
EXTENDS Snapshots, ReadWriteLock, FiniteSetTheorems, WellFoundedInduction, TLAPS

-----------------------------------------------------------------------------
(* Types. *)

Directories == [Names -> [exists : BOOLEAN, files : Content]]

(* Put changes one file of one directory. *)
LEMMA PutIs ==
  ASSUME dir \in Directories, NEW n \in Names, NEW f \in Files, NEW v \in File, Put(n, f, v)
  PROVE  /\ dir' \in Directories
         /\ dir'[n].exists = TRUE /\ dir'[n].files[f] = v
         /\ \A g \in Files : g # f => dir'[n].files[g] = dir[n].files[g]
         /\ \A m \in Names : m # n => dir'[m] = dir[m]
  BY DEF Put, Directories, Content

(* A save or an import is one, or Idle, by its step. *)
LEMMA Steps ==
  ASSUME TypeOK
  PROVE  /\ saver = Idle \/ saver \in Savers
         /\ importer = Idle \/ importer \in Importers
         /\ Idle.step = "idle" /\ Idle \notin Savers /\ Idle \notin Importers /\ Idle \notin Loads
         /\ saver # Idle <=> saver.step # "idle"
         /\ importer # Idle <=> importer.step # "idle"
         /\ \A l \in Loaders : load[l] = Idle \/ load[l] \in Loads
         /\ \A l \in Loaders : load[l] # Idle <=> load[l].step # "idle"
<1>1. Idle.step = "idle" /\ \A r \in Savers \cup Importers \cup Loads : r.step # "idle"
  BY DEF Idle, Savers, Importers, Loads, Files, Parts
<1> QED  BY <1>1 DEF TypeOK, Savers, Importers, Loads

LEMMA FollowingIs ==
  ASSUME NEW s \in Savers, s.step \in Files
  PROVE  /\ s.step = "moto" => Following(s) = "native"
         /\ s.step = "native" => Following(s) = "meta"
         /\ s.step = "meta" => Following(s) = IF s.compress THEN "archive" ELSE "unlink"
  BY DEF Following, SaveOrder, Files, Parts

(* The steps of a save keep its name, its archive and whether it is alone, or end it. *)
LEMMA SaverSteps ==
  ASSUME TypeOK, OpenFile \/ WriteFile \/ MotoFails \/ WriteArchive
  PROVE  /\ saver \in Savers /\ saver' \in Savers
         /\ saver'.name = saver.name /\ saver'.alone = saver.alone /\ saver'.compress = saver.compress
  BY Steps, FollowingIs DEF OpenFile, WriteFile, MotoFails, WriteArchive, Savers, Files, Parts

LEMMA UnpackedIs ==
  ASSUME TypeOK, NEW n \in Names
  PROVE  /\ Unpacked(n) \in Content
         /\ archive[ArchiveOf[n]] \in Content => Unpacked(n) = archive[ArchiveOf[n]]
  BY SnapshotsAssumption DEF TypeOK, Unpacked, Nothing, Content, File

LEMMA LoadTyped ==
  ASSUME TypeOK, NEW l \in Loaders, NEW n \in Names, LoadBegin(l, n)
  PROVE  load' \in [Loaders -> {Idle} \cup Loads]
<1>1. ASSUME NEW got \in [Parts -> Stamps \cup {Missing}], Succeeds(l, n, got)
      PROVE  load' \in [Loaders -> {Idle} \cup Loads]
  BY <1>1 DEF Succeeds, TypeOK, Loads
<1>2. ASSUME Fails(l) PROVE load' \in [Loaders -> {Idle} \cup Loads]
  BY <1>2 DEF Fails, TypeOK
<1>3. CASE FromArchive(n)
  <2> DEFINE c == Unpacked(n)
  <2>1. c \in Content
    BY UnpackedIs
  <2>2. Torn \notin {c[f] : f \in Parts} => [f \in Parts |-> c[f]] \in [Parts -> Stamps \cup {Missing}]
    BY <2>1 DEF Content, Files, File
  <2> QED  BY <1>1, <1>2, <1>3, <2>2 DEF LoadBegin
<1>4. CASE ~FromArchive(n)
  <2>1. [step |-> "meta", name |-> n, got |-> Empty, ok |-> TRUE] \in Loads
    BY DEF Loads, Empty
  <2> QED  BY <1>2, <1>4, <2>1 DEF LoadBegin, TypeOK
<1> QED  BY <1>3, <1>4

(* Every step keeps the types. *)
LEMMA TypedStep ==
  ASSUME TypeOK, [Next]_vars
  PROVE  TypeOK'
<1>0. /\ MaxSaves \in Nat /\ MaxImports \in Nat /\ MaxCrashes \in Nat /\ 0 \in Stamps /\ MayCompress \in BOOLEAN
      /\ Missing \in File /\ Torn \in File /\ Stamps \subseteq File /\ ArchiveOf \in [Names -> Archives]
  BY SnapshotsAssumption DEF Stamps, File
<1>1. ASSUME NEW n \in Names, NEW compress \in BOOLEAN, SaveBegin(n, compress)
      PROVE  TypeOK'
  <2>1. dir' \in Directories
    BY <1>1 DEF SaveBegin, TypeOK, Directories
  <2>2. saver' \in Savers
    BY <1>1 DEF SaveBegin, Savers, Files, Parts, Writes
  <2>4. importer' \in {Idle} \cup Importers
    BY <1>1 DEF SaveBegin, TypeOK, Importers, Writes
  <2>3. saves' \in Stamps
    BY <1>0, <1>1 DEF SaveBegin, TypeOK, Stamps
  <2> QED  BY <1>1, <2>1, <2>2, <2>3, <2>4 DEF SaveBegin, Announce, TypeOK, Directories
<1>2. ASSUME OpenFile
      PROVE  TypeOK'
  <2>1. dir' \in Directories
    <3>1. saver \in Savers
      BY <1>2, SaverSteps
    <3>2. saver.name \in Names
      BY <3>1 DEF Savers
    <3> QED  BY <1>0, <1>2, <3>2, PutIs DEF OpenFile, TypeOK, Directories
  <2>2. saver' \in Savers
    BY <1>2, SaverSteps
  <2> QED  BY <1>2, <2>1, <2>2 DEF OpenFile, TypeOK, Directories
<1>3. ASSUME WriteFile
      PROVE  TypeOK'
  <2>1. saver \in Savers /\ saver' \in Savers
    BY <1>3, SaverSteps
  <2>2. dir[saver.name].files[saver.step] \in File /\ saves \in File
    BY <1>0, <1>3, <2>1 DEF WriteFile, TypeOK, Savers, Content
  <2>3. dir' \in Directories
    BY <1>3, <2>1, <2>2, PutIs DEF WriteFile, TypeOK, Directories, Savers
  <2> QED  BY <1>3, <2>1, <2>3 DEF WriteFile, TypeOK, Directories
<1>4. ASSUME MotoFails
      PROVE  TypeOK'
  <2>1. saver \in Savers /\ saver' \in Savers
    BY <1>4, SaverSteps
  <2>2. dir' \in Directories
    BY <1>0, <1>4, <2>1, PutIs DEF MotoFails, TypeOK, Directories, Savers, Files, Parts
  <2> QED  BY <1>4, <2>1, <2>2 DEF MotoFails, TypeOK, Directories
<1>5. ASSUME OpenArchive
      PROVE  TypeOK'
  BY <1>0, <1>5, Steps DEF OpenArchive, TypeOK, Savers
<1>6. ASSUME WriteArchive
      PROVE  TypeOK'
  <2>1. saver \in Savers /\ saver' \in Savers
    BY <1>6, SaverSteps
  <2>2. dir[saver.name].files \in Content
    BY <2>1 DEF TypeOK, Savers
  <2> QED  BY <1>0, <1>6, <2>1, <2>2 DEF WriteArchive, TypeOK
<1>7. ASSUME NEW f \in Files, RemoveFile(f)
      PROVE  TypeOK'
  <2>1. dir' \in Directories
    BY <1>0, <1>7, Steps, PutIs DEF RemoveFile, TypeOK, Directories, Savers
  <2> QED  BY <1>7, <2>1 DEF RemoveFile, TypeOK, Directories
<1>8. ASSUME RemoveDirectory
      PROVE  TypeOK'
  <2>1. dir' \in Directories
    BY <1>8, Steps DEF RemoveDirectory, TypeOK, Directories, Savers
  <2> QED  BY <1>8, <2>1, Steps DEF RemoveDirectory, TypeOK, Directories, Ended, Savers
<1>9. ASSUME UnlinkArchive
      PROVE  TypeOK'
  BY <1>0, <1>9, Steps DEF UnlinkArchive, TypeOK, Ended, Savers
<1>10. ASSUME NEW l \in Loaders, NEW n \in Names, LoadRequest(l, n)
       PROVE  TypeOK'
  BY <1>10, LoadTyped DEF LoadRequest, TypeOK
<1>11. ASSUME NEW l \in Loaders, LoadMeta(l) 
       PROVE  TypeOK'
  <2>1. load[l] \in Loads
    BY <1>11, Steps DEF LoadMeta
  <2>2. [load[l] EXCEPT !.step = "moto"] \in Loads
    BY <2>1 DEF Loads
  <2>3. load' = [load EXCEPT ![l] = [load[l] EXCEPT !.step = "moto"]] \/ load' = [load EXCEPT ![l] = Idle]
    BY <1>11 DEF LoadMeta, Fails, TypeOK
  <2> QED  BY <1>11, <2>2, <2>3 DEF LoadMeta, TypeOK
<1>12. ASSUME NEW l \in Loaders, NEW f \in Parts, LoadPart(l, f)
       PROVE  TypeOK'
  <2>1. load[l] \in Loads
    BY <1>12, Steps DEF LoadPart, Parts
  <2>2. dir[load[l].name].files[f] \in File
    BY <2>1 DEF TypeOK, Content, Files, Loads
  <2> DEFINE v == dir[load[l].name].files[f]
             got == [load[l].got EXCEPT ![f] = IF v = Torn THEN Missing ELSE v]
  <2>3. got \in [Parts -> Stamps \cup {Missing}]
    BY <2>1, <2>2 DEF Loads, File
  <2>4. load' \in [Loaders -> {Idle} \cup Loads]
    <3> DEFINE next == [load[l] EXCEPT !.step = "native", !.got = got, !.ok = load[l].ok /\ v # Torn]
               last == [step |-> "loaded", name |-> load[l].name, got |-> got, ok |-> TRUE]
    <3>1. next \in Loads /\ last \in Loads
      BY <2>1, <2>3 DEF Loads
    <3>2. \/ load' = [load EXCEPT ![l] = next] \/ load' = [load EXCEPT ![l] = last]
          \/ load' = [load EXCEPT ![l] = Idle]
      BY <1>12, <2>1 DEF LoadPart, Fails, Succeeds, TypeOK, Loads
    <3> QED  BY <3>1, <3>2 DEF TypeOK
  <2> QED  BY <1>12, <2>4 DEF LoadPart, TypeOK
<1>13. ASSUME NEW n \in Names, ImportBegin(n)
       PROVE  TypeOK'
  <2>1. dir' \in Directories
    BY <1>13 DEF ImportBegin, TypeOK, Directories
  <2>2. importer' \in Importers /\ saver' \in {Idle} \cup Savers
    BY <1>13 DEF ImportBegin, TypeOK, Savers, Importers, Files, Writes
  <2>3. imports' \in 0..MaxImports
    BY <1>0, <1>13 DEF ImportBegin, TypeOK
  <2> QED  BY <1>13, <2>1, <2>2, <2>3 DEF ImportBegin, Announce, TypeOK, Directories
<1>14. ASSUME NEW f \in Files, ImportUnlink(f)
       PROVE  TypeOK'
  <2>1. importer \in Importers
    BY <1>14, Steps DEF ImportUnlink
  <2>2. dir' \in Directories
    BY <1>0, <1>14, <2>1, PutIs DEF ImportUnlink, TypeOK, Directories, Importers
  <2> QED  BY <1>14, <2>1, <2>2 DEF ImportUnlink, TypeOK, Directories, Importers
<1>15. ASSUME ImportRename
       PROVE  TypeOK'
  <2>1. importer \in Importers
    BY <1>15, Steps DEF ImportRename, Files, Parts
  <2>2. dir' \in Directories
    BY <1>0, <1>15, <2>1, PutIs DEF ImportRename, TypeOK, Directories, Importers
  <2> QED  BY <1>15, <2>1, <2>2 DEF ImportRename, TypeOK, Directories, Importers
<1>16. ASSUME NEW l \in Loaders, ImportLoad(l)
       PROVE  TypeOK'
  <2>1. importer \in Importers
    BY <1>16, Steps DEF ImportLoad
  <2>2. load' \in [Loaders -> {Idle} \cup Loads]
    BY <1>16, <2>1, LoadTyped DEF ImportLoad, Importers
  <2> QED  BY <1>0, <1>16, <2>1, <2>2 DEF ImportLoad, TypeOK, Importers, Ended
<1>17. ASSUME Crash
       PROVE  TypeOK'
  BY <1>0, <1>17 DEF Crash, TypeOK
<1>18. CASE UNCHANGED vars
  BY <1>18 DEF vars, TypeOK
<1>19. CASE Save
  BY <1>0, <1>19, <1>1, <1>2, <1>3, <1>4, <1>5, <1>6, <1>7, <1>8, <1>9 DEF Save
<1>20. CASE Load
  BY <1>20, <1>10, <1>11, <1>12 DEF Load, Parts
<1>21. CASE Import
  BY <1>21, <1>13, <1>14, <1>15, <1>16 DEF Import
<1> QED  BY <1>17, <1>18, <1>19, <1>20, <1>21 DEF Next

-----------------------------------------------------------------------------
(* Every name has an archive of its own. *)
OwnArchives == \A m, n \in Names : ArchiveOf[m] = ArchiveOf[n] => m = n

Describes(c, s) == OfSave(c, s) /\ c["meta"] = s

(* How far the save has got; what it has written is there if nothing else writes its name. *)
SaverInv ==
  saver # Idle =>
    LET n == saver.name
        c == dir[n].files IN
    /\ saves > 0
    /\ saver.step = "moto" => saves \notin partial
    /\ saver.step \in {"archive", "rmtree"} => saver.compress
    /\ saver.alone =>
         /\ ~Writes(importer, n)
         /\ dir[n].exists
         /\ saver.step \in Files /\ saver.open => c[saver.step] = Torn
         /\ saver.step \in {"native", "meta"} => c["moto"] = IF saves \in partial THEN Missing ELSE saves
         /\ saver.step = "meta" => c["native"] = saves
         /\ saver.step \in {"archive", "unlink"} => Describes(c, saves)
         /\ saver.step = "rmtree" =>
              archive[ArchiveOf[n]] \in Content /\ Describes(archive[ArchiveOf[n]], saves)

ImporterInv ==
  importer # Idle /\ importer.alone =>
    /\ ~Writes(saver, importer.name)
    /\ dir[importer.name].exists
    /\ \A f \in Files \ importer.todo : dir[importer.name].files[f] = 0

(* What is good is in the directory, or in the archive if there is no directory. *)
GoodInv(n) ==
  good[n] # Missing =>
    /\ ~Writes(saver, n) /\ ~Writes(importer, n)
    /\ good[n] <= saves /\ (saver # Idle => good[n] < saves)
    /\ dir[n].exists => Describes(dir[n].files, good[n])
    /\ ~dir[n].exists =>
         archive[ArchiveOf[n]] \in Content /\ Describes(archive[ArchiveOf[n]], good[n])

(* Nothing is there, or being read, of a name that nothing has written. *)
UntouchedInv(n) ==
  writers[n] = "none" =>
    /\ dir[n] = [exists |-> FALSE, files |-> Nothing] /\ archive[ArchiveOf[n]] = Missing
    /\ ~Writes(saver, n) /\ ~Writes(importer, n)
    /\ \A l \in Loaders : load[l] # Idle => load[l].name # n

(* While one uncompressed save is all that has written a name, the metadata follows
   what it describes, and a load that has begun finds what it describes. *)
FirstInv(n) ==
  writers[n] = "save" =>
    LET c == dir[n].files IN
    /\ dir[n].exists /\ ~Writes(importer, n)
    /\ Writes(saver, n) =>
         /\ saver.alone /\ ~saver.compress
         /\ saver.step \in {"moto", "native"} \/ (saver.step = "meta" /\ ~saver.open) => c["meta"] = Missing
    /\ c["meta"] # Missing =>
         \E s \in 1..saves : OfSave(c, s) /\ c["meta"] \in {Torn, s} /\ (saver.step = "moto" => s # saves)
    /\ \A l \in Loaders : load[l] # Idle /\ load[l].name = n =>
         /\ c["meta"] # Missing
         /\ load[l].step # "meta" => c["meta"] \in Stamps
         /\ load[l].step \in {"native", "loaded"} => load[l].got["moto"] = c["moto"]
         /\ load[l].step = "loaded" => load[l].got["native"] = c["native"]

DiskInv ==
  /\ TypeOK /\ partial \subseteq 1..saves
  /\ SaverInv /\ ImporterInv
  /\ \A n \in Names : GoodInv(n) /\ UntouchedInv(n) /\ FirstInv(n)

(* The conditions under which a step leaves a name alone. *)
OtherName(n) ==
  /\ dir'[n] = dir[n] /\ archive'[ArchiveOf[n]] = archive[ArchiveOf[n]]
  /\ good'[n] = good[n] /\ writers'[n] = writers[n]
  /\ saver' # Idle /\ saver'.name = n => saver' = saver
  /\ importer' # Idle /\ importer'.name = n => Writes(importer, n)
  /\ \A l \in Loaders : load'[l] \in {load[l], Idle} \/ load'[l].name # n

(* Saves are numbered as they begin, and a save tells once that it stored no Moto state. *)
Numbering ==
  /\ \/ saves' = saves /\ (saver' # Idle => saver # Idle) /\ (saver'.step = "moto" => saver.step = "moto")
     \/ saves' = saves + 1 /\ saver = Idle
  /\ partial' = partial \/ (partial' = partial \cup {saves} /\ saver.step = "moto" /\ saver # Idle)

LEMMA Elsewhere ==
  ASSUME DiskInv, Numbering, NEW n \in Names, OtherName(n)
  PROVE  GoodInv(n)' /\ UntouchedInv(n)' /\ FirstInv(n)'
<1>0. saves \in Nat /\ saves' \in Nat
  BY SnapshotsAssumption DEF DiskInv, TypeOK, Numbering, Stamps
<1>1. \A s : s # saves => (s \in partial' <=> s \in partial)
  BY DEF Numbering
<1>2. saver.step # "moto" \/ saver = Idle => partial' = partial
  BY DEF Numbering
<1>3. GoodInv(n)'
  <2> SUFFICES ASSUME good[n] # Missing PROVE GoodInv(n)'
    BY DEF OtherName, GoodInv
  <2>1. GoodInv(n)
    BY DEF DiskInv
  <2>2. good[n] \in Nat
    BY SnapshotsAssumption DEF DiskInv, TypeOK, Stamps
  <2>3. good[n] \in partial' <=> good[n] \in partial
    BY <1>0, <1>1, <1>2, <2>1, <2>2 DEF GoodInv
  <2>4. ~Writes(saver, n)' /\ ~Writes(importer, n)'
    BY <2>1 DEF GoodInv, OtherName, Writes
  <2>5. good[n] <= saves' /\ (saver' # Idle => good[n] < saves')
    BY <1>0, <2>1, <2>2 DEF GoodInv, Numbering
  <2> QED  BY <2>1, <2>3, <2>4, <2>5 DEF GoodInv, OtherName, Describes, OfSave
<1>4. UntouchedInv(n)'
  BY DEF DiskInv, UntouchedInv, OtherName, Writes
<1>5. FirstInv(n)'
  <2> SUFFICES ASSUME writers[n] = "save" PROVE FirstInv(n)'
    BY DEF OtherName, FirstInv
  <2>1. FirstInv(n)
    BY DEF DiskInv
  <2> DEFINE c == dir[n].files
  <2>2. dir'[n].files = c /\ dir'[n].exists /\ ~Writes(importer, n)'
    BY <2>1 DEF FirstInv, OtherName, Writes
  <2>3. Writes(saver, n)' => saver' = saver
    BY DEF OtherName, Writes
  <2>4. c["meta"] # Missing =>
          \E s \in 1..saves' : OfSave(c, s)' /\ c["meta"] \in {Torn, s} /\ (saver'.step = "moto" => s # saves')
    <3> SUFFICES ASSUME c["meta"] # Missing PROVE
          \E s \in 1..saves' : OfSave(c, s)' /\ c["meta"] \in {Torn, s} /\ (saver'.step = "moto" => s # saves')
      OBVIOUS
    <3>1. PICK s \in 1..saves : OfSave(c, s) /\ c["meta"] \in {Torn, s} /\ (saver.step = "moto" => s # saves)
      BY <2>1 DEF FirstInv
    <3>2. s \in partial' <=> s \in partial
      BY <1>1, <1>2, <3>1
    <3>3. s \in 1..saves' /\ (saver'.step = "moto" => s # saves')
      BY <1>0, <3>1 DEF Numbering
    <3>4. OfSave(c, s)'
      BY <2>2, <3>1, <3>2 DEF OfSave
    <3> QED  BY <3>1, <3>3, <3>4
  <2>5. \A l \in Loaders : load'[l] # Idle /\ load'[l].name = n => load'[l] = load[l]
    BY DEF OtherName
  <2> QED  BY <2>1, <2>2, <2>3, <2>4, <2>5 DEF FirstInv, Writes
<1> QED  BY <1>3, <1>4, <1>5

(* A step of a save in progress: it touches the name of the save only, and begins or ends
   neither an import nor a load. *)
OfSaver ==
  /\ saver \in Savers /\ UNCHANGED <<importer, load, saves, writers>> /\ Numbering
  /\ saver' = Idle \/ saver'.name = saver.name
  /\ \A m \in Names : m # saver.name =>
       dir'[m] = dir[m] /\ archive'[ArchiveOf[m]] = archive[ArchiveOf[m]] /\ good'[m] = good[m]

LEMMA SaverElsewhere ==
  ASSUME DiskInv, OfSaver, NEW n \in Names, n = saver.name,
         TypeOK', SaverInv', GoodInv(n)', FirstInv(n)'
  PROVE  DiskInv'
<1>0. saver \in Savers /\ saver # Idle /\ saves \in Nat
  BY SnapshotsAssumption, Steps DEF DiskInv, OfSaver, Savers, TypeOK, Stamps
<1>1. ImporterInv'
  <2> SUFFICES ASSUME importer # Idle, importer.alone
               PROVE  ImporterInv'
    BY DEF ImporterInv, OfSaver
  <2>1. importer.name \in Names /\ importer.name # n
    BY <1>0, Steps DEF DiskInv, ImporterInv, Writes, Importers
  <2> QED  BY <1>0, <2>1 DEF DiskInv, ImporterInv, OfSaver, Writes
<1>2. UntouchedInv(n)'
  BY <1>0 DEF DiskInv, UntouchedInv, Writes, OfSaver
<1>3. ASSUME NEW m \in Names, m # n
      PROVE  GoodInv(m)' /\ UntouchedInv(m)' /\ FirstInv(m)'
  <2>1. OtherName(m)
    BY <1>3 DEF OtherName, OfSaver, Writes
  <2> QED  BY <2>1, Elsewhere DEF OfSaver
<1>4. partial' \subseteq 1..saves'
  <2>1. partial' = partial \/ (partial' = partial \cup {saves} /\ saves \in 1..saves)
    BY <1>0 DEF DiskInv, SaverInv, OfSaver, Numbering
  <2> QED  BY <2>1 DEF DiskInv, OfSaver
<1> QED  BY <1>1, <1>2, <1>3, <1>4 DEF DiskInv

(* Nothing is good while it is being written. *)
LEMMA NotGood ==
  ASSUME DiskInv
  PROVE  /\ saver # Idle => good[saver.name] = Missing /\ writers[saver.name] # "none"
         /\ importer # Idle => good[importer.name] = Missing /\ writers[importer.name] # "none"
  BY Steps DEF DiskInv, GoodInv, UntouchedInv, Writes, Savers, Importers

LEMMA OpenFileKeeps ==
  ASSUME DiskInv, OpenFile
  PROVE  DiskInv'
<1> PICK n \in Names : n = saver.name
  BY SaverSteps DEF DiskInv, Savers
<1>0. saver \in Savers /\ saver' \in Savers /\ saver # Idle /\ saver' # Idle
      /\ saver'.name = n /\ saver'.alone = saver.alone /\ saver'.compress = saver.compress
      /\ saver'.step = saver.step /\ saver'.open = TRUE /\ saver.step \in Files /\ saver.open = FALSE
  BY SaverSteps, Steps DEF DiskInv, OpenFile, Savers
<1>1. TypeOK'
  BY TypedStep DEF DiskInv, Next, Save
<1>2. /\ dir'[n].exists = TRUE /\ dir'[n].files[saver.step] = Torn
      /\ \A g \in Files : g # saver.step => dir'[n].files[g] = dir[n].files[g]
      /\ \A m \in Names : m # n => dir'[m] = dir[m]
  <2>1. Put(n, saver.step, Torn) /\ dir \in Directories /\ Torn \in File
    BY DEF DiskInv, TypeOK, Directories, OpenFile, File
  <2> QED  BY <1>0, <2>1, PutIs
<1>3. OfSaver
  BY <1>0, <1>2 DEF OfSaver, Numbering, OpenFile
<1>4. SaverInv'
  BY <1>0, <1>2 DEF DiskInv, SaverInv, OpenFile, Files, Parts, Writes
<1>5. GoodInv(n)'
  BY <1>0, NotGood DEF GoodInv, OpenFile
<1>6. FirstInv(n)'
  <2> SUFFICES ASSUME writers[n] = "save" PROVE FirstInv(n)'
    BY DEF FirstInv, OpenFile
  <2>1. FirstInv(n) /\ Writes(saver, n)
    BY <1>0 DEF DiskInv, Writes
  <2>2. saver.step # "unlink" /\ (saver.step = "meta" => dir[n].files["meta"] = Missing)
    BY <1>0, <2>1 DEF FirstInv, Files, Parts
  <2>3. saver.step # "meta" => dir[n].files["meta"] = Missing
    BY <1>0, <2>1 DEF FirstInv, Files, Parts
  <2>4. dir'[n].exists /\ ~Writes(importer, n) /\ saver.alone /\ ~saver.compress
    BY <1>2, <2>1 DEF FirstInv
  <2>5. \A l \in Loaders : ~(load[l] # Idle /\ load[l].name = n)
    BY <2>1, <2>2, <2>3 DEF FirstInv
  <2>6. CASE saver.step = "meta"
    <3>1. saves \in 1..saves
      BY <1>0, SnapshotsAssumption DEF DiskInv, SaverInv, TypeOK, Stamps
    <3>2. OfSave(dir[n].files, saves)
      BY <1>0, <2>4, <2>6 DEF DiskInv, SaverInv, OfSave
    <3>3. OfSave(dir[n].files, saves)' /\ dir'[n].files["meta"] = Torn
      BY <1>2, <2>6, <3>2 DEF OfSave, OpenFile, Files, Parts
    <3> QED  BY <1>0, <2>4, <2>5, <2>6, <3>1, <3>3 DEF FirstInv, OpenFile, Writes
  <2>7. CASE saver.step # "meta"
    <3>1. dir'[n].files["meta"] = Missing
      BY <1>0, <1>2, <2>3, <2>7 DEF Files, Parts
    <3> QED  BY <1>0, <2>4, <2>5, <2>7, <3>1 DEF FirstInv, OpenFile, Files, Parts
  <2> QED  BY <2>6, <2>7
<1> QED  BY <1>1, <1>3, <1>4, <1>5, <1>6, SaverElsewhere

LEMMA WriteFileKeeps ==
  ASSUME DiskInv, WriteFile
  PROVE  DiskInv'
<1> PICK n \in Names : n = saver.name
  BY SaverSteps DEF DiskInv, Savers
<1> DEFINE v == IF dir[n].files[saver.step] = Torn THEN saves ELSE dir[n].files[saver.step]
<1>0. saver \in Savers /\ saver' \in Savers /\ saver # Idle /\ saver' # Idle
      /\ saver'.name = n /\ saver'.alone = saver.alone /\ saver'.compress = saver.compress
      /\ saver.step \in Files /\ saver.open = TRUE /\ saver'.open = FALSE
  BY SaverSteps, Steps DEF DiskInv, WriteFile, Savers
<1>1. /\ saver.step = "moto" => saver'.step = "native"
      /\ saver.step = "native" => saver'.step = "meta"
      /\ saver.step = "meta" => saver'.step = IF saver.compress THEN "archive" ELSE "unlink"
  BY <1>0, FollowingIs DEF WriteFile, Savers
<1>2. TypeOK'
  BY TypedStep DEF DiskInv, Next, Save
<1>3. /\ dir'[n].exists = TRUE /\ dir'[n].files[saver.step] = v
      /\ \A g \in Files : g # saver.step => dir'[n].files[g] = dir[n].files[g]
      /\ \A m \in Names : m # n => dir'[m] = dir[m]
  <2>1. Put(n, saver.step, v) /\ dir \in Directories
    BY DEF DiskInv, TypeOK, Directories, WriteFile
  <2>2. v \in File
    BY <1>0 DEF DiskInv, TypeOK, Content, File
  <2> HIDE DEF v
  <2> QED  BY <1>0, <2>1, <2>2, PutIs
<1>4. OfSaver
  BY <1>0, <1>1, <1>3 DEF OfSaver, Numbering, WriteFile, Files, Parts
<1>5. saver.alone => v = saves
  BY <1>0 DEF DiskInv, SaverInv
<1>6. SaverInv'
  <2>1. saves' > 0 /\ saver'.step # "moto" /\ saver'.step # "rmtree" /\ (saver'.step = "archive" => saver'.compress)
    BY <1>0, <1>1 DEF DiskInv, SaverInv, WriteFile, Files, Parts
  <2>2. CASE ~saver.alone
    BY <1>0, <2>1, <2>2 DEF SaverInv
  <2>3. CASE saver.alone
    <3>1. v = saves /\ ~Writes(importer, n)' /\ partial' = partial /\ saves' = saves
      BY <1>0, <1>5, <2>3 DEF DiskInv, SaverInv, WriteFile, Writes
    <3>2. CASE saver.step = "moto"
      BY <1>0, <1>1, <1>3, <2>1, <3>1, <3>2 DEF DiskInv, SaverInv
    <3>3. CASE saver.step = "native"
      BY <1>0, <1>1, <1>3, <2>1, <2>3, <3>1, <3>3 DEF DiskInv, SaverInv, Files, Parts
    <3>4. CASE saver.step = "meta"
      BY <1>0, <1>1, <1>3, <2>1, <2>3, <3>1, <3>4 DEF DiskInv, SaverInv, Files, Parts, Describes, OfSave
    <3> QED  BY <1>0, <3>2, <3>3, <3>4 DEF Files, Parts
  <2> QED  BY <2>2, <2>3
<1>7. GoodInv(n)'
  BY <1>0, NotGood DEF GoodInv, WriteFile
<1>8. FirstInv(n)'
  <2> SUFFICES ASSUME writers[n] = "save" PROVE FirstInv(n)'
    BY DEF FirstInv, WriteFile
  <2>1. FirstInv(n) /\ Writes(saver, n)
    BY <1>0 DEF DiskInv, Writes
  <2>2. dir'[n].exists /\ ~Writes(importer, n) /\ saver.alone /\ ~saver.compress
    BY <1>3, <2>1 DEF FirstInv
  <2>3. CASE saver.step = "meta"
    <3>1. saves \in 1..saves
      BY <1>0, SnapshotsAssumption DEF DiskInv, SaverInv, TypeOK, Stamps
    <3>2. saver'.step = "unlink"
      BY <1>1, <2>2, <2>3
    <3>3. dir'[n].files["meta"] = saves /\ saves # Missing /\ saves \in Stamps
      BY <1>3, <1>5, <2>2, <2>3, SnapshotsAssumption DEF DiskInv, TypeOK, Stamps
    <3>4. OfSave(dir[n].files, saves)'
      BY <1>0, <1>3, <2>2, <2>3 DEF DiskInv, SaverInv, OfSave, WriteFile, Files, Parts
    <3>5. dir[n].files["meta"] = Torn /\ Torn \notin Stamps
      BY <1>0, <2>2, <2>3, SnapshotsAssumption DEF DiskInv, SaverInv, Stamps
    <3>6. \A l \in Loaders : load[l] # Idle /\ load[l].name = n => load[l].step = "meta"
      BY <2>1, <3>5 DEF FirstInv
    <3>7. load' = load /\ writers' = writers /\ saves' = saves /\ ~Writes(importer, n)'
      BY <2>2 DEF WriteFile, Writes
    <3> QED  BY <1>0, <2>2, <3>1, <3>2, <3>3, <3>4, <3>6, <3>7 DEF FirstInv
  <2>4. CASE saver.step # "meta"
    <3>1. dir[n].files["meta"] = Missing /\ dir'[n].files["meta"] = Missing
      BY <1>0, <1>3, <2>1, <2>4 DEF FirstInv, Files, Parts
    <3>2. \A l \in Loaders : ~(load[l] # Idle /\ load[l].name = n)
      BY <2>1, <3>1 DEF FirstInv
    <3>3. load' = load /\ writers' = writers /\ ~Writes(importer, n)'
      BY <2>2 DEF WriteFile, Writes
    <3> QED  BY <1>0, <2>2, <3>1, <3>2, <3>3 DEF FirstInv
  <2> QED  BY <2>3, <2>4
<1> QED  BY <1>2, <1>4, <1>6, <1>7, <1>8, SaverElsewhere

LEMMA MotoFailsKeeps ==
  ASSUME DiskInv, MotoFails
  PROVE  DiskInv'
<1> PICK n \in Names : n = saver.name
  BY SaverSteps DEF DiskInv, Savers
<1>0. saver \in Savers /\ saver' \in Savers /\ saver # Idle /\ saver' # Idle
      /\ saver'.name = n /\ saver'.alone = saver.alone /\ saver'.compress = saver.compress
      /\ saver.step = "moto" /\ saver'.open = FALSE
  BY SaverSteps, Steps DEF DiskInv, MotoFails, Savers
<1>1. saver'.step = "native"
  BY <1>0, FollowingIs DEF MotoFails, Savers, Files, Parts
<1>2. TypeOK'
  BY TypedStep DEF DiskInv, Next, Save
<1>3. /\ dir'[n].exists = TRUE /\ dir'[n].files["moto"] = Missing
      /\ \A g \in Files : g # "moto" => dir'[n].files[g] = dir[n].files[g]
      /\ \A m \in Names : m # n => dir'[m] = dir[m]
  <2>1. Put(n, "moto", Missing) /\ dir \in Directories /\ Missing \in File /\ "moto" \in Files
    BY DEF DiskInv, TypeOK, Directories, MotoFails, File, Files, Parts
  <2> QED  BY <1>0, <2>1, PutIs
<1>4. OfSaver
  BY <1>0, <1>1, <1>3 DEF OfSaver, Numbering, MotoFails
<1>5. SaverInv'
  BY <1>0, <1>1, <1>3 DEF DiskInv, SaverInv, MotoFails, Files, Parts, Writes
<1>6. GoodInv(n)'
  BY <1>0, NotGood DEF GoodInv, MotoFails
<1>7. FirstInv(n)'
  <2> SUFFICES ASSUME writers[n] = "save" PROVE FirstInv(n)'
    BY DEF FirstInv, MotoFails
  <2>1. FirstInv(n) /\ Writes(saver, n)
    BY <1>0 DEF DiskInv, Writes
  <2>2. dir'[n].exists /\ ~Writes(importer, n) /\ saver.alone /\ ~saver.compress
    BY <1>3, <2>1 DEF FirstInv
  <2>3. dir[n].files["meta"] = Missing /\ dir'[n].files["meta"] = Missing
    BY <1>0, <1>3, <2>1 DEF FirstInv, Files, Parts
  <2>4. \A l \in Loaders : ~(load[l] # Idle /\ load[l].name = n)
    BY <2>1, <2>3 DEF FirstInv
  <2>5. load' = load /\ writers' = writers /\ ~Writes(importer, n)'
    BY <2>2 DEF MotoFails, Writes
  <2> QED  BY <1>0, <2>2, <2>3, <2>4, <2>5 DEF FirstInv
<1> QED  BY <1>2, <1>4, <1>5, <1>6, <1>7, SaverElsewhere

(* The archive of another name is another one. *)
LEMMA OtherArchive ==
  ASSUME OwnArchives, NEW n \in Names, NEW m \in Names, m # n
  PROVE  ArchiveOf[m] # ArchiveOf[n] /\ ArchiveOf[m] \in Archives /\ ArchiveOf[n] \in Archives
  BY SnapshotsAssumption DEF OwnArchives

(* What a compressed save does is no matter of the first uncompressed one. *)
LEMMA CompressedIsNotFirst ==
  ASSUME DiskInv, saver # Idle, saver.compress, NEW n \in Names, n = saver.name
  PROVE  writers[n] # "save"
  BY DEF DiskInv, FirstInv, Writes

LEMMA OpenArchiveKeeps ==
  ASSUME OwnArchives, DiskInv, OpenArchive
  PROVE  DiskInv'
<1>0. saver \in Savers /\ saver # Idle /\ saver.compress /\ saver' = saver
  BY Steps DEF DiskInv, SaverInv, OpenArchive
<1> PICK n \in Names : n = saver.name
  BY <1>0 DEF Savers
<1>1. TypeOK'
  BY TypedStep DEF DiskInv, Next, Save
<1>2. \A m \in Names : m # n => archive'[ArchiveOf[m]] = archive[ArchiveOf[m]]
  BY OtherArchive DEF OpenArchive, DiskInv, TypeOK
<1>3. OfSaver
  BY <1>0, <1>2 DEF OfSaver, Numbering, OpenArchive
<1>4. SaverInv'
  BY <1>0 DEF DiskInv, SaverInv, OpenArchive, Writes, Describes, OfSave
<1>5. GoodInv(n)' /\ FirstInv(n)'
  BY <1>0, NotGood, CompressedIsNotFirst DEF GoodInv, FirstInv, OpenArchive
<1> QED  BY <1>1, <1>3, <1>4, <1>5, SaverElsewhere

LEMMA WriteArchiveKeeps ==
  ASSUME OwnArchives, DiskInv, WriteArchive
  PROVE  DiskInv'
<1>0. saver \in Savers /\ saver # Idle /\ saver.compress /\ saver.step = "archive"
      /\ saver' \in Savers /\ saver' # Idle /\ saver'.step = "rmtree" /\ saver'.compress
      /\ saver'.name = saver.name /\ saver'.alone = saver.alone
  BY Steps, SaverSteps DEF DiskInv, SaverInv, WriteArchive, Savers
<1> PICK n \in Names : n = saver.name
  BY <1>0 DEF Savers
<1>1. TypeOK'
  BY TypedStep DEF DiskInv, Next, Save
<1>2. archive'[ArchiveOf[n]] = dir[n].files /\ dir[n].files \in Content
      /\ \A m \in Names : m # n => archive'[ArchiveOf[m]] = archive[ArchiveOf[m]]
  BY OtherArchive, SnapshotsAssumption DEF WriteArchive, DiskInv, TypeOK
<1>3. OfSaver
  BY <1>0, <1>2 DEF OfSaver, Numbering, WriteArchive
<1>4. SaverInv'
  <2>1. saves' > 0 /\ ~("rmtree" \in Files)
    BY <1>0 DEF DiskInv, SaverInv, WriteArchive, Files, Parts
  <2>2. saver.alone => ~Writes(importer, n)' /\ dir'[n].exists /\ Describes(dir[n].files, saves)
    BY <1>0 DEF DiskInv, SaverInv, WriteArchive, Writes
  <2>3. saver.alone => Describes(archive[ArchiveOf[n]], saves)'
    BY <1>2, <2>2 DEF Describes, OfSave, WriteArchive
  <2> QED  BY <1>0, <1>2, <2>1, <2>2, <2>3 DEF SaverInv
<1>5. GoodInv(n)' /\ FirstInv(n)'
  BY <1>0, NotGood, CompressedIsNotFirst DEF GoodInv, FirstInv, WriteArchive
<1> QED  BY <1>1, <1>3, <1>4, <1>5, SaverElsewhere

LEMMA RemoveFileKeeps ==
  ASSUME DiskInv, NEW f \in Files, RemoveFile(f)
  PROVE  DiskInv'
<1>0. saver \in Savers /\ saver # Idle /\ saver.compress /\ saver' = saver /\ saver.step = "rmtree"
  BY Steps DEF DiskInv, SaverInv, RemoveFile
<1> PICK n \in Names : n = saver.name
  BY <1>0 DEF Savers
<1>1. TypeOK'
  BY TypedStep DEF DiskInv, Next, Save
<1>2. dir'[n].exists = TRUE /\ \A m \in Names : m # n => dir'[m] = dir[m]
  <2>1. Put(n, f, Missing) /\ dir \in Directories /\ Missing \in File
    BY DEF DiskInv, TypeOK, Directories, RemoveFile, File
  <2> QED  BY <2>1, PutIs
<1>3. OfSaver
  BY <1>0, <1>2 DEF OfSaver, Numbering, RemoveFile
<1>4. SaverInv'
  <2>1. ~("rmtree" \in Files)
    BY DEF Files, Parts
  <2> QED  BY <1>0, <1>2, <2>1 DEF DiskInv, SaverInv, RemoveFile, Writes, Describes, OfSave
<1>5. GoodInv(n)' /\ FirstInv(n)'
  BY <1>0, NotGood, CompressedIsNotFirst DEF GoodInv, FirstInv, RemoveFile
<1> QED  BY <1>1, <1>3, <1>4, <1>5, SaverElsewhere

LEMMA RemoveDirectoryKeeps ==
  ASSUME DiskInv, RemoveDirectory
  PROVE  DiskInv'
<1>0. saver \in Savers /\ saver # Idle /\ saver.compress /\ saver' = Idle /\ saver.step = "rmtree" /\ Idle.step = "idle"
  BY Steps DEF DiskInv, SaverInv, RemoveDirectory
<1> PICK n \in Names : n = saver.name
  BY <1>0 DEF Savers
<1>1. TypeOK'
  BY TypedStep DEF DiskInv, Next, Save
<1>2. dir'[n].exists = FALSE /\ \A m \in Names : m # n => dir'[m] = dir[m]
  BY DEF DiskInv, TypeOK, RemoveDirectory
<1>3. OfSaver
  BY <1>0, <1>2 DEF OfSaver, Numbering, RemoveDirectory, Ended, DiskInv, TypeOK
<1>4. SaverInv'
  BY <1>0 DEF SaverInv
<1>5. FirstInv(n)'
  BY <1>0, CompressedIsNotFirst DEF FirstInv, RemoveDirectory
<1>6. GoodInv(n)'
  <2>1. CASE ~saver.alone
    BY <2>1, <1>0, NotGood DEF GoodInv, RemoveDirectory, Ended
  <2>2. CASE saver.alone
    <3>1. good'[n] = saves /\ saves' = saves /\ saves \in Nat
      BY <2>2, SnapshotsAssumption DEF RemoveDirectory, Ended, DiskInv, TypeOK, Stamps
    <3>2. ~Writes(saver, n)' /\ ~Writes(importer, n)'
      BY <1>0, <2>2 DEF DiskInv, SaverInv, RemoveDirectory, Writes
    <3>3. archive[ArchiveOf[n]] \in Content /\ Describes(archive[ArchiveOf[n]], saves)
      BY <1>0, <2>2 DEF DiskInv, SaverInv
    <3>4. archive'[ArchiveOf[n]] \in Content /\ Describes(archive[ArchiveOf[n]], saves)'
      BY <3>3 DEF Describes, OfSave, RemoveDirectory
    <3> QED  BY <1>0, <1>2, <3>1, <3>2, <3>4 DEF GoodInv
  <2> QED  BY <2>1, <2>2
<1> QED  BY <1>1, <1>3, <1>4, <1>5, <1>6, SaverElsewhere

LEMMA UnlinkArchiveKeeps ==
  ASSUME OwnArchives, DiskInv, UnlinkArchive
  PROVE  DiskInv'
<1>0. saver \in Savers /\ saver # Idle /\ saver' = Idle /\ saver.step = "unlink" /\ Idle.step = "idle"
  BY Steps DEF DiskInv, UnlinkArchive
<1> PICK n \in Names : n = saver.name
  BY <1>0 DEF Savers
<1>1. TypeOK'
  BY TypedStep DEF DiskInv, Next, Save
<1>2. \A m \in Names : m # n => archive'[ArchiveOf[m]] = archive[ArchiveOf[m]]
  BY OtherArchive DEF UnlinkArchive, Stale
<1>3. OfSaver
  BY <1>0, <1>2 DEF OfSaver, Numbering, UnlinkArchive, Ended, DiskInv, TypeOK
<1>4. SaverInv'
  BY <1>0 DEF SaverInv
<1>5. FirstInv(n)'
  <2>1. FirstInv(n)
    BY DEF DiskInv
  <2> QED  BY <1>0, <2>1 DEF FirstInv, UnlinkArchive, Writes, OfSave
<1>6. GoodInv(n)'
  <2>1. CASE ~saver.alone
    BY <2>1, <1>0, NotGood DEF GoodInv, UnlinkArchive, Ended
  <2>2. CASE saver.alone
    <3>1. good'[n] = saves /\ saves' = saves /\ saves \in Nat
      BY <2>2, SnapshotsAssumption DEF UnlinkArchive, Ended, DiskInv, TypeOK, Stamps
    <3>2. ~Writes(saver, n)' /\ ~Writes(importer, n)'
      BY <1>0, <2>2 DEF DiskInv, SaverInv, UnlinkArchive, Writes
    <3>3. dir'[n].exists /\ Describes(dir[n].files, saves)
      BY <1>0, <2>2 DEF DiskInv, SaverInv, UnlinkArchive
    <3>4. Describes(dir[n].files, saves)'
      BY <3>3 DEF Describes, OfSave, UnlinkArchive
    <3> QED  BY <1>0, <3>1, <3>2, <3>3, <3>4 DEF GoodInv
  <2> QED  BY <2>1, <2>2
<1> QED  BY <1>1, <1>3, <1>4, <1>5, <1>6, SaverElsewhere

LEMMA SaveBeginKeeps ==
  ASSUME DiskInv, NEW n \in Names, NEW compress \in BOOLEAN, SaveBegin(n, compress), TypeOK'
  PROVE  DiskInv'
<1>0. /\ saver = Idle /\ saves' = saves + 1 /\ saves \in Nat /\ partial' = partial
      /\ saver' \in Savers /\ saver' # Idle /\ saver'.step = "moto" /\ saver'.name = n /\ saver'.open = FALSE
      /\ saver'.compress = compress /\ saver'.alone = ~Writes(importer, n)
  <2>1. saver' # Idle /\ saver'.step = "moto" /\ saver'.name = n /\ saver'.open = FALSE
        /\ saver'.compress = compress /\ saver'.alone = ~Writes(importer, n)
    BY DEF SaveBegin, Idle
  <2> QED  BY <2>1, SnapshotsAssumption DEF SaveBegin, DiskInv, TypeOK, Stamps
<1>1. /\ dir'[n] = [dir[n] EXCEPT !.exists = TRUE] /\ dir'[n].exists /\ dir'[n].files = dir[n].files
      /\ \A m \in Names : m # n => dir'[m] = dir[m]
  BY DEF SaveBegin, DiskInv, TypeOK
<1>2. /\ good'[n] = Missing /\ writers'[n] = IF writers[n] # "none" THEN "several" ELSE IF compress THEN "compressed" ELSE "save"
      /\ \A m \in Names : m # n => good'[m] = good[m] /\ writers'[m] = writers[m]
  BY DEF SaveBegin, Announce, DiskInv, TypeOK
<1>3. /\ Writes(importer, n) => ~importer'.alone /\ importer'.name = n
      /\ ~Writes(importer, n) => importer' = importer
  BY DEF SaveBegin, Writes, DiskInv, TypeOK, Importers
<1>4. partial' \subseteq 1..saves' /\ saves' \notin partial'
  BY <1>0 DEF DiskInv
<1>5. SaverInv'
  <2>1. saver'.alone => ~Writes(importer, n)'
    BY <1>0, <1>3 DEF Writes
  <2>2. saves' > 0
    BY <1>0
  <2> QED  BY <1>0, <1>1, <1>4, <2>1, <2>2 DEF SaverInv
<1>6. ImporterInv'
  <2> SUFFICES ASSUME importer' # Idle, importer'.alone PROVE ImporterInv'
    BY DEF ImporterInv
  <2>1. importer' = importer /\ importer.name # n /\ importer \in Importers
    BY <1>3, Steps DEF DiskInv, Writes
  <2> QED  BY <1>0, <1>1, <2>1 DEF DiskInv, ImporterInv, Writes, Importers
<1>7. ASSUME NEW m \in Names, m # n
      PROVE  GoodInv(m)' /\ UntouchedInv(m)' /\ FirstInv(m)'
  <2>1. OtherName(m)
    BY <1>0, <1>1, <1>2, <1>3, <1>7 DEF OtherName, SaveBegin, Writes
  <2>2. Numbering
    BY <1>0 DEF Numbering
  <2> QED  BY <2>1, <2>2, Elsewhere
<1>8. GoodInv(n)' /\ UntouchedInv(n)'
  BY <1>2 DEF GoodInv, UntouchedInv
<1>9. FirstInv(n)'
  <2> SUFFICES ASSUME writers'[n] = "save" PROVE FirstInv(n)'
    BY DEF FirstInv
  <2>1. writers[n] = "none" /\ ~compress
    BY <1>2
  <2>2. UntouchedInv(n)
    BY DEF DiskInv
  <2>3. dir[n].files["meta"] = Missing /\ ~Writes(importer, n)
    BY <2>1, <2>2 DEF UntouchedInv, Nothing, Files
  <2>4. \A l \in Loaders : ~(load'[l] # Idle /\ load'[l].name = n)
    BY <2>1, <2>2 DEF UntouchedInv, SaveBegin
  <2> QED  BY <1>0, <1>1, <1>3, <2>1, <2>3, <2>4 DEF FirstInv, Writes
<1> QED  BY <1>4, <1>5, <1>6, <1>7, <1>8, <1>9 DEF DiskInv

LEMMA ImportBeginKeeps ==
  ASSUME DiskInv, NEW n \in Names, ImportBegin(n), TypeOK'
  PROVE  DiskInv'
<1>0. /\ importer' # Idle /\ importer'.step = "next" /\ importer'.name = n /\ importer'.todo = Files
      /\ importer'.alone = ~Writes(saver, n)
      /\ importer = Idle /\ saves' = saves /\ partial' = partial
  BY DEF ImportBegin, Idle
<1>1. dir'[n].exists /\ \A m \in Names : m # n => dir'[m] = dir[m]
  BY DEF ImportBegin, DiskInv, TypeOK
<1>2. /\ good'[n] = Missing /\ writers'[n] \in {"import", "several"}
      /\ \A m \in Names : m # n => good'[m] = good[m] /\ writers'[m] = writers[m]
  BY DEF ImportBegin, Announce, DiskInv, TypeOK
<1>3. /\ Writes(saver, n) => /\ saver \in Savers /\ saver' \in Savers /\ saver' # Idle /\ saver # Idle
                             /\ ~saver'.alone /\ saver'.name = n /\ saver'.step = saver.step
                             /\ saver'.compress = saver.compress
      /\ ~Writes(saver, n) => saver' = saver
  <2>1. Writes(saver, n) => saver \in Savers /\ saver' = [saver EXCEPT !.alone = FALSE]
    BY Steps DEF ImportBegin, Writes, DiskInv
  <2>2. ~Writes(saver, n) => saver' = saver
    BY DEF ImportBegin
  <2> QED  BY <2>1, <2>2, Steps DEF Savers, Writes, DiskInv
<1>4. SaverInv'
  <2>1. CASE Writes(saver, n)
    BY <1>0, <1>3, <2>1 DEF DiskInv, SaverInv
  <2>2. CASE ~Writes(saver, n)
    <3> SUFFICES ASSUME saver # Idle PROVE SaverInv'
      BY <1>3, <2>2 DEF SaverInv
    <3>1. saver' = saver /\ saver.name # n /\ saver.name \in Names
      BY <1>3, <2>2, Steps DEF Writes, DiskInv, Savers
    <3>2. dir'[saver.name] = dir[saver.name] /\ ~Writes(importer, saver.name)'
      BY <1>0, <1>1, <3>1 DEF Writes
    <3> QED  BY <1>0, <3>1, <3>2 DEF DiskInv, SaverInv, ImportBegin, Describes, OfSave
  <2> QED  BY <2>1, <2>2
<1>5. ImporterInv'
  BY <1>0, <1>1, <1>3 DEF ImporterInv, Writes
<1>6. Numbering
  BY <1>0, <1>3 DEF Numbering
<1>7. ASSUME NEW m \in Names, m # n
      PROVE  GoodInv(m)' /\ UntouchedInv(m)' /\ FirstInv(m)'
  <2>1. OtherName(m)
    BY <1>0, <1>1, <1>2, <1>3, <1>7 DEF OtherName, ImportBegin, Writes
  <2> QED  BY <2>1, <1>6, Elsewhere
<1>8. GoodInv(n)' /\ UntouchedInv(n)' /\ FirstInv(n)'
  BY <1>2 DEF GoodInv, UntouchedInv, FirstInv
<1> QED  BY <1>0, <1>4, <1>5, <1>7, <1>8 DEF DiskInv

(* A step of the import touches its own name only. *)
OfImporter(n) ==
  /\ importer \in Importers /\ importer.name = n
  /\ UNCHANGED <<archive, saver, saves, partial, writers>>
  /\ importer' = Idle \/ importer'.name = importer.name
  /\ \A m \in Names : m # n => dir'[m] = dir[m] /\ good'[m] = good[m]
  /\ \A l \in Loaders : load'[l] \in {load[l], Idle} \/ load'[l].name = n

LEMMA ImporterElsewhere ==
  ASSUME DiskInv, NEW n \in Names, OfImporter(n), TypeOK', ImporterInv', GoodInv(n)'
  PROVE  DiskInv'
<1>0. importer # Idle /\ Writes(importer, n)
  BY Steps DEF DiskInv, OfImporter, Writes
<1>1. SaverInv'
  <2> SUFFICES ASSUME saver # Idle PROVE SaverInv'
    BY DEF SaverInv, OfImporter
  <2>1. CASE saver.alone
    <3>1. saver.name \in Names /\ saver.name # n
      BY <1>0, <2>1, Steps DEF DiskInv, SaverInv, Savers
    <3>2. dir'[saver.name] = dir[saver.name] /\ ~Writes(importer, saver.name)'
      BY <3>1 DEF OfImporter, Writes
    <3> QED  BY <2>1, <3>2 DEF DiskInv, SaverInv, OfImporter, Describes, OfSave
  <2>2. CASE ~saver.alone
    BY <2>2 DEF DiskInv, SaverInv, OfImporter
  <2> QED  BY <2>1, <2>2
<1>2. UntouchedInv(n)' /\ FirstInv(n)'
  BY <1>0 DEF DiskInv, UntouchedInv, FirstInv, OfImporter
<1>3. ASSUME NEW m \in Names, m # n
      PROVE  GoodInv(m)' /\ UntouchedInv(m)' /\ FirstInv(m)'
  <2>1. OtherName(m)
    BY <1>0, <1>3 DEF OtherName, OfImporter, Writes
  <2>2. Numbering
    BY DEF Numbering, OfImporter
  <2> QED  BY <2>1, <2>2, Elsewhere
<1> QED  BY <1>1, <1>2, <1>3 DEF DiskInv, OfImporter

LEMMA ImportUnlinkKeeps ==
  ASSUME DiskInv, NEW f \in Files, ImportUnlink(f), TypeOK'
  PROVE  DiskInv'
<1>0. importer \in Importers /\ importer # Idle /\ f \in importer.todo
      /\ importer' \in Importers /\ importer' # Idle /\ importer'.name = importer.name
      /\ importer'.todo = importer.todo /\ importer'.alone = importer.alone
  <2>1. importer \in Importers
    BY Steps DEF ImportUnlink, DiskInv
  <2>2. importer' \in Importers
    BY <2>1 DEF ImportUnlink, Importers
  <2>3. Idle \notin Importers
    BY Steps DEF DiskInv
  <2> QED  BY <2>1, <2>2, <2>3 DEF ImportUnlink, Importers
<1> PICK n \in Names : n = importer.name
  BY <1>0 DEF Importers
<1>1. /\ dir'[n].exists = TRUE
      /\ \A g \in Files : g # f => dir'[n].files[g] = dir[n].files[g]
      /\ \A m \in Names : m # n => dir'[m] = dir[m]
  <2>1. Put(n, f, Missing) /\ dir \in Directories /\ Missing \in File
    BY DEF DiskInv, TypeOK, Directories, ImportUnlink, File
  <2> QED  BY <2>1, PutIs
<1>2. OfImporter(n)
  BY <1>0, <1>1 DEF OfImporter, ImportUnlink
<1>3. ImporterInv'
  BY <1>0, <1>1 DEF DiskInv, ImporterInv, ImportUnlink, Writes
<1>4. GoodInv(n)'
  BY <1>0, NotGood DEF GoodInv, ImportUnlink
<1> QED  BY <1>2, <1>3, <1>4, ImporterElsewhere

LEMMA ImportRenameKeeps ==
  ASSUME DiskInv, ImportRename, TypeOK'
  PROVE  DiskInv'
<1>0. importer \in Importers /\ importer # Idle /\ importer.step \in Files
      /\ importer' \in Importers /\ importer' # Idle /\ importer'.name = importer.name
      /\ importer'.todo = importer.todo \ {importer.step} /\ importer'.alone = importer.alone
  <2>1. importer \in Importers
    BY Steps DEF ImportRename, DiskInv, Files, Parts
  <2>2. importer' \in Importers
    BY <2>1 DEF ImportRename, Importers
  <2>3. Idle \notin Importers
    BY Steps DEF DiskInv
  <2> QED  BY <2>1, <2>2, <2>3 DEF ImportRename, Importers
<1> PICK n \in Names : n = importer.name
  BY <1>0 DEF Importers
<1>1. /\ dir'[n].exists = TRUE /\ dir'[n].files[importer.step] = 0
      /\ \A g \in Files : g # importer.step => dir'[n].files[g] = dir[n].files[g]
      /\ \A m \in Names : m # n => dir'[m] = dir[m]
  <2>1. Put(n, importer.step, 0) /\ dir \in Directories
    BY DEF DiskInv, TypeOK, Directories, ImportRename
  <2> QED  BY <1>0, <2>1 DEF Put, Directories, Content
<1>2. OfImporter(n)
  BY <1>0, <1>1 DEF OfImporter, ImportRename
<1>3. ImporterInv'
  BY <1>0, <1>1 DEF DiskInv, ImporterInv, ImportRename, Writes
<1>4. GoodInv(n)'
  BY <1>0, NotGood DEF GoodInv, ImportRename
<1> QED  BY <1>2, <1>3, <1>4, ImporterElsewhere

(* A load that begins changes no other load. *)
LEMMA LoadBeginIs ==
  ASSUME TypeOK, NEW l \in Loaders, NEW n \in Names, LoadBegin(l, n)
  PROVE  \A k \in Loaders : load'[k] \in {load[k], Idle} \/ load'[k].name = n
<1>1. \A got : Succeeds(l, n, got) => \A k \in Loaders : load'[k] = load[k] \/ load'[k].name = n
  BY DEF Succeeds, TypeOK
<1>2. Fails(l) => \A k \in Loaders : load'[k] \in {load[k], Idle}
  BY DEF Fails, TypeOK
<1> QED  BY <1>1, <1>2 DEF LoadBegin, TypeOK

LEMMA ImportLoadKeeps ==
  ASSUME DiskInv, NEW l \in Loaders, ImportLoad(l), TypeOK'
  PROVE  DiskInv'
<1>0. importer \in Importers /\ importer # Idle /\ importer.todo = {} /\ importer' = Idle
  BY Steps DEF ImportLoad, DiskInv
<1> PICK n \in Names : n = importer.name
  BY <1>0 DEF Importers
<1>1. \A k \in Loaders : load'[k] \in {load[k], Idle} \/ load'[k].name = n
  BY LoadBeginIs DEF ImportLoad, DiskInv
<1>2. OfImporter(n)
  BY <1>0, <1>1 DEF OfImporter, ImportLoad, Ended, DiskInv, TypeOK
<1>3. ImporterInv'
  BY <1>0 DEF ImporterInv
<1>4. GoodInv(n)'
  <2>1. CASE ~importer.alone
    BY <2>1, <1>0, NotGood DEF GoodInv, ImportLoad, Ended
  <2>2. CASE importer.alone
    <3>1. good'[n] = 0 /\ saves' = saves /\ saves \in Nat /\ partial' = partial /\ 0 \notin partial
      BY <2>2, SnapshotsAssumption DEF ImportLoad, Ended, DiskInv, TypeOK, Stamps
    <3>2. ~Writes(saver, n)' /\ ~Writes(importer, n)' /\ (saver' # Idle => 0 < saves)
      BY <1>0, <2>2 DEF DiskInv, ImporterInv, SaverInv, ImportLoad, Writes
    <3>3. dir'[n].exists /\ \A f \in Files : dir'[n].files[f] = 0
      BY <1>0, <2>2 DEF DiskInv, ImporterInv, ImportLoad
    <3>4. Describes(dir[n].files, 0)'
      BY <3>1, <3>3 DEF Describes, OfSave, Files, Parts
    <3> QED  BY <3>1, <3>2, <3>3, <3>4 DEF GoodInv
  <2> QED  BY <2>1, <2>2
<1> QED  BY <1>2, <1>3, <1>4, ImporterElsewhere

(* A load changes nothing but itself. *)
LEMMA LoadElsewhere ==
  ASSUME DiskInv, UNCHANGED <<dir, archive, saver, importer, saves, partial, writers, good>>, TypeOK',
         NEW n \in Names, UntouchedInv(n)', FirstInv(n)',
         \A k \in Loaders : load'[k] \in {load[k], Idle} \/ load'[k].name = n
  PROVE  DiskInv'
<1>1. SaverInv' /\ ImporterInv' /\ partial' \subseteq 1..saves'
  BY DEF DiskInv, SaverInv, ImporterInv, Writes, Describes, OfSave
<1>2. \A m \in Names : GoodInv(m)'
  BY DEF DiskInv, GoodInv, Writes, Describes, OfSave
<1>3. ASSUME NEW m \in Names, m # n
      PROVE  UntouchedInv(m)' /\ FirstInv(m)'
  <2>1. OtherName(m)
    BY <1>3 DEF OtherName, Writes
  <2>2. Numbering
    BY DEF Numbering
  <2> QED  BY <2>1, <2>2, Elsewhere
<1> QED  BY <1>1, <1>2, <1>3 DEF DiskInv

LEMMA LoadRequestKeeps ==
  ASSUME DiskInv, NEW l \in Loaders, NEW n \in Names, LoadRequest(l, n), TypeOK'
  PROVE  DiskInv'
<1>1. \A k \in Loaders : load'[k] \in {load[k], Idle} \/ load'[k].name = n
  BY LoadBeginIs DEF LoadRequest, DiskInv
<1>2. UntouchedInv(n)'
  <2> SUFFICES ASSUME writers[n] = "none" PROVE UntouchedInv(n)'
    BY DEF UntouchedInv, LoadRequest
  <2>1. UntouchedInv(n)
    BY DEF DiskInv
  <2>2. Fails(l)
    BY <2>1 DEF LoadRequest, LoadBegin, FromArchive, UntouchedInv, Nothing, Files
  <2> QED  BY <2>1, <2>2 DEF UntouchedInv, Fails, LoadRequest, Writes, DiskInv, TypeOK
<1>3. FirstInv(n)'
  <2> SUFFICES ASSUME writers[n] = "save" PROVE FirstInv(n)'
    BY DEF FirstInv, LoadRequest
  <2>1. FirstInv(n)
    BY DEF DiskInv
  <2>2. \/ Fails(l)
        \/ /\ dir[n].files["meta"] # Missing
           /\ load' = [load EXCEPT ![l] = [step |-> "meta", name |-> n, got |-> Empty, ok |-> TRUE]]
    BY <2>1 DEF FirstInv, LoadRequest, LoadBegin, FromArchive
  <2>3. CASE Fails(l)
    BY <2>1, <2>3 DEF FirstInv, Fails, LoadRequest, Writes, OfSave, DiskInv, TypeOK
  <2>4. CASE ~Fails(l)
    <3>1. \A k \in Loaders : load'[k] = load[k] \/ load'[k].step = "meta"
      BY <2>2, <2>4 DEF DiskInv, TypeOK
    <3>2. dir[n].files["meta"] # Missing
      BY <2>2, <2>4
    <3> QED  BY <2>1, <3>1, <3>2 DEF FirstInv, LoadRequest, Writes, OfSave
  <2> QED  BY <2>3, <2>4
<1> QED  BY <1>1, <1>2, <1>3, LoadElsewhere DEF LoadRequest

LEMMA LoadMetaKeeps ==
  ASSUME DiskInv, NEW l \in Loaders, LoadMeta(l), TypeOK'
  PROVE  DiskInv'
<1>0. load[l] \in Loads /\ load[l] # Idle /\ load[l].step = "meta"
  BY Steps DEF LoadMeta, DiskInv
<1> PICK n \in Names : n = load[l].name
  BY <1>0 DEF Loads
<1>1. \/ Fails(l)
      \/ /\ dir[n].files["meta"] \in Stamps
         /\ load' = [load EXCEPT ![l].step = "moto"]
  BY DEF LoadMeta
<1>2. /\ \A k \in Loaders : k # l => load'[k] = load[k]
      /\ load'[l] = Idle \/ (load'[l].name = n /\ load'[l].step = "moto" /\ dir[n].files["meta"] \in Stamps)
  BY <1>0, <1>1 DEF Fails, DiskInv, TypeOK, Loads
<1>3. UntouchedInv(n)'
  BY <1>0 DEF DiskInv, UntouchedInv, LoadMeta
<1>4. FirstInv(n)'
  <2> SUFFICES ASSUME writers[n] = "save" PROVE FirstInv(n)'
    BY DEF FirstInv, LoadMeta
  <2>1. FirstInv(n)
    BY DEF DiskInv
  <2> QED  BY <1>0, <1>2, <2>1 DEF FirstInv, LoadMeta, Writes, OfSave
<1> QED  BY <1>2, <1>3, <1>4, LoadElsewhere DEF LoadMeta

LEMMA LoadPartKeeps ==
  ASSUME DiskInv, NEW l \in Loaders, NEW f \in Parts, LoadPart(l, f), TypeOK'
  PROVE  DiskInv'
<1>0. load[l] \in Loads /\ load[l] # Idle /\ load[l].step = f
  BY Steps DEF LoadPart, DiskInv, Parts
<1> PICK n \in Names : n = load[l].name
  BY <1>0 DEF Loads
<1>1. PICK v : v = dir[n].files[f]
  OBVIOUS
<1>2. /\ \A k \in Loaders : k # l => load'[k] = load[k]
      /\ load'[l] = Idle \/ load'[l].name = n
      /\ v # Torn /\ f = "moto" => load'[l].step = "native" /\ load'[l].got["moto"] = v
      /\ v # Torn /\ f = "native" /\ load'[l] # Idle =>
           load'[l].step = "loaded" /\ load'[l].got["native"] = v /\ load'[l].got["moto"] = load[l].got["moto"]
  <2> DEFINE got == [load[l].got EXCEPT ![f] = IF v = Torn THEN Missing ELSE v]
             ok == load[l].ok /\ v # Torn
  <2>1. v # Torn => got[f] = v /\ \A g \in Parts : g # f => got[g] = load[l].got[g]
    BY <1>0 DEF Loads
  <2>2. IF f = "native" THEN IF ok THEN Succeeds(l, n, got) ELSE Fails(l)
        ELSE load' = [load EXCEPT ![l].step = "native", ![l].got = got, ![l].ok = ok]
    BY <1>1 DEF LoadPart
  <2> HIDE DEF got, ok
  <2>3. CASE f = "native"
    BY <2>1, <2>2, <2>3 DEF Succeeds, Fails, DiskInv, TypeOK, Parts
  <2>4. CASE f # "native"
    BY <1>0, <2>1, <2>2, <2>4 DEF DiskInv, TypeOK, Parts, Loads
  <2> QED  BY <2>3, <2>4
<1>3. UntouchedInv(n)'
  BY <1>0 DEF DiskInv, UntouchedInv, LoadPart
<1>4. FirstInv(n)'
  <2> SUFFICES ASSUME writers[n] = "save" PROVE FirstInv(n)'
    BY DEF FirstInv, LoadPart
  <2>1. FirstInv(n)
    BY DEF DiskInv
  <2>2. dir[n].files["meta"] \in Stamps /\ dir[n].files["meta"] # Missing /\ f \in {"moto", "native"}
    BY <1>0, <2>1 DEF FirstInv, Parts
  <2>3. v # Torn
    <3>1. PICK s \in 1..saves : OfSave(dir[n].files, s)
      BY <2>1, <2>2 DEF FirstInv
    <3> QED  BY <1>1, <2>2, <3>1, SnapshotsAssumption DEF OfSave
  <2>4. ASSUME NEW k \in Loaders, load'[k] # Idle, load'[k].name = n
        PROVE  /\ load'[k].step # "meta" => dir[n].files["meta"] \in Stamps
               /\ load'[k].step \in {"native", "loaded"} => load'[k].got["moto"] = dir[n].files["moto"]
               /\ load'[k].step = "loaded" => load'[k].got["native"] = dir[n].files["native"]
    <3>1. CASE k # l
      BY <1>2, <2>1, <2>4, <3>1 DEF FirstInv
    <3>2. CASE k = l /\ f = "moto"
      BY <1>1, <1>2, <2>2, <2>3, <2>4, <3>2
    <3>3. CASE k = l /\ f = "native"
      BY <1>0, <1>1, <1>2, <2>1, <2>2, <2>3, <2>4, <3>3 DEF FirstInv
    <3> QED  BY <2>2, <3>1, <3>2, <3>3
  <2> QED  BY <2>1, <2>2, <2>4 DEF FirstInv, LoadPart, Writes, OfSave
<1> QED  BY <1>2, <1>3, <1>4, LoadElsewhere DEF LoadPart

LEMMA CrashKeeps ==
  ASSUME DiskInv, Crash, TypeOK'
  PROVE  DiskInv'
<1>1. SaverInv' /\ ImporterInv' /\ partial' \subseteq 1..saves'
  BY DEF DiskInv, SaverInv, ImporterInv, Crash
<1>2. ASSUME NEW n \in Names
      PROVE  GoodInv(n)' /\ UntouchedInv(n)' /\ FirstInv(n)'
  <2>1. OtherName(n)
    BY DEF OtherName, Crash
  <2>2. Numbering
    BY DEF Numbering, Crash, Idle
  <2> QED  BY <2>1, <2>2, Elsewhere
<1> QED  BY <1>1, <1>2 DEF DiskInv

LEMMA DiskInvStep ==
  ASSUME OwnArchives, DiskInv, [Next]_vars
  PROVE  DiskInv'
<1>1. TypeOK'
  BY TypedStep DEF DiskInv
<1>2. CASE Save
  <2>1. \A n \in Names, compress \in BOOLEAN : SaveBegin(n, compress) => DiskInv'
    BY <1>1, SaveBeginKeeps
  <2>2. Save => \/ \E n \in Names, compress \in BOOLEAN : SaveBegin(n, compress)
                \/ OpenFile \/ WriteFile \/ MotoFails
                \/ OpenArchive \/ WriteArchive \/ \E f \in Files : RemoveFile(f)
                \/ RemoveDirectory \/ UnlinkArchive
    BY DEF Save
  <2> QED  BY <1>2, <2>1, <2>2, OpenFileKeeps, WriteFileKeeps, MotoFailsKeeps, OpenArchiveKeeps,
              WriteArchiveKeeps, RemoveFileKeeps, RemoveDirectoryKeeps, UnlinkArchiveKeeps
<1>3. CASE Load
  <2>1. "moto" \in Parts /\ "native" \in Parts
    BY DEF Parts
  <2> QED  BY <1>1, <1>3, <2>1, LoadRequestKeeps, LoadMetaKeeps, LoadPartKeeps DEF Load
<1>4. CASE Import
  BY <1>1, <1>4, ImportBeginKeeps, ImportUnlinkKeeps, ImportRenameKeeps, ImportLoadKeeps DEF Import
<1>5. CASE Crash
  BY <1>1, <1>5, CrashKeeps
<1>6. CASE UNCHANGED vars
  BY <1>6 DEF vars, DiskInv, TypeOK, SaverInv, ImporterInv, GoodInv, UntouchedInv, FirstInv, Writes, Describes, OfSave
<1> QED  BY <1>2, <1>3, <1>4, <1>5, <1>6 DEF Next

LEMMA DiskInvInit ==
  ASSUME Init
  PROVE  DiskInv
<1>1. TypeOK
  BY SnapshotsAssumption DEF Init, TypeOK, Stamps, Content, File, Nothing
<1>2. SaverInv /\ ImporterInv /\ partial \subseteq 1..saves
  BY DEF Init, SaverInv, ImporterInv
<1>3. \A n \in Names : GoodInv(n) /\ UntouchedInv(n) /\ FirstInv(n)
  BY SnapshotsAssumption DEF Init, GoodInv, UntouchedInv, FirstInv, Writes
<1> QED  BY <1>1, <1>2, <1>3 DEF DiskInv

LEMMA DiskInvariant == ASSUME OwnArchives PROVE Spec => []DiskInv
<1>1. Init => DiskInv
  BY DiskInvInit
<1>2. DiskInv /\ [Next]_vars => DiskInv'
  BY DiskInvStep
<1> QED  BY <1>1, <1>2, PTL DEF Spec

(* Types are kept, whatever archives names share. *)
THEOREM TypeCorrect == Spec => []TypeOK
<1>1. Init => TypeOK
  BY SnapshotsAssumption DEF Init, TypeOK, Stamps, Content, File, Nothing
<1>2. TypeOK /\ [Next]_vars => TypeOK'
  BY TypedStep
<1> QED  BY <1>1, <1>2, PTL DEF Spec

(* When there is a snapshot with a date, the latest has the greatest. *)
LEMMA LatestIs ==
  ASSUME TypeOK, NEW n \in Dated
  PROVE  SavedAt(Latest) >= SavedAt(n)
<1>1. \A m \in Dated : SavedAt(m) \in 0..MaxSaves
  BY DEF Dated, SavedAt, Stamps
<1> DEFINE Above == {k \in Nat : \A m \in Dated : SavedAt(m) <= k}
<1>2. PICK k \in Above : \A j \in Above : ~(j < k)
  <2>1. MaxSaves \in Above
    BY <1>1, SnapshotsAssumption
  <2>2. Above \subseteq Nat /\ Above # {}
    BY <2>1
  <2> HIDE DEF Above
  <2>3. PICK k \in Above : \A j \in Above : <<j, k>> \notin OpToRel(<, Nat)
    BY <2>2, NatLessThanWellFounded, WFMin
  <2> QED  BY <2>2, <2>3 DEF OpToRel
<1>3. PICK m \in Dated : SavedAt(m) = k
  <2> SUFFICES ASSUME \A m \in Dated : SavedAt(m) # k PROVE FALSE
    OBVIOUS
  <2>1. k \in Nat /\ k > 0 /\ \A m \in Dated : SavedAt(m) <= k - 1
    BY <1>1, SnapshotsAssumption
  <2> QED  BY <1>2, <2>1
<1>4. \A i \in Dated : SavedAt(m) >= SavedAt(i)
  BY <1>1, <1>3, SnapshotsAssumption
<1> QED  BY <1>4 DEF Latest

(* As long as every name has an archive of its own, what a save or an import has stored
   stays there to be loaded until another one begins to write its name, whatever steps
   of other saves, imports and loads and whatever crashes come in between. *)
THEOREM WhatIsSavedStays == ASSUME OwnArchives PROVE Spec => []Durable
<1>1. ASSUME DiskInv PROVE Durable
  <2> SUFFICES ASSUME NEW n \in Names, good[n] # Missing
               PROVE  /\ OfSave(Holds(n), good[n])
                      /\ Holds(n)["meta"] = good[n]
                      /\ SavedAt(Latest) >= good[n]
    BY DEF Durable
  <2>1. GoodInv(n) /\ TypeOK /\ good[n] \in Stamps
    BY <1>1 DEF DiskInv, TypeOK
  <2>2. Describes(Holds(n), good[n]) /\ SavedAt(n) = good[n]
    <3>1. CASE dir[n].exists
      BY <2>1, <3>1 DEF GoodInv, Holds, FromArchive, SavedAt, Describes
    <3>2. CASE ~dir[n].exists
      <4>1. archive[ArchiveOf[n]] \in Content /\ Describes(archive[ArchiveOf[n]], good[n])
        BY <2>1, <3>2 DEF GoodInv
      <4>2. Unpacked(n) = archive[ArchiveOf[n]] /\ archive[ArchiveOf[n]] # Missing
        BY <2>1, <4>1, UnpackedIs, SnapshotsAssumption
      <4> QED  BY <2>1, <3>2, <4>1, <4>2 DEF Holds, FromArchive, SavedAt, Describes
    <3> QED  BY <3>1, <3>2
  <2>3. n \in Dated
    BY <2>2 DEF Dated
  <2> QED  BY <2>1, <2>2, <2>3, LatestIs DEF Describes
<1> QED  BY <1>1, DiskInvariant, PTL

(* A load that reports success, during the first uncompressed save of a name or after
   a crash in the middle of it, has restored all that the save has stored. *)
THEOREM FirstSaveIsAtomic == ASSUME OwnArchives PROVE Spec => []FirstSaveAtomic
<1>1. ASSUME DiskInv PROVE FirstSaveAtomic
  <2> SUFFICES ASSUME NEW l \in Loaders, load[l].step = "loaded", NEW n, n = load[l].name, writers[n] = "save"
               PROVE  OfSave(load[l].got, dir[n].files["meta"])
    BY DEF FirstSaveAtomic
  <2>1. load[l] # Idle /\ n \in Names
    BY <1>1, Steps DEF DiskInv, Loads
  <2>2. FirstInv(n)
    BY <1>1, <2>1 DEF DiskInv
  <2>3. /\ dir[n].files["meta"] \in Stamps /\ dir[n].files["meta"] # Missing
        /\ load[l].got["moto"] = dir[n].files["moto"] /\ load[l].got["native"] = dir[n].files["native"]
    BY <2>1, <2>2 DEF FirstInv
  <2>4. PICK s \in 1..saves : OfSave(dir[n].files, s) /\ dir[n].files["meta"] \in {Torn, s}
    BY <2>2, <2>3 DEF FirstInv
  <2>5. dir[n].files["meta"] = s
    BY <2>3, <2>4, SnapshotsAssumption DEF Stamps
  <2> QED  BY <2>3, <2>4, <2>5 DEF OfSave
<1> QED  BY <1>1, DiskInvariant, PTL

-----------------------------------------------------------------------------
(* The lock. Its flags are redundant: the event _no_readers mirrors the count of
   readers, and the event _no_writer the two writer flags. One writer keeps them in
   step, and LockInv says how. *)
Holding == {t \in Readers : pc[t] = "holding"}

LockInv ==
  /\ LockTypeOK
  /\ ~Hung
  /\ noReaders <=> readers = 0
  /\ writerActive \/ writerWaiting => ~noWriter
  /\ writerActive => readers = 0 /\ ~writerWaiting
  /\ \A w \in Writers :
       /\ writerActive <=> pc[w] = "holding"
       /\ pc[w] \in {"blocked", "woken"} => writerWaiting

OneWriter == \A v, w \in Writers : v = w

(* The count of readers follows a reader that comes or goes. *)
LEMMA CountAdded ==
  ASSUME LockTypeOK, NEW t \in Readers, pc[t] # "holding", Holding' = Holding \cup {t}
  PROVE  Cardinality(Holding') = readers + 1
<1>1. IsFiniteSet(Holding) /\ t \notin Holding
  BY ReadWriteLockAssumption, FS_Subset DEF Holding
<1>2. readers = Cardinality(Holding)
  BY DEF LockTypeOK, Holding
<1> QED  BY <1>1, <1>2, FS_AddElement

LEMMA CountRemoved ==
  ASSUME LockTypeOK, NEW t \in Readers, pc[t] = "holding", Holding' = Holding \ {t}
  PROVE  readers > 0 /\ Cardinality(Holding') = readers - 1
<1>1. IsFiniteSet(Holding) /\ t \in Holding
  BY ReadWriteLockAssumption, FS_Subset DEF Holding
<1>2. readers = Cardinality(Holding) /\ readers \in Nat
  BY DEF LockTypeOK, Holding
<1>3. Cardinality(Holding) # 0
  BY <1>1, FS_EmptySet
<1> QED  BY <1>1, <1>2, <1>3, FS_RemoveElement

(* Without readers in the count none holds the lock. *)
LEMMA NobodyReads ==
  ASSUME LockTypeOK, readers = 0
  PROVE  \A t \in Readers : pc[t] # "holding"
<1>1. IsFiniteSet(Holding)
  BY ReadWriteLockAssumption, FS_Subset DEF Holding
<1>2. Cardinality(Holding) = 0
  BY DEF LockTypeOK, Holding
<1> QED  BY <1>1, <1>2, FS_EmptySet DEF Holding

(* No step of one writer and any readers leaves the flags out of step. *)
LEMMA LockInvStep ==
  ASSUME OneWriter, LockInv, [LockNext]_lockVars
  PROVE  LockInv'
<1> USE ReadWriteLockAssumption DEF LockInv, Tasks, Running, Goto
<1>1. ASSUME NEW t \in Readers, AcquireRead(t)
      PROVE  LockInv'
  <2>1. CASE WriterAhead
    <3>1. pc' = [pc EXCEPT ![t] = "blocked"] /\ pc[t] # "holding"
          /\ UNCHANGED <<readers, writerActive, writerWaiting, noReaders, noWriter>>
      BY <2>1, <1>1 DEF AcquireRead, Wait, WriterAhead
    <3>2. Holding' = Holding
      BY <3>1 DEF Holding, LockTypeOK
    <3>3. LockTypeOK'
      BY <3>1, <3>2 DEF LockTypeOK, Holding
    <3> QED  BY <3>1, <3>3 DEF LockTypeOK, Hung
  <2>2. CASE ~WriterAhead
    <3>1. pc' = [pc EXCEPT ![t] = "holding"] /\ pc[t] # "holding" /\ readers' = readers + 1
          /\ noReaders' = FALSE /\ UNCHANGED <<writerActive, writerWaiting, noWriter>>
      BY <2>2, <1>1 DEF AcquireRead
    <3>2. Holding' = Holding \cup {t}
      BY <3>1 DEF Holding, LockTypeOK
    <3>3. readers' \in Nat /\ readers' # 0 /\ readers' = Cardinality(Holding')
      <4>1. readers \in Nat
        BY DEF LockTypeOK
      <4>2. Cardinality(Holding') = readers + 1
        <5>1. LockTypeOK
          OBVIOUS
        <5> QED  BY <5>1, <3>1, <3>2, CountAdded
      <4> QED  BY <4>1, <4>2, <3>1
    <3>4. LockTypeOK'
      BY <3>1, <3>3 DEF LockTypeOK, Holding
    <3> QED  BY <3>1, <3>3, <3>4, <2>2 DEF LockTypeOK, Hung, WriterAhead
  <2> QED  BY <2>1, <2>2
<1>2. ASSUME NEW t \in Readers, ReleaseRead(t)
      PROVE  LockInv'
  <2>1. Holding' = Holding \ {t} /\ pc[t] = "holding"
    BY <1>2 DEF ReleaseRead, Wake, Holding, LockTypeOK
  <2>2. readers > 0 /\ Cardinality(Holding') = readers - 1
    BY <2>1, CountRemoved
  <2>3. LockTypeOK'
    BY <2>2, <1>2 DEF ReleaseRead, Wake, LockTypeOK, Holding
  <2>4. ~writerActive /\ noReaders = FALSE
    BY <2>2 DEF LockTypeOK
  <2>5. \A u \in Tasks : pc'[u] # "spinning" /\ (u # t => (pc'[u] = "holding" <=> pc[u] = "holding"))
    BY <1>2 DEF ReleaseRead, Wake, LockTypeOK, Hung
  <2>6. \A w \in Writers : pc'[w] \in {"blocked", "woken"} => pc[w] \in {"blocked", "woken"}
    BY <1>2 DEF ReleaseRead, Wake, LockTypeOK
  <2>7. noReaders' <=> readers' = 0
    <3>1. readers' = 0 <=> readers = 1
      BY <2>2, <1>2 DEF ReleaseRead, LockTypeOK
    <3> QED  BY <3>1, <2>4, <1>2 DEF ReleaseRead, LastReaderLeaves
  <2> QED  BY <2>3, <2>4, <2>5, <2>6, <2>7, <1>2 DEF ReleaseRead, Hung
<1>3. ASSUME NEW t \in Writers, AcquireWrite(t) \/ RetryWrite(t)
      PROVE  LockInv'
  <2>1. pc[t] # "holding" /\ EnterWrite(t, TRUE) /\ readers' = readers /\ noReaders' = noReaders
    <3>1. RetryWrite(t) => writerWaiting = TRUE
      BY DEF RetryWrite, LockTypeOK
    <3> QED  BY <3>1, <1>3 DEF AcquireWrite, RetryWrite
  <2>2. noWriter' = FALSE /\ ~writerActive
    BY <1>3, <2>1 DEF AcquireWrite, RetryWrite, LockTypeOK
  <2>4. \A w \in Writers : w = t
    BY DEF OneWriter
  <2>5. ASSUME NEW state \in {"holding", "blocked"}, pc' = [pc EXCEPT ![t] = state]
        PROVE  /\ pc' \in [Tasks -> {"idle", "blocked", "woken", "holding", "spinning"}]
               /\ readers' \in Nat /\ readers' = Cardinality({u \in Readers : pc'[u] = "holding"})
               /\ ~Hung' /\ pc'[t] = state
    <3>1. Holding' = Holding
      BY <2>5 DEF Holding, LockTypeOK
    <3> QED  BY <3>1, <2>1, <2>5 DEF LockTypeOK, Holding, Hung
  <2>6. CASE readers > 0
    <3>1. pc' = [pc EXCEPT ![t] = "blocked"] /\ writerActive' = FALSE /\ writerWaiting' = TRUE
      <4>1. ~noReaders
        BY <2>6
      <4> QED  BY <4>1, <2>1, <2>2, <2>6 DEF EnterWrite, Wait, LockTypeOK
    <3>2. LockTypeOK'
      BY <3>1, <2>1, <2>2, <2>5 DEF LockTypeOK
    <3> QED  BY <3>1, <3>2, <2>1, <2>2, <2>4, <2>5
  <2>7. CASE ~(readers > 0)
    <3>1. pc' = [pc EXCEPT ![t] = "holding"] /\ writerActive' = TRUE /\ writerWaiting' = FALSE
      BY <2>1, <2>7 DEF EnterWrite
    <3>2. LockTypeOK'
      BY <3>1, <2>1, <2>2, <2>5 DEF LockTypeOK
    <3>3. readers' = 0
      BY <2>1, <2>7 DEF LockTypeOK
    <3> QED  BY <3>1, <3>2, <3>3, <2>1, <2>2, <2>4, <2>5
  <2> QED  BY <2>6, <2>7
<1>4. ASSUME NEW t \in Writers, ReleaseWrite(t)
      PROVE  LockInv'
  <2>1. writerActive /\ ~writerWaiting /\ readers = 0
    BY <1>4 DEF ReleaseWrite
  <2>2. LockTypeOK'
    <3>1. Holding' = Holding
      BY <1>4 DEF ReleaseWrite, Wake, Holding, LockTypeOK
    <3> QED  BY <3>1, <1>4 DEF ReleaseWrite, Wake, LockTypeOK, Holding
  <2>3. \A u \in Tasks : pc'[u] # "spinning"
    BY <1>4 DEF ReleaseWrite, Wake, LockTypeOK, Hung
  <2>4. \A w \in Writers : pc'[w] = "idle"
    BY <1>4 DEF ReleaseWrite, Wake, OneWriter
  <2> QED  BY <2>1, <2>2, <2>3, <2>4, <1>4 DEF ReleaseWrite, Hung
<1>5. ASSUME NEW t \in Tasks, Cancel(t)
      PROVE  LockInv'
  <2>1. pc[t] \in {"blocked", "woken"} /\ pc' = [pc EXCEPT ![t] = "idle"]
        /\ UNCHANGED <<readers, writerActive, writerWaiting, noReaders, noWriter>>
    BY <1>5 DEF Cancel
  <2>2. Holding' = Holding
    BY <2>1 DEF Holding, LockTypeOK
  <2>3. LockTypeOK'
    BY <2>1, <2>2 DEF LockTypeOK, Holding
  <2> QED  BY <2>1, <2>3 DEF LockTypeOK, Hung
<1>6. CASE UNCHANGED lockVars
  BY <1>6 DEF lockVars, LockTypeOK, Hung
<1> QED  BY <1>1, <1>2, <1>3, <1>4, <1>5, <1>6 DEF LockNext

LEMMA LockInvariant == ASSUME OneWriter PROVE LockSpec => []LockInv
<1>1. ASSUME LockInit PROVE LockInv
  <2>1. Holding = {} /\ readers = 0
    BY <1>1 DEF LockInit, Holding, Tasks
  <2>2. readers = Cardinality(Holding)
    BY <2>1, FS_EmptySet
  <2>3. pc \in [Tasks -> {"idle", "blocked", "woken", "holding", "spinning"}]
    BY <1>1 DEF LockInit
  <2>4. LockTypeOK
    <3>1. readers \in Nat /\ readers = Cardinality({t \in Readers : pc[t] = "holding"})
      BY <2>1, <2>2 DEF Holding
    <3>2. /\ writerActive \in BOOLEAN /\ writerWaiting \in BOOLEAN
          /\ noReaders \in BOOLEAN /\ noWriter \in BOOLEAN
      BY <1>1 DEF LockInit
    <3> QED  BY <3>1, <3>2, <2>3 DEF LockTypeOK
  <2> QED  BY <1>1, <2>4 DEF LockInit, LockInv, Hung, Tasks
<1>2. LockInv /\ [LockNext]_lockVars => LockInv'
  BY LockInvStep
<1> QED  BY <1>1, <1>2, PTL DEF LockSpec

(* One writer that holds the lock holds it alone, however many readers come, go
   and are cancelled while they wait. *)
THEOREM WriterAlone == ASSUME OneWriter PROVE LockSpec => []Exclusion
<1>1. LockInv => Exclusion
  <2> SUFFICES ASSUME LockInv, NEW t \in Writers, pc[t] = "holding", NEW u \in Tasks \ {t}
               PROVE  pc[u] # "holding"
    BY DEF Exclusion
  <2>1. \A r \in Readers : pc[r] # "holding"
    BY NobodyReads DEF LockInv
  <2> QED  BY <2>1 DEF OneWriter, Tasks
<1> QED  BY <1>1, LockInvariant, PTL

(* With one writer no waiting loop finds its event set while its condition still
   holds, so the event loop never hangs in one. *)
THEOREM NoWaitingLoopSpins == ASSUME OneWriter PROVE LockSpec => []NeverHangs
<1>1. LockInv => NeverHangs
  BY DEF LockInv, NeverHangs
<1> QED  BY <1>1, LockInvariant, PTL

(* A reader that comes while the writer waits is never let in before it. *)
THEOREM WriterGoesFirst == ASSUME OneWriter PROVE LockSpec => WriterFirst
<1>1. ASSUME LockInv, [LockNext]_lockVars
      PROVE  [(\E w \in Writers : pc[w] \in {"blocked", "woken"}) =>
                \A t \in Readers : pc'[t] = "holding" => pc[t] = "holding"]_lockVars
  <2> SUFFICES ASSUME LockNext, NEW w \in Writers, pc[w] \in {"blocked", "woken"},
                      NEW t \in Readers, pc'[t] = "holding"
               PROVE  pc[t] = "holding"
    BY <1>1
  <2>1. writerWaiting
    BY <1>1 DEF LockInv
  <2> USE <1>1 DEF LockInv, LockTypeOK, Tasks, Goto
  <2>2. ASSUME NEW r \in Readers, AcquireRead(r)
        PROVE  pc[t] = "holding"
    BY <2>1, <2>2 DEF AcquireRead, WriterAhead, Wait
  <2>3. ASSUME NEW r \in Readers, ReleaseRead(r)
        PROVE  pc[t] = "holding"
    BY <2>3 DEF ReleaseRead, Wake
  <2>4. ASSUME NEW v \in Writers, AcquireWrite(v) \/ RetryWrite(v)
        PROVE  pc[t] = "holding"
    BY ReadWriteLockAssumption, <2>4 DEF AcquireWrite, RetryWrite, EnterWrite, Wait
  <2>5. ASSUME NEW v \in Writers, ReleaseWrite(v)
        PROVE  pc[t] = "holding"
    BY <2>5 DEF ReleaseWrite, Wake
  <2>6. ASSUME NEW u \in Tasks, Cancel(u)
        PROVE  pc[t] = "holding"
    BY <2>6 DEF Cancel
  <2> QED  BY <2>2, <2>3, <2>4, <2>5, <2>6 DEF LockNext
<1> QED  BY <1>1, LockInvariant, PTL DEF LockSpec, WriterFirst
=============================================================================
