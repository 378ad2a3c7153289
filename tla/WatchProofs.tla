----------------------------- MODULE WatchProofs -----------------------------
(***************************************************************************)
(* Theorems about Watch: types, the kernel's watches and the monitor's     *)
(* tables, and the assertions of core/ufad.c and core/monitor_inotify.c.   *)
(***************************************************************************)
EXTENDS Watch, FiniteSetTheorems, TLAPS

\* Functions that grow or shrink by a key, as a hash table does.
LEMMA PutMaps ==
  ASSUME NEW t, NEW k, NEW v, NEW S, NEW T, PartialFunction(t, S, T), k \in S, v \in T
  PROVE  PartialFunction(Put(t, k, v), S, T)
BY DEF PartialFunction, Put

LEMMA DropMaps ==
  ASSUME NEW t, NEW k, NEW S, NEW T, PartialFunction(t, S, T)
  PROVE  PartialFunction(Drop(t, k), S, T)
BY DEF PartialFunction, Drop

\* Lines of "dirs" that are folders.
LEMMA ConfigDirsType ==
  ASSUME TypeOK
  PROVE  /\ ConfigDirs \subseteq Line
         /\ Folders(ConfigDirs) \subseteq Folder
         /\ \A p \in ConfigDirs : onDisk[p[2]] # Nowhere
<1>1. PICK n \in 0 .. MaxListed : listed \in [1 .. n -> Folder]
  BY DEF TypeOK, UserType, Lists
<1>2. \A i \in DOMAIN listed : i \in Nat \ {0} /\ listed[i] \in Folder
  BY <1>1, EnvAssumption
<1>. QED
  BY <1>2 DEF ConfigDirs, Line, Folders

LEMMA PartialFunctions ==
  ASSUME NEW t, NEW S, NEW T
  PROVE  /\ t \in UNION {[D -> T] : D \in SUBSET S} => PartialFunction(t, S, T)
         /\ t = [x \in DOMAIN t |-> t[x]] /\ PartialFunction(t, S, T)
              => t \in UNION {[D -> T] : D \in SUBSET S}
<1>1. ASSUME t \in UNION {[D -> T] : D \in SUBSET S} PROVE PartialFunction(t, S, T)
  BY <1>1 DEF PartialFunction
<1>2. ASSUME t = [x \in DOMAIN t |-> t[x]], PartialFunction(t, S, T)
      PROVE  t \in UNION {[D -> T] : D \in SUBSET S}
  <2>1. t \in [DOMAIN t -> T] /\ DOMAIN t \in SUBSET S
    BY <1>2 DEF PartialFunction
  <2>. QED  BY <2>1
<1>. QED  BY <1>1, <1>2

\* The type of reload, with the domain of the new table bounded in place.
ReloadRecord ==
  [at: {"idle", "next"} \cup Adding \cup Removing,
   add: SUBSET Line, remove: SUBSET Folder,
   new: UNION {[D -> Nat] : D \in SUBSET Folder},
   dir: Folder \cup {Nowhere}, wd: Nat]

LEMMA ReloadRecords ==
  ASSUME NEW r
  PROVE  r \in ReloadRecord
           <=> /\ r \in [at: {"idle", "next"} \cup Adding \cup Removing,
                         add: SUBSET Line, remove: SUBSET Folder, new: {r.new},
                         dir: Folder \cup {Nowhere}, wd: Nat]
               /\ \E D \in SUBSET Folder : r.new \in [D -> Nat]
<1>1. (\E D \in SUBSET Folder : r.new \in [D -> Nat])
        <=> r.new \in UNION {[D -> Nat] : D \in SUBSET Folder}
  OBVIOUS
<1>. QED  BY <1>1 DEF ReloadRecord

-----------------------------------------------------------------------------
\* What a step of ufa_monitor_add_watcher does, from the place, wd and folder of
\* the calling thread before the step to its place and wd after it.
AddEffect(at, wd, dir, at2, wd2) ==
  \/ /\ at = "lookup" /\ at2 = "added" /\ dir \in DOMAIN filenames /\ wd2 = filenames[dir]
     /\ UNCHANGED monitor
  \/ at = "lookup" /\ at2 = "watch" /\ dir \notin DOMAIN filenames /\ wd2 = wd /\ UNCHANGED monitor
  \/ /\ at = "watch" /\ at2 = "table" /\ wd2 = WdFor(dir) /\ onDisk[dir] # Nowhere
     /\ watches' = Put(watches, WdFor(dir), onDisk[dir])
     /\ nextWd' = IF WdFor(dir) = nextWd THEN nextWd + 1 ELSE nextWd
     /\ UNCHANGED <<table, callbacks, filenames>>
  \/ /\ at = "watch" /\ at2 = "refused" /\ wd2 = wd
     /\ "fail" \in Env \/ onDisk[dir] = Nowhere
     /\ UNCHANGED monitor
  \/ /\ at = "table" /\ at2 = "callbacks" /\ wd2 = wd
     /\ table' = Put(table, wd, dir)
     /\ UNCHANGED <<watches, nextWd, callbacks, filenames>>
  \/ /\ at = "callbacks" /\ at2 = "filename" /\ wd2 = wd
     /\ callbacks' = callbacks \cup {wd}
     /\ UNCHANGED <<watches, nextWd, table, filenames>>
  \/ /\ at = "filename" /\ at2 = "added" /\ wd2 = wd
     /\ filenames' = Put(filenames, dir, wd)
     /\ UNCHANGED <<watches, nextWd, table, callbacks>>

LEMMA MainAdds ==
  ASSUME TypeOK, AddWatcher(main, main')
  PROVE  /\ AddEffect(main.at, main.wd, main.dir, main'.at, main'.wd)
         /\ main.at \in Adding \ {"added", "refused"} /\ main.dir \in Folder
         /\ main'.dir = main.dir /\ main'.todo = main.todo
         /\ main' = [main EXCEPT !.at = main'.at, !.wd = main'.wd]
<1>. main \in MainRecord /\ (main.at \in Adding => main.dir \in Folder)
  BY DEF TypeOK, MainType
<1>1. CASE Lookup(main, main')
  BY <1>1 DEF Lookup, AddEffect, MainRecord, Known, Adding
<1>2. CASE InotifyAdd(main, main')
  BY <1>2 DEF InotifyAdd, AddEffect, MainRecord, Adding
<1>3. CASE InotifyAddFails(main, main')
  BY <1>3 DEF InotifyAddFails, AddEffect, MainRecord, Adding
<1>4. CASE PutPath(main, main')
  BY <1>4 DEF PutPath, AddEffect, MainRecord, Adding
<1>5. CASE PutCallback(main, main')
  BY <1>5 DEF PutCallback, AddEffect, MainRecord, Adding
<1>6. CASE PutFilename(main, main')
  BY <1>6 DEF PutFilename, AddEffect, MainRecord, Adding
<1>. QED  BY <1>1, <1>2, <1>3, <1>4, <1>5, <1>6 DEF AddWatcher

LEMMA ReloadAdds ==
  ASSUME TypeOK, AddWatcher(reload, reload')
  PROVE  /\ AddEffect(reload.at, reload.wd, reload.dir, reload'.at, reload'.wd)
         /\ reload.at \in Adding \ {"added", "refused"} /\ reload.dir \in Folder
         /\ reload'.dir = reload.dir /\ reload'.add = reload.add
         /\ reload'.remove = reload.remove /\ reload'.new = reload.new
         /\ reload' = [reload EXCEPT !.at = reload'.at, !.wd = reload'.wd]
<1>. reload \in ReloadRecord /\ (reload.at \in Adding => reload.dir \in Folder)
  BY ReloadRecords DEF TypeOK, ReloadType
<1>1. CASE Lookup(reload, reload')
  BY <1>1 DEF Lookup, AddEffect, ReloadRecord, Known, Adding
<1>2. CASE InotifyAdd(reload, reload')
  BY <1>2 DEF InotifyAdd, AddEffect, ReloadRecord, Adding
<1>3. CASE InotifyAddFails(reload, reload')
  BY <1>3 DEF InotifyAddFails, AddEffect, ReloadRecord, Adding
<1>4. CASE PutPath(reload, reload')
  BY <1>4 DEF PutPath, AddEffect, ReloadRecord, Adding
<1>5. CASE PutCallback(reload, reload')
  BY <1>5 DEF PutCallback, AddEffect, ReloadRecord, Adding
<1>6. CASE PutFilename(reload, reload')
  BY <1>6 DEF PutFilename, AddEffect, ReloadRecord, Adding
<1>. QED  BY <1>1, <1>2, <1>3, <1>4, <1>5, <1>6 DEF AddWatcher

LEMMA WdForType ==
  ASSUME TypeOK, NEW f \in Folder
  PROVE  WdFor(f) \in Wd
<1>1. CASE \E w \in DOMAIN watches : watches[w] = onDisk[f]
  <2>1. WdFor(f) \in DOMAIN watches
    BY <1>1 DEF WdFor
  <2>. QED  BY <2>1 DEF TypeOK, MonitorType, PartialFunction
<1>2. CASE ~ \E w \in DOMAIN watches : watches[w] = onDisk[f]
  BY <1>2 DEF WdFor, TypeOK, MonitorType
<1>. QED  BY <1>1, <1>2

\* The tables keep their types, and a thread has a wd where it should.
LEMMA AddTypes ==
  ASSUME TypeOK, NEW at, NEW wd \in Nat, NEW dir \in Folder, NEW at2, NEW wd2,
         AddEffect(at, wd, dir, at2, wd2), wd # NULL <=> at \in HasWd
  PROVE  /\ MonitorType'
         /\ at2 \in Adding /\ wd2 \in Nat /\ (wd2 # NULL <=> at2 \in HasWd)
<1>. MonitorType /\ onDisk \in [Folder -> Wd \cup {Nowhere}]
  BY DEF TypeOK, UserType
<1>1. CASE at = "lookup" /\ at2 = "added" /\ dir \in DOMAIN filenames /\ wd2 = filenames[dir]
           /\ UNCHANGED monitor
  BY <1>1 DEF MonitorType, monitor, PartialFunction, Adding, HasWd, Wd, NULL
<1>2. CASE at \in {"lookup", "watch"} /\ at2 \in {"watch", "refused"} /\ wd2 = wd
           /\ UNCHANGED monitor
  BY <1>2 DEF MonitorType, monitor, PartialFunction, Adding, HasWd
<1>3. CASE /\ at = "watch" /\ at2 = "table" /\ wd2 = WdFor(dir) /\ onDisk[dir] # Nowhere
           /\ watches' = Put(watches, WdFor(dir), onDisk[dir])
           /\ nextWd' = IF WdFor(dir) = nextWd THEN nextWd + 1 ELSE nextWd
           /\ UNCHANGED <<table, callbacks, filenames>>
  <2>1. WdFor(dir) \in Wd /\ onDisk[dir] \in Wd
    BY <1>3, WdForType
  <2>2. PartialFunction(watches', Wd, Wd)
    BY <1>3, <2>1, PutMaps DEF MonitorType
  <2>3. nextWd' \in Wd
    BY <1>3 DEF MonitorType, Wd
  <2>. QED
    BY <1>3, <2>1, <2>2, <2>3 DEF MonitorType, PartialFunction, Adding, HasWd, Wd, NULL
<1>4. CASE /\ at = "table" /\ at2 = "callbacks" /\ wd2 = wd
           /\ table' = Put(table, wd, dir)
           /\ UNCHANGED <<watches, nextWd, callbacks, filenames>>
  <2>1. wd \in Wd
    BY <1>4 DEF HasWd, Wd, NULL
  <2>2. PartialFunction(table', Wd, Folder)
    BY <1>4, <2>1, PutMaps DEF MonitorType
  <2>. QED
    BY <1>4, <2>2 DEF MonitorType, PartialFunction, Adding, HasWd
<1>5. CASE /\ at = "callbacks" /\ at2 = "filename" /\ wd2 = wd
           /\ callbacks' = callbacks \cup {wd}
           /\ UNCHANGED <<watches, nextWd, table, filenames>>
  BY <1>5 DEF MonitorType, PartialFunction, Adding, HasWd, Wd, NULL
<1>6. CASE /\ at = "filename" /\ at2 = "added" /\ wd2 = wd
           /\ filenames' = Put(filenames, dir, wd)
           /\ UNCHANGED <<watches, nextWd, table, callbacks>>
  <2>1. wd \in Wd
    BY <1>6 DEF HasWd, Wd, NULL
  <2>2. PartialFunction(filenames', Folder, Wd)
    BY <1>6, <2>1, PutMaps DEF MonitorType
  <2>. QED
    BY <1>6, <2>2 DEF MonitorType, PartialFunction, Adding, HasWd
<1>. QED
  BY <1>1, <1>2, <1>3, <1>4, <1>5, <1>6 DEF AddEffect

-----------------------------------------------------------------------------
LEMMA UserTypes ==
  ASSUME TypeOK, Users
  PROVE  TypeOK'
<1>0. UserType /\ MonitorType /\ MainType /\ ReloadType
      /\ events \in Seq({"closewrite", "move"})
      /\ PartialFunction(dirs, Folder, Nat) /\ failed \in BOOLEAN
  BY DEF TypeOK
<1>1. UNCHANGED <<nextWd, table, callbacks, filenames, dirs, main, reload, failed>>
  BY DEF Users, EditStart, EditEnd, Ufactl, DeleteFolder, CreateFolder, RenameFolder, monitor
<1>2. MainType' /\ ReloadType' /\ PartialFunction(dirs, Folder, Nat)' /\ failed' \in BOOLEAN
  BY <1>0, <1>1 DEF MainType, ReloadType, PartialFunction
<1>3. UserType'
  <2>1. CASE EditStart
    <3>1. <<>> \in [1 .. 0 -> Folder] /\ 0 \in 0 .. MaxListed
      BY EnvAssumption
    <3>2. <<>> \in Lists
      BY <3>1 DEF Lists
    <3>. QED
      BY <1>0, <2>1, <3>2, EnvAssumption DEF EditStart, Change, UserType
  <2>2. ASSUME NEW l \in Lists, EditEnd(l) PROVE UserType'
    BY <1>0, <2>2 DEF EditEnd, UserType
  <2>3. ASSUME NEW l \in Lists, Ufactl(l) PROVE UserType'
    BY <1>0, <2>3, EnvAssumption DEF Ufactl, Change, UserType
  <2>4. ASSUME NEW f \in Folder, DeleteFolder(f) PROVE UserType'
    BY <1>0, <2>4, EnvAssumption DEF DeleteFolder, Change, UserType
  <2>5. ASSUME NEW f \in Folder, CreateFolder(f) PROVE UserType'
    <3>1. Cardinality(Folder) + changes + 1 \in Wd
      BY <1>0, EnvAssumption, FS_CardinalityType DEF Wd, UserType
    <3>. QED
      BY <1>0, <2>5, <3>1, EnvAssumption DEF CreateFolder, Change, UserType
  <2>6. ASSUME NEW f \in Folder, NEW g \in Folder, RenameFolder(f, g) PROVE UserType'
    BY <1>0, <2>6, EnvAssumption DEF RenameFolder, Change, UserType
  <2>. QED  BY <2>1, <2>2, <2>3, <2>4, <2>5, <2>6 DEF Users
<1>4. events' \in Seq({"closewrite", "move"})
  <2>1. \A e \in {"closewrite", "move"} : Append(events, e) \in Seq({"closewrite", "move"})
    BY <1>0
  <2>. QED
    BY <1>0, <2>1 DEF Users, EditStart, EditEnd, Ufactl, DeleteFolder, CreateFolder,
                      RenameFolder, Notify
<1>5. PartialFunction(watches, Wd, Wd)'
  <2>1. ASSUME NEW f \in Folder, DeleteFolder(f) PROVE PartialFunction(watches, Wd, Wd)'
    BY <1>0, <2>1 DEF DeleteFolder, MonitorType, PartialFunction
  <2>2. ASSUME UNCHANGED watches PROVE PartialFunction(watches, Wd, Wd)'
    BY <1>0, <2>2 DEF MonitorType, PartialFunction
  <2>. QED
    BY <2>1, <2>2 DEF Users, EditStart, EditEnd, Ufactl, CreateFolder, RenameFolder, monitor
<1>6. MonitorType'
  BY <1>0, <1>1, <1>5 DEF MonitorType, PartialFunction
<1>. QED
  BY <1>2, <1>3, <1>4, <1>6 DEF TypeOK

LEMMA MainTypes ==
  ASSUME TypeOK, MainThread
  PROVE  TypeOK'
<1>0. UserType /\ MonitorType /\ MainType /\ ReloadType
      /\ events \in Seq({"closewrite", "move"})
      /\ PartialFunction(dirs, Folder, Nat) /\ failed \in BOOLEAN
  BY DEF TypeOK
<1>1. UNCHANGED <<user, events, reload>>
  BY DEF MainThread, ReadDirs, WatchConfig, PutNull, AddWatch, PutWd, Refused, Started
<1>2. UserType' /\ events' \in Seq({"closewrite", "move"}) /\ ReloadType'
  BY <1>0, <1>1 DEF UserType, ReloadType, user
<1>3. ASSUME UNCHANGED monitor PROVE MonitorType'
  BY <1>0, <1>3 DEF MonitorType, monitor, PartialFunction
<1>4. ASSUME UNCHANGED dirs PROVE PartialFunction(dirs, Folder, Nat)'
  BY <1>0, <1>4 DEF PartialFunction
<1>5. MainType' /\ MonitorType' /\ PartialFunction(dirs, Folder, Nat)' /\ failed' \in BOOLEAN
  <2>. USE DEF MainType, MainRecord, Adding, HasWd
  <2>1. CASE ReadDirs
    BY <1>0, <1>3, <1>4, <2>1, ConfigDirsType DEF ReadDirs
  <2>2. CASE WatchConfig
    BY <1>0, <1>3, <1>4, <2>2 DEF WatchConfig
  <2>3. CASE PutNull
    <3>1. PICK p \in main.todo :
            /\ dirs' = Put(dirs, p[2], NULL)
            /\ main' = [main EXCEPT !.at = "lookup", !.todo = @ \ {p}, !.dir = p[2]]
      BY <2>3 DEF PutNull
    <3>2. p[2] \in Folder
      BY <1>0, <3>1 DEF Line
    <3>3. PartialFunction(dirs', Folder, Nat)
      BY <1>0, <3>1, <3>2, PutMaps DEF NULL
    <3>. QED
      BY <1>0, <1>3, <2>3, <3>1, <3>2, <3>3 DEF PutNull, PartialFunction
  <2>4. CASE AddWatch
    <3>1. /\ AddEffect(main.at, main.wd, main.dir, main'.at, main'.wd)
          /\ main.dir \in Folder /\ main'.dir = main.dir
          /\ main' = [main EXCEPT !.at = main'.at, !.wd = main'.wd]
      BY <2>4, MainAdds DEF AddWatch
    <3>2. MonitorType' /\ main'.at \in Adding /\ main'.wd \in Nat
          /\ (main'.wd # NULL <=> main'.at \in HasWd)
      BY <1>0, <3>1, AddTypes
    <3>3. main' \in MainRecord
      <4>. HIDE DEF Adding, HasWd
      <4>. QED  BY <1>0, <3>1, <3>2
    <3>. QED
      BY <1>0, <1>4, <2>4, <3>1, <3>2, <3>3 DEF AddWatch
  <2>5. CASE PutWd
    <3>1. main.dir \in Folder /\ main.wd \in Nat
      BY <1>0, <2>5 DEF PutWd
    <3>2. PartialFunction(dirs', Folder, Nat)
      BY <1>0, <2>5, <3>1, PutMaps DEF PutWd
    <3>3. failed' \in BOOLEAN
      <4>. DEFINE absent == main.dir \notin DOMAIN dirs
      <4>1. failed' = (failed \/ absent)
        BY <2>5 DEF PutWd
      <4>. QED  BY <4>1
    <3>4. MainType'
      BY <1>0, <2>5 DEF PutWd, NULL
    <3>. QED
      BY <1>0, <1>3, <2>5, <3>2, <3>3, <3>4 DEF PutWd, PartialFunction
  <2>6. CASE Refused
    BY <1>0, <1>3, <1>4, <2>6 DEF Refused
  <2>7. CASE Started
    BY <1>0, <1>3, <1>4, <2>7 DEF Started
  <2>. HIDE DEF MainType
  <2>. QED
    BY <2>1, <2>2, <2>3, <2>4, <2>5, <2>6, <2>7 DEF MainThread
<1>. QED
  BY <1>2, <1>5 DEF TypeOK

LEMMA BusyType ==
  ASSUME reload' \in ReloadRecord, reload'.at # "idle",
         reload'.at \in Adding \cup {"unname"} => reload'.dir \in Folder,
         reload'.wd # NULL <=> reload'.at \in HasWd \cup Removing
  PROVE  ReloadType'
<1>1. reload' # Idle
  BY DEF Idle
<1>2. /\ reload' \in [at: {"idle", "next"} \cup Adding \cup Removing,
                      add: SUBSET Line, remove: SUBSET Folder, new: {reload'.new},
                      dir: Folder \cup {Nowhere}, wd: Nat]
      /\ \E D \in SUBSET Folder : reload'.new \in [D -> Nat]
  BY ReloadRecords
<1>. QED  BY <1>1, <1>2 DEF ReloadType

LEMMA ReloadAddTypes ==
  ASSUME TypeOK, AddWatcher(reload, reload')
  PROVE  MonitorType' /\ ReloadType'
<1>1. reload \in ReloadRecord /\ (reload.wd # NULL <=> reload.at \in HasWd \cup Removing)
  BY ReloadRecords DEF TypeOK, ReloadType
<1>2. /\ AddEffect(reload.at, reload.wd, reload.dir, reload'.at, reload'.wd)
      /\ reload.at \in Adding /\ reload.dir \in Folder /\ reload'.dir = reload.dir
      /\ reload' = [reload EXCEPT !.at = reload'.at, !.wd = reload'.wd]
  BY ReloadAdds
<1>3. reload.wd \in Nat /\ (reload.wd # NULL <=> reload.at \in HasWd)
  BY <1>1, <1>2 DEF ReloadRecord, Adding, Removing
<1>4. MonitorType' /\ reload'.at \in Adding /\ reload'.wd \in Nat
      /\ (reload'.wd # NULL <=> reload'.at \in HasWd)
  BY <1>2, <1>3, AddTypes
<1>5. reload' \in ReloadRecord
  BY <1>1, <1>2, <1>4 DEF ReloadRecord
<1>6. reload'.at # "idle" /\ (reload'.wd # NULL <=> reload'.at \in HasWd \cup Removing)
  BY <1>4 DEF Adding, Removing, HasWd
<1>. QED  BY <1>2, <1>4, <1>5, <1>6, BusyType

LEMMA ReloadTypes ==
  ASSUME TypeOK, MonitorThread
  PROVE  TypeOK'
<1>0. UserType /\ MonitorType /\ MainType /\ ReloadType
      /\ events \in Seq({"closewrite", "move"})
      /\ PartialFunction(dirs, Folder, Nat) /\ failed \in BOOLEAN
  BY DEF TypeOK
<1>. USE DEF MonitorThread, EventWithoutPath, IgnoreEvent, StartReload, RemoveWatch, RemoveNext,
             InotifyRm, GetPath, DropFilename, DropPath, DropCallback, AddNext, AddNew,
             AddDone, EndReload
<1>1. UNCHANGED <<user, main>>
  OBVIOUS
<1>2. UserType' /\ MainType'
  BY <1>0, <1>1 DEF UserType, MainType, user
<1>3. events' \in Seq({"closewrite", "move"})
  <2>1. ASSUME NEW kind, NextEvent(kind) PROVE events' \in Seq({"closewrite", "move"})
    BY <1>0, <2>1 DEF NextEvent
  <2>2. (\E kind : NextEvent(kind)) \/ UNCHANGED events
    OBVIOUS
  <2>. QED  BY <1>0, <2>1, <2>2
<1>4. ASSUME UNCHANGED monitor PROVE MonitorType'
  BY <1>0, <1>4 DEF MonitorType, monitor, PartialFunction
<1>5. ASSUME UNCHANGED dirs PROVE PartialFunction(dirs, Folder, Nat)'
  BY <1>0, <1>5 DEF PartialFunction
<1>6. ASSUME UNCHANGED reload PROVE ReloadType'
  BY <1>0, <1>6 DEF ReloadType
<1>7. ASSUME reload' \in ReloadRecord, reload'.at # "idle",
             reload'.at \in Adding \cup {"unname"} => reload'.dir \in Folder,
             reload'.wd # NULL <=> reload'.at \in HasWd \cup Removing
      PROVE  ReloadType'
  BY <1>7, BusyType
<1>8. reload \in ReloadRecord /\ reload.wd \in Nat
  BY <1>0, ReloadRecords DEF ReloadType, ReloadRecord
<1>. USE DEF Adding, HasWd, Removing
<1>9. /\ ReloadType' /\ MonitorType'
      /\ PartialFunction(dirs, Folder, Nat)' /\ failed' \in BOOLEAN
  <2>1. CASE EventWithoutPath \/ IgnoreEvent
    BY <1>0, <1>4, <1>5, <1>6, <2>1
  <2>2. CASE StartReload
    <3>1. reload'.new \in [Folders(ConfigDirs) -> Nat]
      BY <1>0, <2>2 DEF PartialFunction, NULL, Idle
    <3>2. ToRemove(ConfigDirs) \subseteq Folder
      BY <1>0 DEF ToRemove, PartialFunction
    <3>3. /\ reload' \in ReloadRecord /\ reload'.at = "next" /\ reload'.wd = NULL
      BY <2>2, <3>1, <3>2, ConfigDirsType DEF ReloadRecord, Idle, NULL
    <3>4. failed' \in BOOLEAN
      BY <1>0, <2>2
    <3>. QED
      BY <1>4, <1>5, <1>7, <2>2, <3>3, <3>4
  <2>3. CASE RemoveNext
    <3>1. PICK f \in reload.remove :
            \/ Get(dirs, f) = NULL /\ failed' = TRUE /\ UNCHANGED reload
            \/ /\ Get(dirs, f) # NULL /\ UNCHANGED failed
               /\ reload' = [reload EXCEPT !.at = "rm", !.remove = @ \ {f}, !.wd = Get(dirs, f)]
      BY <2>3
    <3>2. Get(dirs, f) \in Nat
      BY <1>0 DEF Get, NULL, PartialFunction
    <3>3. CASE UNCHANGED reload /\ failed' = TRUE
      BY <1>4, <1>5, <1>6, <2>3, <3>3
    <3>4. CASE /\ Get(dirs, f) # NULL /\ UNCHANGED failed
               /\ reload' = [reload EXCEPT !.at = "rm", !.remove = @ \ {f}, !.wd = Get(dirs, f)]
      <4>1. reload' \in ReloadRecord /\ reload'.at = "rm" /\ reload'.wd = Get(dirs, f)
        BY <1>8, <3>2, <3>4 DEF ReloadRecord
      <4>2. ReloadType'
        BY <1>7, <3>4, <4>1
      <4>. QED
        BY <1>0, <1>4, <1>5, <2>3, <3>4, <4>2
    <3>. QED  BY <3>1, <3>3, <3>4
  <2>4. CASE InotifyRm
    <3>1. PartialFunction(watches', Wd, Wd)
      BY <1>0, <2>4, DropMaps DEF MonitorType
    <3>2. MonitorType'
      BY <1>0, <2>4, <3>1 DEF MonitorType, PartialFunction
    <3>3. reload' \in ReloadRecord /\ reload'.at \in {"next", "unget"}
          /\ (reload'.wd # NULL <=> reload'.at = "unget")
      <4>1. reload.wd # NULL /\ reload.at = "rm"
        BY <1>0, <2>4 DEF ReloadType
      <4>2. CASE reload' = [reload EXCEPT !.at = "next", !.wd = NULL]
        BY <1>8, <4>2 DEF ReloadRecord, NULL
      <4>3. CASE reload' = [reload EXCEPT !.at = "unget"]
        BY <1>8, <4>1, <4>3 DEF ReloadRecord
      <4>. QED  BY <2>4, <4>2, <4>3
    <3>. QED
      BY <1>0, <1>5, <1>7, <2>4, <3>2, <3>3
  <2>5. CASE GetPath
    <3>1. failed' \in BOOLEAN
      <4>. DEFINE absent == reload.wd \notin DOMAIN table
      <4>1. failed' = (failed \/ absent)
        BY <2>5
      <4>. QED  BY <4>1
    <3>2. CASE reload.wd \in DOMAIN table
      <4>1. table[reload.wd] \in Folder
        BY <1>0, <3>2 DEF MonitorType, PartialFunction
      <4>2. reload' = [reload EXCEPT !.at = "unname", !.dir = table[reload.wd]]
        BY <2>5, <3>2
      <4>3. /\ reload' \in ReloadRecord /\ reload'.at = "unname" /\ reload'.dir \in Folder
            /\ reload'.wd # NULL
        BY <1>0, <1>8, <2>5, <4>1, <4>2 DEF ReloadRecord, ReloadType
      <4>4. ReloadType'
        BY <1>7, <4>3
      <4>. QED
        BY <1>0, <1>4, <1>5, <2>5, <3>1, <4>4
    <3>3. CASE reload.wd \notin DOMAIN table
      BY <1>0, <1>4, <1>5, <1>6, <2>5, <3>1, <3>3
    <3>. QED  BY <3>2, <3>3
  <2>6. CASE DropFilename
    <3>1. PartialFunction(filenames', Folder, Wd)
      BY <1>0, <2>6, DropMaps DEF MonitorType
    <3>2. MonitorType'
      BY <1>0, <2>6, <3>1 DEF MonitorType, PartialFunction
    <3>3. reload' \in ReloadRecord /\ reload'.at = "untable" /\ reload'.wd # NULL
      BY <1>0, <1>8, <2>6 DEF ReloadRecord, ReloadType
    <3>. QED
      BY <1>0, <1>5, <1>7, <2>6, <3>2, <3>3
  <2>7. CASE DropPath
    <3>1. PartialFunction(table', Wd, Folder)
      BY <1>0, <2>7, DropMaps DEF MonitorType
    <3>2. MonitorType'
      BY <1>0, <2>7, <3>1 DEF MonitorType, PartialFunction
    <3>3. reload' \in ReloadRecord /\ reload'.at = "uncall" /\ reload'.wd # NULL
      BY <1>0, <1>8, <2>7 DEF ReloadRecord, ReloadType
    <3>. QED
      BY <1>0, <1>5, <1>7, <2>7, <3>2, <3>3
  <2>8. CASE DropCallback
    <3>1. MonitorType'
      BY <1>0, <2>8 DEF MonitorType, PartialFunction
    <3>2. reload' \in ReloadRecord /\ reload'.at = "next" /\ reload'.wd = NULL
      BY <1>8, <2>8 DEF ReloadRecord, NULL
    <3>. QED
      BY <1>0, <1>5, <1>7, <2>8, <3>1, <3>2
  <2>9. CASE AddNext
    <3>1. PICK p \in reload.add :
            reload' = [reload EXCEPT !.at = "lookup", !.add = @ \ {p}, !.dir = p[2]]
      BY <2>9
    <3>2. p[2] \in Folder
      BY <1>8, <3>1 DEF ReloadRecord, Line
    <3>3. reload' \in ReloadRecord /\ reload'.at = "lookup" /\ reload'.dir = p[2]
          /\ reload'.wd = NULL
      BY <1>0, <1>8, <2>9, <3>1, <3>2 DEF ReloadRecord, ReloadType
    <3>. QED
      BY <1>0, <1>4, <1>5, <1>7, <2>9, <3>2, <3>3
  <2>10. CASE AddNew
    BY <1>0, <1>5, <2>10, ReloadAddTypes
  <2>11. CASE AddDone
    <3>1. reload.dir \in Folder
      BY <1>0, <2>11 DEF ReloadType
    <3>. DEFINE new1 == Put(reload.new, reload.dir, reload.wd)
                new2 == Drop(reload.new, reload.dir)
    <3>2. PICK D \in SUBSET Folder : reload.new \in [D -> Nat]
      BY <1>8, ReloadRecords
    <3>3. new1 \in [D \cup {reload.dir} -> Nat] /\ new2 \in [D \ {reload.dir} -> Nat]
      BY <1>8, <3>2 DEF Put, Drop
    <3>4. /\ new1 \in UNION {[E -> Nat] : E \in SUBSET Folder}
          /\ new2 \in UNION {[E -> Nat] : E \in SUBSET Folder}
      BY <3>1, <3>2, <3>3
    <3>5. \/ reload' = [reload EXCEPT !.at = "next", !.dir = Nowhere, !.wd = NULL, !.new = new1]
          \/ reload' = [reload EXCEPT !.at = "next", !.dir = Nowhere, !.wd = NULL, !.new = new2]
      BY <2>11
    <3>. HIDE DEF new1, new2
    <3>6. reload' \in ReloadRecord /\ reload'.at = "next" /\ reload'.wd = NULL
      <4>1. PICK new \in {new1, new2} :
              reload' = [reload EXCEPT !.at = "next", !.dir = Nowhere, !.wd = NULL, !.new = new]
        BY <3>5
      <4>2. new \in UNION {[E -> Nat] : E \in SUBSET Folder}
        BY <3>4
      <4>. QED  BY <1>8, <4>1, <4>2 DEF ReloadRecord, NULL
    <3>7. failed' \in BOOLEAN
      <4>. DEFINE absent == reload.dir \notin DOMAIN reload.new
      <4>1. failed' = (failed \/ absent)
        BY <2>11
      <4>. QED  BY <4>1
    <3>8. ReloadType'
      BY <1>7, <3>6
    <3>. QED
      BY <1>4, <1>5, <2>11, <3>7, <3>8
  <2>12. CASE EndReload
    <3>1. PartialFunction(dirs', Folder, Nat)
      BY <1>8, <2>12, PartialFunctions DEF ReloadRecord
    <3>2. Idle \in ReloadRecord
      <4>1. Empty \in [{} -> Nat]
        BY DEF Empty
      <4>2. Empty \in UNION {[D -> Nat] : D \in SUBSET Folder}
        BY <4>1
      <4>. QED  BY <4>2 DEF Idle, ReloadRecord, NULL
    <3>3. ReloadType'
      BY <2>12, <3>2, ReloadRecords DEF ReloadType, Idle
    <3>. QED
      BY <1>0, <1>4, <2>12, <3>1, <3>3 DEF PartialFunction
  <2>. HIDE DEF ReloadType
  <2>. QED
    BY <2>1, <2>2, <2>3, <2>4, <2>5, <2>6, <2>7, <2>8, <2>9, <2>10, <2>11, <2>12
<1>. QED
  BY <1>2, <1>3, <1>9 DEF TypeOK

\* Type correctness, for all folders, environments and bounds.
THEOREM TypeCorrect == Spec => []TypeOK
<1>1. Init => TypeOK
  <2>. SUFFICES ASSUME Init PROVE TypeOK
    OBVIOUS
  <2>. USE DEF Init
  <2>1. onDisk \in [Folder -> Wd \cup {Nowhere}]
    <3>1. Cardinality(Folder) \in Nat
      BY EnvAssumption, FS_CardinalityType
    <3>. QED  BY <3>1 DEF Wd
  <2>2. \A S, T : PartialFunction(Empty, S, T)
    BY DEF PartialFunction, Empty
  <2>3. Idle \in ReloadRecord
    <3>1. Empty \in [{} -> Nat]
      BY DEF Empty
    <3>2. Empty \in UNION {[D -> Nat] : D \in SUBSET Folder}
      BY <3>1
    <3>. QED  BY <3>2 DEF Idle, ReloadRecord, NULL
  <2>4. ReloadType
    BY <2>3, ReloadRecords DEF ReloadType, Idle, Adding, HasWd, Removing
  <2>5. MainType
    <3>1. main = [at |-> "dirs", todo |-> {}, dir |-> Nowhere, wd |-> 0]
      BY DEF NULL
    <3>. QED  BY <3>1 DEF MainType, MainRecord, Adding, HasWd, NULL
  <2>6. UserType
    <3>1. 0 \in 0 .. MaxChanges
      BY EnvAssumption
    <3>. QED  BY <2>1, <3>1 DEF UserType
  <2>7. MonitorType
    BY <2>2 DEF MonitorType, Wd
  <2>. QED
    <3>1. events \in Seq({"closewrite", "move"})
      OBVIOUS
    <3>3. failed \in BOOLEAN
      OBVIOUS
    <3>2. PartialFunction(dirs, Folder, Nat)
      BY <2>2
    <3>. HIDE DEF Init
    <3>. QED  BY <2>4, <2>5, <2>6, <2>7, <3>1, <3>2, <3>3 DEF TypeOK
<1>2. TypeOK /\ [Next]_vars => TypeOK'
  <2>. SUFFICES ASSUME TypeOK, [Next]_vars PROVE TypeOK'
    OBVIOUS
  <2>1. CASE UNCHANGED vars
    BY <2>1 DEF vars, user, monitor, TypeOK, UserType, MonitorType, MainType, ReloadType,
                PartialFunction
  <2>. QED
    BY <2>1, MainTypes, ReloadTypes, UserTypes DEF Next
<1>. QED
  BY <1>1, <1>2, PTL DEF Spec

-----------------------------------------------------------------------------
\* The kernel's watches and the tables.  A wd that is in filenames, in dirs, in
\* the new table of a reload, or in the hand of a thread that has put its path,
\* was given out by the kernel, and has its path as long as it is a watch.
Assigned(w) == w < nextWd /\ (w \in DOMAIN watches => w \in DOMAIN table)

InHand(at, wd) ==
  /\ at = "table" => wd < nextWd
  /\ at \in {"callbacks", "filename", "added", "rm"} => Assigned(wd)

WatchesOld == \A w \in DOMAIN watches : w < nextWd

FilenamesAssigned == \A f \in DOMAIN filenames : Assigned(filenames[f])

DirsAssigned ==
  /\ \A f \in DOMAIN dirs : Assigned(dirs[f])
  /\ \A f \in DOMAIN reload.new : Assigned(reload.new[f])

BeingRemoved ==
  /\ reload.at \in Removing \ {"rm"} =>
       reload.wd < nextWd /\ reload.wd \notin DOMAIN watches

KnownInv ==
  /\ WatchesKnown
  /\ WatchesOld
  /\ FilenamesAssigned
  /\ DirsAssigned
  /\ InHand(main.at, main.wd)
  /\ InHand(reload.at, reload.wd)
  /\ BeingRemoved

\* No step takes the path of a watch, or gives out a wd twice.
Kept ==
  /\ nextWd <= nextWd'
  /\ \A w \in Nat : w < nextWd /\ w \notin DOMAIN watches => w \notin DOMAIN watches'
  /\ \A w \in DOMAIN table : w \in DOMAIN table' \/ w \notin DOMAIN watches

LEMMA KeptAssigned ==
  ASSUME TypeOK, TypeOK', Kept
  PROVE  /\ \A w \in Nat : Assigned(w) => Assigned(w)'
         /\ \A w \in Nat : w < nextWd => w < nextWd'
<1>1. nextWd \in Nat /\ nextWd' \in Nat
  BY DEF TypeOK, MonitorType, Wd
<1>. QED  BY <1>1 DEF Kept, Assigned

LEMMA Unassigned ==
  ASSUME TypeOK
  PROVE  Assigned(NULL)
BY DEF TypeOK, MonitorType, PartialFunction, Wd, NULL, Assigned

LEMMA InHandKept ==
  ASSUME TypeOK, TypeOK', Kept, NEW at, NEW wd \in Nat, InHand(at, wd)
  PROVE  InHand(at, wd)'
BY KeptAssigned DEF InHand

LEMMA AddKnown ==
  ASSUME TypeOK, TypeOK', WatchesOld, FilenamesAssigned,
         NEW at, NEW wd \in Nat, NEW dir \in Folder, NEW at2, NEW wd2 \in Nat,
         AddEffect(at, wd, dir, at2, wd2), InHand(at, wd)
  PROVE  /\ Kept /\ WatchesOld' /\ FilenamesAssigned' /\ InHand(at2, wd2)'
         /\ DOMAIN table \subseteq DOMAIN table' /\ callbacks \subseteq callbacks'
         /\ \A w \in DOMAIN watches' : w \in DOMAIN watches \/ (at2 = "table" /\ wd2 = w)
         /\ at = "table" => at2 = "callbacks" /\ wd2 = wd /\ wd \in DOMAIN table'
         /\ at = "callbacks" => wd \in callbacks'
<1>1. /\ nextWd \in Wd /\ \A w \in DOMAIN watches : w \in Wd
      /\ \A f \in DOMAIN filenames : f \in Folder /\ filenames[f] \in Wd
  BY DEF TypeOK, MonitorType, PartialFunction
<1>2. CASE at \in {"lookup", "watch"} /\ at2 \in {"added", "watch", "refused"}
           /\ UNCHANGED monitor
  <2>1. /\ Kept /\ WatchesOld' /\ FilenamesAssigned'
    BY <1>1, <1>2 DEF Kept, WatchesOld, FilenamesAssigned, Assigned, monitor, Wd
  <2>2. \/ at2 = "added" /\ dir \in DOMAIN filenames /\ wd2 = filenames[dir]
        \/ at2 \in {"watch", "refused"}
    BY <1>2 DEF AddEffect
  <2>3. InHand(at2, wd2)'
    BY <1>2, <2>2 DEF InHand, FilenamesAssigned, Assigned, monitor
  <2>. QED  BY <1>2, <2>1, <2>3 DEF monitor
<1>3. CASE /\ at = "watch" /\ at2 = "table" /\ wd2 = WdFor(dir) /\ onDisk[dir] # Nowhere
           /\ watches' = Put(watches, WdFor(dir), onDisk[dir])
           /\ nextWd' = IF WdFor(dir) = nextWd THEN nextWd + 1 ELSE nextWd
           /\ UNCHANGED <<table, callbacks, filenames>>
  <2>1. WdFor(dir) \in DOMAIN watches \/ WdFor(dir) = nextWd
    BY DEF WdFor
  <2>2. /\ DOMAIN watches' = DOMAIN watches \cup {WdFor(dir)}
        /\ nextWd' \in Wd /\ nextWd <= nextWd' /\ WdFor(dir) < nextWd'
    BY <1>1, <1>3, <2>1 DEF Put, Wd, WatchesOld
  <2>3. Kept
    BY <1>1, <1>3, <2>1, <2>2 DEF Kept, Wd
  <2>4. WatchesOld'
    BY <1>1, <2>2 DEF WatchesOld, Wd
  <2>5. FilenamesAssigned'
    BY <1>1, <1>3, <2>3, KeptAssigned DEF FilenamesAssigned, Wd
  <2>6. InHand(at2, wd2)'
    BY <1>3, <2>2 DEF InHand
  <2>. QED  BY <1>3, <2>2, <2>3, <2>4, <2>5, <2>6
<1>4. CASE /\ at = "table" /\ at2 = "callbacks" /\ wd2 = wd
           /\ table' = Put(table, wd, dir)
           /\ UNCHANGED <<watches, nextWd, callbacks, filenames>>
  <2>1. DOMAIN table' = DOMAIN table \cup {wd}
    BY <1>4 DEF Put
  <2>2. Kept
    BY <1>1, <1>4, <2>1 DEF Kept, Wd
  <2>3. FilenamesAssigned' /\ WatchesOld'
    BY <1>1, <1>4, <2>2, KeptAssigned DEF FilenamesAssigned, WatchesOld, Wd
  <2>4. InHand(at2, wd2)'
    BY <1>4, <2>1 DEF InHand, Assigned
  <2>. QED  BY <1>4, <2>1, <2>2, <2>3, <2>4
<1>5. CASE /\ at = "callbacks" /\ at2 = "filename" /\ wd2 = wd
           /\ callbacks' = callbacks \cup {wd}
           /\ UNCHANGED <<watches, nextWd, table, filenames>>
  BY <1>1, <1>5 DEF Kept, FilenamesAssigned, WatchesOld, InHand, Assigned, Wd
<1>6. CASE /\ at = "filename" /\ at2 = "added" /\ wd2 = wd
           /\ filenames' = Put(filenames, dir, wd)
           /\ UNCHANGED <<watches, nextWd, table, callbacks>>
  <2>1. FilenamesAssigned'
    BY <1>6 DEF FilenamesAssigned, InHand, Assigned, Put
  <2>. QED
    BY <1>1, <1>6, <2>1 DEF Kept, WatchesOld, InHand, Assigned, Wd
<1>. QED
  BY <1>2, <1>3, <1>4, <1>5, <1>6 DEF AddEffect

LEMMA MainKnown ==
  ASSUME TypeOK, TypeOK', KnownInv, MainThread
  PROVE  KnownInv'
<1>1. UNCHANGED reload
  BY DEF MainThread, ReadDirs, WatchConfig, PutNull, AddWatch, PutWd, Refused, Started
<1>2. /\ main \in MainRecord /\ main.wd \in Nat /\ main'.wd \in Nat /\ reload.wd \in Nat
      /\ (main.wd # NULL <=> main.at \in HasWd)
      /\ \A d \in DOMAIN dirs : dirs[d] \in Nat
      /\ \A f \in DOMAIN reload.new : reload.new[f] \in Nat
  BY DEF TypeOK, MainType, MainRecord, ReloadType, PartialFunction
<1>3. CASE AddWatch
  <2>1. /\ AddEffect(main.at, main.wd, main.dir, main'.at, main'.wd)
        /\ main.dir \in Folder /\ UNCHANGED dirs
    BY <1>3, MainAdds DEF AddWatch
  <2>2. /\ Kept /\ WatchesOld' /\ FilenamesAssigned' /\ InHand(main.at, main.wd)'
        /\ DOMAIN table \subseteq DOMAIN table' /\ callbacks \subseteq callbacks'
        /\ \A w \in DOMAIN watches' : w \in DOMAIN watches \/ (main'.at = "table" /\ main'.wd = w)
        /\ main.at = "table" => main'.at = "callbacks" /\ main'.wd = main.wd
                                /\ main.wd \in DOMAIN table'
        /\ main.at = "callbacks" => main.wd \in callbacks'
    BY <1>2, <2>1, AddKnown DEF KnownInv
  <2>3. WatchesKnown'
    BY <1>1, <2>2 DEF KnownInv, WatchesKnown, AddedAt
  <2>4. DirsAssigned'
    BY <1>1, <1>2, <2>1, <2>2, KeptAssigned DEF KnownInv, DirsAssigned
  <2>5. InHand(reload.at, reload.wd)'
    BY <1>1, <1>2, <2>2, InHandKept DEF KnownInv
  <2>6. BeingRemoved'
    BY <1>1, <1>2, <2>2, KeptAssigned DEF KnownInv, BeingRemoved, Kept
  <2>. QED  BY <2>2, <2>3, <2>4, <2>5, <2>6 DEF KnownInv
<1>4. ASSUME UNCHANGED monitor, DirsAssigned', InHand(main.at, main.wd)',
             main.at \notin {"table", "callbacks"}
      PROVE  KnownInv'
  <2>1. WatchesKnown' /\ WatchesOld' /\ FilenamesAssigned' /\ BeingRemoved'
    BY <1>1, <1>4 DEF KnownInv, WatchesKnown, AddedAt, WatchesOld, FilenamesAssigned, Assigned,
                      BeingRemoved, monitor
  <2>2. InHand(reload.at, reload.wd)'
    BY <1>1, <1>4 DEF KnownInv, InHand, Assigned, monitor
  <2>. QED  BY <1>4, <2>1, <2>2 DEF KnownInv
<1>5. ASSUME UNCHANGED <<monitor, dirs>> PROVE DirsAssigned'
  BY <1>1, <1>5 DEF KnownInv, DirsAssigned, Assigned, monitor
<1>6. CASE ReadDirs \/ WatchConfig \/ Refused \/ Started
  <2>1. main'.at \in {"config", "cfgtable", "cfgcall", "put", "run"} /\ UNCHANGED <<monitor, dirs>>
        /\ main.at \notin {"table", "callbacks"}
    BY <1>2, <1>6 DEF ReadDirs, WatchConfig, Refused, Started, MainRecord
  <2>2. InHand(main.at, main.wd)'
    BY <2>1 DEF InHand
  <2>. QED  BY <1>4, <1>5, <2>1, <2>2
<1>7. CASE PutNull
  <2>1. PICK p \in main.todo :
          /\ dirs' = Put(dirs, p[2], NULL)
          /\ main' = [main EXCEPT !.at = "lookup", !.todo = @ \ {p}, !.dir = p[2]]
    BY <1>7 DEF PutNull
  <2>2. UNCHANGED monitor /\ main.at = "put" /\ main'.at = "lookup"
    BY <1>2, <1>7, <2>1 DEF PutNull, MainRecord
  <2>3. DirsAssigned'
    BY <1>1, <2>1, <2>2, Unassigned DEF KnownInv, DirsAssigned, Assigned, monitor, Put
  <2>4. InHand(main.at, main.wd)'
    BY <2>2 DEF InHand
  <2>. QED  BY <1>4, <2>2, <2>3, <2>4
<1>8. CASE PutWd
  <2>1. UNCHANGED monitor /\ main.at = "added" /\ main'.at = "put"
        /\ dirs' = Put(dirs, main.dir, main.wd)
    BY <1>2, <1>8 DEF PutWd, MainRecord
  <2>2. DirsAssigned'
    BY <1>1, <2>1 DEF KnownInv, InHand, DirsAssigned, Assigned, monitor, Put
  <2>3. InHand(main.at, main.wd)'
    BY <2>1 DEF InHand
  <2>. QED  BY <1>4, <2>1, <2>2, <2>3
<1>. QED
  BY <1>3, <1>6, <1>7, <1>8 DEF MainThread

LEMMA ReloadKnown ==
  ASSUME TypeOK, TypeOK', KnownInv, MonitorThread
  PROVE  KnownInv' /\ (GetPath => failed' = failed)
<1>1. UNCHANGED main
  BY DEF MonitorThread, EventWithoutPath, IgnoreEvent, StartReload, RemoveWatch, RemoveNext,
         InotifyRm, GetPath, DropFilename, DropPath, DropCallback, AddNext, AddNew,
         AddDone, EndReload
<1>2. /\ reload \in ReloadRecord /\ main.wd \in Nat /\ reload'.wd \in Nat /\ reload.wd \in Nat
      /\ (reload.wd # NULL <=> reload.at \in HasWd \cup Removing)
      /\ \A d \in DOMAIN dirs : dirs[d] \in Nat
      /\ \A f \in DOMAIN reload.new : reload.new[f] \in Nat
      /\ DOMAIN watches \subseteq Nat
  BY ReloadRecords DEF TypeOK, MainType, MainRecord, ReloadType, MonitorType, PartialFunction, Wd
<1>. USE DEF Removing
<1>3. CASE AddNew
  <2>1. /\ AddEffect(reload.at, reload.wd, reload.dir, reload'.at, reload'.wd)
        /\ reload.dir \in Folder /\ UNCHANGED dirs /\ reload'.new = reload.new
    BY <1>3, ReloadAdds DEF AddNew
  <2>2. /\ Kept /\ WatchesOld' /\ FilenamesAssigned' /\ InHand(reload.at, reload.wd)'
        /\ DOMAIN table \subseteq DOMAIN table' /\ callbacks \subseteq callbacks'
        /\ \A w \in DOMAIN watches' :
             w \in DOMAIN watches \/ (reload'.at = "table" /\ reload'.wd = w)
        /\ reload.at = "table" => reload'.at = "callbacks" /\ reload'.wd = reload.wd
                                  /\ reload.wd \in DOMAIN table'
        /\ reload.at = "callbacks" => reload.wd \in callbacks'
    BY <1>2, <2>1, AddKnown DEF KnownInv
  <2>3. reload'.at \notin Removing
    BY <2>1 DEF AddEffect
  <2>4. WatchesKnown'
    BY <1>1, <2>2, <2>3 DEF KnownInv, WatchesKnown, AddedAt
  <2>5. DirsAssigned'
    BY <1>2, <2>1, <2>2, KeptAssigned DEF KnownInv, DirsAssigned
  <2>6. InHand(main.at, main.wd)'
    BY <1>1, <1>2, <2>2, InHandKept DEF KnownInv
  <2>7. BeingRemoved'
    BY <2>3 DEF BeingRemoved
  <2>. QED  BY <1>3, <2>1, <2>2, <2>4, <2>5, <2>6, <2>7 DEF KnownInv, AddEffect, GetPath
<1>4. ASSUME UNCHANGED <<watches, nextWd, table, callbacks>>, FilenamesAssigned', DirsAssigned',
             InHand(reload.at, reload.wd)',
             reload.at \notin {"table", "callbacks"}, reload'.at # "unget", BeingRemoved'
      PROVE  KnownInv'
  <2>1. WatchesKnown' /\ WatchesOld'
    BY <1>1, <1>4 DEF KnownInv, WatchesKnown, AddedAt, WatchesOld
  <2>2. InHand(main.at, main.wd)'
    BY <1>1, <1>4 DEF KnownInv, InHand, Assigned
  <2>. QED  BY <1>4, <2>1, <2>2 DEF KnownInv
<1>5. ASSUME UNCHANGED monitor
      PROVE  /\ FilenamesAssigned'
             /\ UNCHANGED dirs /\ reload'.new = reload.new => DirsAssigned'
             /\ \A w : Assigned(w) => Assigned(w)'
  BY <1>5 DEF KnownInv, FilenamesAssigned, DirsAssigned, Assigned, monitor
<1>6. CASE EventWithoutPath \/ IgnoreEvent
  <2>1. UNCHANGED <<monitor, dirs, reload>> /\ reload.at = "idle"
    BY <1>6 DEF EventWithoutPath, IgnoreEvent, NextEvent
  <2>. QED
    BY <1>4, <1>5, <2>1 DEF InHand, BeingRemoved, GetPath, monitor
<1>7. CASE StartReload
  <2>1. /\ UNCHANGED <<monitor, dirs>> /\ reload'.at = "next" /\ reload.at = "idle"
        /\ reload'.new = [f \in Folders(ConfigDirs) |->
             IF f \in Folders(ConfigDirs) \cap DOMAIN dirs THEN dirs[f] ELSE NULL]
    BY <1>7 DEF StartReload, NextEvent, Idle
  <2>2. DirsAssigned'
    BY <1>5, <2>1, Unassigned DEF KnownInv, DirsAssigned
  <2>. QED
    BY <1>4, <1>5, <2>1, <2>2 DEF InHand, BeingRemoved, GetPath, monitor
<1>8. CASE RemoveNext
  <2>1. PICK f \in reload.remove :
          \/ Get(dirs, f) = NULL /\ UNCHANGED reload
          \/ reload' = [reload EXCEPT !.at = "rm", !.remove = @ \ {f}, !.wd = Get(dirs, f)]
    BY <1>8 DEF RemoveNext
  <2>2. Assigned(Get(dirs, f))
    BY Unassigned DEF KnownInv, DirsAssigned, Get
  <2>3. UNCHANGED <<monitor, dirs>> /\ reload.at = "next" /\ reload'.new = reload.new
        /\ (reload'.at = "next" \/ (reload'.at = "rm" /\ reload'.wd = Get(dirs, f)))
    BY <1>2, <1>8, <2>1 DEF RemoveNext, ReloadRecord
  <2>4. InHand(reload.at, reload.wd)'
    BY <1>5, <2>2, <2>3 DEF InHand
  <2>. QED
    BY <1>4, <1>5, <2>3, <2>4 DEF BeingRemoved, GetPath, monitor
<1>9. CASE InotifyRm
  <2>1. /\ UNCHANGED <<nextWd, table, callbacks, filenames, dirs>> /\ reload.at = "rm"
        /\ reload'.new = reload.new
        /\ \/ reload'.at = "next" /\ UNCHANGED watches
           \/ /\ reload'.at = "unget" /\ reload'.wd = reload.wd /\ reload.wd \in DOMAIN watches
              /\ DOMAIN watches' = DOMAIN watches \ {reload.wd}
    BY <1>2, <1>9 DEF InotifyRm, ReloadRecord, Drop
  <2>2. \A w : Assigned(w) => Assigned(w)'
    BY <2>1 DEF Assigned
  <2>3. Assigned(reload.wd)
    BY <2>1 DEF KnownInv, InHand
  <2>4. WatchesKnown' /\ WatchesOld'
    BY <1>1, <2>1, <2>3 DEF KnownInv, WatchesKnown, AddedAt, WatchesOld, Assigned
  <2>5. BeingRemoved'
    BY <2>1, <2>3 DEF BeingRemoved, Assigned
  <2>6. FilenamesAssigned' /\ DirsAssigned'
    BY <2>1, <2>2 DEF KnownInv, FilenamesAssigned, DirsAssigned
  <2>7. InHand(main.at, main.wd)' /\ InHand(reload.at, reload.wd)'
    BY <1>1, <2>1, <2>2 DEF KnownInv, InHand
  <2>. QED  BY <2>1, <2>4, <2>5, <2>6, <2>7 DEF KnownInv, GetPath
<1>10. CASE GetPath
  <2>1. reload.wd \in DOMAIN table /\ reload.at = "unget"
    BY <1>10 DEF GetPath, KnownInv, WatchesKnown
  <2>2. /\ UNCHANGED <<monitor, dirs, failed>> /\ reload'.new = reload.new
        /\ reload'.at = "unname" /\ reload'.wd = reload.wd
    <3>1. reload' = [reload EXCEPT !.at = "unname", !.dir = table[reload.wd]]
      BY <1>10, <2>1 DEF GetPath
    <3>2. failed' = failed
      <4>. DEFINE absent == reload.wd \notin DOMAIN table
      <4>1. failed' = (failed \/ absent) /\ ~absent
        BY <1>10, <2>1 DEF GetPath
      <4>2. failed \in BOOLEAN
        BY DEF TypeOK
      <4>. QED  BY <4>1, <4>2
    <3>. QED  BY <1>2, <1>10, <3>1, <3>2 DEF ReloadRecord, GetPath
  <2>3. BeingRemoved'
    BY <2>1, <2>2 DEF KnownInv, BeingRemoved, monitor
  <2>. QED
    BY <1>4, <1>5, <2>1, <2>2, <2>3 DEF InHand, monitor
<1>11. CASE DropFilename
  <2>1. /\ UNCHANGED <<watches, nextWd, table, callbacks, dirs>> /\ reload.at = "unname"
        /\ filenames' = Drop(filenames, reload.dir) /\ reload'.new = reload.new
        /\ reload'.at = "untable" /\ reload'.wd = reload.wd
    BY <1>2, <1>11 DEF DropFilename, ReloadRecord
  <2>2. FilenamesAssigned' /\ DirsAssigned'
    BY <2>1 DEF KnownInv, FilenamesAssigned, DirsAssigned, Assigned, Drop
  <2>3. BeingRemoved'
    BY <2>1 DEF KnownInv, BeingRemoved
  <2>. QED
    BY <1>4, <2>1, <2>2, <2>3 DEF InHand, GetPath
<1>12. CASE DropPath
  <2>1. /\ UNCHANGED <<watches, nextWd, callbacks, filenames, dirs>> /\ reload.at = "untable"
        /\ DOMAIN table' = DOMAIN table \ {reload.wd} /\ reload'.new = reload.new
        /\ reload'.at = "uncall" /\ reload'.wd = reload.wd
    BY <1>2, <1>12 DEF DropPath, ReloadRecord, Drop
  <2>2. reload.wd \notin DOMAIN watches /\ reload.wd < nextWd
    BY <2>1 DEF KnownInv, BeingRemoved
  <2>3. \A w : Assigned(w) => Assigned(w)'
    BY <2>1, <2>2 DEF Assigned
  <2>4. WatchesKnown' /\ WatchesOld'
    BY <1>1, <2>1, <2>2 DEF KnownInv, WatchesKnown, AddedAt, WatchesOld
  <2>5. FilenamesAssigned' /\ DirsAssigned' /\ BeingRemoved'
    BY <2>1, <2>2, <2>3 DEF KnownInv, FilenamesAssigned, DirsAssigned, BeingRemoved
  <2>6. InHand(main.at, main.wd)' /\ InHand(reload.at, reload.wd)'
    BY <1>1, <2>1, <2>3 DEF KnownInv, InHand
  <2>. QED  BY <2>1, <2>4, <2>5, <2>6 DEF KnownInv, GetPath
<1>13. CASE DropCallback
  <2>1. /\ UNCHANGED <<watches, nextWd, table, filenames, dirs>> /\ reload.at = "uncall"
        /\ callbacks' = callbacks \ {reload.wd} /\ reload'.new = reload.new
        /\ reload'.at = "next"
    BY <1>2, <1>13 DEF DropCallback, ReloadRecord
  <2>2. reload.wd \notin DOMAIN watches
    BY <2>1 DEF KnownInv, BeingRemoved
  <2>3. WatchesKnown' /\ WatchesOld' /\ FilenamesAssigned' /\ DirsAssigned' /\ BeingRemoved'
    BY <1>1, <2>1, <2>2 DEF KnownInv, WatchesKnown, AddedAt, WatchesOld, FilenamesAssigned,
                            DirsAssigned, Assigned, BeingRemoved
  <2>4. InHand(main.at, main.wd)' /\ InHand(reload.at, reload.wd)'
    BY <1>1, <2>1 DEF KnownInv, InHand, Assigned
  <2>. QED  BY <2>1, <2>3, <2>4 DEF KnownInv, GetPath
<1>14. CASE AddNext
  <2>1. /\ UNCHANGED <<monitor, dirs>> /\ reload.at = "next" /\ reload'.new = reload.new
        /\ reload'.at = "lookup"
    BY <1>2, <1>14 DEF AddNext, ReloadRecord
  <2>. QED
    BY <1>4, <1>5, <2>1 DEF InHand, BeingRemoved, GetPath, monitor
<1>15. CASE AddDone
  <2>1. /\ UNCHANGED <<monitor, dirs>> /\ reload.at \in {"added", "refused"} /\ reload'.at = "next"
        /\ \/ reload.at = "added" /\ reload'.new = Put(reload.new, reload.dir, reload.wd)
           \/ reload'.new = Drop(reload.new, reload.dir)
    BY <1>2, <1>15 DEF AddDone, ReloadRecord
  <2>2. DirsAssigned'
    <3>1. CASE reload.at = "added" /\ reload'.new = Put(reload.new, reload.dir, reload.wd)
      <4>1. Assigned(reload.wd)
        BY <3>1 DEF KnownInv, InHand
      <4>. QED  BY <1>5, <2>1, <3>1, <4>1 DEF KnownInv, DirsAssigned, Put
    <3>2. CASE reload'.new = Drop(reload.new, reload.dir)
      BY <1>5, <2>1, <3>2 DEF KnownInv, DirsAssigned, Drop
    <3>. QED  BY <2>1, <3>1, <3>2
  <2>. QED
    BY <1>4, <1>5, <2>1, <2>2 DEF InHand, BeingRemoved, GetPath, monitor
<1>16. CASE EndReload
  <2>1. /\ UNCHANGED monitor /\ reload.at = "next" /\ reload'.at = "idle"
        /\ dirs' = reload.new /\ DOMAIN reload'.new = {}
    BY <1>16 DEF EndReload, Idle, Empty
  <2>2. DirsAssigned'
    BY <1>5, <2>1 DEF KnownInv, DirsAssigned
  <2>. QED
    BY <1>4, <1>5, <2>1, <2>2 DEF InHand, BeingRemoved, GetPath, monitor
<1>. QED
  BY <1>3, <1>6, <1>7, <1>8, <1>9, <1>10, <1>11, <1>12, <1>13, <1>14, <1>15, <1>16
     DEF MonitorThread, RemoveWatch

LEMMA UsersKnown ==
  ASSUME KnownInv, Users
  PROVE  KnownInv'
<1>1. UNCHANGED <<nextWd, table, callbacks, filenames, dirs, main, reload>>
      /\ DOMAIN watches' \subseteq DOMAIN watches
  BY DEF Users, EditStart, EditEnd, Ufactl, DeleteFolder, CreateFolder, RenameFolder, monitor
<1>2. WatchesKnown' /\ WatchesOld' /\ FilenamesAssigned' /\ DirsAssigned' /\ BeingRemoved'
  BY <1>1 DEF KnownInv, WatchesKnown, AddedAt, WatchesOld, FilenamesAssigned, DirsAssigned,
              Assigned, BeingRemoved
<1>3. InHand(main.at, main.wd)' /\ InHand(reload.at, reload.wd)'
  BY <1>1 DEF KnownInv, InHand, Assigned
<1>. QED  BY <1>2, <1>3 DEF KnownInv

LEMMA KnownHolds == Spec => []KnownInv
<1>1. Init => KnownInv
  <2>. SUFFICES ASSUME Init PROVE KnownInv
    OBVIOUS
  <2>1. /\ DOMAIN watches = {} /\ DOMAIN filenames = {} /\ DOMAIN dirs = {}
        /\ main.at = "dirs" /\ reload.at = "idle" /\ DOMAIN reload.new = {}
    BY DEF Init, Empty, Idle
  <2>. QED
    BY <2>1 DEF KnownInv, WatchesKnown, WatchesOld, FilenamesAssigned, DirsAssigned, InHand,
                BeingRemoved, Removing
<1>2. TypeOK /\ TypeOK' /\ KnownInv /\ [Next]_vars => KnownInv'
  <2>1. ASSUME KnownInv, UNCHANGED vars PROVE KnownInv'
    BY <2>1 DEF vars, monitor, KnownInv, WatchesKnown, AddedAt, WatchesOld, FilenamesAssigned,
                DirsAssigned, InHand, Assigned, BeingRemoved
  <2>. QED  BY <2>1, MainKnown, ReloadKnown, UsersKnown DEF Next
<1>. QED
  BY <1>1, <1>2, TypeCorrect, PTL DEF Spec

\* Whatever users and the kernel do, and however the two threads of the daemon
\* interleave, a watch of the kernel lacks its path only until the thread that
\* added it puts it, and its callback likewise; and assert(filename != NULL) in
\* ufa_monitor_remove_watcher cannot fail: no watch that a reload removes has
\* lost its path, and no wd is given out a second time.
THEOREM WatchesAlwaysKnown == Spec => []WatchesKnown
BY KnownHolds, PTL DEF KnownInv

-----------------------------------------------------------------------------
\* The assertions, when the start is left alone, folders stay where they are
\* and inotify_add_watch succeeds.
Undisturbed == Env \subseteq {"ufactl", "duplicate"}

LEMMA UsersAssert ==
  ASSUME TypeOK, AssertInv, Undisturbed, Users
  PROVE  AssertInv' /\ onDisk' = onDisk
<1>1. ASSUME main.at = "run", UNCHANGED <<onDisk, dirs, main, reload, failed>>
      PROVE  AssertInv'
  BY <1>1 DEF AssertInv, OnlyMainStarts, NullWhileAdded, AddedIsThere, TodoOnDisk,
              ReloadConsistent, AssertionsHold, Adding
<1>2. CASE EditStart
  BY <1>1, <1>2 DEF EditStart, Undisturbed
<1>3. ASSUME NEW l \in Lists, EditEnd(l) PROVE AssertInv' /\ onDisk' = onDisk
  BY <1>1, <1>3 DEF EditEnd, AssertInv, OnlyMainStarts
<1>4. ASSUME NEW l \in Lists, Ufactl(l) PROVE AssertInv' /\ onDisk' = onDisk
  BY <1>1, <1>4 DEF Ufactl, Undisturbed
<1>. QED
  BY <1>2, <1>3, <1>4 DEF Users, DeleteFolder, CreateFolder, RenameFolder, Undisturbed

\* No call of ufa_monitor_add_watcher is refused.
LEMMA AddGranted ==
  ASSUME Undisturbed, NEW at, NEW wd, NEW dir, NEW at2, NEW wd2, onDisk[dir] # Nowhere,
         AddEffect(at, wd, dir, at2, wd2)
  PROVE  at \in Adding \ {"refused"} /\ at2 \in Adding \ {"refused"}
BY DEF Undisturbed, AddEffect, Adding

LEMMA MainAssert ==
  ASSUME TypeOK, TypeOK', AssertInv, Undisturbed, MainThread
  PROVE  AssertInv' /\ onDisk' = onDisk
<1>. USE DEF MainThread, ReadDirs, WatchConfig, PutNull, AddWatch, PutWd, Refused, Started
<1>0. main \in MainRecord /\ main.wd \in Nat /\ (main.wd # NULL <=> main.at \in HasWd)
  BY DEF TypeOK, MainType, MainRecord
<1>1. onDisk' = onDisk /\ UNCHANGED <<user, events, reload>>
  BY DEF user
<1>2. main.at # "run"
  BY <1>0, MainAdds DEF Adding
<1>3. reload = Idle /\ ~writing /\ events = <<>>
  BY <1>2 DEF AssertInv, OnlyMainStarts
<1>4. OnlyMainStarts' /\ ReloadConsistent'
  BY <1>1, <1>3 DEF OnlyMainStarts, ReloadConsistent, Idle, Empty, Adding, user
<1>5. CASE ReadDirs
  <2>1. main'.at = "config" /\ main'.todo = ConfigDirs /\ UNCHANGED <<dirs, failed>>
        /\ main.at = "dirs"
    BY <1>0, <1>5 DEF MainRecord
  <2>2. TodoOnDisk'
    BY <1>1, <2>1, ConfigDirsType DEF TodoOnDisk
  <2>. QED
    BY <1>1, <1>4, <2>1, <2>2
       DEF AssertInv, NullWhileAdded, AddedIsThere, AssertionsHold, Adding
<1>6. CASE WatchConfig \/ Started
  <2>1. main'.at \in {"cfgtable", "cfgcall", "put", "run"} /\ main'.todo = main.todo
        /\ UNCHANGED <<dirs, failed>> /\ main.at \in {"config", "cfgtable", "cfgcall", "put"}
    BY <1>0, <1>6 DEF MainRecord
  <2>. QED
    BY <1>1, <1>4, <2>1 DEF AssertInv, NullWhileAdded, AddedIsThere, AssertionsHold,
                            TodoOnDisk, Adding
<1>7. CASE PutNull
  <2>1. PICK p \in main.todo :
          /\ dirs' = Put(dirs, p[2], NULL)
          /\ main' = [main EXCEPT !.at = "lookup", !.todo = @ \ {p}, !.dir = p[2]]
    BY <1>7
  <2>2. /\ main'.at = "lookup" /\ main'.dir = p[2] /\ main'.todo = main.todo \ {p}
        /\ main.at = "put"
    BY <1>0, <1>7, <2>1 DEF MainRecord
  <2>7. failed' = failed
    BY <1>7
  <2>. HIDE DEF MainThread, ReadDirs, WatchConfig, PutNull, AddWatch, PutWd, Refused, Started
  <2>5. onDisk[p[2]] # Nowhere
    BY <2>1 DEF AssertInv, TodoOnDisk
  <2>6. p[2] \in DOMAIN dirs'
    BY <2>1 DEF Put
  <2>3. AddedIsThere' /\ TodoOnDisk'
    <3>1. AddedIsThere'
      BY <1>1, <2>2, <2>5, <2>6 DEF AddedIsThere
    <3>2. TodoOnDisk'
      BY <1>1, <2>2 DEF TodoOnDisk, AssertInv
    <3>. QED  BY <3>1, <3>2
  <2>4. NullWhileAdded'
    BY <2>1, <2>2 DEF NullWhileAdded, AssertInv, Put, Adding
  <2>. QED
    BY <1>1, <1>4, <2>3, <2>4, <2>7 DEF AssertInv, AssertionsHold
<1>8. CASE AddWatch
  <2>1. /\ AddEffect(main.at, main.wd, main.dir, main'.at, main'.wd) /\ main.at \in Adding
        /\ main'.dir = main.dir /\ main'.todo = main.todo /\ UNCHANGED <<dirs, failed>>
    BY <1>8, MainAdds
  <2>2. onDisk[main.dir] # Nowhere /\ main.dir \in DOMAIN dirs
    BY <2>1 DEF AssertInv, AddedIsThere
  <2>3. main'.at \in Adding \ {"refused"}
    BY <2>1, <2>2, AddGranted
  <2>4. NullWhileAdded' /\ AddedIsThere' /\ TodoOnDisk' /\ AssertionsHold'
    BY <1>1, <2>1, <2>2, <2>3
       DEF AssertInv, NullWhileAdded, AddedIsThere, TodoOnDisk, AssertionsHold
  <2>. QED  BY <1>1, <1>4, <2>4 DEF AssertInv
<1>9. CASE PutWd
  <2>1. /\ main'.at = "put" /\ main'.todo = main.todo /\ main.at = "added"
        /\ dirs' = Put(dirs, main.dir, main.wd)
    BY <1>0, <1>9 DEF MainRecord
  <2>2. main.wd # NULL /\ main.dir \in DOMAIN dirs
    BY <1>0, <2>1 DEF AssertInv, AddedIsThere, HasWd, Adding
  <2>3. NullWhileAdded'
    BY <2>1, <2>2 DEF AssertInv, NullWhileAdded, Put
  <2>4. AddedIsThere' /\ TodoOnDisk'
    BY <1>1, <2>1 DEF AssertInv, AddedIsThere, TodoOnDisk, Adding
  <2>5. AssertionsHold'
    <3>. DEFINE absent == main.dir \notin DOMAIN dirs
    <3>1. failed' = (failed \/ absent) /\ ~absent
      BY <1>9, <2>2
    <3>. QED  BY <3>1 DEF AssertInv, AssertionsHold
  <2>. QED  BY <1>1, <1>4, <2>3, <2>4, <2>5 DEF AssertInv
<1>10. CASE Refused
  BY <1>10 DEF AssertInv, AddedIsThere, Adding
<1>. HIDE DEF MainThread, ReadDirs, WatchConfig, PutNull, AddWatch, PutWd, Refused, Started
<1>. QED
  BY <1>1, <1>5, <1>6, <1>7, <1>8, <1>9, <1>10 DEF MainThread

LEMMA ReloadAssert ==
  ASSUME TypeOK, TypeOK', AssertInv, KnownInv, Undisturbed, MonitorThread
  PROVE  AssertInv' /\ onDisk' = onDisk
<1>0. /\ reload \in ReloadRecord /\ reload.wd \in Nat
      /\ (reload.wd # NULL <=> reload.at \in HasWd \cup Removing)
      /\ reload.at = "idle" <=> reload = Idle
  BY ReloadRecords DEF TypeOK, ReloadType, ReloadRecord
<1>1. onDisk' = onDisk /\ UNCHANGED <<user, main>>
  BY DEF MonitorThread, EventWithoutPath, IgnoreEvent, StartReload, RemoveWatch, RemoveNext,
         InotifyRm, GetPath, DropFilename, DropPath, DropCallback, AddNext, AddNew,
         AddDone, EndReload, user
<1>2. main.at = "run"
  <2>1. CASE reload # Idle
    BY <2>1 DEF AssertInv, OnlyMainStarts
  <2>2. CASE \E kind : NextEvent(kind)
    BY <2>2 DEF AssertInv, OnlyMainStarts, NextEvent
  <2>3. CASE AddNew
    <3>1. reload.at \in Adding
      BY <2>3, ReloadAdds DEF AddNew
    <3>. QED  BY <1>0, <2>1, <3>1 DEF Adding
  <2>. QED
    BY <1>0, <2>1, <2>2, <2>3
       DEF MonitorThread, EventWithoutPath, IgnoreEvent, StartReload, RemoveWatch, RemoveNext,
           InotifyRm, GetPath, DropFilename, DropPath, DropCallback, AddNext, AddDone, EndReload
<1>3. OnlyMainStarts' /\ AddedIsThere' /\ TodoOnDisk'
  BY <1>1, <1>2 DEF OnlyMainStarts, AddedIsThere, TodoOnDisk, AssertInv, Adding
<1>4. \A f \in DOMAIN dirs : dirs[f] # NULL
  BY <1>2 DEF AssertInv, NullWhileAdded, Adding
<1>5. ASSUME UNCHANGED dirs PROVE NullWhileAdded'
  BY <1>4, <1>5 DEF NullWhileAdded
\* A step that leaves the lists of the reload as they are, but for a folder it
\* begins to remove.
<1>6. ASSUME UNCHANGED <<dirs, failed>>, reload'.add = reload.add, reload'.new = reload.new,
             reload'.remove \subseteq reload.remove,
             reload.at \in Adding => reload'.at \in Adding \ {"refused"},
             reload'.at \in Adding => reload.at \in Adding /\ reload'.dir = reload.dir
      PROVE  AssertInv'
  <2>1. ReloadConsistent'
    BY <1>1, <1>6 DEF AssertInv, ReloadConsistent, Folders
  <2>. QED
    BY <1>1, <1>3, <1>5, <1>6, <2>1 DEF AssertInv, AssertionsHold
<1>. USE DEF MonitorThread, EventWithoutPath, IgnoreEvent, StartReload, RemoveWatch, RemoveNext,
             InotifyRm, GetPath, DropFilename, DropPath, DropCallback, AddNext, AddNew,
             AddDone, EndReload
<1>7. CASE EventWithoutPath \/ IgnoreEvent
  <2>1. IgnoreEvent
    BY <1>2, <1>7
  <2>. QED
    BY <1>1, <1>3, <1>5, <2>1 DEF AssertInv, ReloadConsistent, AssertionsHold
<1>8. CASE StartReload
  <2>. DEFINE known == Folders(ConfigDirs) \cap DOMAIN dirs
  <2>1. /\ reload'.remove = DOMAIN dirs \ Folders(ConfigDirs) /\ reload'.at = "next"
        /\ reload'.add = {p \in ConfigDirs : p[2] \notin DOMAIN dirs}
        /\ reload'.new = [f \in Folders(ConfigDirs) |-> IF f \in known THEN dirs[f] ELSE NULL]
        /\ UNCHANGED dirs
    BY <1>8 DEF ToRemove, Idle
  <2>2. \A f \in known : dirs[f] # NULL
    BY <1>4
  <2>3. AssertionsHold'
    BY <1>8, <2>2 DEF AssertInv, AssertionsHold
  <2>4. ReloadConsistent'
    <3>1. reload'.remove \subseteq DOMAIN dirs'
      BY <2>1
    <3>2. \A p \in reload'.add : onDisk'[p[2]] # Nowhere /\ p[2] \in DOMAIN reload'.new
      <4>. HIDE DEF EventWithoutPath, IgnoreEvent, StartReload, RemoveNext, InotifyRm, GetPath,
                DropFilename, DropPath, DropCallback, AddNext, AddNew, AddDone, EndReload,
                RemoveWatch, MonitorThread
      <4>1. \A p \in reload'.add : p \in ConfigDirs /\ p[2] \in Folders(ConfigDirs)
        BY <2>1 DEF Folders
      <4>2. DOMAIN reload'.new = Folders(ConfigDirs)
        BY <2>1
      <4>3. \A p \in reload'.add : onDisk[p[2]] # Nowhere
        BY <4>1, ConfigDirsType
      <4>4. onDisk' = onDisk
        BY <1>1
      <4>5. \A p \in reload'.add : p[2] \in DOMAIN reload'.new
        BY <4>1, <4>2
      <4>. HIDE DEF known
      <4>. QED  BY <4>3, <4>4, <4>5
    <3>3. \A f \in DOMAIN reload'.new : reload'.new[f] = NULL => f \in Folders(reload'.add)
      <4>. HIDE DEF EventWithoutPath, IgnoreEvent, StartReload, RemoveNext, InotifyRm, GetPath,
                DropFilename, DropPath, DropCallback, AddNext, AddNew, AddDone, EndReload,
                RemoveWatch, MonitorThread
      <4>1. \A f \in DOMAIN reload'.new :
              reload'.new[f] = NULL => f \in Folders(ConfigDirs) \ DOMAIN dirs
        BY <2>1, <2>2
      <4>2. \A f \in Folders(ConfigDirs) \ DOMAIN dirs : f \in Folders(reload'.add)
        BY <2>1 DEF Folders
      <4>. QED  BY <4>1, <4>2
    <3>. QED  BY <2>1, <3>1, <3>2, <3>3 DEF ReloadConsistent, Adding
  <2>. QED
    BY <1>1, <1>3, <1>5, <2>1, <2>3, <2>4 DEF AssertInv
<1>9. CASE RemoveNext
  <2>1. PICK f \in reload.remove :
          \/ Get(dirs, f) = NULL
          \/ /\ reload' = [reload EXCEPT !.at = "rm", !.remove = @ \ {f}, !.wd = Get(dirs, f)]
             /\ UNCHANGED failed
    BY <1>9
  <2>2. Get(dirs, f) # NULL
    BY <1>4 DEF AssertInv, ReloadConsistent, Get
  <2>3. reload.at = "next" /\ UNCHANGED dirs
    BY <1>9
  <2>4. /\ reload' = [reload EXCEPT !.at = "rm", !.remove = @ \ {f}, !.wd = Get(dirs, f)]
        /\ UNCHANGED failed
    BY <2>1, <2>2
  <2>5. /\ reload'.add = reload.add /\ reload'.new = reload.new
        /\ reload'.remove \subseteq reload.remove /\ reload'.at = "rm"
    <3>. HIDE DEF EventWithoutPath, IgnoreEvent, StartReload, RemoveNext, InotifyRm, GetPath,
                DropFilename, DropPath, DropCallback, AddNext, AddNew, AddDone, EndReload,
                RemoveWatch, MonitorThread
    <3>. QED  BY <1>0, <2>4 DEF ReloadRecord
  <2>. QED
    BY <1>1, <1>6, <2>3, <2>4, <2>5 DEF Adding
<1>10. CASE InotifyRm \/ GetPath \/ DropFilename \/ DropPath \/ DropCallback
  <2>1. failed' = failed
    BY <1>10, ReloadKnown
  <2>2. /\ reload'.add = reload.add /\ reload'.new = reload.new
        /\ reload'.remove = reload.remove /\ reload.at \in Removing
        /\ reload'.at \in Removing \cup {"next"} /\ UNCHANGED dirs
    BY <1>0, <1>10 DEF ReloadRecord, Removing
  <2>. QED
    BY <1>1, <1>6, <2>1, <2>2 DEF Adding, Removing
<1>11. CASE AddNext
  <2>1. PICK p \in reload.add :
          reload' = [reload EXCEPT !.at = "lookup", !.add = @ \ {p}, !.dir = p[2]]
    BY <1>11
  <2>2. /\ reload'.add = reload.add \ {p} /\ reload'.remove = reload.remove
        /\ reload'.new = reload.new /\ reload'.at = "lookup" /\ reload'.dir = p[2]
        /\ reload.at = "next" /\ UNCHANGED <<dirs, failed>>
    BY <1>0, <1>11, <2>1 DEF ReloadRecord
  <2>3. ReloadConsistent'
    <3>. HIDE DEF EventWithoutPath, IgnoreEvent, StartReload, RemoveNext, InotifyRm, GetPath,
                DropFilename, DropPath, DropCallback, AddNext, AddNew, AddDone, EndReload,
                RemoveWatch, MonitorThread
    <3>1. p[2] \in DOMAIN reload.new /\ onDisk[p[2]] # Nowhere
      BY DEF AssertInv, ReloadConsistent
    <3>2. Folders(reload.add) = Folders(reload'.add) \cup {p[2]}
      BY <2>2 DEF Folders
    <3>3. \A f \in DOMAIN reload.new : reload.new[f] = NULL => f \in Folders(reload.add)
      BY <2>2 DEF AssertInv, ReloadConsistent, Adding
    <3>4. reload.remove \subseteq DOMAIN dirs
          /\ \A q \in reload.add : onDisk[q[2]] # Nowhere /\ q[2] \in DOMAIN reload.new
      BY DEF AssertInv, ReloadConsistent
    <3>5. Folders(reload'.add) = Folders(reload.add)'
      BY DEF Folders
    <3>. QED
      BY <1>1, <2>2, <3>1, <3>2, <3>3, <3>4, <3>5 DEF ReloadConsistent, Adding
  <2>. QED
    BY <1>1, <1>3, <1>5, <2>2, <2>3 DEF AssertInv, AssertionsHold
<1>12. CASE AddNew
  <2>1. /\ AddEffect(reload.at, reload.wd, reload.dir, reload'.at, reload'.wd)
        /\ reload.at \in Adding /\ reload'.dir = reload.dir /\ reload'.add = reload.add
        /\ reload'.remove = reload.remove /\ reload'.new = reload.new
        /\ UNCHANGED <<dirs, failed>>
    BY <1>12, ReloadAdds
  <2>2. onDisk[reload.dir] # Nowhere
    BY <2>1 DEF AssertInv, ReloadConsistent
  <2>3. reload'.at \in Adding \ {"refused"}
    BY <2>1, <2>2, AddGranted
  <2>. QED
    BY <1>1, <1>6, <2>1, <2>3
<1>13. CASE AddDone
  <2>1. /\ reload.at = "added" /\ reload.dir \in DOMAIN reload.new /\ onDisk[reload.dir] # Nowhere
    BY <1>13 DEF AssertInv, ReloadConsistent, Adding
  <2>2. /\ reload'.add = reload.add /\ reload'.remove = reload.remove /\ reload'.at = "next"
        /\ reload'.new = Put(reload.new, reload.dir, reload.wd) /\ UNCHANGED dirs
    BY <1>0, <1>13, <2>1 DEF ReloadRecord
  <2>3. reload.wd # NULL
    BY <1>0, <2>1 DEF HasWd
  <2>4. ReloadConsistent'
    BY <1>1, <2>1, <2>2, <2>3 DEF AssertInv, ReloadConsistent, Folders, Put, Adding
  <2>5. AssertionsHold'
    <3>. DEFINE absent == reload.dir \notin DOMAIN reload.new
    <3>1. failed' = (failed \/ absent) /\ ~absent
      BY <1>13, <2>1
    <3>. QED  BY <3>1 DEF AssertInv, AssertionsHold
  <2>. QED
    BY <1>1, <1>3, <1>5, <2>2, <2>4, <2>5 DEF AssertInv
<1>14. CASE EndReload
  <2>1. \A f \in DOMAIN dirs' : dirs'[f] # NULL
    BY <1>14 DEF AssertInv, ReloadConsistent, Folders, Adding
  <2>2. ReloadConsistent'
    BY <1>14 DEF ReloadConsistent, Idle, Empty, Adding
  <2>. QED
    BY <1>1, <1>3, <1>14, <2>1, <2>2 DEF AssertInv, AssertionsHold, NullWhileAdded
<1>. HIDE DEF EventWithoutPath, IgnoreEvent, StartReload, RemoveNext,
              InotifyRm, GetPath, DropFilename, DropPath, DropCallback, AddNext, AddNew,
              AddDone, EndReload
<1>. QED
  BY <1>1, <1>7, <1>8, <1>9, <1>10, <1>11, <1>12, <1>13, <1>14

\* If nobody edits "dirs" while the daemon starts, folders stay on disk and
\* the kernel grants every watch, none of the assertions of start_ufad and
\* reload_config fails, however edits, reloads and duplicate lines interleave.
THEOREM AssertionsCorrect ==
  ASSUME Undisturbed
  PROVE  Spec => []AssertInv
<1>1. Init => AssertInv
  <2>. SUFFICES ASSUME Init PROVE AssertInv
    OBVIOUS
  <2>1. main.at = "dirs" /\ main.todo = {} /\ reload = Idle /\ ~failed /\ DOMAIN dirs = {}
    BY DEF Init, Empty
  <2>. QED
    BY <2>1 DEF Init, AssertInv, OnlyMainStarts, NullWhileAdded, AddedIsThere, TodoOnDisk,
                ReloadConsistent, AssertionsHold, Idle, Empty, Adding
<1>2. TypeOK /\ TypeOK' /\ KnownInv /\ AssertInv /\ [Next]_vars => AssertInv'
  <2>. SUFFICES ASSUME TypeOK, TypeOK', KnownInv, AssertInv, [Next]_vars PROVE AssertInv'
    OBVIOUS
  <2>1. CASE UNCHANGED vars
    BY <2>1 DEF vars, user, AssertInv, OnlyMainStarts, NullWhileAdded, AddedIsThere,
                TodoOnDisk, ReloadConsistent, AssertionsHold
  <2>. QED
    BY <2>1, MainAssert, ReloadAssert, UsersAssert DEF Next
<1>. QED
  BY <1>1, <1>2, TypeCorrect, KnownHolds, PTL DEF Spec

-----------------------------------------------------------------------------
\* The monitor's tables.  When "dirs" is left alone during the start, one
\* thread at a time changes them: the monitor's has nothing to do before.
LEMMA StartAlone ==
  ASSUME "early" \notin Env
  PROVE  Spec => []OnlyMainStarts
<1>1. Init => OnlyMainStarts
  BY DEF Init, OnlyMainStarts
<1>2. TypeOK /\ OnlyMainStarts /\ [Next]_vars => OnlyMainStarts'
  <2>. SUFFICES ASSUME TypeOK, OnlyMainStarts, [Next]_vars PROVE OnlyMainStarts'
    OBVIOUS
  <2>1. CASE UNCHANGED vars
    BY <2>1 DEF OnlyMainStarts, vars, user
  <2>2. CASE MainThread
    <3>1. UNCHANGED <<reload, events, writing>>
      BY <2>2 DEF MainThread, ReadDirs, WatchConfig, PutNull, AddWatch, PutWd, Refused, Started,
                  user
    <3>2. main.at # "run"
      <4>1. CASE AddWatch
        BY <4>1, MainAdds DEF AddWatch, Adding
      <4>2. CASE ~AddWatch
        BY <2>2, <4>2 DEF MainThread, ReadDirs, WatchConfig, PutNull, PutWd, Refused, Started
      <4>. QED  BY <4>1, <4>2
    <3>. QED  BY <3>1, <3>2 DEF OnlyMainStarts
  <2>3. CASE MonitorThread
    <3>1. main.at = "run" \/ (reload = Idle /\ events = <<>> /\ reload.at = "idle")
      BY DEF OnlyMainStarts, Idle
    <3>2. CASE main.at = "run"
      <4>1. main' = main
        BY <2>3 DEF MonitorThread, EventWithoutPath, IgnoreEvent, StartReload, RemoveWatch,
               RemoveNext, InotifyRm, GetPath, DropFilename, DropPath, DropCallback, AddNext,
               AddNew, AddDone, EndReload
      <4>. QED  BY <3>2, <4>1 DEF OnlyMainStarts
    <3>3. CASE events = <<>> /\ reload.at = "idle"
      <4>1. ~AddNew
        BY <3>3, ReloadAdds DEF AddNew, Adding
      <4>. QED
        BY <2>3, <3>3, <4>1
           DEF MonitorThread, EventWithoutPath, IgnoreEvent, StartReload, RemoveWatch, NextEvent,
               RemoveNext, InotifyRm, GetPath, DropFilename, DropPath, DropCallback, AddNext,
               AddDone, EndReload
    <3>. QED  BY <3>1, <3>2, <3>3
  <2>4. CASE Users
    <3>1. UNCHANGED <<main, reload>>
      BY <2>4 DEF Users, EditStart, EditEnd, Ufactl, DeleteFolder, CreateFolder, RenameFolder
    <3>2. main.at # "run" => UNCHANGED <<writing, events>>
      BY <2>4 DEF Users, EditStart, EditEnd, Ufactl, DeleteFolder, CreateFolder, RenameFolder,
                  OnlyMainStarts
    <3>. QED  BY <3>1, <3>2 DEF OnlyMainStarts
  <2>. QED  BY <2>1, <2>2, <2>3, <2>4 DEF Next
<1>. QED
  BY <1>1, <1>2, TypeCorrect, PTL DEF Spec

\* A thread that adds a watch has found its path in no table, and enters the
\* path of the wd it was given before the wd of the path.
Pending(at, wd, dir) ==
  /\ at \in {"watch", "table", "callbacks", "filename"} => dir \notin DOMAIN filenames
  /\ at = "table" =>
       /\ wd \in DOMAIN watches /\ wd \notin DOMAIN table /\ wd < nextWd
       /\ watches[wd] = onDisk[dir]
  /\ at \in {"callbacks", "filename"} => wd \in DOMAIN table /\ table[wd] = dir

\* A watch that is removed keeps its entries until their turn.
Dropping ==
  /\ reload.at \in {"unget", "unname", "untable"} => reload.wd \in DOMAIN table
  /\ reload.at = "unname" => reload.dir = table[reload.wd]
  /\ reload.at = "untable" => table[reload.wd] \notin DOMAIN filenames

TablesAll ==
  /\ TablesInv
  /\ Pending(main.at, main.wd, main.dir)
  /\ Pending(reload.at, reload.wd, reload.dir)
  /\ Dropping

\* The thread at place at is the only one that changes the tables, by adding wd.
Sole(at, wd) ==
  /\ reload.at \notin Removing
  /\ \A w : AddedAt({"table"}, w) => at = "table" /\ wd = w
  /\ \A w : AddedAt({"callbacks", "filename"}, w) <=> at \in {"callbacks", "filename"} /\ wd = w

LEMMA AddTables ==
  ASSUME TypeOK, TypeOK', WatchesKnown, TablesInv, onDisk' = onDisk,
         NEW at, NEW wd \in Nat, NEW dir \in Folder, NEW at2, NEW wd2 \in Nat,
         AddEffect(at, wd, dir, at2, wd2), Pending(at, wd, dir),
         Sole(at, wd), Sole(at2, wd2)'
  PROVE  TablesInv' /\ Pending(at2, wd2, dir)'
<1>1. /\ nextWd \in Wd
      /\ \A w \in DOMAIN table : w \in Wd /\ table[w] \in Folder
      /\ \A f \in DOMAIN filenames : f \in Folder /\ filenames[f] \in Wd
      /\ \A w \in DOMAIN watches : w \in Wd
  BY DEF TypeOK, MonitorType, PartialFunction
<1>2. \A f, g \in Folder : onDisk'[f] = onDisk'[g] /\ onDisk'[f] # Nowhere => f = g
  BY DEF TablesInv
<1>3. \A w \in DOMAIN table : w < nextWd /\ w \in DOMAIN watches /\ onDisk[table[w]] = watches[w]
  BY DEF TablesInv, RemovedAt, Sole, Removing
<1>4. \A w \in DOMAIN table :
        \/ at \in {"callbacks", "filename"} /\ wd = w
        \/ table[w] \in DOMAIN filenames /\ filenames[table[w]] = w
  BY DEF TablesInv, TablesInverse, RemovedAt, Sole, Removing
<1>5. \A f \in DOMAIN filenames : filenames[f] \in DOMAIN table /\ table[filenames[f]] = f
  BY DEF TablesInv, TablesInverse
<1>6. ASSUME \A w \in DOMAIN table' :
               w < nextWd' /\ w \in DOMAIN watches' /\ onDisk'[table'[w]] = watches'[w],
             \A w \in DOMAIN table' :
               \/ at2 \in {"callbacks", "filename"} /\ wd2 = w
               \/ table'[w] \in DOMAIN filenames' /\ filenames'[table'[w]] = w,
             \A f \in DOMAIN filenames' :
               filenames'[f] \in DOMAIN table' /\ table'[filenames'[f]] = f
      PROVE  TablesInv'
  BY <1>2, <1>6 DEF TablesInv, TablesInverse, Sole
<1>7. CASE at \in {"lookup", "watch"} /\ at2 \in {"added", "watch", "refused"}
           /\ UNCHANGED monitor
  <2>1. TablesInv'
    BY <1>3, <1>4, <1>5, <1>6, <1>7 DEF monitor
  <2>2. at2 = "watch" => dir \notin DOMAIN filenames'
    BY <1>7 DEF AddEffect, monitor
  <2>. QED  BY <1>7, <2>1, <2>2 DEF Pending
<1>8. CASE /\ at = "watch" /\ at2 = "table" /\ wd2 = WdFor(dir) /\ onDisk[dir] # Nowhere
           /\ watches' = Put(watches, WdFor(dir), onDisk[dir])
           /\ nextWd' = IF WdFor(dir) = nextWd THEN nextWd + 1 ELSE nextWd
           /\ UNCHANGED <<table, callbacks, filenames>>
  <2>1. \A w \in DOMAIN watches : watches[w] # onDisk[dir]
    <3>. SUFFICES ASSUME NEW w \in DOMAIN watches, watches[w] = onDisk[dir] PROVE FALSE
      OBVIOUS
    <3>1. w \in DOMAIN table
      BY <1>8 DEF WatchesKnown, Sole
    <3>2. table[w] = dir
      BY <1>1, <1>3, <1>8, <3>1 DEF TablesInv
    <3>. QED  BY <1>4, <1>8, <3>1, <3>2 DEF Pending
  <2>2. WdFor(dir) = nextWd /\ nextWd' = nextWd + 1
    BY <1>8, <2>1 DEF WdFor
  <2>3. nextWd \notin DOMAIN table
    BY <1>1, <1>3 DEF Wd
  <2>4. /\ DOMAIN watches' = DOMAIN watches \cup {nextWd} /\ watches'[nextWd] = onDisk[dir]
        /\ \A w \in DOMAIN watches : w # nextWd => watches'[w] = watches[w]
    BY <1>8, <2>2 DEF Put
  <2>5. \A w \in DOMAIN table : w < nextWd' /\ w \in DOMAIN watches' /\ watches'[w] = watches[w]
    BY <1>1, <1>3, <2>2, <2>3, <2>4 DEF Wd
  <2>6. TablesInv'
    BY <1>3, <1>4, <1>5, <1>6, <1>8, <2>5
  <2>7. Pending(at2, wd2, dir)'
    BY <1>1, <1>8, <2>2, <2>3, <2>4 DEF Pending, Wd
  <2>. QED  BY <2>6, <2>7
<1>9. CASE /\ at = "table" /\ at2 = "callbacks" /\ wd2 = wd
           /\ table' = Put(table, wd, dir)
           /\ UNCHANGED <<watches, nextWd, callbacks, filenames>>
  <2>1. /\ DOMAIN table' = DOMAIN table \cup {wd} /\ table'[wd] = dir
        /\ wd \notin DOMAIN table
        /\ \A w \in DOMAIN table : table'[w] = table[w]
    BY <1>9 DEF Put, Pending
  <2>2. TablesInv'
    BY <1>3, <1>4, <1>5, <1>6, <1>9, <2>1 DEF Pending
  <2>. QED  BY <1>9, <2>1, <2>2 DEF Pending
<1>10. CASE /\ at = "callbacks" /\ at2 = "filename" /\ wd2 = wd
            /\ callbacks' = callbacks \cup {wd}
            /\ UNCHANGED <<watches, nextWd, table, filenames>>
  <2>1. TablesInv'
    BY <1>3, <1>4, <1>5, <1>6, <1>10
  <2>. QED  BY <1>10, <2>1 DEF Pending
<1>11. CASE /\ at = "filename" /\ at2 = "added" /\ wd2 = wd
            /\ filenames' = Put(filenames, dir, wd)
            /\ UNCHANGED <<watches, nextWd, table, callbacks>>
  <2>1. /\ DOMAIN filenames' = DOMAIN filenames \cup {dir} /\ filenames'[dir] = wd
        /\ \A f \in DOMAIN filenames : f # dir => filenames'[f] = filenames[f]
        /\ dir \notin DOMAIN filenames /\ wd \in DOMAIN table /\ table[wd] = dir
    BY <1>11 DEF Put, Pending
  <2>2. TablesInv'
    BY <1>3, <1>4, <1>5, <1>6, <1>11, <2>1
  <2>. QED  BY <1>11, <2>2 DEF Pending
<1>. QED
  BY <1>7, <1>8, <1>9, <1>10, <1>11 DEF AddEffect

LEMMA MainTables ==
  ASSUME TypeOK, TypeOK', OnlyMainStarts, KnownInv, TablesAll, MainThread
  PROVE  TablesAll'
<1>1. UNCHANGED <<reload, onDisk>>
  BY DEF MainThread, ReadDirs, WatchConfig, PutNull, AddWatch, PutWd, Refused, Started, user
<1>2. main \in MainRecord /\ main.wd \in Nat /\ main'.wd \in Nat
  BY DEF TypeOK, MainType, MainRecord
<1>3. reload.at = "idle" /\ reload'.at = "idle"
  <2>1. main.at # "run"
    BY <1>2, MainAdds DEF MainThread, ReadDirs, WatchConfig, PutNull, AddWatch, PutWd, Refused,
                          Started, Adding
  <2>. QED  BY <1>1, <2>1 DEF OnlyMainStarts, Idle
<1>4. Pending(reload.at, reload.wd, reload.dir)' /\ Dropping'
  BY <1>3 DEF Pending, Dropping
<1>5. Sole(main.at, main.wd) /\ Sole(main.at, main.wd)'
  BY <1>3 DEF Sole, AddedAt, Removing
<1>6. CASE AddWatch
  <2>1. /\ AddEffect(main.at, main.wd, main.dir, main'.at, main'.wd)
        /\ main.dir \in Folder /\ main'.dir = main.dir
    BY <1>6, MainAdds DEF AddWatch
  <2>2. /\ WatchesKnown /\ TablesInv /\ onDisk' = onDisk
        /\ Pending(main.at, main.wd, main.dir)
    BY <1>1 DEF TablesAll, KnownInv
  <2>3. PICK at2, wd2 : at2 = main'.at /\ wd2 = main'.wd
    OBVIOUS
  <2>4. wd2 \in Nat /\ AddEffect(main.at, main.wd, main.dir, at2, wd2)
    BY <1>2, <2>1, <2>3
  <2>5. Sole(at2, wd2)'
    BY <1>3, <2>3 DEF Sole, AddedAt, Removing
  <2>6. TablesInv' /\ Pending(at2, wd2, main.dir)'
    BY <1>2, <1>5, <2>1, <2>2, <2>4, <2>5, AddTables
  <2>7. Pending(main.at, main.wd, main.dir)'
    BY <2>1, <2>3, <2>6 DEF Pending
  <2>. QED  BY <1>4, <2>6, <2>7 DEF TablesAll
<1>7. CASE ~AddWatch
  <2>1. UNCHANGED monitor /\ main.at \notin {"callbacks", "filename"}
        /\ main'.at \notin {"watch", "table", "callbacks", "filename"}
    BY <1>2, <1>7 DEF MainThread, ReadDirs, WatchConfig, PutNull, PutWd, Refused, Started,
                      MainRecord
  <2>2. TablesInv'
    BY <1>1, <1>3, <2>1 DEF TablesAll, TablesInv, TablesInverse, AddedAt, RemovedAt, monitor
  <2>. QED  BY <1>4, <2>1, <2>2 DEF TablesAll, Pending
<1>. QED  BY <1>6, <1>7

LEMMA ReloadTables ==
  ASSUME TypeOK, TypeOK', OnlyMainStarts, KnownInv, TablesAll, MonitorThread
  PROVE  TablesAll'
<1>0. /\ reload \in ReloadRecord /\ reload.wd \in Nat /\ reload'.wd \in Nat
      /\ reload.at = "idle" <=> reload = Idle
  BY ReloadRecords DEF TypeOK, ReloadType, ReloadRecord
<1>1. UNCHANGED <<main, onDisk>>
  BY DEF MonitorThread, EventWithoutPath, IgnoreEvent, StartReload, RemoveWatch, RemoveNext,
         InotifyRm, GetPath, DropFilename, DropPath, DropCallback, AddNext, AddNew,
         AddDone, EndReload, user
<1>2. main.at = "run" /\ main'.at = "run"
  <2>1. CASE reload # Idle
    BY <1>1, <2>1 DEF OnlyMainStarts
  <2>2. CASE \E kind : NextEvent(kind)
    BY <1>1, <2>2 DEF OnlyMainStarts, NextEvent
  <2>3. CASE AddNew
    <3>1. reload.at \in Adding
      BY <2>3, ReloadAdds DEF AddNew
    <3>. QED  BY <1>0, <2>1, <3>1 DEF Adding
  <2>. QED
    BY <1>0, <2>1, <2>2, <2>3
       DEF MonitorThread, EventWithoutPath, IgnoreEvent, StartReload, RemoveWatch, RemoveNext,
           InotifyRm, GetPath, DropFilename, DropPath, DropCallback, AddNext, AddDone, EndReload
<1>3. Pending(main.at, main.wd, main.dir)'
  BY <1>2 DEF Pending
<1>4. /\ \A w : AddedAt({"table"}, w) <=> reload.at = "table" /\ reload.wd = w
      /\ \A w : AddedAt({"table"}, w)' <=> reload'.at = "table" /\ reload'.wd = w
      /\ \A w : AddedAt({"callbacks", "filename"}, w)
                  <=> reload.at \in {"callbacks", "filename"} /\ reload.wd = w
      /\ \A w : AddedAt({"callbacks", "filename"}, w)'
                  <=> reload'.at \in {"callbacks", "filename"} /\ reload'.wd = w
  BY <1>2 DEF AddedAt
<1>5. CASE AddNew
  <2>1. /\ AddEffect(reload.at, reload.wd, reload.dir, reload'.at, reload'.wd)
        /\ reload.at \in Adding /\ reload.dir \in Folder /\ reload'.dir = reload.dir
    BY <1>5, ReloadAdds DEF AddNew
  <2>2. reload.at \notin Removing /\ reload'.at \notin Removing
    BY <2>1 DEF AddEffect, Removing
  <2>3. Sole(reload.at, reload.wd) /\ Sole(reload.at, reload.wd)'
    BY <1>4, <2>2 DEF Sole
  <2>4. /\ WatchesKnown /\ TablesInv /\ onDisk' = onDisk
        /\ Pending(reload.at, reload.wd, reload.dir)
    BY <1>1 DEF TablesAll, KnownInv
  <2>5. PICK at2, wd2 : at2 = reload'.at /\ wd2 = reload'.wd
    OBVIOUS
  <2>6. wd2 \in Nat /\ AddEffect(reload.at, reload.wd, reload.dir, at2, wd2)
    BY <1>0, <2>1, <2>5
  <2>7. Sole(at2, wd2)'
    BY <1>4, <2>2, <2>5 DEF Sole
  <2>8. TablesInv' /\ Pending(at2, wd2, reload.dir)'
    BY <1>0, <2>1, <2>3, <2>4, <2>6, <2>7, AddTables
  <2>9. Pending(reload.at, reload.wd, reload.dir)'
    BY <2>1, <2>5, <2>8 DEF Pending
  <2>10. Dropping'
    BY <2>2 DEF Dropping, Removing
  <2>. QED  BY <1>3, <2>8, <2>9, <2>10 DEF TablesAll
<1>6. ASSUME UNCHANGED monitor, reload.at \notin {"callbacks", "filename", "untable", "unget", "unname"},
             reload'.at \notin {"watch", "table", "callbacks", "filename", "unget", "unname", "untable"}
      PROVE  TablesAll'
  <2>1. Pending(reload.at, reload.wd, reload.dir)' /\ Dropping'
    BY <1>6 DEF Pending, Dropping
  <2>2. TablesInv'
    BY <1>1, <1>2, <1>6 DEF TablesAll, TablesInv, TablesInverse, AddedAt, RemovedAt, monitor
  <2>. QED  BY <1>3, <2>1, <2>2 DEF TablesAll
<1>7. CASE EventWithoutPath \/ IgnoreEvent
  <2>1. UNCHANGED monitor /\ reload.at = "idle" /\ reload'.at = "idle"
    BY <1>7 DEF EventWithoutPath, IgnoreEvent, NextEvent
  <2>. QED  BY <1>6, <2>1
<1>8. CASE StartReload \/ EndReload
  <2>1. UNCHANGED monitor /\ reload.at \in {"idle", "next"} /\ reload'.at \in {"idle", "next"}
    <3>1. CASE StartReload
      BY <3>1 DEF StartReload, NextEvent, Idle
    <3>2. CASE EndReload
      BY <3>2 DEF EndReload, Idle
    <3>. QED  BY <1>8, <3>1, <3>2
  <2>. QED  BY <1>6, <2>1
<1>9. CASE RemoveNext \/ AddNext \/ AddDone
  BY <1>0, <1>6, <1>9 DEF RemoveNext, AddNext, AddDone, ReloadRecord
\* The steps of ufa_monitor_remove_watcher: no thread adds anything meanwhile.
<1>10. ASSUME reload.at \in Removing, reload'.at \in Removing \cup {"next"},
              \A w \in DOMAIN table' :
                /\ w < nextWd'
                /\ \/ reload'.at \in {"unget", "unname", "untable"} /\ reload'.wd = w
                   \/ w \in DOMAIN watches' /\ onDisk[table'[w]] = watches'[w],
              \A w \in DOMAIN table' :
                \/ reload'.at = "untable" /\ reload'.wd = w
                \/ table'[w] \in DOMAIN filenames' /\ filenames'[table'[w]] = w,
              \A f \in DOMAIN filenames' :
                filenames'[f] \in DOMAIN table' /\ table'[filenames'[f]] = f,
              Dropping'
       PROVE  TablesAll'
  <2>1. TablesInv'
    BY <1>1, <1>10 DEF TablesAll, TablesInv, TablesInverse, RemovedAt
  <2>2. Pending(reload.at, reload.wd, reload.dir)'
    BY <1>10 DEF Pending, Removing
  <2>. QED  BY <1>3, <1>10, <2>1, <2>2 DEF TablesAll
<1>11. reload.at \in Removing =>
         /\ \A w \in DOMAIN table :
              /\ w < nextWd
              /\ \/ reload.at \in {"unget", "unname", "untable"} /\ reload.wd = w
                 \/ w \in DOMAIN watches /\ onDisk[table[w]] = watches[w]
         /\ \A w \in DOMAIN table :
              \/ reload.at = "untable" /\ reload.wd = w
              \/ table[w] \in DOMAIN filenames /\ filenames[table[w]] = w
         /\ \A f \in DOMAIN filenames :
              filenames[f] \in DOMAIN table /\ table[filenames[f]] = f
  BY <1>4 DEF TablesAll, TablesInv, TablesInverse, RemovedAt, Removing
<1>12. CASE InotifyRm
  <2>1. /\ UNCHANGED <<nextWd, table, filenames>> /\ reload.at = "rm"
        /\ \/ reload'.at = "next" /\ UNCHANGED watches
           \/ /\ reload'.at = "unget" /\ reload'.wd = reload.wd /\ reload.wd \in DOMAIN watches
              /\ watches' = Drop(watches, reload.wd)
    BY <1>0, <1>12 DEF InotifyRm, ReloadRecord
  <2>2. reload'.at = "unget" => reload.wd \in DOMAIN table
    BY <2>1 DEF KnownInv, InHand, Assigned
  <2>3. Dropping'
    BY <2>1, <2>2 DEF Dropping
  <2>4. reload.at \in Removing /\ reload'.at \in Removing \cup {"next"}
    BY <2>1 DEF Removing
  <2>5. \A w \in DOMAIN watches :
          \/ w \in DOMAIN watches' /\ watches'[w] = watches[w]
          \/ reload'.at = "unget" /\ reload'.wd = w
    BY <2>1 DEF Drop
  <2>. QED  BY <1>10, <1>11, <2>1, <2>3, <2>4, <2>5
<1>13. CASE GetPath
  <2>1. reload.wd \in DOMAIN table /\ reload.at = "unget"
    BY <1>13 DEF GetPath, KnownInv, WatchesKnown
  <2>2. reload' = [reload EXCEPT !.at = "unname", !.dir = table[reload.wd]] /\ UNCHANGED monitor
    BY <1>13, <2>1 DEF GetPath
  <2>3. /\ reload'.at = "unname" /\ reload'.wd = reload.wd /\ reload'.dir = table[reload.wd]
        /\ UNCHANGED <<nextWd, table, filenames, watches>>
    BY <1>0, <2>2 DEF ReloadRecord, monitor
  <2>4. Dropping'
    BY <2>1, <2>3 DEF Dropping
  <2>5. reload.at \in Removing /\ reload'.at \in Removing \cup {"next"}
    BY <2>1, <2>3 DEF Removing
  <2>. QED  BY <1>10, <1>11, <2>1, <2>3, <2>4, <2>5
<1>14. CASE DropFilename
  <2>1. /\ UNCHANGED <<nextWd, table, watches>> /\ reload.at = "unname"
        /\ reload'.at = "untable" /\ reload'.wd = reload.wd
        /\ filenames' = Drop(filenames, reload.dir)
    BY <1>0, <1>14 DEF DropFilename, ReloadRecord
  <2>2. reload.wd \in DOMAIN table /\ reload.dir = table[reload.wd]
    BY <2>1 DEF TablesAll, Dropping
  <2>3. DOMAIN filenames' = DOMAIN filenames \ {table[reload.wd]}
        /\ \A f \in DOMAIN filenames' : filenames'[f] = filenames[f]
    BY <2>1, <2>2 DEF Drop
  <2>4. Dropping'
    BY <2>1, <2>2, <2>3 DEF Dropping
  <2>5. reload.at \in Removing /\ reload'.at \in Removing \cup {"next"}
    BY <2>1 DEF Removing
  <2>6. \A w \in DOMAIN table' :
          \/ reload'.at = "untable" /\ reload'.wd = w
          \/ table'[w] \in DOMAIN filenames' /\ filenames'[table'[w]] = w
    <3>. SUFFICES ASSUME NEW w \in DOMAIN table, w # reload.wd
                  PROVE  table[w] \in DOMAIN filenames' /\ filenames'[table[w]] = w
      BY <2>1
    <3>1. table[w] \in DOMAIN filenames /\ filenames[table[w]] = w
      BY <1>11, <2>1, <2>5
    <3>2. filenames[table[reload.wd]] = reload.wd
      BY <1>11, <2>1, <2>2, <2>5
    <3>. QED  BY <2>3, <3>1, <3>2
  <2>7. \A f \in DOMAIN filenames' :
          filenames'[f] \in DOMAIN table' /\ table'[filenames'[f]] = f
    BY <1>11, <2>1, <2>3, <2>5
  <2>8. \A w \in DOMAIN table' :
          /\ w < nextWd'
          /\ \/ reload'.at \in {"unget", "unname", "untable"} /\ reload'.wd = w
             \/ w \in DOMAIN watches' /\ onDisk[table'[w]] = watches'[w]
    BY <1>11, <2>1, <2>5
  <2>. QED  BY <1>10, <2>4, <2>5, <2>6, <2>7, <2>8
<1>15. CASE DropPath
  <2>1. /\ UNCHANGED <<nextWd, filenames, watches>> /\ reload.at = "untable"
        /\ reload'.at = "uncall" /\ reload'.wd = reload.wd
        /\ table' = Drop(table, reload.wd)
    BY <1>0, <1>15 DEF DropPath, ReloadRecord
  <2>2. reload.wd \in DOMAIN table /\ table[reload.wd] \notin DOMAIN filenames
    BY <2>1 DEF TablesAll, Dropping
  <2>3. DOMAIN table' = DOMAIN table \ {reload.wd}
        /\ \A w \in DOMAIN table' : table'[w] = table[w]
    BY <2>1 DEF Drop
  <2>4. Dropping'
    BY <2>1 DEF Dropping
  <2>5. reload.at \in Removing /\ reload'.at \in Removing \cup {"next"}
    BY <2>1 DEF Removing
  <2>6. \A f \in DOMAIN filenames' :
          filenames'[f] \in DOMAIN table' /\ table'[filenames'[f]] = f
    BY <1>11, <2>1, <2>2, <2>3, <2>5
  <2>7. \A w \in DOMAIN table' :
          \/ reload'.at = "untable" /\ reload'.wd = w
          \/ table'[w] \in DOMAIN filenames' /\ filenames'[table'[w]] = w
    BY <1>11, <2>1, <2>3, <2>5
  <2>8. \A w \in DOMAIN table' :
          /\ w < nextWd'
          /\ \/ reload'.at \in {"unget", "unname", "untable"} /\ reload'.wd = w
             \/ w \in DOMAIN watches' /\ onDisk[table'[w]] = watches'[w]
    BY <1>11, <2>1, <2>3, <2>5
  <2>. QED  BY <1>10, <2>4, <2>5, <2>6, <2>7, <2>8
<1>16. CASE DropCallback
  <2>1. UNCHANGED <<nextWd, filenames, watches, table>> /\ reload.at = "uncall"
        /\ reload'.at = "next"
    BY <1>0, <1>16 DEF DropCallback, ReloadRecord
  <2>2. Dropping'
    BY <2>1 DEF Dropping
  <2>3. reload.at \in Removing /\ reload'.at \in Removing \cup {"next"}
    BY <2>1 DEF Removing
  <2>. QED  BY <1>10, <1>11, <2>1, <2>2, <2>3
<1>. QED
  BY <1>5, <1>7, <1>8, <1>9, <1>12, <1>13, <1>14, <1>15, <1>16 DEF MonitorThread, RemoveWatch

LEMMA TablesHold ==
  ASSUME "folder" \notin Env, "early" \notin Env
  PROVE  Spec => []TablesAll
<1>1. Init => TablesAll
  BY DEF Init, TablesAll, TablesInv, TablesInverse, Pending, Dropping, Empty, Idle
<1>2. TypeOK /\ TypeOK' /\ OnlyMainStarts /\ KnownInv /\ TablesAll /\ [Next]_vars => TablesAll'
  <2>. SUFFICES ASSUME TypeOK, TypeOK', OnlyMainStarts, KnownInv, TablesAll, [Next]_vars
                PROVE  TablesAll'
    OBVIOUS
  <2>1. CASE UNCHANGED <<onDisk, monitor, main, reload>>
    BY <2>1 DEF TablesAll, TablesInv, TablesInverse, AddedAt, RemovedAt, Pending, Dropping, monitor
  <2>2. CASE Users \/ UNCHANGED vars
    <3>1. UNCHANGED <<onDisk, monitor, main, reload>>
      BY <2>2 DEF Users, EditStart, EditEnd, Ufactl, DeleteFolder, CreateFolder, RenameFolder,
                  vars, user
    <3>. QED  BY <2>1, <3>1
  <2>. QED  BY <2>2, MainTables, ReloadTables DEF Next
<1>. QED
  BY <1>1, <1>2, TypeCorrect, KnownHolds, StartAlone, PTL DEF Spec

\* As long as folders stay on disk, with every inode known by one path, and
\* "dirs" is left alone during the start, so that one thread adds and removes
\* watches: the tables wd -> path and path -> wd of the monitor stay inverse to
\* each other but for the entry in hand, and each belongs to a watch of the
\* kernel on the inode of that path, even when watches fail.
THEOREM TablesCorrect ==
  ASSUME "folder" \notin Env, "early" \notin Env
  PROVE  Spec => []TablesInv
<1>1. TablesAll => TablesInv
  BY DEF TablesAll
<1>. QED  BY <1>1, TablesHold, PTL

-----------------------------------------------------------------------------
\* What the daemon watches, when nothing but the lines of "dirs" changes and
\* an editor writes it in place: every change then ends in a reload.
Settles == Env \subseteq {"duplicate"}

Same(f) == f \in DOMAIN filenames /\ dirs[f] = filenames[f]

\* D is what "dirs" lists, unless a change of it is still to be read.
Current(D) == ~writing /\ events = <<>> => D = Folders(ConfigDirs)

Early == {"dirs", "config", "cfgtable", "cfgcall"}

\* During the start, the folders that were met and those still to be met are
\* the ones listed, and all that were met but the one in hand are watched.
StartInv ==
  main.at # "run" =>
    /\ main.at \in Early => DOMAIN dirs = {}
    /\ main.at \in Early \ {"dirs"} => main.todo = ConfigDirs
    /\ main.at \notin Early =>
         Folders(main.todo) \cup DOMAIN dirs = Folders(ConfigDirs)
    /\ DOMAIN filenames \subseteq DOMAIN dirs
    /\ \A f \in DOMAIN dirs : (main.at \in Adding /\ f = main.dir) \/ Same(f)
    /\ main.at = "added" => main.dir \in DOMAIN filenames /\ main.wd = filenames[main.dir]

IdleInv ==
  main.at = "run" /\ reload.at = "idle" =>
    /\ DOMAIN filenames = DOMAIN dirs
    /\ \A f \in DOMAIN dirs : Same(f)
    /\ Current(DOMAIN dirs)

\* The path whose watch a reload is removing, and has not dropped yet.
LetGo(f) == filenames[f] = reload.wd /\ reload.at \in {"rm", "unget", "unname"}

\* During a reload, a path that is watched is in the new table with its wd, or
\* its watch is being removed or still to be removed, with the wd of the old
\* table.
LoadInv ==
  reload.at # "idle" =>
    /\ Current(DOMAIN reload.new)
    /\ \A f \in DOMAIN filenames : f \in DOMAIN reload.new \cup reload.remove \/ LetGo(f)
    /\ \A f \in reload.remove : Same(f) /\ f \notin DOMAIN reload.new
    /\ \A f \in DOMAIN reload.new :
         reload.new[f] # NULL => f \in DOMAIN filenames /\ reload.new[f] = filenames[f]
    /\ reload.at \in {"rm", "unget", "unname"} =>
         \E f \in DOMAIN filenames :
           filenames[f] = reload.wd /\ f \notin DOMAIN reload.new \cup reload.remove
    /\ reload.at \in Adding => reload.remove = {}
    /\ reload.at = "added" =>
         reload.dir \in DOMAIN filenames /\ reload.wd = filenames[reload.dir]

OnlyWrites == \A i \in 1 .. Len(events) : events[i] = "closewrite"

FollowInv == StartInv /\ IdleInv /\ LoadInv /\ OnlyWrites

\* The invariants proved above.
Established == TypeOK /\ KnownInv /\ AssertInv /\ TablesAll

\* What a step of ufa_monitor_add_watcher does to table_filename.
NamesEffect(at, dir, at2, wd2) ==
  /\ at \in Adding \ {"added"} /\ at2 \in Adding \ {"refused"}
  /\ \/ UNCHANGED filenames
     \/ /\ at = "filename"
        /\ DOMAIN filenames' = DOMAIN filenames \cup {dir}
        /\ \A g \in DOMAIN filenames : g # dir => filenames'[g] = filenames[g]
  /\ at2 = "added" => dir \in DOMAIN filenames' /\ wd2 = filenames'[dir]

LEMMA AddNames ==
  ASSUME Settles, NEW at, NEW wd, NEW dir, NEW at2, NEW wd2, onDisk[dir] # Nowhere,
         AddEffect(at, wd, dir, at2, wd2)
  PROVE  NamesEffect(at, dir, at2, wd2)
BY DEF Settles, AddEffect, NamesEffect, Adding, Put, monitor

LEMMA UsersFollow ==
  ASSUME Established, FollowInv, Settles, Users
  PROVE  FollowInv'
<1>1. UNCHANGED <<onDisk, monitor, dirs, main, reload, failed>> /\ main.at = "run"
  BY DEF Users, EditStart, EditEnd, Ufactl, DeleteFolder, CreateFolder, RenameFolder,
         Settles, Established, AssertInv, OnlyMainStarts
<1>2. (writing' \/ events' # <<>>) /\ OnlyWrites'
  <2>1. CASE EditStart
    BY <2>1 DEF EditStart, FollowInv, OnlyWrites
  <2>2. ASSUME NEW l \in Lists, EditEnd(l)
        PROVE  (writing' \/ events' # <<>>) /\ OnlyWrites'
    <3>1. events' = Append(events, "closewrite") /\ events \in Seq({"closewrite", "move"})
      BY <1>1, <2>2 DEF EditEnd, Notify, Established, TypeOK
    <3>. QED
      BY <3>1 DEF FollowInv, OnlyWrites
  <2>. QED
    BY <2>1, <2>2 DEF Users, Ufactl, DeleteFolder, CreateFolder, RenameFolder, Settles
<1>3. StartInv'
  BY <1>1 DEF StartInv
<1>4. IdleInv' /\ LoadInv'
  BY <1>1, <1>2 DEF FollowInv, IdleInv, LoadInv, LetGo, Current, Same, monitor
<1>. QED  BY <1>2, <1>3, <1>4 DEF FollowInv

LEMMA MainFollow ==
  ASSUME Established, FollowInv, Settles, MainThread
  PROVE  FollowInv'
<1>. DEFINE listedNow == Folders(ConfigDirs)
<1>0. main \in MainRecord
  BY DEF Established, TypeOK, MainType
<1>1. UNCHANGED <<user, events, reload>>
  BY DEF MainThread, ReadDirs, WatchConfig, PutNull, AddWatch, PutWd, Refused, Started
<1>2. ConfigDirs' = ConfigDirs /\ listedNow' = listedNow
  BY <1>1 DEF ConfigDirs, Folders, user
<1>3. reload.at = "idle" /\ main.at # "run"
  <2>1. main.at # "run"
    <3>1. CASE AddWatch
      BY <3>1, MainAdds DEF AddWatch, Adding, Established
    <3>2. CASE ~AddWatch
      BY <3>2 DEF MainThread, ReadDirs, WatchConfig, PutNull, PutWd, Refused, Started
    <3>. QED  BY <3>1, <3>2
  <2>2. reload = Idle
    BY <2>1 DEF Established, AssertInv, OnlyMainStarts
  <2>. QED  BY <2>1, <2>2 DEF Idle
<1>4. LoadInv' /\ OnlyWrites'
  BY <1>1, <1>3 DEF LoadInv, FollowInv, OnlyWrites
<1>5. IdleInv' \/ main'.at = "run"
  BY DEF IdleInv
<1>. HIDE DEF listedNow
<1>6. StartInv
  BY DEF FollowInv
<1>7. CASE ReadDirs
  <2>1. main'.at = "config" /\ main'.todo = ConfigDirs /\ main.at = "dirs"
        /\ UNCHANGED <<dirs, filenames>>
    BY <1>0, <1>7 DEF ReadDirs, monitor, MainRecord
  <2>2. StartInv'
    BY <1>2, <1>6, <2>1 DEF StartInv, Same, Early, Adding
  <2>. QED  BY <1>4, <1>5, <2>1, <2>2 DEF FollowInv
<1>8. CASE WatchConfig
  <2>1. /\ main'.at \in {"cfgtable", "cfgcall", "put"} /\ main'.todo = main.todo
        /\ main.at \in Early \ {"dirs"} /\ UNCHANGED <<dirs, filenames>>
    BY <1>0, <1>8 DEF WatchConfig, monitor, MainRecord, Early
  <2>2. main'.todo = ConfigDirs /\ DOMAIN dirs = {}
    BY <1>3, <1>6, <2>1 DEF StartInv
  <2>3. Folders(main.todo)' \cup DOMAIN dirs' = Folders(ConfigDirs)'
    BY <1>2, <2>1, <2>2 DEF Folders
  <2>4. StartInv'
    BY <1>2, <1>3, <1>6, <2>1, <2>2, <2>3 DEF StartInv
  <2>. QED  BY <1>4, <1>5, <2>1, <2>4 DEF FollowInv
<1>9. CASE PutNull
  <2>1. PICK p \in main.todo :
          /\ dirs' = Put(dirs, p[2], NULL)
          /\ main' = [main EXCEPT !.at = "lookup", !.todo = @ \ {p}, !.dir = p[2]]
    BY <1>9 DEF PutNull
  <2>2. /\ main'.at = "lookup" /\ main'.todo = main.todo \ {p} /\ main'.dir = p[2]
        /\ main.at = "put" /\ UNCHANGED filenames
    BY <1>0, <1>9, <2>1 DEF PutNull, monitor, MainRecord
  <2>3. DOMAIN dirs' = DOMAIN dirs \cup {p[2]}
        /\ \A f \in DOMAIN dirs : f # p[2] => dirs'[f] = dirs[f]
    BY <2>1 DEF Put
  <2>4. Folders(main'.todo) \cup {p[2]} = Folders(main.todo)
    BY <2>1, <2>2 DEF Folders
  <2>5. Folders(main'.todo) \cup DOMAIN dirs' = listedNow
    <3>1. Folders(main.todo) \cup DOMAIN dirs = listedNow
      BY <1>6, <2>2 DEF StartInv, Early, listedNow
    <3>. QED  BY <2>3, <2>4, <3>1
  <2>6. \A f \in DOMAIN dirs' : f = main'.dir \/ Same(f)'
    BY <1>6, <2>2, <2>3 DEF StartInv, Same, Adding
  <2>7. Folders(main.todo)' \cup DOMAIN dirs' = Folders(ConfigDirs)'
    BY <1>2, <2>5 DEF Folders, listedNow
  <2>8. DOMAIN filenames' \subseteq DOMAIN dirs'
    BY <1>6, <2>2, <2>3 DEF StartInv
  <2>9. StartInv'
    BY <2>2, <2>6, <2>7, <2>8 DEF StartInv, Early, Adding
  <2>. QED  BY <1>4, <1>5, <2>2, <2>9 DEF FollowInv
<1>10. CASE AddWatch
  <2>1. /\ AddEffect(main.at, main.wd, main.dir, main'.at, main'.wd)
        /\ main.at \in Adding /\ main'.dir = main.dir /\ main'.todo = main.todo
        /\ UNCHANGED dirs
    BY <1>10, MainAdds DEF AddWatch, Established
  <2>2. onDisk[main.dir] # Nowhere /\ main.dir \in DOMAIN dirs
    BY <2>1 DEF Established, AssertInv, AddedIsThere
  <2>3. NamesEffect(main.at, main.dir, main'.at, main'.wd)
    BY <2>1, <2>2, AddNames
  <2>4. main.at \notin Early /\ main'.at \notin Early
    BY <2>3 DEF NamesEffect, Adding, Early
  <2>5. Folders(main.todo)' \cup DOMAIN dirs' = Folders(ConfigDirs)'
    <3>1. Folders(main.todo) \cup DOMAIN dirs = Folders(ConfigDirs)
      BY <1>3, <1>6, <2>4 DEF StartInv
    <3>. QED  BY <1>2, <2>1, <3>1 DEF Folders
  <2>6. \A f \in DOMAIN dirs' : f = main'.dir \/ Same(f)'
    BY <1>3, <1>6, <2>1, <2>3 DEF StartInv, Same, NamesEffect
  <2>7. DOMAIN filenames' \subseteq DOMAIN dirs'
    BY <1>3, <1>6, <2>1, <2>2, <2>3 DEF StartInv, NamesEffect
  <2>8. StartInv'
    BY <2>1, <2>3, <2>4, <2>5, <2>6, <2>7 DEF StartInv, NamesEffect
  <2>9. main'.at # "run"
    BY <2>3 DEF NamesEffect, Adding
  <2>. QED  BY <1>4, <1>5, <2>8, <2>9 DEF FollowInv
<1>11. CASE PutWd
  <2>1. /\ main.at = "added" /\ main'.at = "put" /\ main'.todo = main.todo
        /\ dirs' = Put(dirs, main.dir, main.wd) /\ UNCHANGED filenames
    BY <1>0, <1>11 DEF PutWd, monitor, MainRecord
  <2>2. main.dir \in DOMAIN dirs
    BY <2>1 DEF Established, AssertInv, AddedIsThere, Adding
  <2>3. DOMAIN dirs' = DOMAIN dirs /\ dirs'[main.dir] = main.wd
        /\ \A f \in DOMAIN dirs : f # main.dir => dirs'[f] = dirs[f]
    BY <2>1, <2>2 DEF Put
  <2>4. Folders(main.todo)' \cup DOMAIN dirs' = Folders(ConfigDirs)'
    <3>1. Folders(main.todo) \cup DOMAIN dirs = Folders(ConfigDirs)
      BY <1>6, <2>1 DEF StartInv, Early
    <3>. QED  BY <1>2, <2>1, <2>3, <3>1 DEF Folders
  <2>5. \A f \in DOMAIN dirs' : Same(f)'
    BY <1>6, <2>1, <2>3 DEF StartInv, Same
  <2>6. StartInv'
    BY <1>6, <2>1, <2>3, <2>4, <2>5 DEF StartInv, Early
  <2>. QED  BY <1>4, <1>5, <2>1, <2>6 DEF FollowInv
<1>12. CASE Refused
  <2>1. main.at = "refused"
    BY <1>12 DEF Refused
  <2>. QED  BY <2>1 DEF Established, AssertInv, AddedIsThere, Adding
<1>13. CASE Started
  <2>1. main.at = "put" /\ main.todo = {} /\ main'.at = "run" /\ UNCHANGED <<dirs, filenames>>
    BY <1>0, <1>13 DEF Started, monitor, MainRecord
  <2>2. DOMAIN dirs = Folders(ConfigDirs)
    BY <1>6, <2>1 DEF StartInv, Folders, Early
  <2>3. DOMAIN filenames = DOMAIN dirs /\ \A f \in DOMAIN dirs : Same(f)
    BY <1>6, <2>1 DEF StartInv, Same, Adding
  <2>4. DOMAIN dirs' = Folders(ConfigDirs)'
    BY <1>2, <2>1, <2>2 DEF Folders
  <2>5. IdleInv'
    BY <2>1, <2>3, <2>4 DEF IdleInv, Current, Same
  <2>6. StartInv'
    BY <2>1 DEF StartInv
  <2>. QED  BY <1>4, <2>5, <2>6 DEF FollowInv
<1>. QED
  BY <1>7, <1>8, <1>9, <1>10, <1>11, <1>12, <1>13 DEF MainThread

LEMMA ReloadFollow ==
  ASSUME Established, FollowInv, Settles, MonitorThread, TypeOK'
  PROVE  FollowInv'
<1>0. /\ reload \in ReloadRecord /\ reload.wd \in Nat
      /\ reload.at = "idle" <=> reload = Idle
  BY ReloadRecords DEF Established, TypeOK, ReloadType, ReloadRecord
<1>1. UNCHANGED <<user, main>>
  BY DEF MonitorThread, EventWithoutPath, IgnoreEvent, StartReload, RemoveWatch, RemoveNext,
         InotifyRm, GetPath, DropFilename, DropPath, DropCallback, AddNext, AddNew,
         AddDone, EndReload
<1>2. ConfigDirs' = ConfigDirs
  BY <1>1 DEF ConfigDirs, user
<1>3. Folders(ConfigDirs)' = Folders(ConfigDirs)
  BY <1>2 DEF Folders
<1>4. main.at = "run"
  <2>1. CASE reload # Idle
    BY <2>1 DEF Established, AssertInv, OnlyMainStarts
  <2>2. CASE \E kind : NextEvent(kind)
    BY <2>2 DEF Established, AssertInv, OnlyMainStarts, NextEvent
  <2>3. CASE AddNew
    <3>1. reload.at \in Adding
      BY <2>3, ReloadAdds DEF AddNew, Established
    <3>. QED  BY <1>0, <2>1, <3>1 DEF Adding
  <2>. QED
    BY <1>0, <2>1, <2>2, <2>3
       DEF MonitorThread, EventWithoutPath, IgnoreEvent, StartReload, RemoveWatch, RemoveNext,
           InotifyRm, GetPath, DropFilename, DropPath, DropCallback, AddNext, AddDone, EndReload
<1>5. StartInv'
  BY <1>1, <1>4 DEF StartInv
<1>6. ASSUME NEW kind, NextEvent(kind)
      PROVE  kind = "closewrite" /\ OnlyWrites'
  <2>1. events \in Seq({"closewrite", "move"}) /\ events # <<>>
        /\ Head(events) = kind /\ events' = Tail(events)
    BY <1>6 DEF NextEvent, Established, TypeOK
  <2>2. Head(events) = events[1] /\ 1 \in 1 .. Len(events)
    BY <2>1
  <2>3. \A i \in 1 .. Len(events') : events'[i] = events[i + 1] /\ i + 1 \in 1 .. Len(events)
    BY <2>1
  <2>. QED  BY <2>1, <2>2, <2>3 DEF FollowInv, OnlyWrites
<1>7. ASSUME UNCHANGED events PROVE OnlyWrites'
  BY <1>7 DEF FollowInv, OnlyWrites
<1>8. \A f \in DOMAIN dirs : dirs[f] # NULL
  BY <1>4 DEF Established, AssertInv, NullWhileAdded, Adding
\* What a step within a reload has to show.
<1>9. ASSUME reload.at # "idle", reload'.at # "idle", UNCHANGED <<events, dirs>>,
             DOMAIN reload'.new = DOMAIN reload.new,
             \A f \in DOMAIN filenames' : f \in DOMAIN reload'.new \cup reload'.remove \/ LetGo(f)',
             \A f \in reload'.remove : Same(f)' /\ f \notin DOMAIN reload'.new,
             \A f \in DOMAIN reload'.new :
               reload'.new[f] # NULL =>
                 f \in DOMAIN filenames' /\ reload'.new[f] = filenames'[f],
             reload'.at \in {"rm", "unget", "unname"} =>
               \E f \in DOMAIN filenames' :
                 filenames'[f] = reload'.wd /\ f \notin DOMAIN reload'.new \cup reload'.remove,
             reload'.at \in Adding => reload'.remove = {},
             reload'.at = "added" =>
               reload'.dir \in DOMAIN filenames' /\ reload'.wd = filenames'[reload'.dir]
      PROVE  FollowInv'
  <2>1. Current(DOMAIN reload.new)'
    BY <1>1, <1>3, <1>9 DEF FollowInv, LoadInv, Current, user
  <2>2. LoadInv' /\ IdleInv'
    BY <1>9, <2>1 DEF LoadInv, IdleInv
  <2>. QED  BY <1>5, <1>7, <1>9, <2>2 DEF FollowInv
<1>10. CASE EventWithoutPath \/ IgnoreEvent
  BY <1>4, <1>6, <1>10 DEF EventWithoutPath, IgnoreEvent
<1>11. CASE StartReload
  <2>1. /\ reload.at = "idle" /\ reload'.at = "next"
        /\ reload'.remove = DOMAIN dirs \ Folders(ConfigDirs)
        /\ reload'.new = [f \in Folders(ConfigDirs) |->
                            IF f \in Folders(ConfigDirs) \cap DOMAIN dirs THEN dirs[f] ELSE NULL]
        /\ UNCHANGED <<dirs, filenames>>
    BY <1>11 DEF StartReload, ToRemove, NextEvent, monitor, Idle
  <2>2. DOMAIN filenames = DOMAIN dirs /\ \A f \in DOMAIN dirs : Same(f)
    BY <1>4, <2>1 DEF FollowInv, IdleInv
  <2>3. Current(DOMAIN reload.new)'
    BY <1>3, <2>1 DEF Current
  <2>4. LoadInv'
    BY <2>1, <2>2, <2>3 DEF LoadInv, Same, Adding
  <2>5. IdleInv' /\ OnlyWrites'
    BY <1>6, <1>11, <2>1 DEF StartReload, IdleInv
  <2>. QED  BY <1>5, <2>4, <2>5 DEF FollowInv
<1>12. LoadInv
  BY DEF FollowInv
<1>13. CASE RemoveNext
  <2>1. PICK f \in reload.remove :
          \/ Get(dirs, f) = NULL
          \/ reload' = [reload EXCEPT !.at = "rm", !.remove = @ \ {f}, !.wd = Get(dirs, f)]
    BY <1>13 DEF RemoveNext
  <2>2. reload.at = "next" /\ UNCHANGED <<dirs, events, filenames>>
    BY <1>13 DEF RemoveNext, monitor
  <2>3. f \in DOMAIN dirs /\ Get(dirs, f) = dirs[f] /\ dirs[f] # NULL
    BY <1>8, <2>1 DEF Established, AssertInv, ReloadConsistent, Get
  <2>4. /\ reload'.at = "rm" /\ reload'.remove = reload.remove \ {f} /\ reload'.wd = dirs[f]
        /\ reload'.new = reload.new
    BY <1>0, <2>1, <2>3 DEF ReloadRecord
  <2>5. f \in DOMAIN filenames /\ filenames[f] = dirs[f] /\ f \notin DOMAIN reload.new
    BY <1>12, <2>1, <2>2 DEF LoadInv, Same
  <2>6. \A g \in DOMAIN filenames' : g \in DOMAIN reload'.new \cup reload'.remove \/ LetGo(g)'
    BY <1>12, <2>2, <2>4, <2>5 DEF LoadInv, LetGo
  <2>7. \A g \in reload'.remove : Same(g)' /\ g \notin DOMAIN reload'.new
    BY <1>12, <2>2, <2>4 DEF LoadInv, Same
  <2>8. \A g \in DOMAIN reload'.new :
          reload'.new[g] # NULL => g \in DOMAIN filenames' /\ reload'.new[g] = filenames'[g]
    BY <1>12, <2>2, <2>4 DEF LoadInv
  <2>9. \E g \in DOMAIN filenames' :
          filenames'[g] = reload'.wd /\ g \notin DOMAIN reload'.new \cup reload'.remove
    BY <2>2, <2>4, <2>5
  <2>. QED  BY <1>9, <2>2, <2>4, <2>6, <2>7, <2>8, <2>9 DEF Adding
\* The steps of ufa_monitor_remove_watcher that leave table_filename alone.
<1>14. ASSUME reload.at \in Removing, UNCHANGED <<dirs, events, filenames>>,
              reload'.new = reload.new, reload'.remove = reload.remove,
              \/ /\ reload.at \in {"rm", "unget"} /\ reload'.at \in {"unget", "unname"}
                 /\ reload'.wd = reload.wd
              \/ reload.at \in {"untable", "uncall"} /\ reload'.at \in {"uncall", "next"}
       PROVE  FollowInv'
  <2>1. \A f \in DOMAIN filenames' : f \in DOMAIN reload'.new \cup reload'.remove \/ LetGo(f)'
    BY <1>12, <1>14 DEF LoadInv, LetGo
  <2>2. \A f \in reload'.remove : Same(f)' /\ f \notin DOMAIN reload'.new
    BY <1>12, <1>14 DEF LoadInv, Same
  <2>3. \A f \in DOMAIN reload'.new :
          reload'.new[f] # NULL => f \in DOMAIN filenames' /\ reload'.new[f] = filenames'[f]
    BY <1>12, <1>14 DEF LoadInv
  <2>4. reload'.at \in {"rm", "unget", "unname"} =>
          \E f \in DOMAIN filenames' :
            filenames'[f] = reload'.wd /\ f \notin DOMAIN reload'.new \cup reload'.remove
    BY <1>12, <1>14 DEF LoadInv
  <2>. QED  BY <1>9, <1>14, <2>1, <2>2, <2>3, <2>4 DEF Adding
<1>15. CASE InotifyRm
  <2>1. reload.at = "rm" /\ UNCHANGED <<dirs, events, filenames>>
    BY <1>15 DEF InotifyRm
  <2>2. reload.wd \in DOMAIN watches
    <3>1. PICK f \in DOMAIN filenames : filenames[f] = reload.wd
      BY <1>12, <2>1 DEF LoadInv
    <3>2. reload.wd \in DOMAIN table
      BY <3>1 DEF Established, TablesAll, TablesInv, TablesInverse
    <3>. QED  BY <2>1, <3>2 DEF Established, TablesAll, TablesInv, RemovedAt
  <2>3. reload' = [reload EXCEPT !.at = "unget"]
    BY <1>15, <2>2 DEF InotifyRm
  <2>4. /\ reload'.at = "unget" /\ reload'.wd = reload.wd
        /\ reload'.new = reload.new /\ reload'.remove = reload.remove
    BY <1>0, <2>3 DEF ReloadRecord
  <2>. QED  BY <1>14, <2>1, <2>4 DEF Removing
<1>16. CASE GetPath
  <2>1. reload.at = "unget" /\ UNCHANGED <<dirs, events, filenames>>
    BY <1>16 DEF GetPath, monitor
  <2>2. reload.wd \in DOMAIN table
    BY <2>1 DEF Established, TablesAll, Dropping
  <2>3. reload' = [reload EXCEPT !.at = "unname", !.dir = table[reload.wd]]
    BY <1>16, <2>2 DEF GetPath
  <2>4. /\ reload'.at = "unname" /\ reload'.wd = reload.wd
        /\ reload'.new = reload.new /\ reload'.remove = reload.remove
    BY <1>0, <2>3 DEF ReloadRecord
  <2>. QED  BY <1>14, <2>1, <2>4 DEF Removing
<1>17. CASE DropPath \/ DropCallback
  <2>1. /\ reload.at \in {"untable", "uncall"} /\ reload'.at \in {"uncall", "next"}
        /\ reload'.new = reload.new /\ reload'.remove = reload.remove
        /\ UNCHANGED <<dirs, events, filenames>>
    BY <1>0, <1>17 DEF DropPath, DropCallback, ReloadRecord
  <2>. QED  BY <1>14, <2>1 DEF Removing
<1>18. CASE DropFilename
  <2>1. /\ reload.at = "unname" /\ reload'.at = "untable"
        /\ reload'.new = reload.new /\ reload'.remove = reload.remove
        /\ filenames' = Drop(filenames, reload.dir)
        /\ UNCHANGED <<dirs, events>>
    BY <1>0, <1>18 DEF DropFilename, ReloadRecord
  <2>2. PICK f \in DOMAIN filenames :
          filenames[f] = reload.wd /\ f \notin DOMAIN reload.new \cup reload.remove
    BY <1>12, <2>1 DEF LoadInv
  <2>3. reload.dir = f
    BY <2>1, <2>2 DEF Established, TablesAll, Dropping, TablesInv, TablesInverse
  <2>4. \A g \in DOMAIN filenames : filenames[g] = reload.wd => g = f
    BY <2>2 DEF Established, TablesAll, TablesInv, TablesInverse
  <2>5. DOMAIN filenames' = DOMAIN filenames \ {f}
        /\ \A g \in DOMAIN filenames' : filenames'[g] = filenames[g]
    BY <2>1, <2>3 DEF Drop
  <2>6. \A g \in DOMAIN filenames' : g \in DOMAIN reload'.new \cup reload'.remove
    BY <1>12, <2>1, <2>4, <2>5 DEF LoadInv, LetGo
  <2>7. \A g \in reload'.remove : Same(g)' /\ g \notin DOMAIN reload'.new
    BY <1>12, <2>1, <2>2, <2>5 DEF LoadInv, Same
  <2>8. \A g \in DOMAIN reload'.new :
          reload'.new[g] # NULL => g \in DOMAIN filenames' /\ reload'.new[g] = filenames'[g]
    BY <1>12, <2>1, <2>2, <2>5 DEF LoadInv
  <2>. QED  BY <1>9, <2>1, <2>6, <2>7, <2>8 DEF Adding
<1>19. CASE AddNext
  <2>1. /\ reload.at = "next" /\ reload'.at = "lookup" /\ reload.remove = {}
        /\ reload'.new = reload.new /\ reload'.remove = {}
        /\ UNCHANGED <<dirs, events, filenames>>
    BY <1>0, <1>19 DEF AddNext, ReloadRecord, monitor
  <2>2. \A f \in DOMAIN filenames' : f \in DOMAIN reload'.new
    BY <1>12, <2>1 DEF LoadInv, LetGo
  <2>3. \A f \in DOMAIN reload'.new :
          reload'.new[f] # NULL => f \in DOMAIN filenames' /\ reload'.new[f] = filenames'[f]
    BY <1>12, <2>1 DEF LoadInv
  <2>. QED  BY <1>9, <2>1, <2>2, <2>3
<1>20. CASE AddNew
  <2>1. /\ AddEffect(reload.at, reload.wd, reload.dir, reload'.at, reload'.wd)
        /\ reload.at \in Adding /\ reload'.dir = reload.dir
        /\ reload'.new = reload.new /\ reload'.remove = reload.remove
        /\ UNCHANGED <<dirs, events>>
    BY <1>20, ReloadAdds DEF AddNew, Established
  <2>2. onDisk[reload.dir] # Nowhere /\ reload.dir \in DOMAIN reload.new
    BY <2>1 DEF Established, AssertInv, ReloadConsistent
  <2>3. NamesEffect(reload.at, reload.dir, reload'.at, reload'.wd)
    BY <2>1, <2>2, AddNames
  <2>4. reload.remove = {} /\ \A f \in DOMAIN filenames : f \in DOMAIN reload.new
    BY <1>12, <2>1 DEF LoadInv, LetGo, Adding
  <2>5. \A f \in DOMAIN filenames' : f \in DOMAIN reload'.new
    BY <2>1, <2>2, <2>3, <2>4 DEF NamesEffect
  <2>6. reload.at = "filename" => reload.dir \notin DOMAIN filenames
    BY DEF Established, TablesAll, Pending
  <2>7. \A f \in DOMAIN reload'.new :
          reload'.new[f] # NULL => f \in DOMAIN filenames' /\ reload'.new[f] = filenames'[f]
    BY <1>12, <2>1, <2>3, <2>6 DEF LoadInv, Adding, NamesEffect
  <2>8. reload.at # "idle" /\ reload'.at # "idle" /\ reload'.at \notin {"rm", "unget", "unname"}
    BY <2>3 DEF Adding, NamesEffect
  <2>. QED  BY <1>9, <2>1, <2>3, <2>4, <2>5, <2>7, <2>8 DEF NamesEffect
<1>21. CASE AddDone
  <2>1. reload.at \in Adding
    BY <1>21 DEF AddDone, Adding
  <2>2. reload.at # "refused" /\ reload.dir \in DOMAIN reload.new
    BY <2>1 DEF Established, AssertInv, ReloadConsistent
  <2>3. /\ reload.at = "added"
        /\ reload' = [reload EXCEPT !.at = "next", !.dir = Nowhere, !.wd = NULL,
                                    !.new = Put(@, reload.dir, reload.wd)]
    BY <1>21, <2>2 DEF AddDone
  <2>4. /\ reload'.at = "next" /\ reload'.remove = reload.remove
        /\ reload'.new = Put(reload.new, reload.dir, reload.wd)
        /\ UNCHANGED <<dirs, events, filenames>>
    BY <1>0, <1>21, <2>3 DEF AddDone, ReloadRecord, monitor
  <2>5. /\ DOMAIN reload'.new = DOMAIN reload.new /\ reload'.new[reload.dir] = reload.wd
        /\ \A f \in DOMAIN reload.new : f # reload.dir => reload'.new[f] = reload.new[f]
    BY <2>2, <2>4 DEF Put
  <2>6. /\ reload.remove = {} /\ \A f \in DOMAIN filenames : f \in DOMAIN reload.new
        /\ reload.dir \in DOMAIN filenames /\ reload.wd = filenames[reload.dir]
    BY <1>12, <2>1, <2>3 DEF LoadInv, LetGo, Adding
  <2>7. \A f \in DOMAIN reload'.new :
          reload'.new[f] # NULL => f \in DOMAIN filenames' /\ reload'.new[f] = filenames'[f]
    BY <1>12, <2>3, <2>4, <2>5, <2>6 DEF LoadInv
  <2>. QED  BY <1>9, <2>3, <2>4, <2>5, <2>6, <2>7 DEF Adding
<1>22. CASE EndReload
  <2>1. /\ reload.at = "next" /\ reload.remove = {} /\ reload.add = {}
        /\ dirs' = reload.new /\ reload'.at = "idle" /\ UNCHANGED <<events, filenames>>
    BY <1>22 DEF EndReload, Idle, monitor
  <2>2. \A f \in DOMAIN reload.new : reload.new[f] # NULL
    BY <2>1 DEF Established, AssertInv, ReloadConsistent, Folders, Adding
  <2>3. DOMAIN filenames = DOMAIN reload.new
        /\ \A f \in DOMAIN reload.new : reload.new[f] = filenames[f]
    BY <1>12, <2>1, <2>2 DEF LoadInv, LetGo
  <2>4. Current(DOMAIN dirs)'
    BY <1>1, <1>3, <1>12, <2>1 DEF LoadInv, Current, user
  <2>5. IdleInv' /\ LoadInv'
    BY <2>1, <2>3, <2>4 DEF IdleInv, LoadInv, Same
  <2>. QED  BY <1>5, <1>7, <2>1, <2>5 DEF FollowInv
<1>. QED
  BY <1>10, <1>11, <1>13, <1>15, <1>16, <1>17, <1>18, <1>19, <1>20, <1>21, <1>22
     DEF MonitorThread, RemoveWatch

\* If only the lines of "dirs" change, by an editor and after the start, the
\* daemon always ends up watching the folders listed: whenever no change is
\* being written, queued or read, its table, the monitor's tables and the
\* kernel's watches agree with the file, path by path and inode by inode.
THEOREM ConfigFollowed ==
  ASSUME Settles
  PROVE  Spec => []WatchesFollowConfig
<1>. Undisturbed /\ "folder" \notin Env /\ "early" \notin Env
  BY DEF Settles, Undisturbed
<1>1. Spec => [](TypeOK /\ KnownInv /\ AssertInv /\ TablesAll)
  BY TypeCorrect, KnownHolds, AssertionsCorrect, TablesHold, PTL
<1>2. Init => FollowInv
  BY DEF Init, FollowInv, StartInv, IdleInv, LoadInv, OnlyWrites, Empty, Idle, Early, Adding
<1>3. Established /\ TypeOK' /\ FollowInv /\ [Next]_vars => FollowInv'
  <2>. SUFFICES ASSUME Established, TypeOK', FollowInv, [Next]_vars PROVE FollowInv'
    OBVIOUS
  <2>1. CASE UNCHANGED vars
    <3>1. Folders(ConfigDirs)' = Folders(ConfigDirs) /\ ConfigDirs' = ConfigDirs
      BY <2>1 DEF vars, user, Folders, ConfigDirs
    <3>2. UNCHANGED <<writing, events, filenames, dirs, main, reload>>
      BY <2>1 DEF vars, user, monitor
    <3>3. Folders(main.todo)' = Folders(main.todo)
      BY <3>2 DEF Folders
    <3>4. StartInv'
      BY <3>1, <3>2, <3>3 DEF FollowInv, StartInv, Same
    <3>5. IdleInv' /\ LoadInv' /\ OnlyWrites'
      BY <3>1, <3>2 DEF FollowInv, IdleInv, LoadInv, LetGo, OnlyWrites, Current, Same
    <3>. QED  BY <3>4, <3>5 DEF FollowInv
  <2>. QED
    BY <2>1, MainFollow, ReloadFollow, UsersFollow DEF Next
<1>4. Established /\ FollowInv => WatchesFollowConfig
  <2>. SUFFICES ASSUME Established, FollowInv, AtRest
       PROVE  /\ DOMAIN dirs = Folders(ConfigDirs)
              /\ DOMAIN watches = {dirs[f] : f \in DOMAIN dirs}
              /\ \A f \in DOMAIN dirs : watches[dirs[f]] = onDisk[f] /\ table[dirs[f]] = f
    BY DEF WatchesFollowConfig
  <2>1. /\ DOMAIN filenames = DOMAIN dirs /\ DOMAIN dirs = Folders(ConfigDirs)
        /\ \A f \in DOMAIN dirs : dirs[f] = filenames[f]
    BY DEF AtRest, FollowInv, IdleInv, Current, Same
  <2>2. \A w : ~AddedAt({"table"}, w) /\ ~AddedAt({"table", "callbacks"}, w)
                  /\ ~AddedAt({"callbacks", "filename"}, w) /\ ~RemovedAt({"untable"}, w)
                  /\ ~RemovedAt({"unget", "unname", "untable"}, w)
    BY DEF AtRest, AddedAt, RemovedAt
  <2>3. \A f \in DOMAIN dirs : /\ dirs[f] \in DOMAIN table /\ table[dirs[f]] = f
                               /\ dirs[f] \in DOMAIN watches
                               /\ watches[dirs[f]] = onDisk[f]
    BY <2>1, <2>2 DEF Established, TablesAll, TablesInv, TablesInverse
  <2>4. \A w \in DOMAIN watches : table[w] \in DOMAIN dirs /\ dirs[table[w]] = w
    BY <2>1, <2>2 DEF Established, KnownInv, WatchesKnown, TablesAll, TablesInv, TablesInverse
  <2>. QED  BY <2>1, <2>3, <2>4
<1>. QED
  BY <1>1, <1>2, <1>3, <1>4, PTL DEF Spec, Established
=============================================================================
