-------------------------------- MODULE Watch --------------------------------
(***************************************************************************)
(* Which folders the daemon watches.  The file "dirs" lists the folders;   *)
(* start_ufad (core/ufad.c, main thread) adds a watch for each of them,    *)
(* and reload_config (core/ufad.c, monitor thread) follows the changes of  *)
(* the file, which it learns from a watch on the configuration directory.  *)
(* Both use the tables of core/monitor_inotify.c and the watches of the    *)
(* kernel, without a lock.  A step is a call of the kernel or one access   *)
(* to a hash table (few folders, each in a bucket of its own); a reload    *)
(* reads the file and the table of folders in one step.                    *)
(*                                                                         *)
(* Env lists what happens beside the regular case:                         *)
(*   "early"      "dirs" is edited while the daemon starts                 *)
(*   "ufactl"     "dirs" is replaced by a rename, as config.c does it,     *)
(*                instead of being written in place                        *)
(*   "duplicate"  "dirs" lists a folder twice                              *)
(*   "fail"       inotify_add_watch fails (permissions, number of watches) *)
(*   "folder"     folders are deleted, created and renamed                 *)
(***************************************************************************)
EXTENDS Naturals, FiniteSets, Sequences

CONSTANTS
  Folder,     \* paths that "dirs" may list
  Env,        \* see above
  Nowhere,    \* in place of a folder, and of the inode of a path that is none
  MaxChanges, \* bound on the number of changes users make, for TLC
  MaxListed   \* bound on the length of "dirs", for TLC

ASSUME EnvAssumption ==
  /\ Env \subseteq {"early", "ufactl", "duplicate", "fail", "folder"}
  /\ MaxChanges \in Nat
  /\ MaxListed \in Nat
  /\ Nowhere \notin Nat
  /\ IsFiniteSet(Folder)

VARIABLES
  listed,     \* the lines of "dirs"
  writing,    \* an editor has truncated "dirs" and not closed it yet
  events,     \* changes of "dirs" that inotify has queued
  onDisk,     \* inode of each path, or Nowhere
  watches,    \* the kernel's watches: wd -> inode
  nextWd,     \* the next wd the kernel gives out
  table,      \* monitor: wd -> path
  callbacks,  \* monitor: the wds with a callback
  filenames,  \* monitor, table_filename: path -> wd
  dirs,       \* daemon, table_current_dirs: path -> wd, or NULL
  main,       \* start_ufad: [at, todo, dir, wd]
  reload,     \* reload_config: [at, add, remove, new, dir, wd]
  failed,     \* an assertion has failed, or NULL was used as a path
  changes     \* number of changes users have made

user == <<listed, writing, onDisk, changes>>
monitor == <<watches, nextWd, table, callbacks, filenames>>
vars == <<user, events, monitor, dirs, main, reload, failed>>

NULL == 0
Wd == Nat \ {0}
Lists == UNION {[1 .. n -> Folder] : n \in 0 .. MaxListed}
Line == (Nat \ {0}) \X Folder
Folders(lines) == {p[2] : p \in lines}
Empty == [x \in {} |-> x]

\* ufa_hashtable_get, ufa_hashtable_put and ufa_hashtable_remove.
Get(t, k) == IF k \in DOMAIN t THEN t[k] ELSE NULL
Put(t, k, v) == [x \in DOMAIN t \cup {k} |-> IF x = k THEN v ELSE t[x]]
Drop(t, k) == [x \in DOMAIN t \ {k} |-> t[x]]

Idle == [at |-> "idle", add |-> {}, remove |-> {}, new |-> Empty,
         dir |-> Nowhere, wd |-> NULL]

NoDuplicates(l) == \A i, j \in DOMAIN l : l[i] = l[j] => i = j

Init ==
  /\ listed \in {l \in Lists : "duplicate" \in Env \/ NoDuplicates(l)}
  /\ writing = FALSE
  /\ events = <<>>
  /\ onDisk \in {o \in [Folder -> 1 .. Cardinality(Folder) \cup {Nowhere}] :
                   \A f, g \in Folder : o[f] = o[g] /\ o[f] # Nowhere => f = g}
  /\ watches = Empty /\ nextWd = 1
  /\ table = Empty /\ callbacks = {} /\ filenames = Empty
  /\ dirs = Empty
  /\ main = [at |-> "dirs", todo |-> {}, dir |-> Nowhere, wd |-> NULL]
  /\ reload = Idle
  /\ failed = FALSE
  /\ changes = 0

-----------------------------------------------------------------------------
\* Users.

Change ==
  /\ changes < MaxChanges
  /\ changes' = changes + 1

Notify(event) ==
  events' = IF main.at \in {"dirs", "config"} THEN events
            ELSE Append(events, event)

\* An editor truncates the file, writes and closes it.
EditStart ==
  /\ Change
  /\ "early" \in Env \/ main.at = "run"
  /\ ~writing
  /\ writing' = TRUE
  /\ listed' = <<>>
  /\ UNCHANGED <<onDisk, events, monitor, dirs, main, reload, failed>>

EditEnd(l) ==
  /\ writing
  /\ "duplicate" \in Env \/ NoDuplicates(l)
  /\ writing' = FALSE
  /\ listed' = l
  /\ Notify("closewrite")
  /\ UNCHANGED <<onDisk, changes, monitor, dirs, main, reload, failed>>

\* write_config of config.c writes a temporary file and renames it.
Ufactl(l) ==
  /\ "ufactl" \in Env
  /\ Change
  /\ "early" \in Env \/ main.at = "run"
  /\ ~writing
  /\ NoDuplicates(l) /\ l # listed
  /\ listed' = l
  /\ Notify("move")
  /\ UNCHANGED <<writing, onDisk, monitor, dirs, main, reload, failed>>

\* The kernel drops the watch of a folder that is deleted.
DeleteFolder(f) ==
  /\ "folder" \in Env
  /\ Change
  /\ onDisk[f] # Nowhere
  /\ onDisk' = [onDisk EXCEPT ![f] = Nowhere]
  /\ watches' = [w \in {x \in DOMAIN watches : watches[x] # onDisk[f]} |-> watches[w]]
  /\ UNCHANGED <<listed, writing, events, nextWd, table, callbacks, filenames, dirs, main,
                 reload, failed>>

CreateFolder(f) ==
  /\ "folder" \in Env
  /\ Change
  /\ onDisk[f] = Nowhere
  /\ onDisk' = [onDisk EXCEPT ![f] = Cardinality(Folder) + changes + 1]
  /\ UNCHANGED <<listed, writing, events, monitor, dirs, main, reload, failed>>

RenameFolder(f, g) ==
  /\ "folder" \in Env
  /\ Change
  /\ onDisk[f] # Nowhere /\ onDisk[g] = Nowhere
  /\ onDisk' = [onDisk EXCEPT ![g] = onDisk[f], ![f] = Nowhere]
  /\ UNCHANGED <<listed, writing, events, monitor, dirs, main, reload, failed>>

-----------------------------------------------------------------------------
\* (The mutant does not test whether a line is a folder.)
AllLines == {<<i, listed[i]>> : i \in DOMAIN listed}

\* ufa_config_dirs: the list of those lines that are folders.
ConfigDirs ==
  {<<i, listed[i]>> : i \in {j \in DOMAIN listed : onDisk[listed[j]] # Nowhere}}

First(p, lines) == p \in lines /\ \A q \in lines : p[1] <= q[1]

-----------------------------------------------------------------------------
\* ufa_monitor_add_watcher, called by a thread whose locals t become u.
Known(f) == f \in DOMAIN filenames

Lookup(t, u) ==
  /\ t.at = "lookup"
  /\ \/ Known(t.dir) /\ u = [t EXCEPT !.at = "added", !.wd = filenames[t.dir]]
     \/ ~Known(t.dir) /\ u = [t EXCEPT !.at = "watch"]
  /\ UNCHANGED monitor

\* The kernel gives an inode one wd only.
WdFor(f) ==
  IF \E w \in DOMAIN watches : watches[w] = onDisk[f]
  THEN CHOOSE w \in DOMAIN watches : watches[w] = onDisk[f]
  ELSE nextWd

InotifyAdd(t, u) ==
  /\ t.at = "watch"
  /\ onDisk[t.dir] # Nowhere
  /\ watches' = Put(watches, WdFor(t.dir), onDisk[t.dir])
  /\ nextWd' = IF WdFor(t.dir) = nextWd THEN nextWd + 1 ELSE nextWd
  /\ u = [t EXCEPT !.at = "table", !.wd = WdFor(t.dir)]
  /\ UNCHANGED <<table, callbacks, filenames>>

InotifyAddFails(t, u) ==
  /\ t.at = "watch"
  /\ "fail" \in Env \/ onDisk[t.dir] = Nowhere
  /\ u = [t EXCEPT !.at = "refused"]
  /\ UNCHANGED monitor

PutPath(t, u) ==
  /\ t.at = "table"
  /\ table' = Put(table, t.wd, t.dir)
  /\ u = [t EXCEPT !.at = "callbacks"]
  /\ UNCHANGED <<watches, nextWd, callbacks, filenames>>

PutCallback(t, u) ==
  /\ t.at = "callbacks"
  /\ callbacks' = callbacks \cup {t.wd}
  /\ u = [t EXCEPT !.at = "filename"]
  /\ UNCHANGED <<watches, nextWd, table, filenames>>

PutFilename(t, u) ==
  /\ t.at = "filename"
  /\ filenames' = Put(filenames, t.dir, t.wd)
  /\ u = [t EXCEPT !.at = "added"]
  /\ UNCHANGED <<watches, nextWd, table, callbacks>>

AddWatcher(t, u) ==
  \/ Lookup(t, u) \/ InotifyAdd(t, u) \/ InotifyAddFails(t, u)
  \/ PutPath(t, u) \/ PutCallback(t, u) \/ PutFilename(t, u)

-----------------------------------------------------------------------------
\* start_ufad.

ReadDirs ==
  /\ main.at = "dirs"
  /\ main' = [main EXCEPT !.at = "config", !.todo = ConfigDirs]
  /\ UNCHANGED <<user, events, monitor, dirs, reload, failed>>

\* ufa_monitor_init, and the watch for the configuration directory: the call of
\* the kernel, the path in table and the callback, with the monitor thread
\* running.
WatchConfig ==
  /\ main.at \in {"config", "cfgtable", "cfgcall"}
  /\ main' = [main EXCEPT !.at = IF @ = "config" THEN "cfgtable"
                                 ELSE IF @ = "cfgtable" THEN "cfgcall" ELSE "put"]
  /\ UNCHANGED <<user, events, monitor, dirs, reload, failed>>

PutNull ==
  /\ main.at = "put"
  /\ \E p \in main.todo :
       /\ First(p, main.todo)
       /\ dirs' = Put(dirs, p[2], NULL)
       /\ main' = [main EXCEPT !.at = "lookup", !.todo = @ \ {p}, !.dir = p[2]]
  /\ UNCHANGED <<user, events, monitor, reload, failed>>

AddWatch ==
  /\ AddWatcher(main, main')
  /\ UNCHANGED <<user, events, dirs, reload, failed>>

PutWd ==
  /\ main.at = "added"
  /\ dirs' = Put(dirs, main.dir, main.wd)
  /\ failed' = (failed \/ main.dir \notin DOMAIN dirs)
  /\ main' = [main EXCEPT !.at = "put", !.wd = NULL]
  /\ UNCHANGED <<user, events, monitor, reload>>

Refused ==
  /\ main.at = "refused"
  /\ main' = [main EXCEPT !.at = "put"]
  /\ UNCHANGED <<user, events, monitor, dirs, reload, failed>>

Started ==
  /\ main.at = "put"
  /\ main.todo = {}
  /\ main' = [main EXCEPT !.at = "run"]
  /\ UNCHANGED <<user, events, monitor, dirs, reload, failed>>

-----------------------------------------------------------------------------
\* The monitor thread reads an event of the configuration directory:
\* callback_event_config and reload_config.

NextEvent(kind) ==
  /\ reload.at = "idle"
  /\ events # <<>>
  /\ Head(events) = kind
  /\ events' = Tail(events)

\* The directory is not in table yet: the path of the event starts at NULL.
EventWithoutPath ==
  /\ main.at = "cfgtable"
  /\ \E kind \in {"closewrite", "move"} : NextEvent(kind)
  /\ failed' = TRUE
  /\ UNCHANGED <<user, monitor, dirs, main, reload>>

\* Renames are not looked at, and nothing is before the callback is there.
IgnoreEvent ==
  /\ main.at # "cfgtable"
  /\ NextEvent("move") \/ (main.at = "cfgcall" /\ NextEvent("closewrite"))
  /\ UNCHANGED <<user, monitor, dirs, main, reload, failed>>

\* (The mutant forgets the folders that are listed no more.)
RemoveNone(lines) == {}

ToRemove(lines) == DOMAIN dirs \ Folders(lines)

StartReload ==
  /\ main.at \notin {"cfgtable", "cfgcall"}
  /\ NextEvent("closewrite")
  /\ LET known == Folders(ConfigDirs) \cap DOMAIN dirs IN
     /\ failed' = (failed \/ \E f \in known : dirs[f] = NULL)
     /\ reload' =
          [Idle EXCEPT
             !.at = "next",
             !.add = {p \in ConfigDirs : p[2] \notin DOMAIN dirs},
             !.remove = ToRemove(ConfigDirs),
             !.new = [f \in Folders(ConfigDirs) |-> IF f \in known THEN dirs[f] ELSE NULL]]
  /\ UNCHANGED <<user, monitor, dirs, main>>

\* The folders listed no more: each wd goes through ufa_monitor_remove_watcher.
RemoveNext ==
  /\ reload.at = "next"
  /\ \E f \in reload.remove :
       \/ /\ Get(dirs, f) = NULL
          /\ failed' = TRUE
          /\ UNCHANGED reload
       \/ /\ Get(dirs, f) # NULL
          /\ reload' = [reload EXCEPT !.at = "rm", !.remove = @ \ {f}, !.wd = Get(dirs, f)]
          /\ UNCHANGED failed
  /\ UNCHANGED <<user, events, monitor, dirs, main>>

\* (The mutants leave the kernel's watch, and the path in table_filename.)
NoInotifyRm ==
  /\ reload.at = "rm"
  /\ reload' = [reload EXCEPT !.at = "unget"]
  /\ UNCHANGED <<user, events, monitor, dirs, main, failed>>

KeepFilename ==
  /\ reload.at = "unname"
  /\ reload' = [reload EXCEPT !.at = "untable", !.dir = Nowhere]
  /\ UNCHANGED <<user, events, monitor, dirs, main, failed>>

\* A watch that the kernel does not have is left alone.
InotifyRm ==
  /\ reload.at = "rm"
  /\ \/ /\ reload.wd \notin DOMAIN watches
        /\ reload' = [reload EXCEPT !.at = "next", !.wd = NULL]
        /\ UNCHANGED watches
     \/ /\ reload.wd \in DOMAIN watches
        /\ reload' = [reload EXCEPT !.at = "unget"]
        /\ watches' = Drop(watches, reload.wd)
  /\ UNCHANGED <<user, events, nextWd, table, callbacks, filenames, dirs, main, failed>>

GetPath ==
  /\ reload.at = "unget"
  /\ failed' = (failed \/ reload.wd \notin DOMAIN table)
  /\ reload' = IF reload.wd \in DOMAIN table
               THEN [reload EXCEPT !.at = "unname", !.dir = table[reload.wd]]
               ELSE reload
  /\ UNCHANGED <<user, events, monitor, dirs, main>>

DropFilename ==
  /\ reload.at = "unname"
  /\ filenames' = Drop(filenames, reload.dir)
  /\ reload' = [reload EXCEPT !.at = "untable", !.dir = Nowhere]
  /\ UNCHANGED <<user, events, watches, nextWd, table, callbacks, dirs, main, failed>>

DropPath ==
  /\ reload.at = "untable"
  /\ table' = Drop(table, reload.wd)
  /\ reload' = [reload EXCEPT !.at = "uncall"]
  /\ UNCHANGED <<user, events, watches, nextWd, callbacks, filenames, dirs, main, failed>>

DropCallback ==
  /\ reload.at = "uncall"
  /\ callbacks' = callbacks \ {reload.wd}
  /\ reload' = [reload EXCEPT !.at = "next", !.wd = NULL]
  /\ UNCHANGED <<user, events, watches, nextWd, table, filenames, dirs, main, failed>>

RemoveWatch ==
  RemoveNext \/ InotifyRm \/ GetPath \/ DropFilename \/ DropPath \/ DropCallback

\* The folders that are new in the list.
AddNext ==
  /\ reload.at = "next"
  /\ reload.remove = {}
  /\ \E p \in reload.add :
       /\ First(p, reload.add)
       /\ reload' = [reload EXCEPT !.at = "lookup", !.add = @ \ {p}, !.dir = p[2]]
  /\ UNCHANGED <<user, events, monitor, dirs, main, failed>>

AddNew ==
  /\ AddWatcher(reload, reload')
  /\ UNCHANGED <<user, events, dirs, main, failed>>

AddDone ==
  /\ reload.at \in {"added", "refused"}
  /\ failed' = (failed \/ reload.dir \notin DOMAIN reload.new)
  /\ reload' = [reload EXCEPT !.at = "next", !.dir = Nowhere, !.wd = NULL,
                              !.new = IF reload.at = "added"
                                      THEN Put(@, reload.dir, reload.wd)
                                      ELSE Drop(@, reload.dir)]
  /\ UNCHANGED <<user, events, monitor, dirs, main>>

EndReload ==
  /\ reload.at = "next"
  /\ reload.remove = {} /\ reload.add = {}
  /\ dirs' = reload.new
  /\ reload' = Idle
  /\ UNCHANGED <<user, events, monitor, main, failed>>

-----------------------------------------------------------------------------
MainThread ==
  ReadDirs \/ WatchConfig \/ PutNull \/ AddWatch \/ PutWd \/ Refused \/ Started

MonitorThread ==
  \/ EventWithoutPath \/ IgnoreEvent \/ StartReload \/ RemoveWatch
  \/ AddNext \/ AddNew \/ AddDone \/ EndReload

Users ==
  \/ EditStart
  \/ \E l \in Lists : EditEnd(l) \/ Ufactl(l)
  \/ \E f \in Folder :
       \/ DeleteFolder(f) \/ CreateFolder(f)
       \/ \E g \in Folder : RenameFolder(f, g)

\* A failed assertion or a NULL path ends the daemon.
Next == ~failed /\ (MainThread \/ MonitorThread \/ Users)

Spec == Init /\ [][Next]_vars

\* Threads run, and editors close the file; nobody has to change anything.
FairSpec ==
  /\ Spec
  /\ WF_vars(~failed /\ MainThread)
  /\ WF_vars(~failed /\ MonitorThread)
  /\ WF_vars(~failed /\ \E l \in Lists : EditEnd(l))

-----------------------------------------------------------------------------
PartialFunction(t, S, T) == DOMAIN t \subseteq S /\ \A x \in DOMAIN t : t[x] \in T

Adding == {"lookup", "watch", "table", "callbacks", "filename", "added", "refused"}

HasWd == {"table", "callbacks", "filename", "added"}

Removing == {"rm", "unget", "unname", "untable", "uncall"}

UserType ==
  /\ listed \in Lists
  /\ writing \in BOOLEAN
  /\ onDisk \in [Folder -> Wd \cup {Nowhere}]
  /\ changes \in 0 .. MaxChanges

MonitorType ==
  /\ PartialFunction(watches, Wd, Wd)
  /\ nextWd \in Wd
  /\ PartialFunction(table, Wd, Folder)
  /\ callbacks \subseteq Wd
  /\ PartialFunction(filenames, Folder, Wd)

MainRecord ==
  [at: {"dirs", "config", "cfgtable", "cfgcall", "put", "run"} \cup Adding,
   todo: SUBSET Line, dir: Folder \cup {Nowhere}, wd: Nat]

MainType ==
  /\ main \in MainRecord
  /\ main.at \in Adding => main.dir \in Folder
  /\ main.wd # NULL <=> main.at \in HasWd

ReloadType ==
  /\ reload \in [at: {"idle", "next"} \cup Adding \cup Removing,
                 add: SUBSET Line, remove: SUBSET Folder, new: {reload.new},
                 dir: Folder \cup {Nowhere}, wd: Nat]
  /\ \E D \in SUBSET Folder : reload.new \in [D -> Nat]
  /\ reload.at \in Adding \cup {"unname"} => reload.dir \in Folder
  /\ reload.wd # NULL <=> reload.at \in HasWd \cup Removing
  /\ reload.at = "idle" <=> reload = Idle

TypeOK ==
  /\ UserType /\ MonitorType /\ MainType /\ ReloadType
  /\ events \in Seq({"closewrite", "move"})
  /\ PartialFunction(dirs, Folder, Nat)
  /\ failed \in BOOLEAN

AtRest == main.at = "run" /\ reload.at = "idle" /\ events = <<>> /\ ~writing /\ ~failed

\* When no change is under way, the daemon watches exactly the folders that
\* "dirs" lists, each through a live watch on the inode the path now has, and
\* the monitor reports its events under that path.
WatchesFollowConfig ==
  AtRest =>
    /\ DOMAIN dirs = Folders(ConfigDirs)
    /\ DOMAIN watches = {dirs[f] : f \in DOMAIN dirs}
    /\ \A f \in DOMAIN dirs :
         /\ watches[dirs[f]] = onDisk[f]
         /\ table[dirs[f]] = f

\* None of the assertions of start_ufad, reload_config and
\* ufa_monitor_remove_watcher fails.
AssertionsHold == ~failed

\* A thread is adding w, and has the rest of its entries still to put.
AddedAt(places, w) ==
  \/ main.at \in places /\ main.wd = w
  \/ reload.at \in places /\ reload.wd = w

RemovedAt(places, w) == reload.at \in places /\ reload.wd = w

\* A watch of the kernel has a path, and a callback, except between the call of
\* the kernel and the steps that enter them; and the path of a watch that a
\* reload removes is still there when it is looked up.
WatchesKnown ==
  /\ \A w \in DOMAIN watches :
       /\ w \in DOMAIN table \/ AddedAt({"table"}, w)
       /\ w \in callbacks \/ AddedAt({"table", "callbacks"}, w)
  /\ reload.at = "unget" => reload.wd \in DOMAIN table

\* Why the assertions hold when folders stay where they are, can be watched,
\* and "dirs" is left alone during the start: dirs maps a folder to NULL only
\* while start_ufad adds it, and a reload looks up only what it has put.
OnlyMainStarts == main.at # "run" => events = <<>> /\ reload = Idle /\ ~writing

NullWhileAdded ==
  \A f \in DOMAIN dirs : dirs[f] = NULL => main.at \in Adding /\ main.dir = f

AddedIsThere ==
  main.at \in Adding =>
    main.dir \in DOMAIN dirs /\ onDisk[main.dir] # Nowhere /\ main.at # "refused"

TodoOnDisk == \A p \in main.todo : onDisk[p[2]] # Nowhere

ReloadConsistent ==
  /\ reload.remove \subseteq DOMAIN dirs
  /\ \A p \in reload.add : onDisk[p[2]] # Nowhere /\ p[2] \in DOMAIN reload.new
  /\ reload.at \in Adding =>
       /\ reload.dir \in DOMAIN reload.new
       /\ onDisk[reload.dir] # Nowhere /\ reload.at # "refused"
  /\ \A f \in DOMAIN reload.new :
       reload.new[f] = NULL =>
         f \in Folders(reload.add) \/ (reload.at \in Adding /\ reload.dir = f)

AssertInv ==
  /\ OnlyMainStarts
  /\ NullWhileAdded
  /\ AddedIsThere
  /\ TodoOnDisk
  /\ ReloadConsistent
  /\ AssertionsHold

\* The monitor's tables are inverse to each other but for the entries that a
\* thread is putting or removing.
TablesInverse ==
  /\ \A w \in DOMAIN table :
       \/ AddedAt({"callbacks", "filename"}, w) \/ RemovedAt({"untable"}, w)
       \/ table[w] \in DOMAIN filenames /\ filenames[table[w]] = w
  /\ \A f \in DOMAIN filenames : filenames[f] \in DOMAIN table /\ table[filenames[f]] = f

\* Each path has an inode of its own, which its watch is on until it is removed.
TablesInv ==
  /\ \A f, g \in Folder : onDisk[f] = onDisk[g] /\ onDisk[f] # Nowhere => f = g
  /\ \A w \in DOMAIN table :
       /\ w < nextWd
       /\ \/ RemovedAt({"unget", "unname", "untable"}, w)
          \/ w \in DOMAIN watches /\ onDisk[table[w]] = watches[w]
  /\ TablesInverse

\* A folder that is added to "dirs" and stays there is watched in the end.
ListedGetsWatched ==
  \A f \in Folder :
    (<>[](f \in Folders(ConfigDirs))) => <>[](\E w \in DOMAIN watches : watches[w] = onDisk[f])

\* A folder that "dirs" does not list any more is let go in the end.
UnlistedGetsDropped ==
  \A f \in Folder :
    (<>[](~writing /\ f \notin Folders(AllLines))) =>
      <>[](\A w \in DOMAIN watches : watches[w] # onDisk[f])
=============================================================================
