------------------------------- MODULE Moves --------------------------------
(***************************************************************************)
(* How metadata follows files.  Users create, move, replace and delete     *)
(* files in two or more watched folders, each a repository; the kernel     *)
(* queues inotify events; the monitor thread (core/monitor_inotify.c)      *)
(* reads them in batches, pairs the halves of a move by their cookie and   *)
(* calls callback_event_repo (core/ufad.c), which renames or removes the   *)
(* file's row (core/data.c, core/repo_sqlite.c), or callback_event_config, *)
(* which follows the list of folders.  Meanwhile clients tag files through *)
(* the daemon.  A tag or an attribute is a "mark".  What the statements of *)
(* one operation do between them is module Repo's subject, and how the     *)
(* list of folders is followed is Watch's: here each operation on the      *)
(* database and each reload is one step, and the rename between two        *)
(* databases is the chain of operations it is.  Threads of connections do  *)
(* not get in between strtok, or an INSERT and its id, and the monitor.    *)
(*                                                                         *)
(* Env lists what users, kernel and machine do beside the regular case:    *)
(*   "fast"     users move files while events are still unhandled          *)
(*   "tag"      clients tag files while events are still unhandled         *)
(*   "split"    a read ends anywhere in the queue, also between the halves *)
(*              of a move (otherwise it takes all of it)                   *)
(*   "rename"   a move to another folder changes the file's name too       *)
(*   "replace"  a file is moved to, or created under, a name in use or     *)
(*              known to the database                                      *)
(*   "unlist"   folders are taken off the list and put on it again         *)
(*   "crash"    the daemon dies and is started again                       *)
(*   "busy"     another process (ufafs) uses a database: a statement of    *)
(*              the monitor meets SQLITE_BUSY, with an error or without    *)
(*   "garbage"  the pointers that an early "goto freeres" leaves           *)
(*              uninitialized (repo_sqlite.c:865) are not NULL             *)
(***************************************************************************)
EXTENDS Naturals, FiniteSets, Sequences

CONSTANTS
  Dir,       \* folders with a repository
  Name,      \* file names
  Inode,     \* files
  Tag,
  Attr,      \* attributes with their values
  Env,       \* see above
  Outside,   \* where a file is that no folder holds
  Absent,    \* where a file is that does not exist
  NoRow,     \* in place of the marks of a name the database does not know
  MaxEvents  \* bound on the number of moves and deletions, for TLC

ASSUME EnvAssumption ==
  /\ Env \subseteq {"fast", "tag", "split", "rename", "replace", "unlist", "crash",
                  "busy", "garbage"}
  /\ MaxEvents \in Nat

Mark == Tag \cup Attr

ASSUME ValuesAssumption ==
  /\ \A d \in Dir, n \in Name : <<d, n>> \notin {Outside, Absent}
  /\ Outside # Absent
  /\ \A S \in SUBSET Mark : S # NoRow

\* The list of folders is a file's lines.
ASSUME DirAssumption == IsFiniteSet(Dir)

VARIABLES
  place,     \* where each file is: <<dir, name>>, Outside or Absent
  row,       \* the marks of the row of each dir and name, or NoRow
  listed,    \* the folders that the file "dirs" lists
  wds,       \* the watch of each folder in the monitor's tables, or 0
  lastWd,    \* the last watch the kernel gave out
  queue,     \* inotify events not yet read
  batch,     \* events of the last read, not yet handled
  buffered,  \* buffered_events: halves of moves waiting for the other half
  pc,        \* the monitor thread: what it does next
  job,       \* the rename it is carrying out: [from, to, marks], with the
             \* history "missed": marks of the old row it passed over, busy
  alive,     \* the daemon runs
  cookies,   \* number of things users have done, for the cookies of moves
  truth      \* history: the marks users gave to each file

watches == <<listed, wds, lastWd>>
monitor == <<wds, lastWd, batch, buffered, pc, job>>
vars == <<place, row, listed, queue, monitor, alive, cookies, truth>>

Path == Dir \X Name
Inside(i) == place[i] \notin {Outside, Absent}
Event == [kind: {"from", "to", "delete"}, path: Path, wd: Nat, cookie: Nat]
DirsEvent == [kind |-> "dirs"]
NoJob == [from |-> Absent, to |-> Absent, marks |-> {}, missed |-> {}]

Number(S) == [S -> 1 .. Cardinality(S)]
NoWatches == [d \in Dir |-> 0]

\* What the tables can be when the watches of folders that are no longer listed
\* are removed, and each other folder without one gets its own.
NewWatches(old, last) ==
  LET New == {d \in listed : old[d] = 0}
  IN {[d \in Dir |-> IF d \in New THEN last + n[d] ELSE IF d \in listed THEN old[d] ELSE 0] :
        n \in {n \in Number(New) : \A d, e \in New : n[d] = n[e] => d = e}}

\* start_ufad: the first watch is that of the configuration directory.
FirstWatches == NewWatches(NoWatches, 1)

Init ==
  /\ listed = Dir
  /\ wds \in FirstWatches /\ lastWd = 1 + Cardinality(Dir)
  /\ place \in [Inode -> {Outside, Absent} \cup Path]
  /\ \A i, j \in Inode : place[i] = place[j] /\ Inside(i) => i = j
  /\ row = [p \in Path |-> NoRow]
  /\ queue = <<>> /\ batch = <<>> /\ buffered = {}
  /\ pc = "select" /\ job = NoJob
  /\ alive = TRUE
  /\ cookies = 0
  /\ truth = [i \in Inode |-> {}]

-----------------------------------------------------------------------------
OnDisk(p) == \E i \in Inode : place[i] = p

\* A statement of the monitor meets the lock of another process.
Busy == "busy" \in Env

Settled == queue = <<>> /\ pc = "select"

\* The kernel counts its cookies from its start: they may be as low as watch
\* descriptors are.
Cookie == cookies + 2

\* It queues the events of watched folders.
Seen(kind, p) ==
  IF wds[p[1]] = 0 THEN <<>>
  ELSE <<[kind |-> kind, path |-> p, wd |-> wds[p[1]], cookie |-> Cookie]>>

MayAct ==
  /\ "fast" \in Env \/ Settled
  /\ cookies < MaxEvents
  /\ cookies' = cookies + 1

UserActs ==
  /\ MayAct
  /\ UNCHANGED <<row, listed, monitor, alive>>

\* Files that a name takes in stop existing, and marks of files that leave
\* the watched folders are nobody's business any more.
PutAt(i, p) ==
  /\ ("replace" \notin Env) => ~OnDisk(p) /\ row[p] = NoRow
  /\ place' = [j \in Inode |-> IF j = i THEN p
                               ELSE IF place[j] = p THEN Absent ELSE place[j]]
  /\ truth' = [j \in Inode |-> IF Inside(j)' THEN truth[j] ELSE {}]

Move(i, p) ==
  /\ UserActs
  /\ Inside(i) /\ place[i] # p
  /\ "rename" \in Env \/ place[i][1] = p[1] \/ place[i][2] = p[2]
  /\ PutAt(i, p)
  /\ queue' = queue \o Seen("from", place[i]) \o Seen("to", p)

MoveIn(i, p) ==
  /\ UserActs
  /\ place[i] = Outside
  /\ PutAt(i, p)
  /\ queue' = queue \o Seen("to", p)

MoveOut(i) ==
  /\ UserActs
  /\ Inside(i)
  /\ place' = [place EXCEPT ![i] = Outside]
  /\ truth' = [truth EXCEPT ![i] = {}]
  /\ queue' = queue \o Seen("from", place[i])

Create(i, p) ==
  /\ UserActs
  /\ place[i] = Absent
  /\ ~OnDisk(p)
  /\ PutAt(i, p)
  /\ UNCHANGED queue

Delete(i) ==
  /\ UserActs
  /\ Inside(i)
  /\ place' = [place EXCEPT ![i] = Absent]
  /\ truth' = [truth EXCEPT ![i] = {}]
  /\ queue' = queue \o Seen("delete", place[i])

\* A folder is taken off the list, or put on it: an editor writes "dirs".
Relist(d) ==
  /\ "unlist" \in Env
  /\ MayAct
  /\ listed' = IF d \in listed THEN listed \ {d} ELSE listed \cup {d}
  /\ queue' = IF alive THEN Append(queue, DirsEvent) ELSE queue
  /\ UNCHANGED <<place, row, monitor, alive, truth>>

Marks(p) == IF row[p] = NoRow THEN {} ELSE row[p]

\* settag or setattr of a client: the row is made if the file is on disk.
GiveMark(i, m) ==
  /\ alive
  /\ "tag" \in Env \/ Settled
  /\ Inside(i)
  /\ row' = [row EXCEPT ![place[i]] = Marks(place[i]) \cup {m}]
  /\ truth' = [truth EXCEPT ![i] = @ \cup {m}]
  /\ UNCHANGED <<place, listed, queue, monitor, alive, cookies>>

-----------------------------------------------------------------------------
\* read_inotify_events reads the events that are there.
ReadEvents(n) ==
  /\ alive
  /\ pc = "select"
  /\ n \in 1 .. Len(queue)
  /\ "split" \in Env \/ n = Len(queue)
  /\ batch' = SubSeq(queue, 1, n)
  /\ queue' = SubSeq(queue, n + 1, Len(queue))
  /\ pc' = "handle"
  /\ UNCHANGED <<place, row, watches, buffered, job, alive, cookies, truth>>

\* (The mutant pairs only halves from one folder.)
HalfInFolder(e) == {h \in buffered : h.cookie = e.cookie /\ h.path[1] = e.path[1]}

HalfOf(e) == {h \in buffered : h.cookie = e.cookie}

\* The daemon dies, and with it its inotify instance.
Dies ==
  /\ alive' = FALSE
  /\ wds' = NoWatches /\ lastWd' = 0
  /\ queue' = <<>> /\ batch' = <<>> /\ buffered' = {}
  /\ pc' = "select" /\ job' = NoJob

\* (The mutant takes the path of a removed watch for that of an event.)
AlwaysKnown(e) == TRUE

\* The tables have a path for the event's watch.
Known(e) == wds[e.path[1]] = e.wd

\* The first half of a move waits; IN_DELETE reaches a callback that ignores it.
BufferOrSkip ==
  LET e == Head(batch) IN
  /\ alive
  /\ pc = "handle" /\ batch # <<>>
  /\ batch' = Tail(batch)
  /\ \/ e.kind = "delete" /\ Known(e) /\ UNCHANGED buffered
     \/ e.kind \in {"from", "to"} /\ HalfOf(e) = {} /\ buffered' = buffered \cup {e}
  /\ UNCHANGED <<place, row, watches, queue, pc, job, alive, cookies, truth>>

\* Both halves are there: ufa_data_renamefile.
StartRename ==
  LET e == Head(batch) IN
  /\ alive
  /\ pc = "handle" /\ batch # <<>>
  /\ e.kind \in {"from", "to"} /\ Known(e)
  /\ \E h \in HalfOf(e) :
       /\ Known(h)
       /\ job' = [from |-> h.path, to |-> e.path, marks |-> {}, missed |-> {}]
       /\ buffered' = buffered \ {h}
  /\ batch' = Tail(batch)
  /\ pc' = "rename"
  /\ UNCHANGED <<place, row, watches, queue, alive, cookies, truth>>

\* callback_event_config: reload_config removes watches, with what waits under
\* their numbers, and adds others.
Reload ==
  /\ alive
  /\ pc = "handle" /\ batch # <<>>
  /\ Head(batch) = DirsEvent
  /\ batch' = Tail(batch)
  /\ wds' \in NewWatches(wds, lastWd)
  /\ lastWd' = lastWd + Cardinality({d \in listed : wds[d] = 0})
  /\ buffered' = {h \in buffered : \A d \in Dir \ listed : h.cookie # wds[d]}
  /\ UNCHANGED <<place, row, listed, queue, pc, job, alive, cookies, truth>>

\* handle_inotify_moved and handle_inotify_delete hand on the NULL they find in
\* place of the path of a removed watch.
NoPath ==
  /\ alive
  /\ pc = "handle"
  /\ \/ /\ batch # <<>> /\ Head(batch).kind = "delete"
        /\ ~Known(Head(batch))
     \/ /\ batch # <<>> /\ Head(batch).kind \in {"from", "to"}
        /\ \E h \in HalfOf(Head(batch)) : ~Known(h) \/ ~Known(Head(batch))
     \/ /\ batch = <<>>
        /\ \E h \in buffered : ~Known(h)
  /\ Dies
  /\ UNCHANGED <<place, row, listed, cookies, truth>>

EndRename == pc' = "handle" /\ job' = NoJob

\* An early return that frees pointers it has not initialized.
FreeUninitialized ==
  \/ EndRename /\ UNCHANGED <<alive, wds, lastWd, queue, batch, buffered>>
  \/ "garbage" \in Env /\ Dies

\* The row that ufa_repo_renamefile renames: that of the old name, but in the
\* database of the new folder (a file of that name there gets a row first).
Renamed == <<job.to[1], job.from[2]>>

HasRow(p) == row[p] # NoRow \/ OnDisk(p)

\* The file has moved on already: get_repo_for_file finds no file.
RenameNotFound ==
  /\ alive
  /\ pc = "rename"
  /\ ~OnDisk(job.to)
  /\ EndRename
  /\ UNCHANGED <<place, row, watches, queue, batch, buffered, alive, cookies, truth>>

\* The old name is not in the new folder's database, or UPDATE meets a row
\* that has the new name (UNIQUE); or one of the statements is busy.
RenameFails ==
  /\ alive
  /\ pc = "rename"
  /\ OnDisk(job.to)
  /\ \/ (~HasRow(Renamed) \/ Busy) /\ UNCHANGED row
     \/ /\ HasRow(Renamed)
        /\ (Renamed # job.to /\ row[job.to] # NoRow) \/ Busy
        /\ row' = [row EXCEPT ![Renamed] = Marks(Renamed)]
  /\ FreeUninitialized
  /\ UNCHANGED <<place, listed, cookies, truth>>

\* UPDATE file SET name; within one folder that is all.
RenameRow ==
  /\ alive
  /\ pc = "rename"
  /\ OnDisk(job.to)
  /\ HasRow(Renamed)
  /\ Renamed = job.to \/ row[job.to] = NoRow
  /\ row' = [p \in Path |-> IF p = job.to THEN Marks(Renamed)
                            ELSE IF p = Renamed THEN NoRow ELSE row[p]]
  /\ \/ job.to[1] = job.from[1] /\ EndRename
     \/ job.to[1] # job.from[1] /\ pc' = "gettags" /\ UNCHANGED job
  /\ UNCHANGED <<place, watches, queue, batch, buffered, alive, cookies, truth>>

\* ufa_repo_gettags, later ufa_repo_getattr, of the old file in the old folder:
\* an error ends the rename, but a SELECT that is busy seems to have no more
\* rows, and after a busy INSERT in get_file_id none is looked for.
FetchMarks ==
  /\ alive
  /\ pc \in {"gettags", "getattr"}
  /\ \/ (~HasRow(job.from) \/ Busy) /\ EndRename /\ UNCHANGED row
     \/ /\ HasRow(job.from)
        /\ \/ row' = [row EXCEPT ![job.from] = Marks(job.from)]
           \/ Busy /\ UNCHANGED row
        /\ LET there == Marks(job.from) \cap (IF pc = "gettags" THEN Tag ELSE Attr) IN
           \E found \in IF Busy THEN SUBSET there ELSE {there} :
             job' = [job EXCEPT !.marks = found, !.missed = @ \cup (there \ found)]
        /\ pc' = IF pc = "gettags" THEN "settag" ELSE "setattr"
  /\ UNCHANGED <<place, watches, queue, batch, buffered, alive, cookies, truth>>

\* ufa_repo_settag or ufa_repo_setattr of the new file in the new folder.  Each
\* returns without an error when get_file_id inserts a row that is there: its
\* SELECT was busy and found none.
CopyMark ==
  /\ alive
  /\ pc \in {"settag", "setattr"}
  /\ \E m \in job.marks :
       \/ /\ row' = [row EXCEPT ![job.to] = Marks(job.to) \cup {m}]
          /\ job' = [job EXCEPT !.marks = @ \ {m}]
       \/ /\ Busy
          /\ job' = [job EXCEPT !.marks = @ \ {m}, !.missed = @ \cup {m}]
          /\ UNCHANGED row
  /\ UNCHANGED <<place, watches, queue, batch, buffered, pc, alive, cookies, truth>>

\* Their other errors end the rename.
CopyFails ==
  /\ alive
  /\ pc \in {"settag", "setattr"}
  /\ Busy /\ job.marks # {}
  /\ EndRename
  /\ UNCHANGED <<place, row, watches, queue, batch, buffered, alive, cookies, truth>>

\* (The mutant removes the old row first.)
RemoveFirst == TRUE
AllCopied == job.marks = {}

TagsCopied ==
  /\ alive
  /\ pc = "settag"
  /\ AllCopied
  /\ pc' = "getattr"
  /\ UNCHANGED <<place, row, watches, queue, batch, buffered, job, alive, cookies, truth>>

RemoveOld ==
  /\ alive
  /\ pc = "setattr"
  /\ AllCopied
  /\ row' = [row EXCEPT ![job.from] = NoRow] \/ (Busy /\ UNCHANGED row)
  /\ EndRename
  /\ UNCHANGED <<place, watches, queue, batch, buffered, alive, cookies, truth>>

\* (The mutant leaves lone halves for a later read to pair.)
StillBuffered == {}

Lone == buffered

\* After each read, halves that are still alone count as moves out of, or
\* into, the watched folders (in the order of the hash table).
FlushLone ==
  /\ alive
  /\ pc = "handle" /\ batch = <<>>
  /\ \E h \in Lone :
       /\ Known(h)
       /\ buffered' = buffered \ {h}
       /\ \/ h.kind = "from" /\ row' = [row EXCEPT ![h.path] = NoRow]
          \/ (h.kind = "to" \/ Busy) /\ UNCHANGED row
  /\ UNCHANGED <<place, watches, queue, batch, pc, job, alive, cookies, truth>>

SelectAgain ==
  /\ alive
  /\ pc = "handle" /\ batch = <<>> /\ Lone = {}
  /\ pc' = "select"
  /\ UNCHANGED <<place, row, watches, queue, batch, buffered, job, alive, cookies, truth>>

Crash ==
  /\ "crash" \in Env
  /\ alive
  /\ Dies
  /\ UNCHANGED <<place, row, listed, cookies, truth>>

Restart ==
  /\ "crash" \in Env
  /\ ~alive
  /\ alive' = TRUE
  /\ wds' \in FirstWatches
  /\ lastWd' = 1 + Cardinality(listed)
  /\ UNCHANGED <<place, row, listed, queue, batch, buffered, pc, job, cookies, truth>>

Monitor ==
  \/ \E n \in 1 .. Len(queue) : ReadEvents(n)
  \/ BufferOrSkip \/ StartRename \/ Reload \/ NoPath
  \/ RenameNotFound \/ RenameFails \/ RenameRow
  \/ FetchMarks \/ CopyMark \/ CopyFails \/ TagsCopied \/ RemoveOld
  \/ FlushLone \/ SelectAgain

User ==
  \/ \E d \in Dir : Relist(d)
  \/ \E i \in Inode :
       \/ \E p \in Path : Move(i, p) \/ MoveIn(i, p) \/ Create(i, p)
       \/ MoveOut(i) \/ Delete(i)
       \/ \E m \in Mark : GiveMark(i, m)

Next == Monitor \/ User \/ Crash \/ Restart

Spec == Init /\ [][Next]_vars

-----------------------------------------------------------------------------
TypeOK ==
  /\ place \in [Inode -> {Outside, Absent} \cup Path]
  /\ row \in [Path -> {NoRow} \cup SUBSET Mark]
  /\ listed \subseteq Dir
  /\ wds \in [Dir -> 0 .. lastWd] /\ lastWd \in Nat
  /\ queue \in Seq(Event \cup {DirsEvent}) /\ batch \in Seq(Event \cup {DirsEvent})
  /\ buffered \subseteq Event
  /\ pc \in {"select", "handle", "rename", "gettags", "settag", "getattr", "setattr"}
  /\ job \in [from: Path, to: Path, marks: SUBSET Mark, missed: SUBSET Mark] \cup {NoJob}
  /\ alive \in BOOLEAN
  /\ cookies \in 0 .. MaxEvents
  /\ truth \in [Inode -> SUBSET Mark]
  /\ pc = "select" => batch = <<>> /\ buffered = {}
  /\ pc \in {"select", "handle"} <=> job = NoJob
  /\ \A d, e \in Dir : wds[d] = wds[e] /\ wds[d] # 0 => d = e

\* Once every event is handled, the database has for each file in a folder
\* exactly the marks its users gave it, wherever it has been moved.
MarksFollowFiles ==
  alive /\ Settled =>
    \A i \in Inode : Inside(i) => Marks(place[i]) = truth[i]

\* As long as clients do not tag files behind the back of the monitor, a
\* mark disappears from all databases only when the monitor takes its file
\* for one that left the watched folders, or with an old row whose copy passed
\* it over without an error because another process held a lock; otherwise a
\* move between two folders, with its chain of copies, never loses one, even
\* if statements fail or the daemon dies in between.
MarksNotLost ==
  [][\A m \in Mark :
       (\E p \in Path : m \in Marks(p)) /\ (\A p \in Path : m \notin Marks(p)')
         => \/ \E h \in buffered : h.kind = "from" /\ m \in Marks(h.path)
            \/ m \in job.missed /\ m \in Marks(job.from)]_vars

\* A folder that was taken off the list, and whose watch was removed, is left
\* alone: no event that was queued, read or paired before reaches its database,
\* even when the reload happens between the halves of a move.
UnlistedLeftAlone ==
  [][\A p \in Path : pc # "select" /\ row[p]' # row[p] => wds[p[1]] # 0]_vars

\* No event kills the daemon.
StaysAlive == alive
=============================================================================
