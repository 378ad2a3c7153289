# A TLA+ model of UFA

UFA keeps tags and attributes of files in a SQLite database per folder (a
*repository*). A daemon, `ufad`, serves JSON-RPC requests of command line
tools over a Unix socket, and watches the repositories with inotify so that
metadata follows files that are renamed or moved. `ufafs` shows a repository as
a FUSE file system, from a process of its own.

This directory models the daemon, its tools and the mounted view in TLA+, checks
them with TLC on small instances and proves their safety properties with TLAPS
for instances of every size. All paths below are relative to the repository's `src`
directory, unless they say otherwise.

## 1. The system

```
 ufatag, ufaattr, ufafind --(jsonrpc_api.c)--> unix socket
                                                  |
 ufactl --config.c--> "dirs" file        ufad: jsonrpc_server.c   a thread per connection
                          |                       |
                       inotify                 data.c             cache: folder -> handle
                          |                       |
                 monitor_inotify.c ---------> repo_sqlite.c       one SQLite connection per handle
                 (monitor thread:                 |
                  callbacks of ufad.c)       repo.sqlite <-------- ufafs (own process, own connection)
```

| Component | State | Operations | What is hard |
|---|---|---|---|
| Repository, `core/repo_sqlite.c` | tables `file`, `tag`, `file_tag`, `attribute`; per connection the last rowid and the change counter; the cursor of `strtok` | inserttag, settag, unsettag, cleartags, gettags, setattr, unsetattr, getattr, removefile, renamefile, search, list* | no transactions; threads share a connection and `strtok`; `SQLITE_BUSY` between processes; rename across repositories is a chain of copies |
| Handle cache, `core/data.c` | hash table `repos` | get_repo, forwarding of every operation, renamefile | unsynchronised check-then-act from server and monitor threads; `put` frees the handle it replaces; the table itself is created twice |
| Configuration, `core/config.c`, `tools/ufactl.c` | file `dirs`, its copy `global_dirlist`, recursive mutex | dirs, add_dir, remove_dir, write_config | read-modify-rename by several processes; an empty list is not written |
| Monitor, `core/monitor_inotify.c` | tables wd -> path, path -> wd, wd -> callback; `buffered_events`; kernel watches and queue | init, stop, add_watcher, remove_watcher, read loop | the two halves of a move in different reads; events that overtake each other; watches the kernel drops; a watch is live before the tables know it; stop from a signal handler |
| Daemon, `core/ufad.c` | `repos` (dir -> wd), `server`, threads | start_ufad, reload_config, callbacks, signal handler | reload runs on the monitor thread during start-up; assertions about watches that could not be added; the atomic rename of `dirs` produces a MOVE event |
| JSON-RPC server, `json/jsonrpc_server.c` | listening socket, a buffer per connection | accept loop, handle_connection, process_request | threads are handed the address of the loop's variable; chunks of 1024 bytes; requests dropped without an answer; SIGPIPE |
| JSON-RPC client, `json/jsonrpc_api.c`, `tools/ufatag.c`, `ufaattr.c`, `ufafind.c` | socket | one write and one read per call | one read of at most 4096 bytes; waits for ever for an answer that does not come |
| Search, `core/repo_sqlite.c:483-586, 1447-1514` | none (queries) | filters and tags combined with AND | `COUNT(...) = n` over rows that one filter may match twice |
| FUSE view, `core/ufafs.c` | none beside the repository | getattr, readdir, read, mkdir | names that are both a tag and a file |
| Daemonisation, `util/daemonize.c` | lock on the pid file | ufa_daemon, ufa_daemon_running | a daemon that starts while another one ends |
| Containers, `util/hashtable.c`, `util/list.c` | buckets, linked nodes | put, remove, rehash; append, unlink, reverse | ownership of keys, values and nodes |
| JSON parser, `json/jsonrpc_parser.c`, `util/jsmn.h` | token array, a cursor | parse | every reader has to leave the cursor right behind its value |
| Strings, logging, errors, CLI options (`util/string.c`, `misc.c`, `logging.c`, `error.c`) | the static cursor of `strtok` in `ufa_str_split` | split, joinpath, formatting | every thread of the daemon splits paths with one cursor |

What makes each component correct:

* **Repository**: an operation affects the file and tag its caller named and no
  other; success means the effect took place; a failure is reported with an
  error; readers see what was written.
* **Handle cache**: a handle in use is not freed, one database has one handle
  (both as long as threads do not cross); an operation works on the repository
  its file belongs to.
* **Configuration**: `dirs` lists what successful calls asked for; a call
  touches no other entry.
* **Monitor and daemon**: the set of watched directories follows `dirs`;
  metadata follows a file through every rename and move within and between
  repositories, and is not lost on the way; asserted conditions hold; one
  daemon runs, can be reached, and ends when it is told to.
* **Server and client**: every accepted connection is served by exactly one
  thread, unless the accept loop overtakes it; a call takes effect at most once; a tool gets the answer to its own
  request, and what it reports is true; every tool and every thread ends.
* **Search and view**: what is found or listed was there during the query, and
  what was there throughout is found.

## 2. Modules

| Module | What it is |
|---|---|
| `TagStore` | what a repository promises its clients: operations that take effect at one instant on the file they name |
| `Repo` | `core/repo_sqlite.c`, statement by statement, under concurrent clients; refines `TagStore` |
| `Handles` | how an operation finds its repository: indicator files, the table of open handles, several threads (`core/data.c`, `core/repo_sqlite.c`) |
| `Moves` | moves and deletions of files, inotify events, pairing of the halves of a move (`core/monitor_inotify.c`), `callback_event_repo` (`core/ufad.c`), rename within and between repositories (`core/data.c`, `core/repo_sqlite.c`) |
| `Watch` | which folders are watched: `start_ufad`, `reload_config` (`core/ufad.c`), the monitor's tables and the kernel's watches |
| `Config` | the file `dirs` and the processes that change it (`core/config.c`, `tools/ufactl.c`) |
| `Lifecycle` | start and end of daemons: pid file, threads, socket, signals (`core/ufad.c`, `util/daemonize.c`, `core/monitor_inotify.c`, `json/jsonrpc_server.c`) |
| `Rpc` | what a tool may rely on when it calls the daemon |
| `Server` | server, client and tools over a byte stream (`json/jsonrpc_server.c`, `json/jsonrpc_api.c`, `tools/`); refines `Rpc` |
| `Queries` | search and mounted view while rows change (`core/data.c`, `core/repo_sqlite.c`, `core/ufafs.c`, `tools/ufafind.c`) |
| `Parser` | the messages, and the parser's walk over their tokens (`json/jsonrpc_parser.c`) |
| `Requests` | what a search says and finds, as messages: extends `Queries` and `Parser` (`json/jsonrpc_api.c`, `json/jsonrpc_server.c`) |
| `RepoProofs`, `HandlesProofs`, `MovesProofs`, `WatchProofs`, `ConfigProofs`, `LifecycleProofs`, `ServerProofs`, `QueriesProofs` (about `Queries`, `Parser` and `Requests`) | theorems about these, checked by TLAPS |
| `MC...` | instances for TLC; the `.cfg` files are named after them |

How they fit together: `Moves` and `Queries` take an operation or a SELECT on a
database as one step, which is what `Repo` and `TagStore` justify for clients
with a connection each. `Handles` says which database that is. `Watch` and
`Config` share the file `dirs`, which `Watch` changes by a user's editor or by
`ufactl` without looking into it; what a reload does to the events of the batch
it came in is in `Moves`, where a folder is taken off the list (`Relist`).
`Lifecycle` starts and stops the threads whose work is in `Watch`, `Moves` and
`Server`. `Server` carries messages as cells of a stream; `Requests` passes what
a search of `Queries` says through `Parser`.

Two conventions. The constant `Env` of a module lists what users, kernel,
machine and other processes do beside the regular case; a configuration turns
each of these on or off, and the theorems state for which of them they hold. A
definition preceded by "(The mutant ...)" is a plausible mistake: putting it in
place of the definition that follows must make a run fail, and shows that the
run would notice.

### Repo

State: the four tables (`file`, `tag` as rows `[id, name]`, `fileTag`, `attr`),
`sqlite_sequence` (`seq`), and per connection `rowid`
(`sqlite3_last_insert_rowid`) and `changes` (`sqlite3_changes`); per client the
next statement `pc`, its request, the local variables `name`, `tid` and `fid`,
and the result `ok`, `err`, `out`. `strtok` is what the split of a path that is
under way may come to.

An action is one `sqlite3_step`: the code opens no transaction, so this is what
is atomic. `SelectTag`, `InsertTag`, `TagRowid` are the steps of
`get_tag_id_by_name` and `insert_tag`, `SelectFile`, `InsertFile`, `FileRowid`
those of `get_file_id`; the rest are the last statements of the operations. The
`stat` behind `SelectFile` may find the file or not, as users create and delete
files at any time.

Every operation on a file begins with `ufa_util_getfilename`, which splits the
path with `strtok` (`util/misc.c:60`, `util/string.c:55`). `GoSplit` begins such a
split and `FileName` ends it (`SplitInVain` where the result is not used). Where
the splits of two threads of one process overlap, each may come to the name in
the other's path or to a part of a path that is no file's name (`NoName`).

`ReadBusy` and `WriteBusy` say when SQLite returns `SQLITE_BUSY`: another
connection is at a statement. Values are abstract; a tag is one of a small set
of names.

### Handles

State: the folders (`exists`, `writable`), the database in each (`data`) and
its indicator file (`ind`); the table `repos` and how many were made (`tables`),
what each handle is open on and which were freed; per thread the step `at`, the
folders it has still to find a handle for (`todo`), the handles it has (`got`)
and what its `put` has seen of the table (`seen`). `Find` is
`ufa_repo_getrepofolderfor`, `Look`, `Make`, `Open`, `Clear`, `Write`, `Put`,
`Link` are `get_repo` and `ufa_repo_init`, `Use` is the operation itself. Nothing
locks the table, and no step waits for another thread: two may find no table and
make one each (`Make`), find no handle and open one each (`Look`, `Open`), and
write over each other's nodes between the search of a `put` and its write (`Put`,
`Link`). What is done through a freed handle is undefined (`Undefined`).
`crossed` remembers the folders that two threads were opening at a time and those
whose entry the table lost. Users create folders, change their rights and
run `ufactl init` (`InitRepo`); with `Env` they also move, copy and delete them.
`done` remembers on which databases an operation was performed, and which were
those of the folders it was asked for.

### Moves

State: where each file is (`place`), the marks (tags and attributes) in the row
of each path (`row`), the inotify `queue`, the `batch` of the last read,
`buffered` (the table `buffered_events`), the monitor thread's `pc` and the
rename it is carrying out (`job`); the watch descriptor of each folder (`wds`)
and the folders in `dirs` (`listed`). `truth` is what users gave to each file.
Users `Move`, `MoveIn`, `MoveOut`, `Create`, `Delete`, `GiveMark` and `Relist`;
the monitor reads (`SelectAgain`), handles an event (`BufferOrSkip`,
`StartRename`, `Reload`), and carries a rename out in the steps of
`ufa_repo_renamefile`: `RenameRow`, `FetchMarks`, `CopyMark`, `TagsCopied`,
`RemoveOld`, with the early returns `RenameNotFound` and `RenameFails`;
`FlushLone` takes the halves without a partner. `NoPath` is an event whose
folder the reload has let go. `Crash` and `Restart` model a daemon that dies at
any step. With `"busy"` a statement of the rename meets the lock of another
process (`ufafs`): the SELECTs of the copy (`core/repo_sqlite.c:322`, `:698`) then
find fewer marks or none and the INSERTs copy none, without an error, and
`RemoveOld` goes on; `missed` remembers which marks were passed over. The two halves
of a move carry the same cookie, a number of its own.

### Watch

State: the lines of `dirs` (`listed`), whether an editor is writing it, queued
events about it, the inode of every folder, the kernel's `watches`, the
monitor's `table` and `filenames`, the daemon's `dirs` (`table_current_dirs`),
and the two threads `main` (`start_ufad`) and `reload` (`reload_config`). A call
of the kernel and one access to a hash table are a step each, as nothing locks
them: `AddWatcher`, in either thread, goes through the lookup (`Lookup`),
`inotify_add_watch` (`InotifyAdd`, `InotifyAddFails`) and the entries (`PutPath`,
`PutCallback`, `PutFilename`); `RemoveWatch` is `ufa_monitor_remove_watcher`, from
`InotifyRm` to `DropCallback`. `WatchConfig` takes the watch on the configuration
folder through the same stages; an event that is read before its path is in the
table finds none (`EventWithoutPath`), one before its callback is dropped. `failed`
is a failed `assert` or the use of such a path. A reload reads the file, and
compares it with the daemon's table of folders, in one step. The tables are
functions: folders are few and each is in a bucket of its own.

### Config

State: `file` (what `dirs` lists), `onDisk` (paths that are folders), and per
process the step, the request and the copy of the list. `Check`, `Create`,
`Read`, `Add`, `Remove`, `Write`, `Return` are the steps of `ufa_config_add_dir` and
`ufa_config_remove_dir`; `Fail` is their error returns, and `Crash` may come
between any two, also between the rename and the return. The order of the lines is left out, as nothing depends on it. The mutex
of `config.c` orders threads of one process; only `ufactl`, which has one
thread, adds or removes, so that the returns that keep the mutex
(`core/config.c:124`, `:172`) block nobody. `wanted` is what calls that returned
true asked for, `unsure` the folders whose last call was killed after its rename. Folders that are not listed may come and go (`Mount`,
`Unmount`).

### Lifecycle

State: what the three threads `main`, `monitor` and `server` of each process do
next; the `lock` on the pid file; the monitor's eventfd (`efd`), its `tables`
and its semaphore (`ended`); the variable `server` of `ufad.c` (`object`) with
the `socket` of the object; the process whose socket has the `path`; and signals
as `pending` or as `handlers` that run on a thread, the last on top. `Lock` is
the lock after the double fork (`Daemonize`), `OpenMonitor` to `Joined` are
`main` and `start_ufad`, `StopMonitor`, `Stopped` and `StopServer` are the
signal handler and what `main` does after the monitor thread has ended. `Kill`
is `SIGKILL` at any step.

### Rpc and Server

`Rpc`: a client asks, its operation is performed at most once, and the call
returns; it returns success only if the operation was performed. `Server`: per
client the tool (`tool`, `job`, `reqs`, `status`), the connection with the cells
under way in both directions, and the daemon's thread for it (`thread`, `fd`,
its buffer); `cfd` is the accept loop's variable, whose address a new thread is
given. The loop does not wait for the thread: `late` remembers the connections
whose thread had not read the variable when the next one was accepted. `Accept`, `Begin`, `Read`, `HandleChange`, `HandleQuery`, `Answer`,
`HangUp` are the server; `Call`, `Receive`, `Exit` the client and the tool. A
message is a run of cells that ends with NUL, and `Chunk` and `MaxResponse` are
the sizes of the two buffers in cells. A tool that is killed (`Quit`) closes its
connection; an answer to a closed connection kills the daemon, because nothing
ignores SIGPIPE. The refinement takes what is performed from the history
`performed`.

### Queries, Parser and Requests

`Queries` has the rows by name (`has`, `attr`), the files (`disk`), and one
reader: `ufafind` (`Find`, `Receive`, `SearchRepo` per repository, `Report`,
`Exit`) or the mounted view (`ListRoot`, `ListFiles`, `ListTags`, `Look`,
`Enter`, `Back`, `Mkdir`). `Change` lets users and the monitor change rows
between two SELECTs. A search is defined twice: `SearchRepo` counts joined rows
as the SQL text does, `Matches` says what the command line means. A listing too:
`HasTags` and `OtherTags` are the two SELECTs, `Reasons` says for which files an
entry is there. `always` and `ever` collect what was there during the whole
query, and at some time of it.

`Parser` has every form of message as the list of tokens jsmn finds in it
(`SearchMessage`, `ParamsFirst`, `ParamsLast`, `ListResponse`, `AttrsResponse`,
`Response`, `ErrorResponse`), what it means, and `Parse`, which walks such a list
with a cursor as `ufa_jsonrpc_parse` does. The functions of the parser call each
other; here each takes what its callees return from a table of calls (`call`),
and `Reader` makes that table for calls of bounded nesting, so that `Parser`
needs no recursive operator. A message of more than `MaxTokens` (`MAX_TOKENS`,
4096) tokens is refused. `Understood` says that nothing of a message is lost.
Texts are shorter than the buffers they are copied into.

What a message makes of a search are two constants of `Queries`: `Received`, the
arguments the daemon takes from the message of a command line, and `Printed`,
the paths the tool reads in the answer. `Requests` defines them
(`ReceivedCall`, `PrintedPaths`) by the code that prints and the code that
parses. `Queries` thus does not depend on how messages are written;
`MessagesKept` is what it needs of them, which is proved of `Requests`.

## 3. What TLC checks

| Run | Bounds | What it shows |
|---|---|---|
| `repo_processes` | 2 processes, every operation on one file and `settag` on another, 1 tag, 1 attribute with 2 values, 3 calls | `IInv`: an id that a client holds is that of the name it was called with, or of a deleted row. `StoreSpec`: `Repo` implements `TagStore`, so operations affect the named file only. `SetTagEffect`: success means the effect |
| `repo_shared` (violation) | 2 threads on one connection, `settag` and `inserttag` of two new tags, 2 calls | `SetTagEffect`: `settag` returns true and the file has no such tag |
| `repo_names` (violation) | 2 threads of one process, 2 files the database knows, 2 calls | `NameRight`: a call looks up the file of the other call |
| `handles` | 2 threads, 2 folders, 1 view, 2 operations, 1 change of folders | `FreesOnlyCrossed`: a handle is freed only where two threads opened a folder at a time or the table lost it; `OneHandle` until then; `RightRepo`; `FailsLoudly`: an operation that is not performed reports an error |
| `moves_regular` | 2 folders, 2 names, 2 files, 1 tag, 1 attribute, 4 moves | `MarksFollowFiles`: once all events are handled each file has exactly its marks |
| `moves_crash` | the same, 2 moves, everything in `Env` but clients that tag meanwhile, so also databases that are locked | `MarksNotLost`: a mark leaves the databases only for a file taken to have left the folders, or because the copy between two folders met a lock and passed it over, never else in the middle of a move. `UnlistedLeftAlone`: once a reload has let a folder go, no event of it changes a database |
| `watch_regular` | 2 folders, lists of up to 2 lines, 3 edits | `WatchesFollowConfig`; the invariants `AssertInv` and `TablesInv`; `ListedGetsWatched` and `UnlistedGetsDropped` under fairness |
| `watch_all` | the same, all of `Env` | `WatchesKnown`: whatever happens, a watch of the kernel has a path and a callback, or the thread that got it from the kernel is about to enter them; and a watch that is removed still has its path |
| `config_regular` | 2 processes one at a time, 3 folders, 5 calls, crashes and failures | `FileFollowsCalls`: `dirs` lists what calls that returned true asked for, and is in doubt only about the folder of a call that was killed between its rename and its return; `OnlyNamedFolder`; and their inductive invariant |
| `lifecycle` | 2 processes, kills and failures | `OneDaemon`; `Reachable`: the path of the socket leads to the daemon that listens; `TablesInUse`: the monitor's tables outlive their uses; `StageInv`, the stages of start and end and what each may find; under fairness `SignalEnds` and `Serves` |
| `server` | 2 tools with 2 calls each, requests of 2 chunks, answers that fit the client's buffer and answers of just its size, kills, 1 death of the daemon | `ServedOnce`: each connection has one thread, its own, unless the accept loop overtook that thread; and until it overtakes one, `OwnAnswer`, `Truth` (what a tool reports is what happened), `RpcSpec`, and under fairness `EveryToolEnds` and `EveryThreadEnds` |
| `queries` | 2 repositories, 2 files, 2 tags, 2 attributes, 2 values, 1 pattern, 34 command lines, 2 changes during a query | `SearchFinds` and `ListingShows`: nothing is shown that was never there, and what was there throughout is shown; `EntriesOpen`: what was listed, and is still there, is found; `MessagesUnderstood`: every form of message is read as it was printed |

Why the bounds are enough: every hazard of `Repo` is about two clients and at
most two names (one whose id is confused with the other's), and three calls
cover "set up, then two that overlap". A handle is confused by two threads that
meet in the table, with one folder or two; a user's change before, between or
after them makes a folder that one finds and the other does not. A move has two
halves and two folders; a second file can take the place of the first; four
events include a file that moves twice while another one crosses its way. Two
folders let one be added, removed and added again while the other one stays,
and make a duplicate line. For two processes and three folders every lost update
of `dirs` shows. Of two daemons one ends while the other starts. Two tools are
two connections that are accepted in a row, so that one thread can be overtaken; a second call of each finds what the
first one left in the buffers; requests and answers are cut at the boundary of
both buffers. Two changes between two SELECTs let a tag or a file go and another
one come, and two filters of each kind are enough to count rows wrongly. What the
theorems state does not depend on any of these bounds. Deadlock is not checked: each run ends when
its calls, moves, edits or processes are used up.

Fairness. `Watch`: weak fairness of the two threads (an unblocked thread of a
process is scheduled) and of an editor that has opened `dirs` (it closes it); a
daemon whose assertion failed takes no step. `Lifecycle`: weak fairness of each
thread of each process, and of its signal handlers. `Server`: while some thread or
process can run, one of them runs (`Progress`). Nobody has to start, kill or
restart a daemon, send a signal, edit a file or start a tool.

### What happens outside these cases

Each of the following is in the model. Adding the values to `Env` of the named
configuration and checking the property alone makes TLC show the behaviour.

| Configuration, `Env` | Property | Behaviour |
|---|---|---|
| `MCRepo_names` | `OnlyNamedFile` | with the name that another thread's split left, an operation changes another file (`util/string.c:55`) |
| `MCRepo_processes`, `MCRepo_shared` | `FailureExplained` | the loser of two INSERTs of one file returns false with no error (`core/repo_sqlite.c:1300`) |
| `MCRepo_processes` | `GetTagsComplete` | `SQLITE_BUSY` ends the loop over the rows like its end does (`core/repo_sqlite.c:325`) |
| `MCHandles`, `"reading"` | `FailsLoudly` | an indicator file that is being written reads as empty, and the operation fails without an error (`core/repo_sqlite.c:1409`) |
| `MCHandles`, `"move"` | `OneHandle`, `RightRepo` | a folder is renamed: its old name still leads to its database (`core/data.c:343`) |
| `MCHandles`, `"copy"` or `"delete"` | `RightRepo` | a copied indicator file names the original; a deleted folder that is made again gets the handle of the old database |
| `MCMoves_regular`, `"split"` | `MarksFollowFiles` | a read ends between the halves of a move: the row is removed (`core/monitor_inotify.c:587`) |
| `MCMoves_regular`, `"fast"` | `MarksFollowFiles` | the file is renamed again before its event is handled, and its new path is not found (`core/data.c:283`) |
| `MCMoves_regular`, `"rename"` | `MarksFollowFiles` | a file moved to another folder under another name loses its metadata: its row is looked up under the new name (`core/repo_sqlite.c:864`) |
| `MCMoves_regular`, `"fast"` and `"tag"`, `MaxEvents = 2` | `MarksNotLost` | a client tags a new file under the old name between copy and removal (`core/repo_sqlite.c:920`) |
| `MCMoves_regular`, `"fast"` and `"unlist"` | `StaysAlive` | an event of a folder that the reload has let go: `joinpath(NULL)` ends the daemon (`core/monitor_inotify.c:427`, `util/misc.c:318`) |
| `MCMoves_regular`, `"garbage"` | `StaysAlive` | `goto freeres` passes over the initialisation of what it frees (`core/repo_sqlite.c:865`) |
| `MCWatch_regular`, `"early"` | `WatchesFollowConfig`, `AssertionsHold` | `dirs` changes before its folder is watched (`core/ufad.c:213`), or a reload meets the NULL of a folder that is being added (`core/ufad.c:301`) |
| `MCWatch_regular`, `"ufactl"` | `WatchesFollowConfig` | `ufactl` replaces `dirs` by a rename, whose event the daemon ignores (`core/ufad.c:402`) |
| `MCWatch_regular`, `"fail"` | `AssertionsHold` | a folder that could not be watched stays in the table with NULL (`core/ufad.c:238`) |
| `MCWatch_regular`, `"folder"` | `WatchesFollowConfig` | a folder that is deleted and created again is "already watched" (`core/monitor_inotify.c:183`) |
| `MCConfig_regular`, `"last"` | `FileFollowsCalls` | removing the only folder returns true and does nothing (`core/config.c:285`) |
| `MCConfig_regular`, `"parallel"` | `FileFollowsCalls`, `OnlyNamedFolder` | the second of two processes undoes the first (`core/config.c:338`), or truncates the file the first has made (`core/config.c:256`) |
| `MCConfig_regular`, `"relative"` | `FileFollowsCalls` | a relative path is not found and "Removed" (`core/config.c:167`) |
| `MCConfig_regular`, `"gone"` | `OnlyNamedFolder` | folders that are not mounted are dropped from the file (`core/config.c:77`) |
| `MCConfig_regular`, `"full"` | `OnlyNamedFolder` | a partial file replaces `dirs` (`core/config.c:326`) |
| `MCConfig_regular`, `"unreadable"` | `OnlyNamedFolder` | a file that cannot be opened counts as empty and is overwritten (`core/config.c:67`) |
| `MCLifecycle`, `"nobind"` | `Serves` | the server's thread ends and the daemon goes on without one (`json/jsonrpc_server.c:119`) |
| `MCLifecycle`, `"early"` | `TablesInUse`, `SignalEnds` | a signal during the start stops the monitor while the main thread adds watches |
| `MCLifecycle`, `"second"` | `SignalEnds` | a handler on top of a handler waits for a semaphore that is posted once |
| `MCLifecycle`, `"any"` | `SignalEnds` | the handler runs on the monitor thread and waits for that thread (`core/monitor_inotify.c:155`) |
| `MCLifecycle`, `"homes"` | `OneDaemon`, `Reachable` | the pid file is the user's, the socket's path is one for all |
| `MCServer`, `RequestLen = {3}` | `EveryToolEnds` | a request whose text fills the buffer is answered before its NUL is read; the NUL then heads the chunk with the next request, which is dropped (`json/jsonrpc_server.c:183`) |
| `MCServer`, `"stale"` | `Truth` | an empty answer is parsed from a token nobody wrote (`json/jsonrpc_parser.c:384`, `json/jsonrpc_api.c:553`) |
| `MCServer`, `"silent"` | `Truth` | an operation that fails without an error is answered like one that succeeds (`json/jsonrpc_api.c:117`) |
| `MCServer`, `"quote"` | `EveryToolEnds` | names are printed into the message as they are: a quote makes it something else, and nobody answers (`json/jsonrpc_server.c:262`) |
| `MCServer`, `"foreign"` | `EveryToolEnds` | other clients: an unknown method is not answered, a missing one ends the daemon |
| `MCServer`, `"threads"` | `EveryToolEnds` | a connection whose thread cannot be created stays open and unserved (`json/jsonrpc_server.c:157`) |
| `MCQueries`, `"twice"`, `"same"` | `SearchFinds` | a tag that is named twice asks for two rows where there is one; one row that matches two filters counts once (`core/repo_sqlite.c:1447`) |
| `MCQueries`, `"presence"` | `SearchFinds` | a filter without a value is sent as the text `(null)` and compared with it |
| `MCQueries`, `"busy"` | `SearchFinds`, `ListingShows` | `SQLITE_BUSY` ends the loop over the matches (`core/repo_sqlite.c:568`), and those of a listing |
| `MCQueries`, `"typed"` | `NoTagTwice`, `ListingShows` | `/tag/tag` can be entered although it is not listed, and lists nothing |
| `MCQueries`, `"samename"`, `g = t`, `File = {f, t}` | `EntriesOpen` | a file with the name of a tag is shown as a directory (`core/ufafs.c:131`) |

Some races and failures cannot be taken out of the regular case, because nothing
in the code keeps them away. Where they end what a property promises, the property
says so with a history variable. Without that exception TLC shows the behaviour
in the regular runs themselves:

| Run | Property | Its exception, and what happens there |
|---|---|---|
| `handles` | `FreesOnlyCrossed`, `OneHandle` | `crossed`: two threads open one folder; the second `put` frees the handle the first one uses (`core/data.c:344`), or a second table hides the first and its handles (`core/data.c:326`), so that one database is open twice |
| `server` | `ServedOnce`, and with it all others of the run | `late`: the next `accept` overwrites the variable before the new thread has read it; one connection gets two threads and the other one none, whose tool waits for ever (`json/jsonrpc_server.c:156`) |
| `moves_crash` | `MarksNotLost` | `missed`: the copy meets the lock of `ufafs` and finds no more rows, and the old row is removed (`core/repo_sqlite.c:322`, `:698`, `:920`) |
| `config_regular` | `FileFollowsCalls` | `unsure`: a process is killed after its rename and before it returns, so `dirs` has changed and nobody was told (`core/config.c:338`) |
| `watch_all` | `WatchesKnown` | a watch is live before the entries for it are there (`core/monitor_inotify.c:191`-`:200`) |

Seen while reading, and part of the model or of no consequence for a property:
an answer of more than `MAX_RESPONSE_SIZE` bytes, or of more than `MAX_TOKENS`
tokens, is an error for the client although the call was carried out; `ufafind -a attr=` ends in a crash of the
tool; a tag that one file loses and another file gets between the two SELECTs of
a listing may be missing from it, although some file had it all the time
(`core/repo_sqlite.c:1200`: `ListingShows` promises a tag only for a file that
keeps it); `SQLITE_BUSY` while the root is listed ends `ufafs` (`core/ufafs.c:163`); one folder of the list that cannot be opened fails a search of all, while
folders that are missing are skipped; `mkdir` of a tag that exists succeeds.

## 4. What is proved

All theorems hold for every value of the constants that satisfies the modules'
assumptions: any number of clients, files, folders, processes, threads, calls
and changes. A hypothesis beyond that is a definition in front of the theorem
and says which of the irregular behaviours of `Env` it excludes; the regular
runs satisfy it, and the table at the end of section 3 shows for most of the
excluded ones that the theorem fails with them.

Every safety property the passing runs check is the subject of a theorem. Each
proof has the same shape: an inductive
invariant, checked by TLC first, one step per action, and a temporal step that
combines them.

* **`RepoProofs`.** `TypeCorrect` for any clients.
  * `IdsInvariant`: if no two clients share a connection
    (`OneClientPerConnection`), `IInv` is invariant. `IdsRight` alone is not
    inductive: one needs that primary keys and names are unique and no id exceeds
    `seq` (`TablesOK`), that ids that clients hold have been given out
    (`IdsGivenOut`) - so that AUTOINCREMENT cannot give a deleted row's id to
    another name - and that a client is at a statement of its own operation
    (`CallOK`). `SetTagCorrect` follows from it.
  * `StoreCorrect`: under the same hypothesis `Repo` implements `TagStore`. Each
    statement is an operation of the store on the file and tag its caller named,
    or a name becoming known, or no step of the store. A row inserted by id is
    the pair the caller meant because `IdsRight` holds; if the row of the id is
    gone, the foreign key makes the statement fail, or the deletion finds
    nothing.
  * The hypothesis makes these theorems about processes, such as `ufad` with one
    request at a time beside `ufafs`; `IInv` then also says that the name a client
    works with is that of its file (`NameRight`), and that a split under way can
    come to no other (`SplitRight`). The threads of the daemon share a connection
    and `strtok`, and for them `repo_shared` and `repo_names` show that
    `SetTagEffect` and `NameRight` fail; `TypeCorrect` is all that is proved of them.
* **`HandlesProofs`.** `TypeCorrect` for every `Env`; of the others each excludes
  only the behaviours that break it (the table of section 3).
  * `RightRepository` (`RightRepo`): no folder is moved, copied or deleted
    (`FoldersStay`); threads may race. `HandlesInv` says that a handle in the
    table, or about to be put there, is open on the database of its folder
    (`CacheInv`), that an indicator file names its own folder (`DiskInv`), and that
    the handles a thread has found are, in order, those of the folders it has
    looked up (`Aims`).
  * `FreedWhenCrossed` (`FreesOnlyCrossed`), for every `Env`: a handle is freed only
    as that of a folder that two threads were opening at a time or whose entry the
    table lost (`crossed`). `OpeningInv`: as long as a folder is not among these, who
    opens it is alone and finds nothing in its place of the table, so that `put`
    has nothing to free.
  * `OneHandlePerDatabase` (`OneHandle`): no folder is renamed (`NoneMoved`); folders
    may be copied and deleted. Until threads cross, an entry of the table may
    lead to a database that is gone. `OwnerInv` therefore says, of handles and
    not of folders, that each belongs to one folder (`HandleFor`) and that its
    database, while it is there, is in no other.
  * `LossIsReported` (`FailsLoudly`): whatever else happens to folders, an
    operation that is not performed reports an error, unless it read an indicator
    file that was just being written (`"reading"`).
* **`MovesProofs`.** `TypeCorrect` for every `Env`.
  * `MarksCorrect` (`MarksNotLost`) and `UnlistedCorrect` (`UnlistedLeftAlone`):
    crashes at any step, split and lost events, failures and reloads included,
    as long as clients tag files only while the monitor has nothing to do
    (`ClientsWait`); databases may be locked by another process. `CopyInv` is what
    makes the chain of copies safe: at every statement of it the tags, and after
    those the attributes, of the old row are still to be copied, or in the new
    row already, or were passed over because a statement met a lock (`missed`), so
    that the removal of the old row takes no other mark with it.
  * `MarksFollow` (`MarksFollowFiles`): without any behaviour of `Env`, once all
    events are handled each file has exactly the marks users gave it. `FollowInv`
    goes through the stations of the monitor - sleeping, reading, pairing,
    flushing, renaming, copying - and says for each which one file may still
    have its marks under its former name (`Pending`).
* **`WatchProofs`.** `TypeCorrect` and `WatchesAlwaysKnown` (`WatchesKnown`) for
  every `Env`, with both threads adding watches at a time. A watch without a path
  or callback is one that a thread has just got from the kernel; a removal only
  takes away what belongs to a watch the kernel has let go.
  * `AssertionsCorrect`: with `Env` within `{"ufactl", "duplicate"}`, no assertion
    fails; the invariant says that a NULL in the daemon's table belongs to the
    folder the main thread is adding, and that nothing is reloaded until it has
    added all.
  * `TablesCorrect` (`TablesInv`): as long as folders stay on disk and `dirs` is left
    alone during the start (`"folder"` and `"early"` are not in `Env`), the monitor's
    tables are inverse to each other and agree with the kernel, but for the entry
    that a thread has in hand. With `"early"` two threads may add one folder.
  * `ConfigFollowed` (`WatchesFollowConfig`): with `Env` within `{"duplicate"}`
    (`Settles`), the watched folders are those `dirs` lists whenever no event is
    left. `FollowInv` says for the start which folders are still to be met
    (`StartInv`), for a reload that a watched path is in the new table or still
    to be removed (`LoadInv`), and that both tables name the same folders in
    between (`IdleInv`).
* **`ConfigProofs`.** `TypeCorrect` for every `Env`.
  * `EntriesOfOthersStay` (`OnlyNamedFolder`): if one process edits `dirs` at a
    time and folders stay on disk, with `Env` within `{"crash", "fails", "last",
    "relative"}` (`OneEditor`), no call changes an entry but its own.
    `EditInvariant` says that only one process works on the file and that the
    list it has read is the file's.
  * `ConfigInvariant` and `ConfigCorrect` (`FileFollowsCalls`): with `Env` within
    `{"crash", "fails"}` (`Quiet`), a folder is listed just if calls that
    returned true asked for it, but for those whose last call was killed between
    its rename and its return (`unsure`). A process that is about to write holds the
    file's list with its one change, and one that has renamed and not returned is
    the only one to know better than `wanted` (`CallsInv`).
* **`LifecycleProofs`.** `DaemonCorrect`: if all daemons use one pid file
  (`OnePidFile`), at most one runs and the socket's path leads to the one that
  listens, for any number of processes that are started, killed, signalled
  however often and on whatever thread, or fail to start. `DaemonInv` adds that
  a process beyond the lock holds it, and that a thread of the server exists
  only in such a process: a second daemon can then neither unlink nor bind.
  `TypeCorrect` holds for every `Env`.
  `TablesCorrect` (`TablesInUse`): as long as no signal comes before the main
  thread waits for the monitor (`NoneEarly`), no table of the monitor is freed
  that is still used, with several signals at a time and on whatever thread
  their handlers run. `Orderly` says why: signals find the monitor set up, its
  thread posts only after it has freed the tables, and so a handler that goes on
  from the semaphore never meets a monitor that is half freed.
  `StagesCorrect` (`StageInv`): a daemon that is signalled once, on its main
  thread, after its start (`OneSignal`) goes through its stages in order;
  `StageInv` lists them, and for each what its threads, its semaphore and its
  eventfd may be.
* **`ServerProofs`.** `TypeCorrect` for every `Env`.
  * `ThreadsServe` (`ServedOnce`): if threads can be created (`EveryThreadCreated`),
    every connection that was accepted has exactly one thread, its own, but for
    those whose thread the accept loop overtook (`late`); others lose nothing by
    it. Nothing is supposed of when a thread reads the variable. `Places` says that
    the variable still holds the connection of a new thread unless that was
    overtaken, and that a connection without a thread is in the backlog.
  * `AnswersMatch` (`OwnAnswer`), `StatusIsTrue` (`Truth`) and `CallsAreRpc` (the
    refinement `RpcSpec`), each until a thread is overtaken: if no
    operation fails without an error and no answer is read from a token nobody
    wrote (`Truthful`), for requests and
    answers of any length, buffers of any size, and tools and daemons that die at
    any step. `CallsOK` follows a call: its request is under way, or in the
    thread's buffer, or handled with the effect that was performed, or answered,
    or lost; and a message has one head, so that what is read in pieces is
    never taken for another call's.
* **`QueriesProofs`.** `TypeCorrect` for every `Env`.
  * `SearchCorrect` (`SearchFinds`): if no tag and no attribute is named twice,
    every filter has a value and no statement meets `SQLITE_BUSY` (`Plainly`). The
    heart of it is that counting rows says "all conditions hold": `CountRows`
    maps the conditions one to one to the rows, `HasAllTags` and `HasAllAttrs`
    apply it to both SELECTs. `SearchInv` then says that what matched throughout
    has been found or is in a folder still to be searched. The messages have to
    arrive as meant, which is a hypothesis of its own (`MessagesKept`).
  * `MessagesCorrect` (`MessagesUnderstood`): that hypothesis holds when the
    messages are those of `Requests` (`Wired`), none has more than `MaxTokens`
    tokens (`Fits`), and every filter has a value; and every other form of message
    is read as it was written too, with texts and lists of any length. The proof
    follows the cursor. `Reads` says that a function called at one token returns
    a given value and leaves the cursor at a later one, whatever the nesting that
    is left allows; the step lemmas (`ParamString`, `ItemObject`, `MessageText`
    and their like) say how one more pair, item or key in front extends it;
    `ItemsRead` and `PairsRead` run through lists of any length by `Induction`,
    which is stated for sets of numbers and follows from `WFMin`; `ParseRead`
    gives what `Parse` returns. `SearchUnderstood` and the lemmas on answers then
    say at which token every part of a message stands.
  * `SearchAndMessagesCorrect`: `SearchCorrect` without `MessagesKept`, for
    searches whose messages fit.
  * `ListingsCorrect` (`ListingShows`, and that no path names a tag twice, which
    the counting needs): if paths are walked, no file has the name of a tag, and
    no statement meets `SQLITE_BUSY` (`Walked`). `ViewInv` says what the first
    SELECT leaves for the second: every file for which something stays in the
    listing, and only files that had the tags of the path.
  * `EntriesCorrect` (`EntriesOpen`): if no file has the name of a tag.

Only checked by TLC: liveness (`ListedGetsWatched`, `UnlistedGetsDropped`,
`SignalEnds`, `Serves`, `EveryToolEnds`, `EveryThreadEnds`), which like ENABLED
is beyond the prover.

## 5. Findings

Two runs show the code in conflict with what the repository says of it;
`PROJECT.json` quotes the lines. `repo_shared`: a test expects the tag on the file
after `settag` returned true, but the id of the tag may be that of another
thread's INSERT. `repo_names`: the comment at `ufa_util_getfilename` promises the
last part of the path, but the cursor of `strtok` may be in another thread's. The
other disagreements are in the tables at the end of section 3.

## 6. What is left

Theorems worth proving next: weaker hypotheses - `MarksFollowFiles` with events
that a reload or a failed rename does not touch, `WatchesFollowConfig` with
failures that are repaired by a later reload - and the step from invariants to
progress that a liveness argument would start from: that a thread that has not
ended can take a step, as a state predicate.

### Not modelled

* `util/hashtable.c`, `util/list.c`: buckets, rehashing and links. The tables are
  used as functions; where threads share one without a lock, one access is one
  step, and the damage two overlapping accesses may do to the links is left
  out.
* `json/jsonrpc_parser.c` uses the vendored `jsmn.h`, which is taken at its word.
* `open` and `read` of `core/ufafs.c` resolve a path as `getattr` does and copy
  bytes of the real file.
* Option parsing and printing of the tools, logging, errors as objects. The string
  and path functions keep no state but for `ufa_str_split`, whose `strtok` has a
  static cursor (`Repo`); `joinpath` of NULL is in `Moves`. Of the splits, these are
  left out: those of a rename on the monitor's thread (`core/repo_sqlite.c:872`
  and the operations it calls), which the threads of connections can disturb, and
  be disturbed by, as in `Repo` - `Moves` supposes that they do not, nor that they
  INSERT between an INSERT of the monitor and the reading of its id; those of log lines, made only when details are
  logged (`util/logging.c:133`); and that a disturbed split may go on in a path
  that has been freed. `ufafs` too may have several threads (it is a FUSE program
  which its own usage line starts with `-s`, `core/ufafs.c:248`); `Repo` takes it as
  one client.
* Descriptors are used again by the kernel: where two threads serve one
  connection, the second `close` may hit a later one. `Server` does not follow
  tools beyond the point where a thread is overtaken.
* Hash tables in motion: a `put` that makes the table grow (more than 7 entries)
  beside another access, and two threads that put the same key at a time,
  in `Watch`; growth of the table in `Handles`.
* The contributed scripts run the tools one after the other.
* A file that is deleted and created again inherits the metadata of its name,
  because deletions are ignored (`core/ufad.c:373`). `Moves` has the steps
  (`Delete`, `Create`, `"replace"`); nothing in the repository says what should
  happen, editors that delete and write a file rely on it, and
  `MarksFollowFiles` is checked for names that are not used again.
