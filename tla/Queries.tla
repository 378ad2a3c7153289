------------------------------- MODULE Queries -------------------------------
(***************************************************************************)
(* What readers see of the repositories while others change them: ufafind, *)
(* whose search the daemon runs over several repositories (handle_search,  *)
(* ufa_data_search, ufa_repo_search), and the mounted view of one of them, *)
(* in which a path is a list of tags (core/ufafs.c).  Each SELECT is one   *)
(* step and sees one state of its database; a search takes one for every   *)
(* repository, a listing two.                                              *)
(*                                                                         *)
(* Rows are kept by name (Repo has their ids), the transport is in Server, *)
(* the table of open databases in Handles, and the text of the messages in *)
(* Requests, which gives Received and Printed their values.                *)
(*                                                                         *)
(* Env lists what happens beside the regular case:                         *)
(*   "twice"     a search names a tag twice                                *)
(*   "same"      two filters of a search are about the same attribute      *)
(*   "presence"  a filter has no value: the attribute is to be there       *)
(*   "busy"      another process writes while a statement runs             *)
(*   "typed"     a path is entered that was not listed                     *)
(*   "samename"  a file has the name of a tag                              *)
(***************************************************************************)
EXTENDS Naturals, Sequences, FiniteSets, Functions

CONSTANTS
  Dir,        \* folders with a repository
  Config,     \* those in the list of the configuration file
  Shown,      \* the one that is mounted
  Home,       \* a folder without a repository
  File, Tag, Attr, Value,
  Wildcard,   \* patterns: values with a *
  Like,       \* pairs <<value, pattern>> where LIKE holds
  Null,       \* in place of a value that is not given, and
  NullText,   \*   what printf makes of it
  Indicator,  \* the file .ufarepo
  Received(_), \* what the daemon understands of the message of a command line
  Printed(_), \* the paths a tool reads in the answer that lists a set of them
  Commands,   \* the searches users start
  Contents,   \* the rows and files there are when a reader begins
  Env,        \* see above
  MaxWrites   \* bound on the changes during one query, for TLC

\* A command line of ufafind: -r or not, the current folder, -t and -a.
Filter == [attribute: Attr, value: Value \cup Wildcard \cup {Null}, matchmode: {"0", "1"}]

Twice(s) == \E i, j \in DOMAIN s : i # j /\ s[i] = s[j]

ASSUME QueriesAssumption ==
  /\ Config \subseteq Dir /\ Shown \in Dir /\ Home \notin Dir
  /\ Env \subseteq {"twice", "same", "presence", "busy", "typed", "samename"}
  /\ "samename" \in Env \/ File \cap Tag = {}
  /\ Indicator \notin File \cup Tag
  /\ MaxWrites \in Nat
  /\ \A c \in Commands :
       /\ DOMAIN c = {"repo", "cwd", "tags", "filters"}
       /\ c.repo \in Dir \cup {Home, Null} /\ c.cwd \in Dir \cup {Home}
       /\ c.tags \in Seq(Tag) /\ c.filters \in Seq(Filter)
       /\ c.tags # <<>> \/ c.filters # <<>>
       /\ "twice" \in Env \/ ~Twice(c.tags)
       /\ "same" \in Env \/ ~Twice([i \in DOMAIN c.filters |-> c.filters[i].attribute])
       /\ "presence" \in Env \/ \A f \in Range(c.filters) : f.value # Null
  /\ \A c \in Contents :
       /\ c.has \subseteq Dir \X File \X Tag /\ c.disk \subseteq Dir \X File
       /\ c.attr \subseteq Dir \X File \X Attr \X Value
       /\ \A r, s \in c.attr : r[1] = s[1] /\ r[2] = s[2] /\ r[3] = s[3] => r = s

VARIABLES
  disk,     \* pairs <<folder, name>>: the regular files
  tag,      \* pairs <<folder, tag>>: rows of table tag
  known,    \* pairs <<folder, file>>: rows of table file
  has,      \* triples <<folder, file, tag>>: rows of file_tag
  attr,     \* rows <<folder, file, name, value>> of table attribute
  bad,      \* folders whose database cannot be opened
  reader,   \* who reads, "find" or "view"
  at,       \* what it does next
  cmd,      \* find: the command line
  call,     \*   the arguments of ufa_data_search
  todo,     \*   the folders still to search
  found,    \*   the paths found
  error,    \*   an error was reported
  path,     \* view: the tags of the current directory
  files,    \*   the files of the first SELECT
  names,    \*   the entries listed
  always,   \* history: what was to be found throughout the query
  ever,     \*   or at some time during it
  writes

db == <<tag, known, has, attr>>
find == <<cmd, call, todo, found, error>>
view == <<path, files, names>>
history == <<always, ever>>
vars == <<disk, db, bad, reader, at, find, view, history, writes>>

-----------------------------------------------------------------------------
(***************************************************************************)
(* What a reader wants to find, said without SQL.                          *)
(***************************************************************************)
Holds(d, f, filter) ==
  \E r \in attr :
    /\ r[1] = d /\ r[2] = f /\ r[3] = filter.attribute
    /\ \/ filter.value = Null
       \/ filter.matchmode = "0" /\ r[4] = filter.value
       \/ filter.matchmode = "1" /\ <<r[4], filter.value>> \in Like

Tagged(d, tags) == {f \in File : <<d, f>> \in known /\ \A t \in tags : <<d, f, t>> \in has}

Wished == IF cmd.repo # Null THEN {cmd.repo} \cap Dir
          ELSE Config \cup ({cmd.cwd} \cap Dir)

Matches(d) == {f \in Tagged(d, Range(cmd.tags)) :
                 \A i \in DOMAIN cmd.filters : Holds(d, f, cmd.filters[i])}

\* The entries of a directory, each with what it is there for: at the root the
\* tags, elsewhere the files that have all tags of the path, and the other tags
\* of each of them.
Reasons ==
  IF path = <<>> THEN {<<r[2], r[2]>> : r \in {r \in tag : r[1] = Shown}}
  ELSE LET here == Tagged(Shown, Range(path))
       IN {<<f, f>> : f \in here}
            \cup {<<r[3], r[2]>> :
                    r \in {r \in has : r[1] = Shown /\ r[2] \in here /\ r[3] \notin Range(path)}}

Entries(reasons) == {r[1] : r \in reasons}

ToFind ==
  CASE at \in {"sent", "search", "done"} -> UNION {{<<d, f>> : f \in Matches(d)} : d \in Wished}
    [] at \in {"files", "listed"} -> Reasons
    [] OTHER -> {}

\* A query begins, or something changes while it runs.
Begins == always' = ToFind' /\ ever' = ToFind'
Goes == always' = always \cap ToFind' /\ ever' = ever \cup ToFind'

-----------------------------------------------------------------------------
NoCall == [dirs |-> {}, filters |-> <<>>, tags |-> <<>>, config |-> FALSE]
NoCommand == [repo |-> Null, cwd |-> Home, tags |-> <<>>, filters |-> <<>>]

Init ==
  /\ \E c \in Contents :
       /\ has = c.has /\ attr = c.attr
       /\ known = {<<r[1], r[2]>> : r \in c.has \cup c.attr}
       /\ tag = {<<r[1], r[3]>> : r \in c.has}
       /\ disk = c.disk \cup {<<r[1], r[2]>> : r \in c.has \cup c.attr}
  /\ bad \in {{}} \cup {{d} : d \in Dir \ {Shown}}
  /\ reader \in {"find", "view"}
  /\ at = "idle"
  /\ cmd = NoCommand /\ call = NoCall
  /\ todo = {} /\ found = {} /\ error = FALSE
  /\ path = <<>> /\ files = {} /\ names = {}
  /\ always = {} /\ ever = {}
  /\ writes = 0

(***************************************************************************)
(* Changes, by the operations of Repo, by users, and by the monitor.       *)
(***************************************************************************)
Change ==
  /\ UNCHANGED <<bad, reader, at, find, view>>
  /\ Goes

Write ==
  /\ writes < MaxWrites
  /\ writes' = writes + 1
  /\ Change

SetTag(d, f, t) ==
  /\ <<d, f>> \in disk /\ d \notin bad
  /\ tag' = tag \cup {<<d, t>>}
  /\ known' = known \cup {<<d, f>>}
  /\ has' = has \cup {<<d, f, t>>}
  /\ UNCHANGED <<disk, attr>>
  /\ Write

UnsetTag(d, f, t) ==
  /\ <<d, f, t>> \in has
  /\ has' = has \ {<<d, f, t>>}
  /\ UNCHANGED <<disk, tag, known, attr>>
  /\ Write

SetAttr(d, f, a, v) ==
  /\ <<d, f>> \in disk /\ d \notin bad
  /\ known' = known \cup {<<d, f>>}
  /\ attr' = {r \in attr : ~(r[1] = d /\ r[2] = f /\ r[3] = a)} \cup {<<d, f, a, v>>}
  /\ UNCHANGED <<disk, tag, has>>
  /\ Write

\* A user deletes a file; the monitor removes its rows.
Delete(d, f) ==
  /\ <<d, f>> \in disk
  /\ disk' = disk \ {<<d, f>>}
  /\ UNCHANGED db
  /\ Write

\* (The mutant's database does not know the foreign keys.)
RemoveFileOnly(d, f) ==
  /\ <<d, f>> \in known \ disk
  /\ known' = known \ {<<d, f>>}
  /\ UNCHANGED <<disk, tag, has, attr, writes>>
  /\ Change

RemoveFile(d, f) ==
  /\ <<d, f>> \in known \ disk
  /\ known' = known \ {<<d, f>>}
  /\ has' = {r \in has : ~(r[1] = d /\ r[2] = f)}
  /\ attr' = {r \in attr : ~(r[1] = d /\ r[2] = f)}
  /\ UNCHANGED <<disk, tag, writes>>
  /\ Change

-----------------------------------------------------------------------------
(***************************************************************************)
(* ufafind and the search of the daemon.                                   *)
(***************************************************************************)
\* ufafind asks for -r or for the current folder, and without -r also for the
\* folders of the configuration.
FoldersOf(c) ==
  IF c.repo # Null THEN {c.repo}
  ELSE IF c.cwd \in Dir THEN {c.cwd} ELSE {}

Find(c) ==
  /\ reader = "find" /\ at = "idle"
  /\ at' = "sent"
  /\ cmd' = c
  /\ UNCHANGED <<disk, db, bad, reader, call, todo, found, error, view, writes>>
  /\ Begins

\* (The mutant leaves the folders of the request out when it takes those of the
\* configuration.)
ScopeOneOf(a) == IF a.config THEN Config ELSE a.dirs \cap Dir

\* ufa_data_search, up to the list of folders: a folder that is no repository
\* is passed over.
Scope(a) == (a.dirs \cap Dir) \cup (IF a.config THEN Config ELSE {})

Receive ==
  /\ at = "sent"
  /\ IF Received(cmd).ok
     THEN /\ call' = Received(cmd).call
          /\ todo' = Scope(Received(cmd).call)
          /\ at' = "search"
          /\ UNCHANGED error
     ELSE /\ error' = TRUE
          /\ at' = "done"
          /\ UNCHANGED <<call, todo>>
  /\ UNCHANGED <<disk, db, bad, reader, cmd, found, view, history, writes>>

\* HAVING COUNT(...) = n: the files with that many rows.
Having(d, rows, n) == {f \in File : Cardinality({r \in rows : r[1] = d /\ r[2] = f}) = n}

\* generate_sql_search_tags, and the SELECT of get_files_with_tags.  (The
\* mutant leaves HAVING out: one of the tags is enough.)
HasSomeTag(d, tags) == {f \in File : \E r \in has : r[1] = d /\ r[2] = f /\ r[3] \in Range(tags)}
HasTags(d, tags) == Having(d, {r \in has : r[3] \in Range(tags)}, Len(tags))

\* generate_sql_search_attrs: the rows that satisfy one of the conditions.
Condition(r, filter) ==
  /\ r[3] = filter.attribute
  /\ \/ filter.matchmode = "0" /\ r[4] = filter.value
     \/ filter.matchmode = "1" /\ <<r[4], filter.value>> \in Like

HasAttrs(d, filters) ==
  Having(d, {r \in attr : \E i \in DOMAIN filters : Condition(r, filters[i])}, Len(filters))

\* ufa_repo_search.
Selected(d, a) ==
  CASE a.tags # <<>> /\ a.filters = <<>> -> HasTags(d, a.tags)
    [] a.tags = <<>> /\ a.filters # <<>> -> HasAttrs(d, a.filters)
    [] OTHER -> HasTags(d, a.tags) \cap HasAttrs(d, a.filters)

\* The next folder: the loop ends with an error when it cannot be opened, and
\* one whose statement meets SQLITE_BUSY counts as one without matches.
SearchRepo(d) ==
  /\ at = "search" /\ d \in todo
  /\ todo' = todo \ {d}
  /\ \/ /\ d \notin bad
        /\ \/ found' = found \cup {<<d, f>> : f \in Selected(d, call)}
           \/ "busy" \in Env /\ UNCHANGED found
        /\ UNCHANGED <<at, error>>
     \/ /\ d \in bad
        /\ error' = TRUE
        /\ found' = {}
        /\ at' = "done"
  /\ UNCHANGED <<disk, db, bad, reader, cmd, call, view, history, writes>>

\* The answer, as the tool reads it.
Report ==
  /\ at = "search" /\ todo = {}
  /\ found' = Printed(found)
  /\ at' = "done"
  /\ UNCHANGED <<disk, db, bad, reader, cmd, call, todo, error, view, history, writes>>

Exit ==
  /\ reader = "find" /\ at = "done"
  /\ at' = "idle"
  /\ cmd' = NoCommand /\ call' = NoCall
  /\ todo' = {} /\ found' = {} /\ error' = FALSE
  /\ UNCHANGED <<disk, db, bad, reader, view, writes>>
  /\ Begins

-----------------------------------------------------------------------------
(***************************************************************************)
(* The mounted view.                                                       *)
(***************************************************************************)
\* ufa_fuse_getattr of a path looks at its last part: a file of the folder,
\* or else a tag.  (The mutant knows no tags.)
LookForFiles(n) == IF n = Indicator \/ <<Shown, n>> \in disk THEN "file" ELSE "none"
Look(n) ==
  IF n = Indicator \/ <<Shown, n>> \in disk THEN "file"
  ELSE IF <<Shown, n>> \in tag THEN "directory" ELSE "none"

\* ufa_fuse_readdir: at the root one SELECT, of the tags.
ListRoot ==
  /\ reader = "view" /\ at = "idle" /\ path = <<>>
  /\ at' = "listed"
  /\ names' = {r[2] : r \in {r \in tag : r[1] = Shown}} \cup {Indicator}
  /\ UNCHANGED <<disk, db, bad, reader, find, path, files, writes>>
  /\ Begins

\* get_files_with_tags; SQLITE_BUSY ends both of its loops.
ListFiles ==
  /\ reader = "view" /\ at = "idle" /\ path # <<>>
  /\ at' = "files"
  /\ \/ files' = HasTags(Shown, path)
     \/ "busy" \in Env /\ files' = {}
  /\ UNCHANGED <<disk, db, bad, reader, find, path, names, writes>>
  /\ Begins

\* get_tags_for_files_excluding.
OtherTags(fs, tags) == {t \in Tag \ Range(tags) : \E f \in fs : <<Shown, f, t>> \in has}

ListTags ==
  /\ at = "files"
  /\ at' = "listed"
  /\ \/ names' = files \cup OtherTags(files, path) \cup {Indicator}
     \/ "busy" \in Env /\ names' = files \cup {Indicator}
  /\ UNCHANGED <<disk, db, bad, reader, find, path, files, history, writes>>

Move(p) ==
  /\ at' = "idle"
  /\ path' = p
  /\ files' = {} /\ names' = {}
  /\ UNCHANGED <<disk, db, bad, reader, find, writes>>
  /\ Begins

Enter(t) ==
  /\ at = "listed"
  /\ t \in names \/ "typed" \in Env
  /\ Look(t) = "directory"
  /\ Move(Append(path, t))

Back ==
  /\ at = "listed"
  /\ Move(<<>>)

\* ufa_fuse_mkdir, which the kernel calls when there is nothing of that name.
Mkdir(t) ==
  /\ reader = "view" /\ path = <<>>
  /\ Look(t) = "none"
  /\ tag' = tag \cup {<<Shown, t>>}
  /\ UNCHANGED <<disk, known, has, attr>>
  /\ Write

Next ==
  \/ \E d \in Dir, f \in File :
       \/ \E t \in Tag : SetTag(d, f, t) \/ UnsetTag(d, f, t)
       \/ \E a \in Attr, v \in Value : SetAttr(d, f, a, v)
       \/ Delete(d, f) \/ RemoveFile(d, f)
  \/ \E c \in Commands : Find(c)
  \/ Receive \/ Report \/ Exit
  \/ \E d \in Dir : SearchRepo(d)
  \/ ListRoot \/ ListFiles \/ ListTags \/ Back
  \/ \E t \in Tag : Enter(t) \/ Mkdir(t)

Spec == Init /\ [][Next]_vars

-----------------------------------------------------------------------------
(* The rows belong to files and tags there are.                             *)
RowsOK ==
  /\ disk \subseteq Dir \X File /\ known \subseteq Dir \X File
  /\ tag \subseteq Dir \X Tag
  /\ has \subseteq Dir \X File \X Tag
  /\ \A r \in has : <<r[1], r[2]>> \in known /\ <<r[1], r[3]>> \in tag
  /\ attr \subseteq Dir \X File \X Attr \X Value
  /\ \A r \in attr : <<r[1], r[2]>> \in known
  /\ \A r, s \in attr : r[1] = s[1] /\ r[2] = s[2] /\ r[3] = s[3] => r = s

ReaderOK ==
  /\ reader \in {"find", "view"}
  /\ at \in {"idle", "sent", "search", "done", "files", "listed"}
  /\ cmd \in Commands \cup {NoCommand}
  /\ todo \subseteq Dir /\ error \in BOOLEAN
  /\ path \in Seq(Tag) /\ files \subseteq File
  /\ names \subseteq File \cup Tag \cup {Indicator}
  /\ always \subseteq ever
  /\ writes \in 0 .. MaxWrites

TypeOK == RowsOK /\ ReaderOK

(* ufafind prints every file that had all tags and attributes asked for     *)
(* throughout the search, and only files that had them at some time during  *)
(* it, whatever the repositories are searched and changed in between: each  *)
(* conversion from the command line over the message and the SQL text to    *)
(* the counted rows keeps what was asked for.  It reports an error instead  *)
(* only when one of the repositories cannot be opened.                      *)
SearchFinds ==
  reader = "find" /\ at = "done" =>
    IF error THEN Wished \cap bad # {}
    ELSE always \subseteq found /\ found \subseteq ever

(* A listing shows every file that had the tags of the path throughout      *)
(* readdir, and every other tag that one of these files had throughout; it  *)
(* shows only files that had the tags at some time, and when nothing        *)
(* changed between its two SELECTs, only tags that lead to one of them.     *)
ListingShows ==
  at = "listed" =>
    /\ Entries(always) \subseteq names
    /\ names \cap (File \ Tag) \subseteq Entries(ever)
    /\ always = ever => names \subseteq Entries(ever) \cup {Indicator}

(* An entry that is listed and still belongs there is found by getattr: a   *)
(* file as a file, unless it was deleted and the monitor has not noticed    *)
(* yet, a tag as a directory.                                               *)
EntriesOpen ==
  at = "listed" =>
    \A n \in names \cap Entries(Reasons) :
      /\ n \in Tag => Look(n) = "directory"
      /\ n \in File /\ <<Shown, n>> \in disk => Look(n) = "file"

(* Walking down the view ends (find, du and grep -r do): no tag comes twice *)
(* in a path, whatever is tagged while one walks.                           *)
NoTagTwice == ~Twice(path)

(* What a search says arrives: the daemon receives the folders, tags and    *)
(* filters of the command line, and the tool every path it has found.       *)
MessagesKept ==
  /\ \A c \in Commands :
       /\ Received(c).ok
       /\ Received(c).call = [dirs |-> FoldersOf(c), filters |-> c.filters, tags |-> c.tags,
                              config |-> c.repo = Null]
  /\ \A S \in SUBSET (Dir \X File) : Printed(S) = S
=============================================================================
