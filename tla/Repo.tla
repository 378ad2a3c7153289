-------------------------------- MODULE Repo --------------------------------
(***************************************************************************)
(* One repository (core/repo_sqlite.c): the tables of its SQLite database  *)
(* and the operations that threads and processes run on it.  No operation  *)
(* opens a transaction, so each sqlite3_step is atomic and durable alone,  *)
(* and an operation is a chain of statements between which those of other  *)
(* clients run.  Clients of one process share one connection (the handle   *)
(* data.c caches), hence its last_insert_rowid and its change counter, and *)
(* the cursor of strtok, with which the name is split off the path.        *)
(* Statements of different connections may collide: no busy handler is     *)
(* installed, so the one that comes second fails with SQLITE_BUSY.         *)
(*                                                                         *)
(* Renaming is in module Moves; searching is not modelled here.            *)
(***************************************************************************)
EXTENDS Naturals, FiniteSets

CONSTANTS
  Client,      \* threads of the daemon, and other processes (ufafs)
  Conn,        \* open SQLite connections
  ConnOf,      \* the connection each client uses
  File, Tag, Attr, Value,
  Requests,    \* the calls clients may make
  File0, Tag0, \* rows in the tables at the start
  NoName,      \* part of a path that is not the name of a file
  MaxCalls     \* bound on the number of calls, for TLC

Ops == {"inserttag", "settag", "unsettag", "cleartags", "gettags",
        "setattr", "unsetattr", "getattr", "removefile"}

Request == [op: Ops, file: File, tag: Tag, attr: Attr, value: Value]

Row(Name) == [id: Nat \ {0}, name: Name]

\* The primary key and the UNIQUE column of tables "file" and "tag".
IsTable(rows) ==
  \A r, s \in rows : (r.id = s.id \/ r.name = s.name) => r = s

ASSUME ClientAssumption == ConnOf \in [Client -> Conn]

ASSUME RequestAssumption == Requests \subseteq Request

ASSUME NameAssumption == NoName \notin File

\* A database that other calls have filled already, with ids 1, 2, ...
ASSUME TableAssumption ==
  /\ File0 \subseteq Row(File) /\ IsFiniteSet(File0) /\ IsTable(File0)
  /\ Tag0 \subseteq Row(Tag) /\ IsFiniteSet(Tag0) /\ IsTable(Tag0)
  /\ \A r \in File0 : r.id <= Cardinality(File0)
  /\ \A r \in Tag0 : r.id <= Cardinality(Tag0)
  /\ MaxCalls \in Nat

VARIABLES
  file, tag, \* rows [id, name]
  fileTag,   \* rows [file, tag] of ids; the row's own id is never read
  attr,      \* rows [id, file, name, value]
  seq,       \* sqlite_sequence: the last id given out in each table
  rowid,     \* sqlite3_last_insert_rowid of each connection
  changes,   \* sqlite3_changes of each connection
  pc,        \* the next statement of each client
  req,       \* the arguments of its call
  strtok,    \* what the split of a path that is under way may come to
  name,      \* the file name that get_file_id split off the path
  tid, fid,  \* its local variables tag_id and file_id, 0 before they are set
  ok,        \* the status its finished call returned
  err,       \* whether the call set its struct ufa_error
  out,       \* the list the call returned
  calls

db   == <<file, tag, fileTag, attr, seq>>
conn == <<rowid, changes>>
ret  == <<ok, err, out>>
vars == <<db, conn, pc, req, strtok, name, tid, fid, ret, calls>>

Tables == {"file", "tag", "file_tag", "attribute"}

NoCall == [op |-> "none"]

Init ==
  /\ file = File0 /\ tag = Tag0 /\ fileTag = {} /\ attr = {}
  /\ seq = [t \in Tables |-> IF t = "file" THEN Cardinality(File0)
                             ELSE IF t = "tag" THEN Cardinality(Tag0) ELSE 0]
  /\ rowid = [k \in Conn |-> 0]
  /\ changes = [k \in Conn |-> 0]
  /\ pc = [c \in Client |-> "idle"]
  /\ req = [c \in Client |-> NoCall]
  /\ strtok = [c \in Client |-> {}]
  /\ name = [c \in Client |-> NoName]
  /\ tid = [c \in Client |-> 0] /\ fid = [c \in Client |-> 0]
  /\ ok = [c \in Client |-> FALSE]
  /\ err = [c \in Client |-> FALSE]
  /\ out = [c \in Client |-> {}]
  /\ calls = 0

-----------------------------------------------------------------------------
LastStatements == Ops \ {"inserttag"}
Splits == {"settag_name", "file_name", "gettags_name"}
Pcs == Splits \cup {"idle", "sel_tag", "ins_tag", "tag_rowid", "sel_file", "ins_file",
                    "file_rowid", "changes", "done"} \cup LastStatements
Reads == {"sel_tag", "sel_file", "gettags", "getattr"}
Writes == {"ins_tag", "ins_file"} \cup (LastStatements \ Reads)

Named(rows, n) == {r \in rows : r.name = n}

Elsewhere(c, S) == \E d \in Client : ConnOf[d] # ConnOf[c] /\ pc[d] \in S

\* A reader meets SQLITE_BUSY while another process commits, a writer while
\* another process reads or writes.
ReadBusy(c)  == Elsewhere(c, Writes)
WriteBusy(c) == Elsewhere(c, Reads \cup Writes)

\* AUTOINCREMENT never gives an id out twice.  (The mutant leaves the word
\* out of the schema: the id of a deleted row comes back.)
LowestFreeId(table) ==
  CHOOSE i \in 1 .. seq[table] + 1 :
    table = "file" => i \notin {r.id : r \in file} /\ \A j \in 1 .. i - 1 : \E r \in file : r.id = j

NextId(table) == seq[table] + 1

Goto(c, label) ==
  /\ pc' = [pc EXCEPT ![c] = label]
  /\ UNCHANGED strtok

\* Threads of the same process that are splitting a path at the moment.
SplitBeside(c) == {d \in Client \ {c} : ConnOf[d] = ConnOf[c] /\ pc[d] \in Splits}

\* ufa_util_getfilename begins to split a path to file f.  strtok keeps its
\* place in a static variable: where the splits of two threads overlap, each
\* may come to the name in the other's path or to some other part of a path.
GoSplit(c, label, f) ==
  /\ pc' = [pc EXCEPT ![c] = label]
  /\ strtok' = [d \in Client |->
       IF d = c THEN {f} \cup UNION {{req[e].file, NoName} : e \in SplitBeside(c)}
       ELSE IF d \in SplitBeside(c) THEN strtok[d] \cup {f, NoName}
       ELSE strtok[d]]

Finish(c, status, error, result) ==
  /\ Goto(c, "done")
  /\ ok' = [ok EXCEPT ![c] = status]
  /\ err' = [err EXCEPT ![c] = error]
  /\ out' = [out EXCEPT ![c] = result]

\* A write changed n rows, none of them inserted.
Wrote(c, n) ==
  /\ changes' = [changes EXCEPT ![ConnOf[c]] = n]
  /\ UNCHANGED rowid

\* An INSERT stored a row with this id.
Inserted(c, id) ==
  /\ changes' = [changes EXCEPT ![ConnOf[c]] = 1]
  /\ rowid' = [rowid EXCEPT ![ConnOf[c]] = id]

\* A statement that fails leaves the database alone.
StatementError(c, error) ==
  /\ Finish(c, FALSE, error, {})
  /\ Wrote(c, 0)
  /\ UNCHANGED <<db, req, name, tid, fid, calls>>

-----------------------------------------------------------------------------
Call(c, r) ==
  /\ pc[c] = "idle"
  /\ calls < MaxCalls
  /\ calls' = calls + 1
  /\ req' = [req EXCEPT ![c] = r]
  /\ \/ r.op = "inserttag" /\ Goto(c, "sel_tag")
     \/ r.op = "settag" /\ GoSplit(c, "settag_name", r.file)
     \/ r.op \notin {"inserttag", "settag"} /\ GoSplit(c, "file_name", r.file)
  /\ UNCHANGED <<db, conn, name, tid, fid, ret>>

\* A split ends.  settag and gettags split the path once more than they need
\* and do not use the name.
SplitInVain(c) ==
  /\ pc[c] \in {"settag_name", "gettags_name"}
  /\ pc' = [pc EXCEPT ![c] = IF @ = "settag_name" THEN "sel_tag" ELSE "gettags"]
  /\ strtok' = [strtok EXCEPT ![c] = {}]
  /\ UNCHANGED <<db, conn, req, name, tid, fid, ret, calls>>

FileName(c) ==
  /\ pc[c] = "file_name"
  /\ pc' = [pc EXCEPT ![c] = "sel_file"]
  /\ \E n \in strtok[c] : name' = [name EXCEPT ![c] = n]
  /\ strtok' = [strtok EXCEPT ![c] = {}]
  /\ UNCHANGED <<db, conn, req, tid, fid, ret, calls>>

\* The end of ufa_repo_inserttag: its caller is the client, or settag.
HaveTag(c, id) ==
  /\ tid' = [tid EXCEPT ![c] = id]
  /\ \/ req[c].op = "inserttag" /\ Finish(c, TRUE, FALSE, {})
     \/ req[c].op = "settag" /\ GoSplit(c, "file_name", req[c].file) /\ UNCHANGED ret

\* get_tag_id_by_name: a SELECT that fails reads as one that found nothing.
SelectTag(c) ==
  /\ pc[c] = "sel_tag"
  /\ \/ \E r \in Named(tag, req[c].tag) : HaveTag(c, r.id)
     \/ /\ Named(tag, req[c].tag) = {} \/ ReadBusy(c)
        /\ Goto(c, "ins_tag")
        /\ UNCHANGED <<tid, ret>>
  /\ UNCHANGED <<db, conn, req, name, fid, calls>>

InsertTag(c) ==
  /\ pc[c] = "ins_tag"
  /\ LET id == NextId("tag") IN
     /\ Named(tag, req[c].tag) = {}
     /\ tag' = tag \cup {[id |-> id, name |-> req[c].tag]}
     /\ seq' = [seq EXCEPT !["tag"] = id]
     /\ Inserted(c, id)
  /\ Goto(c, "tag_rowid")
  /\ UNCHANGED <<file, fileTag, attr, req, name, tid, fid, ret, calls>>

\* SQLITE_CONSTRAINT_UNIQUE, or busy.
InsertTagFails(c) ==
  /\ pc[c] = "ins_tag"
  /\ Named(tag, req[c].tag) # {} \/ WriteBusy(c)
  /\ StatementError(c, TRUE)

TagRowid(c) ==
  /\ pc[c] = "tag_rowid"
  /\ HaveTag(c, rowid[ConnOf[c]])
  /\ UNCHANGED <<db, conn, req, name, fid, calls>>

\* The end of get_file_id; gettags splits the path again.
HaveFile(c, id) ==
  /\ fid' = [fid EXCEPT ![c] = id]
  /\ \/ req[c].op = "gettags" /\ GoSplit(c, "gettags_name", req[c].file)
     \/ req[c].op # "gettags" /\ Goto(c, req[c].op)

\* get_file_id_by_name: a file without a row gets one if it is in the folder.
\* The stat that follows the SELECT may find it or not: the user's programs
\* create and delete files at any time.
SelectFile(c) ==
  /\ pc[c] = "sel_file"
  /\ \/ /\ \E r \in Named(file, name[c]) : HaveFile(c, r.id)
        /\ UNCHANGED ret
     \/ /\ Named(file, name[c]) = {} \/ ReadBusy(c)
        /\ \/ name[c] # NoName /\ Goto(c, "ins_file") /\ UNCHANGED ret
           \/ Finish(c, FALSE, TRUE, {})
        /\ UNCHANGED fid
  /\ UNCHANGED <<db, conn, req, name, tid, calls>>

InsertFile(c) ==
  /\ pc[c] = "ins_file"
  /\ LET id == NextId("file") IN
     /\ Named(file, name[c]) = {}
     /\ file' = file \cup {[id |-> id, name |-> name[c]]}
     /\ seq' = [seq EXCEPT !["file"] = id]
     /\ Inserted(c, id)
  /\ Goto(c, "file_rowid")
  /\ UNCHANGED <<tag, fileTag, attr, req, name, tid, fid, ret, calls>>

\* insert_file returns -1 and get_file_id 0, neither of them with an error.
InsertFileFails(c) ==
  /\ pc[c] = "ins_file"
  /\ Named(file, name[c]) # {} \/ WriteBusy(c)
  /\ StatementError(c, FALSE)

FileRowid(c) ==
  /\ pc[c] = "file_rowid"
  /\ HaveFile(c, rowid[ConnOf[c]])
  /\ UNCHANGED <<db, conn, req, name, tid, ret, calls>>

-----------------------------------------------------------------------------
Ids(rows) == {r.id : r \in rows}

\* The statement a call ends with.
LastStatement(c, op) ==
  /\ pc[c] = op
  /\ Finish(c, TRUE, FALSE, {})
  /\ UNCHANGED <<file, tag, req, name, tid, fid, calls>>

\* (The mutant binds the two parameters of the INSERT in the wrong order.)
PairSwapped(c) == [file |-> tid[c], tag |-> fid[c]]

PairOf(c) == [file |-> fid[c], tag |-> tid[c]]

\* A foreign key of the new row refers to no row.
BadPair(c) == fid[c] \notin Ids(file) \/ tid[c] \notin Ids(tag)

\* set_tag_on_file; a pair that is there already counts as success.
SetTag(c) ==
  /\ LastStatement(c, "settag")
  /\ \/ PairOf(c) \in fileTag /\ Wrote(c, 0) /\ UNCHANGED <<fileTag, seq>>
     \/ /\ PairOf(c) \notin fileTag
        /\ ~BadPair(c)
        /\ fileTag' = fileTag \cup {PairOf(c)}
        /\ seq' = [seq EXCEPT !["file_tag"] = NextId("file_tag")]
        /\ Inserted(c, NextId("file_tag"))
  /\ UNCHANGED attr

\* SQLITE_CONSTRAINT_FOREIGNKEY, or busy.
SetTagFails(c) ==
  /\ pc[c] = "settag"
  /\ BadPair(c) \/ WriteBusy(c)
  /\ StatementError(c, TRUE)

Untag(c, rows) ==
  /\ fileTag' = fileTag \ rows
  /\ Wrote(c, Cardinality(rows))
  /\ UNCHANGED <<attr, seq>>

UnsetTag(c) ==
  /\ LastStatement(c, "unsettag")
  /\ Untag(c, {p \in fileTag : p.file = fid[c] /\ p.tag \in Ids(Named(tag, req[c].tag))})

ClearTags(c) ==
  /\ LastStatement(c, "cleartags")
  /\ Untag(c, {p \in fileTag : p.file = fid[c]})

\* (The mutant forgets the UNIQUE index.)
NoAttrRows(c) == {}

AttrRows(c) == {r \in attr : r.file = fid[c] /\ r.name = req[c].attr}

\* INSERT OR REPLACE with the id of the row it replaces, or a new one.
SetAttr(c) ==
  /\ LastStatement(c, "setattr")
  /\ fid[c] \in Ids(file)
  /\ \E id \in IF AttrRows(c) = {} THEN {NextId("attribute")} ELSE Ids(AttrRows(c)) :
       /\ attr' = (attr \ AttrRows(c)) \cup
            {[id |-> id, file |-> fid[c], name |-> req[c].attr, value |-> req[c].value]}
       /\ seq' = [seq EXCEPT !["attribute"] = IF AttrRows(c) = {} THEN id ELSE @]
       /\ Inserted(c, id)
  /\ UNCHANGED fileTag

SetAttrFails(c) ==
  /\ pc[c] = "setattr"
  /\ fid[c] \notin Ids(file) \/ WriteBusy(c)
  /\ StatementError(c, TRUE)

UnsetAttr(c) ==
  /\ LastStatement(c, "unsetattr")
  /\ attr' = attr \ AttrRows(c)
  /\ Wrote(c, Cardinality(AttrRows(c)))
  /\ UNCHANGED <<fileTag, seq>>

DeleteBusy(c) ==
  /\ pc[c] \in {"unsettag", "cleartags", "unsetattr", "removefile"}
  /\ WriteBusy(c)
  /\ StatementError(c, TRUE)

TagsOf(f) == {t \in Tag : \E r \in Named(file, f), s \in Named(tag, t) :
                            [file |-> r.id, tag |-> s.id] \in fileTag}

\* A SELECT that fails returns the empty list, without an error.
Fetch(c, op, rows) ==
  /\ pc[c] = op
  /\ \/ Finish(c, TRUE, FALSE, rows)
     \/ ReadBusy(c) /\ Finish(c, TRUE, FALSE, {})
  /\ UNCHANGED <<db, conn, req, name, tid, fid, calls>>

GetTags(c) ==
  Fetch(c, "gettags", {s.name : s \in {s \in tag : [file |-> fid[c], tag |-> s.id] \in fileTag}})

GetAttr(c) ==
  Fetch(c, "getattr", {<<r.name, r.value>> : r \in {r \in attr : r.file = fid[c]}})

\* DELETE FROM file: its tags and attributes go with it (ON DELETE CASCADE).
RemoveFile(c) ==
  /\ pc[c] = "removefile"
  /\ file' = {r \in file : r.id # fid[c]}
  /\ fileTag' = {p \in fileTag : p.file # fid[c]}
  /\ attr' = {r \in attr : r.file # fid[c]}
  /\ Wrote(c, IF fid[c] \in Ids(file) THEN 1 ELSE 0)
  /\ Goto(c, "changes")
  /\ UNCHANGED <<tag, seq, req, name, tid, fid, ret, calls>>

RemoveFileChanges(c) ==
  /\ pc[c] = "changes"
  /\ Finish(c, changes[ConnOf[c]] = 1, FALSE, {})
  /\ UNCHANGED <<db, conn, req, name, tid, fid, calls>>

Return(c) ==
  /\ pc[c] = "done"
  /\ Goto(c, "idle")
  /\ req' = [req EXCEPT ![c] = NoCall]
  /\ name' = [name EXCEPT ![c] = NoName]
  /\ tid' = [tid EXCEPT ![c] = 0]
  /\ fid' = [fid EXCEPT ![c] = 0]
  /\ ok' = [ok EXCEPT ![c] = FALSE]
  /\ err' = [err EXCEPT ![c] = FALSE]
  /\ out' = [out EXCEPT ![c] = {}]
  /\ UNCHANGED <<db, conn, calls>>

-----------------------------------------------------------------------------
Step(c) ==
  \/ SplitInVain(c) \/ FileName(c)
  \/ SelectTag(c) \/ InsertTag(c) \/ InsertTagFails(c) \/ TagRowid(c)
  \/ SelectFile(c) \/ InsertFile(c) \/ InsertFileFails(c) \/ FileRowid(c)
  \/ SetTag(c) \/ SetTagFails(c) \/ UnsetTag(c) \/ ClearTags(c)
  \/ SetAttr(c) \/ SetAttrFails(c) \/ UnsetAttr(c) \/ DeleteBusy(c)
  \/ GetTags(c) \/ GetAttr(c)
  \/ RemoveFile(c) \/ RemoveFileChanges(c)

Next ==
  \E c \in Client : (\E r \in Requests : Call(c, r)) \/ Step(c) \/ Return(c)

Spec == Init /\ [][Next]_vars

-----------------------------------------------------------------------------
TypeOK ==
  /\ file \subseteq Row(File) /\ tag \subseteq Row(Tag)
  /\ fileTag \subseteq [file: Nat, tag: Nat]
  /\ attr \subseteq [id: Nat, file: Nat, name: Attr, value: Value]
  /\ IsFiniteSet(fileTag) /\ IsFiniteSet(attr)
  /\ seq \in [Tables -> Nat]
  /\ rowid \in [Conn -> Nat]
  /\ changes \in [Conn -> Nat]
  /\ pc \in [Client -> Pcs]
  /\ req \in [Client -> Requests \cup {NoCall}]
  /\ strtok \in [Client -> SUBSET (File \cup {NoName})]
  /\ name \in [Client -> File \cup {NoName}]
  /\ tid \in [Client -> Nat] /\ fid \in [Client -> Nat]
  /\ ok \in [Client -> BOOLEAN] /\ err \in [Client -> BOOLEAN]
  /\ out \in [Client -> (SUBSET Tag) \cup (SUBSET (Attr \X Value))]
  /\ calls \in Nat

\* The ids a client works with, also when it has yet to read them from the
\* connection its INSERT left them in.
FileIdOf(c) == IF pc[c] = "file_rowid" THEN rowid[ConnOf[c]] ELSE fid[c]
TagIdOf(c)  == IF pc[c] = "tag_rowid" THEN rowid[ConnOf[c]] ELSE tid[c]

HasFileId(c) == pc[c] \in {"file_rowid", "gettags_name"} \cup LastStatements
HasTagId(c)  == \/ pc[c] = "tag_rowid"
                \/ /\ req[c].op = "settag"
                   /\ pc[c] \in {"file_name", "sel_file", "ins_file", "file_rowid", "settag"}

\* An id a client holds was given to the very name the client was called
\* with: the row may be gone by now, but it is never that of another name
\* (ids from sqlite3_last_insert_rowid in insert_tag and insert_file, and
\* AUTOINCREMENT, which gives no id out twice).
IdsRightFor(c) ==
  /\ HasFileId(c) => \A r \in file : r.id = FileIdOf(c) => r.name = req[c].file
  /\ HasTagId(c) => [id |-> TagIdOf(c), name |-> req[c].tag] \in tag

IdsRight == \A c \in Client : IdsRightFor(c)

\* A client is at a statement of the operation it was called for.
AtOwnStatement(c) ==
  /\ pc[c] # "idle" => req[c] \in Requests
  /\ pc[c] \in LastStatements => req[c].op = pc[c]
  /\ pc[c] = "changes" => req[c].op = "removefile"
  /\ pc[c] \in {"sel_tag", "ins_tag", "tag_rowid"} => req[c].op \in {"inserttag", "settag"}
  /\ pc[c] \in {"file_name", "sel_file", "ins_file", "file_rowid"} => req[c].op # "inserttag"
  /\ pc[c] = "settag_name" => req[c].op = "settag"
  /\ pc[c] = "gettags_name" => req[c].op = "gettags"
  /\ pc[c] = "ins_file" => name[c] # NoName

CallOK == \A c \in Client : AtOwnStatement(c)

\* What SQLite's constraints and AUTOINCREMENT keep true of the tables.
TablesOK ==
  /\ IsTable(file) /\ IsTable(tag)
  /\ \A r \in file : r.id <= seq["file"]
  /\ \A r \in tag : r.id <= seq["tag"]
  /\ \A p \in fileTag : p.file \in Ids(file) /\ p.tag \in Ids(tag)
  /\ \A r \in attr : r.file \in Ids(file)

\* The id of a file a client holds has been given out.
IdsGivenOut == \A c \in Client : HasFileId(c) => FileIdOf(c) <= seq["file"]

\* The condition under which it holds of a repository that is still growing.
OneClientPerConnection ==
  \A c, d \in Client : ConnOf[c] = ConnOf[d] => c = d

\* The name a file is looked up and inserted by is the last part of the path
\* the caller gave, as the comment at ufa_util_getfilename says.
NameRight ==
  \A c \in Client : pc[c] \in {"sel_file", "ins_file"} => name[c] = req[c].file

\* A split that is under way will come to that name and to no other.
SplitRight ==
  \A c \in Client : pc[c] = "file_name" => strtok[c] \subseteq {req[c].file}

\* The inductive invariant behind IdsRight.
IInv == TypeOK /\ CallOK /\ TablesOK /\ IdsGivenOut /\ IdsRight /\ NameRight /\ SplitRight

AttrsOf(f) == {<<r.name, r.value>> : r \in {r \in attr : r.file \in Ids(Named(file, f))}}

\* When ufa_repo_settag reports success, the file named by the caller
\* carries the tag named by the caller.
SetTagEffect ==
  [][\A c \in Client :
       pc[c] = "settag" /\ pc'[c] = "done" /\ ok'[c]
          => req[c].tag \in TagsOf(req[c].file)']_vars

\* Three formulas that the code breaks, see section 3 of README.md.

\* A step changes the tags and attributes of the file its caller named and
\* of no other file.
OnlyNamedFile ==
  [][\A f \in File :
       (TagsOf(f)' # TagsOf(f) \/ AttrsOf(f)' # AttrsOf(f))
          => \E c \in Client : pc'[c] # pc[c] /\ req[c].file = f]_vars

\* ufa_repo_gettags lists every tag of a file that is in the database.
GetTagsComplete ==
  [][\A c \in Client :
       pc[c] = "gettags" /\ pc'[c] = "done" /\ fid[c] \in Ids(file)
          => TagsOf(req[c].file) \subseteq out'[c]]_vars

\* An operation that fails sets its error; only a removal that found nothing
\* to remove returns false without one.
FailureExplained ==
  \A c \in Client :
    pc[c] = "done" /\ ~ok[c] /\ req[c].op # "removefile" => err[c]

-----------------------------------------------------------------------------
\* The repository as its clients see it.
Names(rows) == {r.name : r \in rows}

phase == [c \in Client |->
            CASE pc[c] \in {"idle", "done"} -> pc[c]
              [] pc[c] = "changes" -> IF changes[ConnOf[c]] = 1 THEN "removed" ELSE "missed"
              [] OTHER -> "busy"]

tags  == Names(tag)
files == Names(file)

tagged == {p \in File \X Tag : p[2] \in TagsOf(p[1])}
attrs  == UNION {{<<f, av[1], av[2]>> : av \in AttrsOf(f)} : f \in File}

\* Clients that hold the id of a row that is gone.
gone == {c \in Client : HasFileId(c) /\ FileIdOf(c) \notin Ids(file)}

Store == INSTANCE TagStore WITH want <- req

\* Clients with a connection each see operations that take effect at one
\* instant on the file they named: the specification TagStore.
StoreSpec == Store!Spec
=============================================================================
