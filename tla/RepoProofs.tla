----------------------------- MODULE RepoProofs -----------------------------
(***************************************************************************)
(* Proofs about module Repo, for every set of clients, names and calls.    *)
(***************************************************************************)
EXTENDS Repo, FiniteSetTheorems, TLAPS

USE ClientAssumption, RequestAssumption, NameAssumption

Control == TypeOK /\ CallOK

USE DEF Pcs, Splits, LastStatements, Ops, NextId, PairOf, BadPair

\* A split that begins leaves every split under way with names of files.
LEMMA SplitBegins ==
  ASSUME Control, NEW c \in Client, NEW label, NEW f \in File, GoSplit(c, label, f)
  PROVE  /\ pc' = [pc EXCEPT ![c] = label]
         /\ strtok' \in [Client -> SUBSET (File \cup {NoName})]
<1> USE DEF Control, TypeOK, GoSplit
<1>1. \A e \in SplitBeside(c) : req[e].file \in File
  BY DEF SplitBeside, CallOK, AtOwnStatement, Request
<1> DEFINE beside == UNION {{req[e].file, NoName} : e \in SplitBeside(c)}
<1>2. beside \subseteq File \cup {NoName}
  BY <1>1
<1> HIDE DEF beside
<1>3. \A d \in Client : strtok[d] \cup {f, NoName} \subseteq File \cup {NoName}
  OBVIOUS
<1>4. strtok' = [d \in Client |-> IF d = c THEN {f} \cup beside
                   ELSE IF d \in SplitBeside(c) THEN strtok[d] \cup {f, NoName} ELSE strtok[d]]
  BY DEF beside
<1> QED
  BY <1>2, <1>3, <1>4

\* get_file_id has its id.
LEMMA HaveFileStep ==
  ASSUME Control, NEW c \in Client, pc[c] \in {"sel_file", "file_rowid"},
         NEW id \in Nat, HaveFile(c, id), UNCHANGED <<db, conn, req, name, tid, ret, calls>>
  PROVE  Control'
<1> USE DEF Control, TypeOK, CallOK, AtOwnStatement, db, conn, ret
<1>1. req[c] \in Request /\ req[c].op \in LastStatements
  BY DEF Request
<1>2. CASE req[c].op = "gettags" /\ GoSplit(c, "gettags_name", req[c].file)
  <2>1. /\ pc' = [pc EXCEPT ![c] = "gettags_name"]
        /\ strtok' \in [Client -> SUBSET (File \cup {NoName})]
    BY <1>1, <1>2, SplitBegins DEF Request
  <2>2. fid' = [fid EXCEPT ![c] = id]
    BY DEF HaveFile
  <2>3. TypeOK'
    BY <2>1, <2>2
  <2>4. CallOK'
    BY <1>2, <2>1
  <2> QED
    BY <2>3, <2>4
<1>3. CASE req[c].op # "gettags" /\ Goto(c, req[c].op)
  <2>1. pc' = [pc EXCEPT ![c] = req[c].op] /\ fid' = [fid EXCEPT ![c] = id] /\ strtok' = strtok
    BY <1>3 DEF HaveFile, Goto
  <2>2. TypeOK'
    BY <1>1, <2>1
  <2>3. CallOK'
    <3> SUFFICES ASSUME NEW d \in Client PROVE AtOwnStatement(d)'
      OBVIOUS
    <3>1. CASE d = c
      <4>1. pc'[d] = req[c].op /\ req'[d] = req[c] /\ req[c] \in Requests
        BY <2>1, <3>1
      <4> QED
        BY <1>1, <4>1
    <3>2. CASE d # c
      <4>1. pc'[d] = pc[d] /\ req'[d] = req[d] /\ name'[d] = name[d]
        BY <2>1, <3>2
      <4> QED
        BY <4>1
    <3> QED
      BY <3>1, <3>2
  <2> QED
    BY <2>2, <2>3
<1> QED
  BY <1>2, <1>3 DEF HaveFile

\* The end of inserttag: settag goes on to split the path.
LEMMA HaveTagControl ==
  ASSUME Control, NEW c \in Client, pc[c] \in {"sel_tag", "tag_rowid"},
         NEW id \in Nat, HaveTag(c, id), UNCHANGED <<db, conn, req, name, fid, calls>>
  PROVE  Control'
<1> USE DEF Control, TypeOK, CallOK, AtOwnStatement, db, conn, ret
<1>1. CASE req[c].op = "inserttag" /\ Finish(c, TRUE, FALSE, {})
  BY <1>1 DEF HaveTag, Finish, Goto
<1>2. CASE req[c].op = "settag" /\ GoSplit(c, "file_name", req[c].file) /\ UNCHANGED ret
  <2>1. req[c].file \in File
    BY DEF Request
  <2>2. /\ pc' = [pc EXCEPT ![c] = "file_name"]
        /\ strtok' \in [Client -> SUBSET (File \cup {NoName})]
    BY <1>2, <2>1, SplitBegins
  <2>3. tid' = [tid EXCEPT ![c] = id]
    BY DEF HaveTag
  <2>4. TypeOK'
    BY <1>2, <2>2, <2>3
  <2>5. CallOK'
    BY <1>2, <2>2
  <2> QED
    BY <2>4, <2>5
<1> QED
  BY <1>1, <1>2 DEF HaveTag

\* The splits of paths.
LEMMA SplitSteps ==
  ASSUME Control, NEW c \in Client, SplitInVain(c) \/ FileName(c)
  PROVE  Control'
<1> USE DEF Control, TypeOK, CallOK, AtOwnStatement, db, conn, ret
<1>1. strtok' = [strtok EXCEPT ![c] = {}]
      /\ UNCHANGED <<db, conn, req, tid, fid, ret, calls>>
  BY DEF SplitInVain, FileName
<1>2. CASE SplitInVain(c)
  <2>1. /\ pc[c] \in {"settag_name", "gettags_name"} /\ name' = name
        /\ pc' = [pc EXCEPT ![c] = IF pc[c] = "settag_name" THEN "sel_tag" ELSE "gettags"]
    BY <1>2 DEF SplitInVain
  <2>2. TypeOK'
    BY <1>1, <2>1
  <2>3. CallOK'
    BY <1>1, <2>1
  <2> QED
    BY <2>2, <2>3
<1>3. CASE FileName(c)
  <2>1. PICK n \in strtok[c] : name' = [name EXCEPT ![c] = n]
    BY <1>3 DEF FileName
  <2>2. pc[c] = "file_name" /\ pc' = [pc EXCEPT ![c] = "sel_file"]
    BY <1>3 DEF FileName
  <2>3. TypeOK'
    BY <1>1, <2>1, <2>2
  <2>4. CallOK'
    BY <1>1, <2>1, <2>2
  <2> QED
    BY <2>3, <2>4
<1> QED
  BY <1>2, <1>3

\* The actions that end in Finish or Goto and write nothing.
LEMMA QuietSteps ==
  ASSUME Control, NEW c \in Client,
         \/ \E r \in Requests : Call(c, r)
         \/ SelectTag(c) \/ TagRowid(c) \/ SelectFile(c) \/ FileRowid(c)
         \/ SplitInVain(c) \/ FileName(c)
         \/ RemoveFileChanges(c) \/ Return(c)
  PROVE  Control'
<1> USE DEF Control, TypeOK, CallOK, AtOwnStatement, Goto, db, conn, ret
<1>1. ASSUME NEW r \in Requests, Call(c, r) PROVE Control'
  <2>1. \/ r.op = "inserttag" /\ Goto(c, "sel_tag")
        \/ r.op = "settag" /\ GoSplit(c, "settag_name", r.file)
        \/ r.op \notin {"inserttag", "settag"} /\ GoSplit(c, "file_name", r.file)
    BY <1>1 DEF Call
  <2>2. PICK label \in {"sel_tag", "settag_name", "file_name"} :
          /\ pc' = [pc EXCEPT ![c] = label]
          /\ strtok' \in [Client -> SUBSET (File \cup {NoName})]
          /\ label = "sel_tag" => r.op = "inserttag"
          /\ label = "settag_name" => r.op = "settag"
          /\ label = "file_name" => r.op # "inserttag"
    BY <2>1, SplitBegins DEF Request
  <2>3. /\ req' = [req EXCEPT ![c] = r] /\ calls' = calls + 1
        /\ UNCHANGED <<db, conn, name, tid, fid, ret>>
    BY <1>1 DEF Call
  <2>4. TypeOK'
    BY <2>2, <2>3
  <2>5. CallOK'
    BY <2>2, <2>3
  <2> QED
    BY <2>4, <2>5
<1>2. CASE SelectTag(c)
  <2>1. CASE Goto(c, "ins_tag") /\ UNCHANGED <<tid, ret>>
    BY <1>2, <2>1 DEF SelectTag
  <2>2. ASSUME NEW r \in Named(tag, req[c].tag), HaveTag(c, r.id) PROVE Control'
    <3>1. r.id \in Nat
      BY DEF Named, Row
    <3> QED
      BY <1>2, <2>2, <3>1, HaveTagControl DEF SelectTag
  <2> QED
    BY <1>2, <2>1, <2>2 DEF SelectTag
<1>3. CASE TagRowid(c)
  BY <1>3, HaveTagControl DEF TagRowid
<1>4. CASE SelectFile(c)
  <2>1. ASSUME NEW r \in Named(file, name[c]), HaveFile(c, r.id), UNCHANGED ret
        PROVE  Control'
    <3>1. r.id \in Nat
      BY DEF Named, Row
    <3> QED
      BY <1>4, <2>1, <3>1, HaveFileStep DEF SelectFile
  <2>2. CASE name[c] # NoName /\ Goto(c, "ins_file") /\ UNCHANGED <<fid, ret>>
    BY <1>4, <2>2 DEF SelectFile
  <2>3. CASE Finish(c, FALSE, TRUE, {}) /\ UNCHANGED fid
    BY <1>4, <2>3 DEF SelectFile, Finish
  <2> QED
    BY <1>4, <2>1, <2>2, <2>3 DEF SelectFile
<1>5. CASE FileRowid(c)
  BY <1>5, HaveFileStep DEF FileRowid
<1>6. CASE RemoveFileChanges(c)
  <2> DEFINE b == changes[ConnOf[c]] = 1
  <2>1. b \in BOOLEAN
    OBVIOUS
  <2>2. /\ pc' = [pc EXCEPT ![c] = "done"]
        /\ ok' = [ok EXCEPT ![c] = b]
        /\ err' = [err EXCEPT ![c] = FALSE]
        /\ out' = [out EXCEPT ![c] = {}]
        /\ UNCHANGED <<db, conn, req, strtok, name, tid, fid, calls>>
    BY <1>6 DEF RemoveFileChanges, Finish
  <2> HIDE DEF b
  <2>3. TypeOK'
    BY <2>1, <2>2
  <2>4. CallOK'
    BY <2>2, <1>6 DEF RemoveFileChanges
  <2> QED
    BY <2>3, <2>4
<1>7. CASE Return(c)
  <2>3. TypeOK'
    BY <1>7 DEF Return
  <2>4. CallOK'
    BY <1>7 DEF Return
  <2> QED
    BY <2>3, <2>4
<1> QED
  BY <1>1, <1>2, <1>3, <1>4, <1>5, <1>6, <1>7, SplitSteps

\* The actions that write, when they succeed.
LEMMA WriteSteps ==
  ASSUME Control, NEW c \in Client,
         \/ InsertTag(c) \/ InsertFile(c)
         \/ SetTag(c) \/ UnsetTag(c) \/ ClearTags(c)
         \/ SetAttr(c) \/ UnsetAttr(c) \/ RemoveFile(c)
  PROVE  Control'
<1> USE DEF Control, TypeOK, CallOK, AtOwnStatement, Goto, db, conn, ret
<1>1. CASE InsertTag(c)
  <2>1. req[c].tag \in Tag
    BY <1>1 DEF InsertTag, Request
  <2>2. TypeOK'
    BY <1>1, <2>1 DEF InsertTag, Inserted, Row, Tables
  <2>3. CallOK'
    BY <1>1 DEF InsertTag
  <2> QED
    BY <2>2, <2>3
<1>2. CASE InsertFile(c)
  <2>1. name[c] \in File
    BY <1>2 DEF InsertFile
  <2>2. TypeOK'
    BY <1>2, <2>1 DEF InsertFile, Inserted, Row, Tables
  <2>3. CallOK'
    BY <1>2 DEF InsertFile
  <2> QED
    BY <2>2, <2>3
<1> DEFINE Ended(op) ==
      /\ pc[c] = op
      /\ pc' = [pc EXCEPT ![c] = "done"]
      /\ ok' = [ok EXCEPT ![c] = TRUE]
      /\ err' = [err EXCEPT ![c] = FALSE]
      /\ out' = [out EXCEPT ![c] = {}]
      /\ UNCHANGED <<file, tag, req, strtok, name, tid, fid, calls>>
<1>3. CASE SetTag(c)
  <2> DEFINE row == [file |-> fid[c], tag |-> tid[c]]
  <2>1. Ended("settag")
    BY <1>3 DEF SetTag, LastStatement, Finish
  <2>2. /\ attr' = attr
        /\ fileTag' \subseteq fileTag \cup {row}
        /\ fileTag' \in {fileTag, fileTag \cup {row}}
        /\ seq' \in [Tables -> Nat] /\ rowid' \in [Conn -> Nat] /\ changes' \in [Conn -> Nat]
    BY <1>3 DEF SetTag, Inserted, Wrote, Tables
  <2>3. IsFiniteSet(fileTag')
    <3>1. IsFiniteSet(fileTag \cup {row})
      BY FS_AddElement
    <3> QED
      BY <2>2, <3>1
  <2>4. TypeOK'
    BY <2>1, <2>2, <2>3
  <2>5. CallOK'
    BY <2>1
  <2> QED
    BY <2>4, <2>5
<1>4. ASSUME NEW op \in LastStatements, LastStatement(c, op),
             NEW rows \in SUBSET fileTag, Untag(c, rows)
      PROVE  Control'
  <2>1. Ended(op)
    BY <1>4 DEF LastStatement, Finish
  <2>2. IsFiniteSet(rows) /\ IsFiniteSet(fileTag \ rows)
    BY FS_Subset
  <2>3. Cardinality(rows) \in Nat
    BY <2>2, FS_CardinalityType
  <2>4. TypeOK'
    BY <1>4, <2>1, <2>2, <2>3 DEF Untag, Wrote
  <2>5. CallOK'
    BY <2>1
  <2> QED
    BY <2>4, <2>5
<1>5. CASE UnsetTag(c)
  BY <1>4, <1>5 DEF UnsetTag
<1>6. CASE ClearTags(c)
  BY <1>4, <1>6 DEF ClearTags
<1> DEFINE old == AttrRows(c)
<1>7. IsFiniteSet(old) /\ IsFiniteSet(attr \ old) /\ Cardinality(old) \in Nat
  BY FS_Subset, FS_CardinalityType DEF AttrRows
<1>8. CASE SetAttr(c)
  <2>1. Ended("setattr")
    BY <1>8 DEF SetAttr, LastStatement, Finish
  <2>2. req[c].attr \in Attr /\ req[c].value \in Value
    BY <2>1 DEF Request
  <2>3. PICK id \in IF old = {} THEN {seq["attribute"] + 1} ELSE Ids(old) :
          /\ attr' = (attr \ old) \cup
               {[id |-> id, file |-> fid[c], name |-> req[c].attr, value |-> req[c].value]}
          /\ seq' = [seq EXCEPT !["attribute"] = IF old = {} THEN id ELSE @]
          /\ Inserted(c, id)
          /\ fileTag' = fileTag
    BY <1>8 DEF SetAttr
  <2>4. id \in Nat
    BY DEF Ids, AttrRows, Tables
  <2>5. IsFiniteSet(attr')
    <3> DEFINE new == [id |-> id, file |-> fid[c], name |-> req[c].attr, value |-> req[c].value]
    <3> DEFINE rest == attr \ old
    <3>1. IsFiniteSet(rest)
      BY <1>7
    <3>2. attr' = rest \cup {new}
      BY <2>3
    <3> HIDE DEF rest, new
    <3> QED
      BY <3>1, <3>2, FS_AddElement
  <2>6. attr' \subseteq [id: Nat, file: Nat, name: Attr, value: Value]
    BY <2>2, <2>3, <2>4
  <2>7. TypeOK'
    BY <2>1, <2>3, <2>4, <2>5, <2>6 DEF Inserted
  <2>8. CallOK'
    BY <2>1
  <2> QED
    BY <2>7, <2>8
<1>9. CASE UnsetAttr(c)
  <2>1. Ended("unsetattr")
    BY <1>9 DEF UnsetAttr, LastStatement, Finish
  <2>2. TypeOK'
    BY <1>7, <1>9, <2>1 DEF UnsetAttr, Wrote
  <2>3. CallOK'
    BY <2>1
  <2> QED
    BY <2>2, <2>3
<1>10. CASE RemoveFile(c)
  <2>1. IsFiniteSet(fileTag') /\ IsFiniteSet(attr')
    BY <1>10, FS_Subset DEF RemoveFile
  <2>2. TypeOK'
    BY <1>10, <2>1 DEF RemoveFile, Wrote
  <2>3. CallOK'
    BY <1>10 DEF RemoveFile
  <2> QED
    BY <2>2, <2>3
<1> QED
  BY <1>1, <1>2, <1>3, <1>5, <1>6, <1>8, <1>9, <1>10

\* The actions that fail, and the reads.
LEMMA OtherSteps ==
  ASSUME Control,
         \/ \E c \in Client :
              \/ InsertTagFails(c) \/ InsertFileFails(c) \/ SetTagFails(c)
              \/ SetAttrFails(c) \/ DeleteBusy(c) \/ GetTags(c) \/ GetAttr(c)
         \/ UNCHANGED vars
  PROVE  Control'
<1> USE DEF Control, TypeOK, CallOK, AtOwnStatement, Goto, db, conn, ret
<1>1. ASSUME NEW c \in Client, NEW error \in BOOLEAN,
             StatementError(c, error), pc[c] # "idle"
      PROVE  Control'
  <2>1. TypeOK'
    BY <1>1 DEF StatementError, Finish, Wrote
  <2>2. CallOK'
    <3>1. pc' = [pc EXCEPT ![c] = "done"] /\ UNCHANGED <<req, name>> /\ pc[c] # "idle"
      BY <1>1 DEF StatementError, Finish
    <3> QED
      BY <3>1
  <2> QED
    BY <2>1, <2>2
<1>2. ASSUME NEW c \in Client,
             \/ InsertTagFails(c) \/ InsertFileFails(c) \/ SetTagFails(c)
             \/ SetAttrFails(c) \/ DeleteBusy(c)
      PROVE  Control'
  BY <1>1, <1>2 DEF InsertTagFails, InsertFileFails, SetTagFails, SetAttrFails, DeleteBusy
<1>3. ASSUME NEW c \in Client, NEW op \in LastStatements,
             NEW rows \in (SUBSET Tag) \cup (SUBSET (Attr \X Value)), Fetch(c, op, rows)
      PROVE  Control'
  <2>1. ASSUME NEW list \in (SUBSET Tag) \cup (SUBSET (Attr \X Value)),
               Finish(c, TRUE, FALSE, list)
        PROVE  Control'
    <3>1. TypeOK'
      BY <1>3, <2>1 DEF Fetch, Finish
    <3>2. CallOK'
      BY <1>3, <2>1 DEF Fetch, Finish
    <3> QED
      BY <3>1, <3>2
  <2> QED
    BY <1>3, <2>1 DEF Fetch
<1>4. ASSUME NEW c \in Client, GetTags(c) PROVE Control'
  <2>1. {s.name : s \in {s \in tag : [file |-> fid[c], tag |-> s.id] \in fileTag}} \in SUBSET Tag
    <3> DEFINE rowsOfTag == {s \in tag : [file |-> fid[c], tag |-> s.id] \in fileTag}
    <3>1. \A s \in rowsOfTag : s.name \in Tag
      BY DEF Row
    <3> HIDE DEF rowsOfTag
    <3>2. {s.name : s \in rowsOfTag} \in SUBSET Tag
      BY <3>1
    <3> QED
      BY <3>2 DEF rowsOfTag
  <2> QED
    BY <1>3, <1>4, <2>1 DEF GetTags
<1>5. ASSUME NEW c \in Client, GetAttr(c) PROVE Control'
  <2>1. {<<r.name, r.value>> : r \in {r \in attr : r.file = fid[c]}} \in SUBSET (Attr \X Value)
    OBVIOUS
  <2> QED
    BY <1>3, <1>5, <2>1 DEF GetAttr
<1>7. CASE UNCHANGED vars
  BY <1>7 DEF vars
<1> QED
  BY <1>2, <1>4, <1>5, <1>7

\* The tables and registers are right at the start.
LEMMA ControlInit == Init => Control
<1> SUFFICES ASSUME Init PROVE Control
  OBVIOUS
<1>1. Cardinality(File0) \in Nat /\ Cardinality(Tag0) \in Nat
  BY TableAssumption, FS_CardinalityType
<1>2. IsFiniteSet({})
  BY FS_EmptySet
<1>3. TypeOK
  BY <1>1, <1>2, TableAssumption DEF Init, TypeOK, NoCall
<1>4. CallOK
  BY DEF Init, CallOK, AtOwnStatement
<1> QED
  BY <1>3, <1>4 DEF Control

\* The tables, the registers of every client and what its calls return keep
\* their types, and a client is always at a statement of its own operation.
THEOREM TypeCorrect == Spec => [](TypeOK /\ CallOK)
<1>2. Control /\ [Next]_vars => Control'
  <2> SUFFICES ASSUME Control, [Next]_vars PROVE Control'
    OBVIOUS
  <2> QED
    BY QuietSteps, WriteSteps, OtherSteps DEF Next, Step
<1> QED
  BY ControlInit, <1>2, PTL DEF Spec, Control
-----------------------------------------------------------------------------
\* SQLite's constraints: keys stay unique and references stay resolved.
LEMMA TablesStep ==
  ASSUME Control, TablesOK, [Next]_vars PROVE TablesOK'
<1> USE DEF Control, TypeOK, TablesOK
<1>1. ASSUME NEW c \in Client, InsertTag(c) PROVE TablesOK'
  <2>1. /\ Named(tag, req[c].tag) = {}
        /\ tag' = tag \cup {[id |-> seq["tag"] + 1, name |-> req[c].tag]}
        /\ seq' = [seq EXCEPT !["tag"] = seq["tag"] + 1]
        /\ UNCHANGED <<file, fileTag, attr>>
    BY <1>1 DEF InsertTag
  <2>2. \A r \in tag' : r.id <= seq'["tag"]
    BY <2>1 DEF Row, Tables
  <2>3. IsTable(tag')
    BY <2>1 DEF IsTable, Named, Row, Tables
  <2> QED
    BY <2>1, <2>2, <2>3 DEF Ids, Tables
<1>2. ASSUME NEW c \in Client, InsertFile(c) PROVE TablesOK'
  <2>1. /\ Named(file, name[c]) = {}
        /\ file' = file \cup {[id |-> seq["file"] + 1, name |-> name[c]]}
        /\ seq' = [seq EXCEPT !["file"] = seq["file"] + 1]
        /\ UNCHANGED <<tag, fileTag, attr>>
    BY <1>2 DEF InsertFile
  <2>2. \A r \in file' : r.id <= seq'["file"]
    BY <2>1 DEF Row, Tables
  <2>3. IsTable(file')
    BY <2>1 DEF IsTable, Named, Row, Tables
  <2> QED
    BY <2>1, <2>2, <2>3 DEF Ids, Tables
<1>3. ASSUME NEW c \in Client, SetTag(c) PROVE TablesOK'
  BY <1>3 DEF SetTag, LastStatement, Tables
<1>4. ASSUME NEW c \in Client, SetAttr(c) PROVE TablesOK'
  <2>1. /\ fid[c] \in Ids(file)
        /\ \A r \in attr' : r \in attr \/ r.file = fid[c]
        /\ seq'["file"] = seq["file"] /\ seq'["tag"] = seq["tag"]
        /\ UNCHANGED <<file, tag, fileTag>>
    BY <1>4 DEF SetAttr, LastStatement, Tables
  <2> QED
    BY <2>1
<1>5. ASSUME NEW c \in Client, RemoveFile(c) PROVE TablesOK'
  BY <1>5 DEF RemoveFile, IsTable, Ids
<1>6. ASSUME UNCHANGED <<file, tag, seq>>, fileTag' \subseteq fileTag, attr' \subseteq attr
      PROVE  TablesOK'
  BY <1>6
<1>7. ASSUME NEW c \in Client, UnsetTag(c) \/ ClearTags(c) \/ UnsetAttr(c)
      PROVE  TablesOK'
  BY <1>6, <1>7 DEF UnsetTag, ClearTags, UnsetAttr, Untag, LastStatement
<1>8. ASSUME UNCHANGED db PROVE TablesOK'
  BY <1>6, <1>8 DEF db
<1>9. ASSUME NEW c \in Client,
             \/ \E r \in Requests : Call(c, r)
             \/ SelectTag(c) \/ TagRowid(c) \/ SelectFile(c) \/ FileRowid(c)
             \/ InsertTagFails(c) \/ InsertFileFails(c) \/ SetTagFails(c)
             \/ SetAttrFails(c) \/ DeleteBusy(c) \/ GetTags(c) \/ GetAttr(c)
             \/ SplitInVain(c) \/ FileName(c)
             \/ RemoveFileChanges(c) \/ Return(c)
      PROVE  TablesOK'
  <2>1. UNCHANGED db
    BY <1>9 DEF Call, SplitInVain, FileName, SelectTag, TagRowid, SelectFile, FileRowid, InsertTagFails,
         InsertFileFails, SetTagFails, SetAttrFails, DeleteBusy, StatementError,
         GetTags, GetAttr, Fetch, RemoveFileChanges, Return
  <2> QED
    BY <1>8, <2>1
<1>10. CASE UNCHANGED vars
  BY <1>8, <1>10 DEF vars
<1> QED
  BY <1>1, <1>2, <1>3, <1>4, <1>5, <1>7, <1>9, <1>10 DEF Next, Step

\* The next statement of a client reads what its connection keeps of the
\* last one: sqlite3_last_insert_rowid or sqlite3_changes.
ReadsConn(d) == pc[d] \in {"tag_rowid", "file_rowid", "changes"}

\* No other client is about to read what a statement of c may overwrite.
Separate(c) == \A d \in Client \ {c} : ReadsConn(d) => ConnOf[d] # ConnOf[c]

\* What a step of one client leaves to the others: their registers, what
\* they read from their connection, every tag row, and file ids that are
\* either old or new.
Undisturbed(c) ==
  /\ \A d \in Client \ {c} :
       /\ pc'[d] = pc[d] /\ req'[d] = req[d] /\ tid'[d] = tid[d] /\ fid'[d] = fid[d]
       /\ ReadsConn(d) => /\ rowid'[ConnOf[d]] = rowid[ConnOf[d]]
                          /\ changes'[ConnOf[d]] = changes[ConnOf[d]]
  /\ tag \subseteq tag'
  /\ \A r \in file' : r \in file \/ r.id > seq["file"]
  /\ seq'["file"] >= seq["file"]
  /\ seq'["file"] \in Nat

LEMMA OthersUndisturbed ==
  ASSUME Control, NEW c \in Client, Separate(c),
         (\E r \in Requests : Call(c, r)) \/ Step(c) \/ Return(c)
  PROVE  Undisturbed(c)
<1> USE DEF Control, TypeOK, Undisturbed, Separate, Tables
<1>1. ASSUME NEW r \in Requests, Call(c, r) PROVE Undisturbed(c)
  BY <1>1 DEF Call, Goto, GoSplit, db, conn
<1>2. CASE InsertTag(c)
  BY <1>2 DEF InsertTag, Goto, Inserted
<1>3. CASE InsertFile(c)
  BY <1>3 DEF InsertFile, Goto, Inserted
<1>4. CASE SetTag(c)
  BY <1>4 DEF SetTag, LastStatement, Finish, Goto, Inserted, Wrote
<1>5. CASE SetAttr(c)
  BY <1>5 DEF SetAttr, LastStatement, Finish, Goto, Inserted
<1>6. CASE UnsetTag(c) \/ ClearTags(c) \/ UnsetAttr(c)
  BY <1>6 DEF UnsetTag, ClearTags, UnsetAttr, Untag, LastStatement, Finish, Goto, Wrote
<1>7. CASE RemoveFile(c)
  BY <1>7 DEF RemoveFile, Goto, Wrote
<1>8. CASE InsertTagFails(c) \/ InsertFileFails(c) \/ SetTagFails(c) \/ SetAttrFails(c) \/ DeleteBusy(c)
  BY <1>8 DEF InsertTagFails, InsertFileFails, SetTagFails, SetAttrFails, DeleteBusy,
       StatementError, Finish, Goto, Wrote, db
<1>9. CASE SelectTag(c) \/ TagRowid(c)
  BY <1>9 DEF SelectTag, TagRowid, HaveTag, Finish, Goto, GoSplit, db, conn
<1>10. CASE SelectFile(c) \/ FileRowid(c)
  BY <1>10 DEF SelectFile, FileRowid, HaveFile, Finish, Goto, GoSplit, db, conn
<1>11. CASE SplitInVain(c) \/ FileName(c) \/ Return(c)
  BY <1>11 DEF SplitInVain, FileName, Return, Goto, db, conn
<1>12. CASE GetTags(c) \/ GetAttr(c) \/ RemoveFileChanges(c)
  BY <1>12 DEF GetTags, GetAttr, Fetch, RemoveFileChanges, Finish, Goto, db, conn
<1> QED
  BY <1>1, <1>2, <1>3, <1>4, <1>5, <1>6, <1>7, <1>8, <1>9, <1>10, <1>11, <1>12 DEF Step

\* Connections of their own are enough for that.
LEMMA ConnectionsSeparate ==
  ASSUME OneClientPerConnection, NEW c \in Client PROVE Separate(c)
BY DEF OneClientPerConnection, Separate

IdsOK(c) == /\ IdsRightFor(c)
            /\ HasFileId(c) => FileIdOf(c) <= seq["file"]

\* The other clients keep their ids right.
LEMMA OthersKeepIds ==
  ASSUME Control, NEW c \in Client, Undisturbed(c), NEW d \in Client \ {c}, IdsOK(d)
  PROVE  IdsOK(d)'
<1>1. /\ HasFileId(d)' <=> HasFileId(d)
      /\ HasTagId(d)' <=> HasTagId(d)
      /\ FileIdOf(d)' = FileIdOf(d) /\ TagIdOf(d)' = TagIdOf(d)
  BY DEF Undisturbed, ReadsConn, HasFileId, HasTagId, FileIdOf, TagIdOf
<1>2. FileIdOf(d) \in Nat
  BY DEF FileIdOf, Control, TypeOK
<1>3. seq["file"] \in Nat /\ \A r \in file' : r \in file \/ r.id > seq["file"]
  BY DEF Undisturbed, Control, TypeOK, Tables
<1>4. HasFileId(d)' => \A r \in file' : r.id = FileIdOf(d)' => r.name = req'[d].file
  <2> SUFFICES ASSUME HasFileId(d), NEW r \in file', r.id = FileIdOf(d)
               PROVE  r.name = req[d].file
    BY <1>1 DEF Undisturbed
  <2>1. r \in file
    BY <1>2, <1>3 DEF IdsOK
  <2> QED
    BY <2>1 DEF IdsOK, IdsRightFor
<1>5. HasTagId(d)' => [id |-> TagIdOf(d)', name |-> req'[d].tag] \in tag'
  BY <1>1 DEF Undisturbed, IdsOK, IdsRightFor
<1>6. HasFileId(d)' => FileIdOf(d)' <= seq'["file"]
  BY <1>1, <1>2, <1>3 DEF Undisturbed, IdsOK
<1> QED
  BY <1>4, <1>5, <1>6 DEF IdsOK, IdsRightFor

\* So does the client that takes the step: an id comes from the row that
\* bears the name, or from the row it has just inserted.
LEMMA StepKeepsIds ==
  ASSUME Control, TablesOK, NameRight, NEW c \in Client, IdsOK(c),
         (\E r \in Requests : Call(c, r)) \/ Step(c) \/ Return(c)
  PROVE  IdsOK(c)'
<1> USE DEF Control, TypeOK, IdsOK, IdsRightFor, HasFileId, HasTagId, FileIdOf, TagIdOf
<1>1. ASSUME pc'[c] \in {"idle", "done", "changes", "settag_name", "ins_tag", "sel_tag"}
      PROVE  IdsOK(c)'
  BY <1>1
<1>2. ASSUME NEW r \in Requests, Call(c, r) PROVE IdsOK(c)'
  <2>1. /\ pc'[c] \in {"sel_tag", "settag_name", "file_name"}
        /\ req'[c] = r
        /\ pc'[c] = "file_name" => r.op # "settag"
    BY <1>2 DEF Call, Goto, GoSplit
  <2> QED
    BY <2>1
<1>3. CASE SelectTag(c)
  <2>1. ASSUME NEW r \in Named(tag, req[c].tag), HaveTag(c, r.id) PROVE IdsOK(c)'
    <3>1. r = [id |-> r.id, name |-> req[c].tag] /\ r \in tag
      BY DEF Named, Row
    <3>2. /\ pc'[c] = "done" \/ pc'[c] = "file_name"
          /\ tid'[c] = r.id /\ req'[c] = req[c] /\ tag' = tag
      BY <1>3, <2>1 DEF SelectTag, HaveTag, Goto, GoSplit, Finish, db
    <3> QED
      BY <3>1, <3>2
  <2>2. CASE Goto(c, "ins_tag")
    BY <1>1, <2>2 DEF Goto
  <2> QED
    BY <1>3, <2>1, <2>2 DEF SelectTag
<1>4. CASE InsertTag(c)
  <2>1. /\ pc'[c] = "tag_rowid" /\ req'[c] = req[c]
        /\ rowid'[ConnOf[c]] = seq["tag"] + 1
        /\ [id |-> seq["tag"] + 1, name |-> req[c].tag] \in tag'
    BY <1>4 DEF InsertTag, Inserted, Goto
  <2> QED
    BY <2>1
<1>5. CASE TagRowid(c)
  <2>1. /\ pc'[c] = "done" \/ pc'[c] = "file_name"
        /\ pc[c] = "tag_rowid"
        /\ tid'[c] = rowid[ConnOf[c]] /\ req'[c] = req[c] /\ tag' = tag
    BY <1>5 DEF TagRowid, HaveTag, Goto, GoSplit, Finish, db
  <2> QED
    BY <2>1
<1>6. CASE SelectFile(c)
  <2>1. ASSUME NEW r \in Named(file, name[c]), HaveFile(c, r.id)
        PROVE  IdsOK(c)'
    <3>1. /\ pc'[c] \in {"gettags_name"} \cup LastStatements /\ pc[c] = "sel_file"
          /\ pc'[c] = "settag" => req[c].op = "settag"
          /\ fid'[c] = r.id /\ UNCHANGED <<tag, file, seq, tid, req>>
      BY <1>6, <2>1 DEF SelectFile, HaveFile, Goto, GoSplit, db, CallOK, AtOwnStatement, Request
    <3>2. r \in file /\ r.name = req[c].file /\ r.id <= seq["file"]
      BY <3>1 DEF Named, TablesOK, NameRight
    <3>3. \A s \in file : s.id = r.id => s.name = req[c].file
      BY <3>2 DEF TablesOK, IsTable
    <3> QED
      BY <3>1, <3>2, <3>3
  <2>2. CASE Goto(c, "ins_file")
    BY <1>6, <2>2 DEF SelectFile, Goto, db
  <2>3. CASE Finish(c, FALSE, TRUE, {})
    BY <1>1, <2>3 DEF Finish, Goto
  <2> QED
    BY <1>6, <2>1, <2>2, <2>3 DEF SelectFile
<1>7. CASE InsertFile(c)
  <2>1. /\ pc'[c] = "file_rowid" /\ pc[c] = "ins_file"
        /\ UNCHANGED <<tag, tid, req>>
        /\ rowid'[ConnOf[c]] = seq["file"] + 1
        /\ seq'["file"] = seq["file"] + 1
        /\ file' = file \cup {[id |-> seq["file"] + 1, name |-> req[c].file]}
    BY <1>7 DEF InsertFile, Inserted, Goto, Tables, NameRight
  <2>2. \A r \in file : r.id \in Nat /\ r.id <= seq["file"]
    BY DEF TablesOK, Row
  <2>3. \A r \in file' : r.id = seq["file"] + 1 => r.name = req[c].file
    BY <2>1, <2>2 DEF Tables
  <2> QED
    BY <2>1, <2>3 DEF Tables
<1>8. CASE FileRowid(c)
  <2>1. /\ pc'[c] \in {"gettags_name"} \cup LastStatements /\ pc[c] = "file_rowid"
        /\ pc'[c] = "settag" => req[c].op = "settag"
        /\ fid'[c] = rowid[ConnOf[c]] /\ UNCHANGED <<tag, file, seq, tid, req>>
    BY <1>8 DEF FileRowid, HaveFile, Goto, GoSplit, db, CallOK, AtOwnStatement, Request
  <2> QED
    BY <2>1
<1>9. ASSUME \/ InsertTagFails(c) \/ InsertFileFails(c) \/ SetTagFails(c)
             \/ SetAttrFails(c) \/ DeleteBusy(c) \/ SetTag(c) \/ UnsetTag(c)
             \/ ClearTags(c) \/ SetAttr(c) \/ UnsetAttr(c) \/ GetTags(c)
             \/ GetAttr(c) \/ RemoveFile(c) \/ RemoveFileChanges(c) \/ Return(c)
      PROVE  IdsOK(c)'
  <2>1. pc'[c] \in {"idle", "done", "changes"}
    BY <1>9 DEF InsertTagFails, InsertFileFails, SetTagFails, SetAttrFails, DeleteBusy,
         StatementError, SetTag, UnsetTag, ClearTags, SetAttr, UnsetAttr, LastStatement,
         GetTags, GetAttr, Fetch, RemoveFile, RemoveFileChanges, Return, Finish, Goto
  <2> QED
    BY <1>1, <2>1
<1>10. CASE SplitInVain(c) \/ FileName(c)
  <2>1. /\ UNCHANGED <<tag, file, seq, tid, fid, req, rowid>>
        /\ \/ pc[c] = "settag_name" /\ pc'[c] = "sel_tag"
           \/ pc[c] = "gettags_name" /\ pc'[c] = "gettags"
           \/ pc[c] = "file_name" /\ pc'[c] = "sel_file"
    BY <1>10 DEF SplitInVain, FileName, db, conn
  <2> QED
    BY <2>1
<1> QED
  BY <1>2, <1>3, <1>4, <1>5, <1>6, <1>7, <1>8, <1>9, <1>10 DEF Step

-----------------------------------------------------------------------------
\* A process that has its connection, and so the cursor of strtok, for
\* itself splits its paths undisturbed.
LEMMA SplitAlone ==
  ASSUME OneClientPerConnection, Control, NEW c \in Client, NEW label, NEW f,
         GoSplit(c, label, f)
  PROVE  pc' = [pc EXCEPT ![c] = label] /\ strtok' = [strtok EXCEPT ![c] = {f}]
<1>1. SplitBeside(c) = {}
  BY DEF SplitBeside, OneClientPerConnection
<1>2. strtok' = [d \in Client |-> IF d = c THEN {f} ELSE strtok[d]]
  BY <1>1 DEF GoSplit
<1>3. strtok \in [Client -> SUBSET (File \cup {NoName})]
  BY DEF Control, TypeOK
<1> QED
  BY <1>2, <1>3 DEF GoSplit

\* What a client knows of the name of its file.
NameFor(d) ==
  /\ pc[d] \in {"sel_file", "ins_file"} => name[d] = req[d].file
  /\ pc[d] = "file_name" => strtok[d] \subseteq {req[d].file}

LEMMA NamesStep ==
  ASSUME OneClientPerConnection, Control, NameRight, SplitRight, NEW c \in Client,
         (\E r \in Requests : Call(c, r)) \/ Step(c) \/ Return(c)
  PROVE  NameRight' /\ SplitRight'
<1> USE DEF Control, TypeOK
<1>1. \A d \in Client : NameFor(d)
  BY DEF NameFor, NameRight, SplitRight
<1>2. SUFFICES \A d \in Client : NameFor(d)'
  BY DEF NameFor, NameRight, SplitRight
<1> DEFINE Leaves(d) == pc'[d] = pc[d] /\ req'[d] = req[d] /\ name'[d] = name[d]
                          /\ strtok'[d] = strtok[d]
<1>3. ASSUME \A d \in Client \ {c} : Leaves(d), NameFor(c)' PROVE \A d \in Client : NameFor(d)'
  BY <1>1, <1>3 DEF NameFor
<1>4. ASSUME NEW r \in Requests, Call(c, r) PROVE \A d \in Client : NameFor(d)'
  <2>1. req' = [req EXCEPT ![c] = r] /\ name' = name
    BY <1>4 DEF Call
  <2>2. \/ pc' = [pc EXCEPT ![c] = "sel_tag"] /\ strtok' = strtok
        \/ pc' = [pc EXCEPT ![c] = "settag_name"] /\ strtok' = [strtok EXCEPT ![c] = {r.file}]
        \/ pc' = [pc EXCEPT ![c] = "file_name"] /\ strtok' = [strtok EXCEPT ![c] = {r.file}]
    BY <1>4, SplitAlone DEF Call, Goto, Control
  <2>3. NameFor(c)'
    BY <2>1, <2>2 DEF NameFor
  <2>4. \A d \in Client \ {c} : Leaves(d)
    BY <2>1, <2>2
  <2> QED
    BY <1>3, <2>3, <2>4
\* A step that neither begins nor ends the splitting of the name.
<1>5. ASSUME NEW label \in Pcs \ {"file_name", "sel_file", "ins_file"}, Goto(c, label),
             \A d \in Client \ {c} : req'[d] = req[d] /\ name'[d] = name[d]
      PROVE  \A d \in Client : NameFor(d)'
  <2>1. pc' = [pc EXCEPT ![c] = label] /\ strtok' = strtok
    BY <1>5 DEF Goto
  <2>2. NameFor(c)'
    BY <1>5, <2>1 DEF NameFor
  <2>3. \A d \in Client \ {c} : Leaves(d)
    BY <1>5, <2>1
  <2> QED
    BY <1>3, <2>2, <2>3
<1>6. ASSUME NEW id, HaveTag(c, id), UNCHANGED <<req, name>>
      PROVE  \A d \in Client : NameFor(d)'
  <2>1. CASE Goto(c, "done")
    BY <1>5, <1>6, <2>1
  <2>2. CASE GoSplit(c, "file_name", req[c].file)
    <3>1. pc' = [pc EXCEPT ![c] = "file_name"] /\ strtok' = [strtok EXCEPT ![c] = {req[c].file}]
      BY <2>2, SplitAlone DEF Control
    <3>2. NameFor(c)'
      BY <1>6, <3>1 DEF NameFor
    <3>3. \A d \in Client \ {c} : Leaves(d)
      BY <1>6, <3>1
    <3> QED
      BY <1>3, <3>2, <3>3
  <2> QED
    BY <1>6, <2>1, <2>2 DEF HaveTag, Finish
<1>7. ASSUME NEW id, HaveFile(c, id), UNCHANGED <<req, name>>, req[c].op \in LastStatements
      PROVE  \A d \in Client : NameFor(d)'
  <2>1. CASE Goto(c, req[c].op)
    BY <1>5, <1>7, <2>1
  <2>2. CASE GoSplit(c, "gettags_name", req[c].file)
    <3>1. pc' = [pc EXCEPT ![c] = "gettags_name"] /\ strtok' = [strtok EXCEPT ![c] = {req[c].file}]
      BY <2>2, SplitAlone DEF Control
    <3>2. NameFor(c)'
      BY <1>7, <3>1 DEF NameFor
    <3>3. \A d \in Client \ {c} : Leaves(d)
      BY <1>7, <3>1
    <3> QED
      BY <1>3, <3>2, <3>3
  <2> QED
    BY <1>7, <2>1, <2>2 DEF HaveFile
<1>8. CASE SelectTag(c)
  <2>1. UNCHANGED <<req, name>> /\ (Goto(c, "ins_tag") \/ \E id : HaveTag(c, id))
    BY <1>8 DEF SelectTag
  <2> QED
    BY <1>5, <1>6, <2>1
<1>9. CASE TagRowid(c)
  BY <1>6, <1>9 DEF TagRowid
<1>10. CASE SelectFile(c)
  <2>1. /\ UNCHANGED <<req, name>> /\ pc[c] = "sel_file"
        /\ Goto(c, "ins_file") \/ Goto(c, "done") \/ \E id : HaveFile(c, id)
    BY <1>10 DEF SelectFile, Finish
  <2>2. req[c].op \in LastStatements
    BY <2>1 DEF CallOK, AtOwnStatement, Request
  <2>3. CASE Goto(c, "ins_file")
    <3>1. pc' = [pc EXCEPT ![c] = "ins_file"] /\ strtok' = strtok
      BY <2>3 DEF Goto
    <3>2. NameFor(c)'
      BY <1>1, <2>1, <3>1 DEF NameFor
    <3>3. \A d \in Client \ {c} : Leaves(d)
      BY <2>1, <3>1
    <3> QED
      BY <1>3, <3>2, <3>3
  <2> QED
    BY <1>5, <1>7, <2>1, <2>2, <2>3
<1>11. CASE FileRowid(c)
  <2>1. req[c].op \in LastStatements
    BY <1>11 DEF FileRowid, CallOK, AtOwnStatement, Request
  <2> QED
    BY <1>7, <1>11, <2>1 DEF FileRowid
<1>12. CASE SplitInVain(c) \/ FileName(c)
  <2>1. /\ UNCHANGED req /\ strtok' = [strtok EXCEPT ![c] = {}]
        /\ \A d \in Client \ {c} : pc'[d] = pc[d] /\ name'[d] = name[d]
        /\ \/ pc'[c] \in {"sel_tag", "gettags"}
           \/ pc[c] = "file_name" /\ pc'[c] = "sel_file" /\ name'[c] \in strtok[c]
    BY <1>12 DEF SplitInVain, FileName
  <2>2. NameFor(c)'
    BY <1>1, <2>1 DEF NameFor
  <2>3. \A d \in Client \ {c} : Leaves(d)
    BY <2>1
  <2> QED
    BY <1>3, <2>2, <2>3
<1>13. ASSUME \/ InsertTag(c) \/ InsertFile(c) \/ InsertTagFails(c) \/ InsertFileFails(c)
              \/ SetTagFails(c) \/ SetAttrFails(c) \/ DeleteBusy(c) \/ SetTag(c)
              \/ UnsetTag(c) \/ ClearTags(c) \/ SetAttr(c) \/ UnsetAttr(c)
              \/ GetTags(c) \/ GetAttr(c) \/ RemoveFile(c) \/ RemoveFileChanges(c)
      PROVE  \A d \in Client : NameFor(d)'
  <2>1. /\ UNCHANGED <<req, name>>
        /\ \E label \in {"tag_rowid", "file_rowid", "done", "changes"} : Goto(c, label)
    BY <1>13 DEF InsertTag, InsertFile, InsertTagFails, InsertFileFails, SetTagFails,
         SetAttrFails, DeleteBusy, StatementError, SetTag, UnsetTag, ClearTags, SetAttr,
         UnsetAttr, LastStatement, GetTags, GetAttr, Fetch, RemoveFile, RemoveFileChanges,
         Finish
  <2> QED
    BY <1>5, <2>1
<1>14. CASE Return(c)
  <2>1. Goto(c, "idle") /\ \A d \in Client \ {c} : req'[d] = req[d] /\ name'[d] = name[d]
    BY <1>14 DEF Return
  <2> QED
    BY <1>5, <2>1
<1> QED
  BY <1>4, <1>8, <1>9, <1>10, <1>11, <1>12, <1>13, <1>14 DEF Step

LEMMA IdsInit == Init => IInv
<1> SUFFICES ASSUME Init PROVE IInv
  OBVIOUS
<1>1. TablesOK
  BY TableAssumption, FS_CardinalityType DEF Init, TablesOK, Tables
<1>2. IdsGivenOut /\ IdsRight
  BY DEF Init, IdsGivenOut, IdsRight, IdsRightFor, HasFileId, HasTagId
<1>3. NameRight /\ SplitRight
  BY DEF Init, NameRight, SplitRight
<1> QED
  BY <1>1, <1>2, <1>3, ControlInit DEF Control, IInv

LEMMA IdsStep ==
  ASSUME OneClientPerConnection, Control', IInv, [Next]_vars PROVE IInv'
<1> USE DEF IInv, Control
<1>1. TablesOK'
  BY TablesStep
<1>2. \A d \in Client : IdsOK(d)
  BY DEF IdsOK, IdsGivenOut, IdsRight
<1>3. \A d \in Client : IdsOK(d)'
  <2>1. ASSUME NEW c \in Client, (\E r \in Requests : Call(c, r)) \/ Step(c) \/ Return(c)
        PROVE  \A d \in Client : IdsOK(d)'
    <3>1. Undisturbed(c)
      BY <2>1, ConnectionsSeparate, OthersUndisturbed
    <3>2. IdsOK(c)'
      BY <1>2, <2>1, StepKeepsIds
    <3>3. \A d \in Client \ {c} : IdsOK(d)'
      BY <1>2, <3>1, OthersKeepIds
    <3> QED
      BY <3>2, <3>3
  <2>2. ASSUME UNCHANGED <<db, conn, pc, req, tid, fid>>
        PROVE  \A d \in Client : IdsOK(d)'
    BY <1>2, <2>2 DEF IdsOK, IdsRightFor, HasFileId, HasTagId, FileIdOf, TagIdOf, db, conn
  <2> QED
    BY <2>1, <2>2 DEF Next, vars
<1>4. NameRight' /\ SplitRight'
  <2>1. CASE UNCHANGED vars
    BY <2>1 DEF vars, NameRight, SplitRight
  <2> QED
    BY <2>1, NamesStep DEF Next
<1> QED
  BY <1>1, <1>3, <1>4 DEF IdsOK, IdsGivenOut, IdsRight

\* In a repository where no two clients share a connection, the ids clients
\* work with are right, whatever statements of the others run in between and
\* whichever of them fail.
THEOREM IdsInvariant ==
  ASSUME OneClientPerConnection PROVE Spec => []IInv
<1>1. Control' /\ IInv /\ [Next]_vars => IInv'
  BY IdsStep
<1> QED
  BY <1>1, IdsInit, TypeCorrect, PTL DEF Spec, Control

\* The step that ends a settag puts the tag the caller named on the file it
\* named.
LEMMA SetTagStep ==
  ASSUME IInv, NEW c \in Client, SetTag(c)
  PROVE  req[c].tag \in TagsOf(req[c].file)'
<1> USE DEF IInv, TypeOK
<1>1. pc[c] = "settag" /\ req[c].op = "settag" /\ req[c] \in Request
  BY DEF SetTag, LastStatement, CallOK, AtOwnStatement
<1>2. UNCHANGED <<file, tag>> /\ [file |-> fid[c], tag |-> tid[c]] \in fileTag'
  BY DEF SetTag, LastStatement
<1>3. fid[c] \in Ids(file)
  BY <1>1 DEF SetTag, TablesOK
<1>4. PICK r \in file : r.id = fid[c]
  BY <1>3 DEF Ids
<1>5. r.name = req[c].file
  BY <1>1, <1>4 DEF IdsRight, IdsRightFor, HasFileId, FileIdOf
<1>6. [id |-> tid[c], name |-> req[c].tag] \in tag
  BY <1>1 DEF IdsRight, IdsRightFor, HasTagId, TagIdOf
<1> DEFINE t == [id |-> tid[c], name |-> req[c].tag]
<1>7. r \in file' /\ r.name = req[c].file /\ t \in tag' /\ t.name = req[c].tag
  BY <1>2, <1>4, <1>5, <1>6
<1>8. [file |-> r.id, tag |-> t.id] \in fileTag'
  BY <1>2, <1>4
<1>9. req[c].tag \in Tag
  BY <1>1 DEF Request
<1>10. req'[c] = req[c]
  BY DEF SetTag, LastStatement
<1> HIDE DEF t
<1> QED
  BY <1>7, <1>8, <1>9, <1>10 DEF TagsOf, Named

\* A settag that reports success has put the tag the caller named on the
\* file it named.
THEOREM SetTagCorrect ==
  ASSUME OneClientPerConnection PROVE Spec => SetTagEffect
<1> DEFINE A == \A c \in Client :
       pc[c] = "settag" /\ pc'[c] = "done" /\ ok'[c] => req[c].tag \in TagsOf(req[c].file)'
<1>1. IInv /\ [Next]_vars => A
  <2> SUFFICES ASSUME IInv, [Next]_vars, NEW c \in Client,
                      pc[c] = "settag", pc'[c] = "done", ok'[c]
               PROVE  req[c].tag \in TagsOf(req[c].file)'
    OBVIOUS
  <2>1. SetTag(c)
    <3> USE DEF IInv, TypeOK
    <3>1. PICK d \in Client : (\E r \in Requests : Call(d, r)) \/ Step(d) \/ Return(d)
      BY DEF Next, vars
    <3>2. d = c
      BY <3>1, ConnectionsSeparate, OthersUndisturbed DEF Undisturbed, Control
    <3>3. Step(c)
      BY <3>1, <3>2 DEF Call, Return
    <3>4. ~SetTagFails(c) /\ ~DeleteBusy(c)
      BY DEF SetTagFails, DeleteBusy, StatementError, Finish
    <3> QED
      BY <3>3, <3>4 DEF Step, SplitInVain, FileName, SelectTag, InsertTag, InsertTagFails, TagRowid, SelectFile,
         InsertFile, InsertFileFails, FileRowid, UnsetTag, ClearTags, SetAttr,
         SetAttrFails, UnsetAttr, LastStatement, GetTags, GetAttr, Fetch, RemoveFile,
         RemoveFileChanges
  <2> QED
    BY <2>1, SetTagStep
<1> QED
  BY <1>1, IdsInvariant, PTL DEF Spec, SetTagEffect
-----------------------------------------------------------------------------
(***************************************************************************)
(* The repository implements TagStore: every statement of an operation is  *)
(* an operation of the store taking effect, a name becoming known, or no   *)
(* step of the store at all.  For every set of clients, names and calls,   *)
(* when clients have a connection each.                                    *)
(***************************************************************************)
USE ClientAssumption, RequestAssumption, NameAssumption

USE DEF Pcs, Splits, LastStatements, Ops, NextId, PairOf, BadPair

\* The pairs and triples of the store, read off the rows.
HasTag(f, t) ==
  \E r \in file, s \in tag :
    r.name = f /\ s.name = t /\ [file |-> r.id, tag |-> s.id] \in fileTag

HasAttr(f, n, v) ==
  \E r \in file, a \in attr :
    r.name = f /\ a.file = r.id /\ a.name = n /\ a.value = v

TaggedShown ==
  /\ tagged \subseteq File \X Tag
  /\ \A f \in File, t \in Tag : <<f, t>> \in tagged <=> HasTag(f, t)

AttrsShown ==
  /\ attrs \subseteq File \X Attr \X Value
  /\ \A f \in File, n \in Attr, v \in Value : <<f, n, v>> \in attrs <=> HasAttr(f, n, v)

LEMMA TaggedRows == TaggedShown
BY DEF TaggedShown, tagged, TagsOf, Named, HasTag

LEMMA AttrRowsOf == TypeOK => AttrsShown
<1> SUFFICES ASSUME TypeOK PROVE AttrsShown
  OBVIOUS
<1>1. \A x : x \in attrs <=> \E f \in File : \E av \in AttrsOf(f) : x = <<f, av[1], av[2]>>
  BY DEF attrs
<1>2. \A f : \A x : x \in AttrsOf(f) <=>
          \E r \in file, a \in attr :
            r.name = f /\ a.file = r.id /\ x = <<a.name, a.value>>
  BY DEF AttrsOf, Ids, Named
<1>3. \A a \in attr : a.name \in Attr /\ a.value \in Value
  BY DEF TypeOK
<1>4. attrs \subseteq File \X Attr \X Value
  <2> SUFFICES ASSUME NEW x \in attrs PROVE x \in File \X Attr \X Value
    OBVIOUS
  <2>1. PICK f \in File : \E av \in AttrsOf(f) : x = <<f, av[1], av[2]>>
    BY <1>1
  <2>2. PICK av \in AttrsOf(f) : x = <<f, av[1], av[2]>>
    BY <2>1
  <2>3. PICK a \in attr : av = <<a.name, a.value>>
    BY <1>2, <2>2
  <2> QED
    BY <1>3, <2>2, <2>3
<1>5. ASSUME NEW f \in File, NEW n \in Attr, NEW v \in Value
      PROVE  <<f, n, v>> \in attrs <=> HasAttr(f, n, v)
  <2>1. ASSUME <<f, n, v>> \in attrs PROVE HasAttr(f, n, v)
    <3>1. PICK av \in AttrsOf(f) : av[1] = n /\ av[2] = v
      BY <1>1, <2>1
    <3> QED
      BY <1>2, <3>1 DEF HasAttr
  <2>2. ASSUME HasAttr(f, n, v) PROVE <<f, n, v>> \in attrs
    <3>1. <<n, v>> \in AttrsOf(f)
      BY <1>2, <2>2 DEF HasAttr
    <3> QED
      BY <1>1, <3>1
  <2> QED
    BY <2>1, <2>2
<1> QED
  BY <1>4, <1>5 DEF AttrsShown

\* What the store holds after a step, told by the rows.
LEMMA TaggedAfter ==
  ASSUME NEW T \in SUBSET (File \X Tag),
         \A f \in File, t \in Tag : <<f, t>> \in T <=> HasTag(f, t)'
  PROVE  tagged' = T
<1>1. TaggedShown'
  BY TaggedRows, PTL
<1> QED
  BY <1>1 DEF TaggedShown

LEMMA AttrsAfter ==
  ASSUME TypeOK', NEW T \in SUBSET (File \X Attr \X Value),
         \A f \in File, n \in Attr, v \in Value : <<f, n, v>> \in T <=> HasAttr(f, n, v)'
  PROVE  attrs' = T
<1>1. TypeOK' => AttrsShown'
  BY AttrRowsOf, PTL
<1>2. AttrsShown'
  BY <1>1
<1>3. /\ attrs' \subseteq File \X Attr \X Value
      /\ \A f \in File, n \in Attr, v \in Value : <<f, n, v>> \in attrs' <=> HasAttr(f, n, v)'
  BY <1>2 DEF AttrsShown
<1>4. \A x \in attrs' : x \in T
  BY <1>3
<1>5. \A x \in T : x \in attrs'
  BY <1>3
<1> QED
  BY <1>4, <1>5

\* A row with a new id shows the clients no tag and no attribute.
LEMMA TagRowAdded ==
  ASSUME TypeOK, TypeOK', TablesOK, UNCHANGED <<fileTag, attr>>,
         NEW row, row.id \notin Ids(tag), tag' = tag \cup {row}, UNCHANGED file
  PROVE  UNCHANGED <<tagged, attrs>>
<1>1. \A f \in File, t \in Tag : HasTag(f, t)' <=> HasTag(f, t)
  BY DEF HasTag, TablesOK, Ids
<1>2. \A f \in File, n \in Attr, v \in Value : HasAttr(f, n, v)' <=> HasAttr(f, n, v)
  BY DEF HasAttr, TablesOK, Ids
<1>3. tagged' = tagged
  BY <1>1, TaggedRows, TaggedAfter DEF TaggedShown
<1>4. attrs' = attrs
  BY <1>2, AttrRowsOf, AttrsAfter DEF AttrsShown
<1> QED
  BY <1>3, <1>4

LEMMA FileRowAdded ==
  ASSUME TypeOK, TypeOK', TablesOK, UNCHANGED <<fileTag, attr>>,
         NEW row, row.id \notin Ids(file), file' = file \cup {row}, UNCHANGED tag
  PROVE  UNCHANGED <<tagged, attrs>>
<1>1. \A f \in File, t \in Tag : HasTag(f, t)' <=> HasTag(f, t)
  BY DEF HasTag, TablesOK, Ids
<1>2. \A f \in File, n \in Attr, v \in Value : HasAttr(f, n, v)' <=> HasAttr(f, n, v)
  BY DEF HasAttr, TablesOK, Ids
<1>3. tagged' = tagged
  BY <1>1, TaggedRows, TaggedAfter DEF TaggedShown
<1>4. attrs' = attrs
  BY <1>2, AttrRowsOf, AttrsAfter DEF AttrsShown
<1> QED
  BY <1>3, <1>4

-----------------------------------------------------------------------------
\* The client whose step it is sees its call proceed to v, the others see
\* nothing of theirs.
LEMMA PhaseAfter ==
  ASSUME TypeOK, NEW c \in Client, Undisturbed(c)
  PROVE  phase' = [phase EXCEPT ![c] = phase'[c]]
<1> DEFINE P(d) == CASE pc[d] \in {"idle", "done"} -> pc[d]
                     [] pc[d] = "changes" -> IF changes[ConnOf[d]] = 1 THEN "removed" ELSE "missed"
                     [] OTHER -> "busy"
<1>1. phase = [d \in Client |-> P(d)] /\ phase' = [d \in Client |-> P(d)']
  BY DEF phase
<1>2. \A d \in Client \ {c} : P(d)' = P(d)
  BY DEF Undisturbed, ReadsConn
<1> HIDE DEF P
<1> QED
  BY <1>1, <1>2

\* So do the ids they hold, unless the step removes a file.
LEMMA GoneAfter ==
  ASSUME IInv, NEW c \in Client, Undisturbed(c), Ids(file) \subseteq Ids(file')
  PROVE  gone' \ {c} = gone \ {c}
<1> USE DEF IInv, TypeOK
<1> SUFFICES ASSUME NEW d \in Client \ {c}
             PROVE  d \in gone' <=> d \in gone
  BY DEF gone
<1>1. (HasFileId(d)' <=> HasFileId(d)) /\ FileIdOf(d)' = FileIdOf(d)
  BY DEF Undisturbed, ReadsConn, HasFileId, FileIdOf
<1>2. ASSUME HasFileId(d) PROVE FileIdOf(d) \in Ids(file') <=> FileIdOf(d) \in Ids(file)
  <2>1. FileIdOf(d) \in Nat /\ seq["file"] \in Nat
    BY DEF FileIdOf, Tables
  <2>3. FileIdOf(d) <= seq["file"]
    BY <1>2 DEF IdsGivenOut
  <2>2. \A r \in file' : r \in file \/ r.id > seq["file"]
    BY DEF Undisturbed
  <2>4. ASSUME NEW r \in file', r.id = FileIdOf(d) PROVE r \in file
    <3>1. ~(FileIdOf(d) > seq["file"])
      BY <2>1, <2>3
    <3> QED
      BY <2>2, <2>4, <3>1
  <2> QED
    BY <2>4 DEF Ids
<1> QED
  BY <1>1, <1>2 DEF gone

LEMMA GoneSame ==
  ASSUME IInv, NEW c \in Client, Undisturbed(c), UNCHANGED file, c \in gone' <=> c \in gone
  PROVE  gone' = gone
<1>1. gone' \ {c} = gone \ {c}
  BY GoneAfter DEF Ids
<1> QED
  BY <1>1

\* A call that ends, with the files it leaves where they are.
LEMMA FinishAfter ==
  ASSUME IInv, NEW c \in Client, Undisturbed(c), UNCHANGED <<file, req>>,
         NEW status \in BOOLEAN, NEW error, NEW result, Finish(c, status, error, result)
  PROVE  Store!Finish(c, status) /\ UNCHANGED files
<1>1. pc'[c] = "done" /\ ok' = [ok EXCEPT ![c] = status]
  BY DEF Finish, Goto, IInv, TypeOK
<1>2. phase'[c] = "done"
  BY <1>1 DEF phase
<1>3. gone' = gone \ {c}
  <2>1. gone' \ {c} = gone \ {c}
    BY GoneAfter DEF Ids
  <2>2. c \notin gone'
    BY <1>1 DEF gone, HasFileId
  <2> QED
    BY <2>1, <2>2
<1>4. phase' = [phase EXCEPT ![c] = "done"]
  BY <1>2, PhaseAfter DEF IInv
<1> QED
  BY <1>1, <1>3, <1>4 DEF Store!Finish, files

\* A call that goes on, with the files it leaves where they are, holding no
\* file or the one it held.
LEMMA GoesOnAfter ==
  ASSUME IInv, NEW c \in Client, Undisturbed(c), UNCHANGED <<file, req, ok>>,
         phase'[c] = phase[c], c \in gone' <=> c \in gone
  PROVE  UNCHANGED <<files, phase, req, ok, gone>>
<1>1. gone' = gone
  BY GoneSame
<1>2. phase' = phase
  <2>1. phase = [phase EXCEPT ![c] = phase[c]]
    BY DEF phase
  <2> QED
    BY <2>1, PhaseAfter DEF IInv
<1> QED
  BY <1>1, <1>2 DEF files

\* The tables as the store sees them when no row comes or goes.
LEMMA NoRowChanges ==
  ASSUME UNCHANGED db
  PROVE  UNCHANGED <<tags, files, tagged, attrs>>
BY DEF db, tags, files, Names, tagged, TagsOf, Named, attrs, AttrsOf, Ids

\* A failed statement, and a call that ends by itself.
LEMMA FailStep ==
  ASSUME IInv, NEW c \in Client, Undisturbed(c), UNCHANGED <<db, req>>,
         pc[c] \notin {"idle", "done", "changes"},
         NEW error, NEW result, Finish(c, FALSE, error, result)
  PROVE  Store!Fail(c)
<1>1. Store!Finish(c, FALSE)
  BY FinishAfter DEF db
<1>2. phase[c] = "busy"
  BY DEF phase
<1> QED
  BY <1>1, <1>2, NoRowChanges DEF Store!Fail, Store!data
-----------------------------------------------------------------------------
LEMMA CallReturnStep ==
  ASSUME IInv, NEW c \in Client, Undisturbed(c),
         (\E r \in Requests : Call(c, r)) \/ Return(c) \/ RemoveFileChanges(c)
  PROVE  Store!Next
<1> USE DEF IInv, TypeOK
<1>1. ASSUME NEW r \in Requests, Call(c, r) PROVE Store!Call(c, r)
  <2>1. UNCHANGED db /\ UNCHANGED <<ok, file>> /\ req' = [req EXCEPT ![c] = r]
    BY <1>1 DEF Call, ret, db
  <2>2. phase[c] = "idle" /\ phase'[c] = "busy"
    BY <1>1 DEF Call, Goto, GoSplit, phase
  <2>3. c \notin gone /\ c \notin gone'
    BY <1>1 DEF Call, Goto, GoSplit, gone, HasFileId
  <2>4. gone' = gone
    BY <2>1, <2>3, GoneSame
  <2> QED
    BY <2>1, <2>2, <2>4, PhaseAfter, NoRowChanges DEF Store!Call, Store!data
<1>2. ASSUME Return(c) PROVE Store!Return(c)
  <2>1. /\ UNCHANGED db /\ UNCHANGED file
        /\ req' = [req EXCEPT ![c] = NoCall] /\ ok' = [ok EXCEPT ![c] = FALSE]
    BY <1>2 DEF Return, db
  <2>2. phase[c] = "done" /\ phase'[c] = "idle"
    BY <1>2 DEF Return, Goto, phase
  <2>3. c \notin gone /\ c \notin gone'
    BY <1>2 DEF Return, Goto, gone, HasFileId
  <2>4. gone' = gone
    BY <2>1, <2>3, GoneSame
  <2> QED
    BY <2>1, <2>2, <2>4, PhaseAfter, NoRowChanges
       DEF Store!Return, Store!data, NoCall, Store!NoCall
<1>3. ASSUME RemoveFileChanges(c) PROVE Store!RemoveReport(c)
  <2>1. phase[c] = (IF changes[ConnOf[c]] = 1 THEN "removed" ELSE "missed")
    BY <1>3 DEF RemoveFileChanges, phase
  <2>2. UNCHANGED <<db, req>> /\ UNCHANGED file
    BY <1>3 DEF RemoveFileChanges, db
  <2>3. Store!Finish(c, phase[c] = "removed")
    BY <1>3, <2>1, <2>2, FinishAfter DEF RemoveFileChanges
  <2> QED
    BY <2>1, <2>2, <2>3, NoRowChanges DEF Store!RemoveReport, Store!data
<1> QED
  BY <1>1, <1>2, <1>3 DEF Store!Next

\* inserttag ends with the tag in the table; settag goes on to its file.
LEMMA HaveTagStep ==
  ASSUME IInv, NEW c \in Client, Undisturbed(c), UNCHANGED <<db, req>>,
         pc[c] \in {"sel_tag", "tag_rowid"}, req[c].tag \in tags,
         NEW id, HaveTag(c, id)
  PROVE  [Store!Next]_Store!vars
<1>1. UNCHANGED <<tags, files, tagged, attrs>> /\ UNCHANGED file
  BY NoRowChanges DEF db
<1>2. CASE req[c].op = "inserttag" /\ Finish(c, TRUE, FALSE, {})
  <2>1. Store!Finish(c, TRUE)
    BY <1>1, <1>2, FinishAfter
  <2>2. phase[c] = "busy"
    BY DEF phase
  <2>3. Store!InsertTag(c)
    BY <1>1, <1>2, <2>1, <2>2 DEF Store!InsertTag, Store!data
  <2> QED
    BY <2>3 DEF Store!Next
<1>3. CASE GoSplit(c, "file_name", req[c].file) /\ UNCHANGED ret
  <2>1. pc'[c] = "file_name" /\ UNCHANGED ok
    BY <1>3 DEF GoSplit, ret, IInv, TypeOK
  <2>2. phase'[c] = phase[c]
    BY <2>1 DEF phase
  <2>3. c \notin gone' /\ c \notin gone
    BY <2>1 DEF gone, HasFileId
  <2>4. UNCHANGED <<files, phase, req, ok, gone>>
    BY <1>1, <2>1, <2>2, <2>3, GoesOnAfter
  <2> QED
    BY <1>1, <2>4 DEF Store!vars
<1> QED
  BY <1>2, <1>3 DEF HaveTag

\* The statements that look a tag up or make it.
LEMMA TagSteps ==
  ASSUME IInv, IInv', NEW c \in Client, Undisturbed(c),
         SelectTag(c) \/ InsertTag(c) \/ InsertTagFails(c) \/ TagRowid(c)
  PROVE  [Store!Next]_Store!vars
<1>1. CASE SelectTag(c)
  <2>1. UNCHANGED <<db, req>> /\ UNCHANGED file /\ pc[c] = "sel_tag"
    BY <1>1 DEF SelectTag, db
  <2>2. ASSUME NEW r \in Named(tag, req[c].tag), HaveTag(c, r.id) PROVE [Store!Next]_Store!vars
    <3>1. req[c].tag \in tags
      BY DEF Named, tags, Names
    <3> QED
      BY <2>1, <2>2, <3>1, HaveTagStep
  <2>3. CASE Goto(c, "ins_tag") /\ UNCHANGED ret
    <3>1. pc'[c] = "ins_tag" /\ UNCHANGED ok
      BY <2>3 DEF Goto, ret, IInv, TypeOK
    <3>2. phase'[c] = phase[c] /\ c \notin gone' /\ c \notin gone
      BY <2>1, <3>1 DEF phase, gone, HasFileId
    <3>3. UNCHANGED <<files, phase, req, ok, gone>>
      BY <2>1, <3>1, <3>2, GoesOnAfter
    <3> QED
      BY <2>1, <3>3, NoRowChanges DEF Store!vars
  <2> QED
    BY <1>1, <2>2, <2>3 DEF SelectTag
<1>2. CASE InsertTag(c)
  <2> DEFINE row == [id |-> seq["tag"] + 1, name |-> req[c].tag]
  <2>1. /\ pc[c] = "ins_tag" /\ pc'[c] = "tag_rowid"
        /\ tag' = tag \cup {row}
        /\ UNCHANGED <<file, fileTag, attr, req>> /\ UNCHANGED ok
    BY <1>2 DEF InsertTag, Goto, ret, IInv, TypeOK
  <2>2. row.id \notin Ids(tag) /\ row.name = req[c].tag
    BY DEF Ids, IInv, TypeOK, TablesOK, Row, Tables
  <2> HIDE DEF row
  <2>3. UNCHANGED <<tagged, attrs>>
    BY <2>1, <2>2, TagRowAdded DEF IInv
  <2>4. tags' = tags \cup {req[c].tag}
    BY <2>1, <2>2 DEF tags, Names
  <2>5. phase[c] = "busy" /\ phase'[c] = "busy" /\ c \notin gone' /\ c \notin gone
    BY <2>1 DEF phase, gone, HasFileId
  <2>6. UNCHANGED <<files, phase, req, ok, gone>>
    BY <2>1, <2>5, GoesOnAfter
  <2>7. req[c].op \in {"inserttag", "settag"}
    BY <2>1 DEF IInv, CallOK, AtOwnStatement
  <2>8. Store!LearnTag(c)
    BY <2>3, <2>4, <2>5, <2>6, <2>7 DEF Store!LearnTag
  <2> QED
    BY <2>8 DEF Store!Next
<1>3. CASE InsertTagFails(c)
  <2>1. Store!Fail(c)
    BY <1>3, FailStep DEF InsertTagFails, StatementError
  <2> QED
    BY <2>1 DEF Store!Next
<1>4. CASE TagRowid(c)
  <2>1. UNCHANGED <<db, req>> /\ pc[c] = "tag_rowid" /\ HaveTag(c, rowid[ConnOf[c]])
    BY <1>4 DEF TagRowid
  <2>2. [id |-> rowid[ConnOf[c]], name |-> req[c].tag] \in tag
    BY <2>1 DEF IInv, IdsRight, IdsRightFor, HasTagId, TagIdOf
  <2>3. req[c].tag \in tags
    BY <2>2 DEF tags, Names
  <2> QED
    BY <2>1, <2>3, HaveTagStep
<1> QED
  BY <1>1, <1>2, <1>3, <1>4

\* The statements that look a file up or make its row.
LEMMA FileSteps ==
  ASSUME IInv, IInv', NEW c \in Client, Undisturbed(c),
         SelectFile(c) \/ InsertFile(c) \/ InsertFileFails(c) \/ FileRowid(c)
  PROVE  [Store!Next]_Store!vars
<1>1. CASE SelectFile(c)
  <2>1. UNCHANGED <<db, req>> /\ UNCHANGED file /\ pc[c] = "sel_file"
    BY <1>1 DEF SelectFile, db
  <2>2. ASSUME NEW r \in Named(file, name[c]), HaveFile(c, r.id), UNCHANGED ret
        PROVE  [Store!Next]_Store!vars
    <3>1. req[c].op \in LastStatements
      BY <2>1 DEF IInv, CallOK, AtOwnStatement, Request
    <3>2. /\ pc'[c] \in {"gettags_name"} \cup LastStatements
          /\ fid'[c] = r.id /\ UNCHANGED ok
      BY <2>2, <3>1 DEF HaveFile, Goto, GoSplit, ret, IInv, TypeOK
    <3>3. c \notin gone
      BY <2>1 DEF gone, HasFileId
    <3>4. c \notin gone'
      BY <2>1, <3>2 DEF gone, FileIdOf, Named, Ids
    <3>5. phase'[c] = phase[c]
      BY <2>1, <3>2 DEF phase
    <3>6. UNCHANGED <<files, phase, req, ok, gone>>
      BY <2>1, <3>2, <3>3, <3>4, <3>5, GoesOnAfter
    <3> QED
      BY <2>1, <3>6, NoRowChanges DEF Store!vars
  <2>3. CASE Goto(c, "ins_file") /\ UNCHANGED ret
    <3>1. pc'[c] = "ins_file" /\ UNCHANGED ok
      BY <2>3 DEF Goto, ret, IInv, TypeOK
    <3>2. phase'[c] = phase[c] /\ c \notin gone' /\ c \notin gone
      BY <2>1, <3>1 DEF phase, gone, HasFileId
    <3>3. UNCHANGED <<files, phase, req, ok, gone>>
      BY <2>1, <3>1, <3>2, GoesOnAfter
    <3> QED
      BY <2>1, <3>3, NoRowChanges DEF Store!vars
  <2>4. CASE Finish(c, FALSE, TRUE, {})
    <3>1. Store!Fail(c)
      BY <2>1, <2>4, FailStep
    <3> QED
      BY <3>1 DEF Store!Next
  <2> QED
    BY <1>1, <2>2, <2>3, <2>4 DEF SelectFile
<1>2. CASE InsertFile(c)
  <2> DEFINE row == [id |-> seq["file"] + 1, name |-> req[c].file]
  <2>1. /\ pc[c] = "ins_file" /\ pc'[c] = "file_rowid"
        /\ file' = file \cup {row} /\ rowid'[ConnOf[c]] = row.id
        /\ UNCHANGED <<tag, fileTag, attr, req>> /\ UNCHANGED ok
    BY <1>2 DEF InsertFile, Inserted, Goto, ret, IInv, TypeOK, NameRight
  <2>2. row.id \notin Ids(file) /\ row.name = req[c].file
    BY DEF Ids, IInv, TypeOK, TablesOK, Row, Tables
  <2> HIDE DEF row
  <2>3. UNCHANGED <<tagged, attrs>>
    BY <2>1, <2>2, FileRowAdded DEF IInv
  <2>4. files' = files \cup {req[c].file}
    BY <2>1, <2>2 DEF files, Names
  <2>5. phase[c] = "busy" /\ phase'[c] = "busy" /\ c \notin gone
    BY <2>1 DEF phase, gone, HasFileId
  <2>6. c \notin gone'
    BY <2>1 DEF gone, FileIdOf, Ids
  <2>7. gone' = gone
    <3>1. Ids(file) \subseteq Ids(file')
      BY <2>1 DEF Ids
    <3>2. gone' \ {c} = gone \ {c}
      BY <3>1, GoneAfter
    <3> QED
      BY <2>5, <2>6, <3>2
  <2>8. phase' = phase
    <3>1. phase = [phase EXCEPT ![c] = phase[c]]
      BY DEF phase
    <3> QED
      BY <2>5, <3>1, PhaseAfter DEF IInv
  <2>9. req[c].op # "inserttag" /\ tags' = tags
    BY <2>1 DEF IInv, CallOK, AtOwnStatement, tags
  <2>10. Store!LearnFile(c)
    BY <2>1, <2>3, <2>4, <2>5, <2>7, <2>8, <2>9 DEF Store!LearnFile
  <2> QED
    BY <2>10 DEF Store!Next
<1>3. CASE InsertFileFails(c)
  <2>1. Store!Fail(c)
    BY <1>3, FailStep DEF InsertFileFails, StatementError
  <2> QED
    BY <2>1 DEF Store!Next
<1>4. CASE FileRowid(c)
  <2>1. /\ UNCHANGED <<db, req, conn>> /\ UNCHANGED <<file, ok>> /\ pc[c] = "file_rowid"
        /\ UNCHANGED rowid
        /\ HaveFile(c, rowid[ConnOf[c]])
    BY <1>4 DEF FileRowid, db, conn, ret
  <2>6. req[c].op \in LastStatements
    BY <2>1 DEF IInv, CallOK, AtOwnStatement, Request
  <2>2. pc'[c] \in {"gettags_name"} \cup LastStatements /\ fid'[c] = rowid[ConnOf[c]]
    BY <2>1, <2>6 DEF HaveFile, Goto, GoSplit, IInv, TypeOK
  <2>3. phase'[c] = phase[c]
    BY <2>1, <2>2 DEF phase
  <2>4. c \in gone' <=> c \in gone
    BY <2>1, <2>2 DEF gone, HasFileId, FileIdOf
  <2>5. UNCHANGED <<files, phase, req, ok, gone>>
    BY <2>1, <2>3, <2>4, GoesOnAfter
  <2> QED
    BY <2>1, <2>5, NoRowChanges DEF Store!vars
<1> QED
  BY <1>1, <1>2, <1>3, <1>4
-----------------------------------------------------------------------------
\* The file of a call that has reached its last statement: its row if it
\* is still there, or none.
LEMMA FileOfCall ==
  ASSUME IInv, NEW c \in Client, pc[c] \in LastStatements
  PROVE  /\ req[c] \in Request /\ req[c].op = pc[c]
         /\ phase[c] = "busy"
         /\ c \in gone <=> fid[c] \notin Ids(file)
         /\ c \notin gone => req[c].file \in files
         /\ c \notin gone => \A r \in file : r.id = fid[c] <=> r.name = req[c].file
<1>1. req[c] \in Request /\ req[c].op = pc[c]
  BY DEF IInv, CallOK, AtOwnStatement
<1>2. phase[c] = "busy"
  BY DEF phase
<1>3. HasFileId(c) /\ FileIdOf(c) = fid[c]
  BY DEF HasFileId, FileIdOf
<1>4. c \in gone <=> fid[c] \notin Ids(file)
  BY <1>3 DEF gone
<1>5. \A r \in file : r.id = fid[c] => r.name = req[c].file
  BY <1>3 DEF IInv, IdsRight, IdsRightFor
<1>6. ASSUME c \notin gone
      PROVE  /\ req[c].file \in files
             /\ \A r \in file : r.id = fid[c] <=> r.name = req[c].file
  <2>1. PICK s \in file : s.id = fid[c]
    BY <1>4, <1>6 DEF Ids
  <2>2. s.name = req[c].file
    BY <1>5, <2>1
  <2> QED
    BY <1>5, <2>1, <2>2 DEF files, Names, IInv, TablesOK, IsTable
<1> QED
  BY <1>1, <1>2, <1>4, <1>6

\* The end of a statement that may change tags and attributes but no name.
LEMMA LastStatementStep ==
  ASSUME IInv, NEW c \in Client, Undisturbed(c), NEW op, LastStatement(c, op)
  PROVE  Store!Finish(c, TRUE) /\ UNCHANGED <<tags, files>>
<1>1. UNCHANGED <<file, tag, req>> /\ Finish(c, TRUE, FALSE, {})
  BY DEF LastStatement
<1> QED
  BY <1>1, FinishAfter DEF tags

LEMMA SetTagStoreStep ==
  ASSUME IInv, NEW c \in Client, Undisturbed(c), SetTag(c)
  PROVE  Store!SetTag(c)
<1>1. pc[c] = "settag" /\ UNCHANGED <<file, tag, attr>> /\ LastStatement(c, "settag")
  BY DEF SetTag, LastStatement
<1>2. fid[c] \in Ids(file) /\ fileTag' = fileTag \cup {[file |-> fid[c], tag |-> tid[c]]}
  BY DEF SetTag, IInv, TablesOK
<1>3. /\ c \notin gone /\ phase[c] = "busy" /\ req[c].op = "settag" /\ req[c] \in Request
      /\ req[c].file \in files
      /\ \A r \in file : r.id = fid[c] <=> r.name = req[c].file
  BY <1>1, <1>2, FileOfCall
<1>4. [id |-> tid[c], name |-> req[c].tag] \in tag
  BY <1>1, <1>3 DEF IInv, IdsRight, IdsRightFor, HasTagId, TagIdOf
<1>5. \A s \in tag : s.id = tid[c] <=> s.name = req[c].tag
  BY <1>4 DEF IInv, TablesOK, IsTable
<1>6. req[c].tag \in tags
  BY <1>4 DEF tags, Names
<1>7. \A f \in File, t \in Tag :
        HasTag(f, t)' <=> HasTag(f, t) \/ (f = req[c].file /\ t = req[c].tag)
  <2> SUFFICES ASSUME NEW f \in File, NEW t \in Tag
               PROVE  HasTag(f, t)' <=> HasTag(f, t) \/ (f = req[c].file /\ t = req[c].tag)
    OBVIOUS
  <2>1. ASSUME HasTag(f, t)', ~HasTag(f, t) PROVE f = req[c].file /\ t = req[c].tag
    BY <1>1, <1>2, <1>3, <1>5, <2>1 DEF HasTag
  <2>2. ASSUME f = req[c].file, t = req[c].tag PROVE HasTag(f, t)'
    <3>1. PICK r \in file : r.id = fid[c]
      BY <1>2 DEF Ids
    <3>2. r.name = f
      BY <1>3, <2>2, <3>1
    <3> DEFINE s == [id |-> tid[c], name |-> req[c].tag]
    <3>3. s \in tag /\ s.name = t /\ s.id = tid[c]
      BY <1>4, <2>2
    <3> HIDE DEF s
    <3> QED
      BY <1>1, <1>2, <3>1, <3>2, <3>3 DEF HasTag
  <2>3. ASSUME HasTag(f, t) PROVE HasTag(f, t)'
    BY <1>1, <1>2, <2>3 DEF HasTag
  <2> QED
    BY <2>1, <2>2, <2>3
<1>8. tagged' = tagged \cup {<<req[c].file, req[c].tag>>}
  <2> DEFINE T == tagged \cup {<<req[c].file, req[c].tag>>}
  <2>1. T \in SUBSET (File \X Tag)
    BY <1>3, TaggedRows DEF TaggedShown, Request
  <2>2. \A f \in File, t \in Tag : <<f, t>> \in T <=> HasTag(f, t)'
    BY <1>7, TaggedRows DEF TaggedShown
  <2> HIDE DEF T
  <2>3. tagged' = T
    BY <2>1, <2>2, TaggedAfter
  <2> QED
    BY <2>3 DEF T
<1>9. attrs' = attrs
  BY <1>1 DEF attrs, AttrsOf, Ids, Named
<1> QED
  BY <1>1, <1>3, <1>6, <1>8, <1>9, LastStatementStep DEF Store!SetTag

\* The statements that take rows out of table file_tag.
LEMMA UntagStoreStep ==
  ASSUME IInv, NEW c \in Client, Undisturbed(c), UnsetTag(c) \/ ClearTags(c)
  PROVE  Store!UnsetTag(c) \/ Store!ClearTags(c) \/ Store!Gone(c)
<1> DEFINE Taken(f, t) == f = req[c].file /\ (pc[c] = "unsettag" => t = req[c].tag)
<1>1. /\ pc[c] \in {"unsettag", "cleartags"} /\ UNCHANGED <<file, tag, attr>>
      /\ LastStatement(c, pc[c])
      /\ fileTag' = {p \in fileTag :
           ~(p.file = fid[c]
              /\ (pc[c] = "unsettag" => p.tag \in Ids(Named(tag, req[c].tag))))}
  BY DEF UnsetTag, ClearTags, LastStatement, Untag
<1>2. /\ phase[c] = "busy" /\ req[c].op = pc[c] /\ req[c] \in Request
      /\ c \in gone <=> fid[c] \notin Ids(file)
      /\ c \notin gone => \A r \in file : r.id = fid[c] <=> r.name = req[c].file
  BY <1>1, FileOfCall
<1>3. attrs' = attrs
  BY <1>1 DEF attrs, AttrsOf, Ids, Named
<1>4. Store!Finish(c, TRUE) /\ UNCHANGED <<tags, files>>
  BY <1>1, LastStatementStep
<1>5. CASE c \in gone
  <2>1. fileTag' = fileTag
    BY <1>1, <1>2, <1>5 DEF IInv, TablesOK
  <2>2. tagged' = tagged
    BY <1>1, <2>1 DEF tagged, TagsOf, Named
  <2> QED
    BY <1>1, <1>2, <1>3, <1>4, <1>5, <2>2 DEF Store!Gone, Store!data
<1>6. CASE c \notin gone
  <2>1. \A s \in tag : s.id \in Ids(Named(tag, req[c].tag)) <=> s.name = req[c].tag
    BY DEF Ids, Named, IInv, TablesOK, IsTable
  <2>2. \A f \in File, t \in Tag : HasTag(f, t)' <=> HasTag(f, t) /\ ~Taken(f, t)
    <3> SUFFICES ASSUME NEW f \in File, NEW t \in Tag
                 PROVE  HasTag(f, t)' <=> HasTag(f, t) /\ ~Taken(f, t)
      OBVIOUS
    <3>1. ASSUME NEW r \in file, NEW s \in tag, r.name = f, s.name = t
          PROVE  [file |-> r.id, tag |-> s.id] \in fileTag'
                   <=> [file |-> r.id, tag |-> s.id] \in fileTag /\ ~Taken(f, t)
      BY <1>1, <1>2, <1>6, <2>1, <3>1
    <3> QED
      BY <1>1, <3>1 DEF HasTag
  <2> DEFINE T == {p \in tagged : ~Taken(p[1], p[2])}
  <2>3. T \in SUBSET (File \X Tag)
    BY TaggedRows DEF TaggedShown
  <2>4. \A f \in File, t \in Tag : <<f, t>> \in T <=> HasTag(f, t)'
    BY <2>2, TaggedRows DEF TaggedShown
  <2>5. tagged' = T
    <3> HIDE DEF T
    <3> QED
      BY <2>3, <2>4, TaggedAfter
  <2>6. ASSUME pc[c] = "unsettag" PROVE Store!UnsetTag(c)
    <3>1. \A p \in tagged : p = <<p[1], p[2]>>
      BY TaggedRows DEF TaggedShown
    <3>2. tagged' = tagged \ {<<req[c].file, req[c].tag>>}
      BY <2>5, <2>6, <3>1
    <3> QED
      BY <1>2, <1>3, <1>4, <1>6, <2>6, <3>2 DEF Store!UnsetTag
  <2>7. ASSUME pc[c] = "cleartags" PROVE Store!ClearTags(c)
    <3>1. tagged' = {p \in tagged : p[1] # req[c].file}
      BY <2>5, <2>7
    <3> QED
      BY <1>2, <1>3, <1>4, <1>6, <2>7, <3>1 DEF Store!ClearTags
  <2> QED
    BY <1>1, <2>6, <2>7
<1> QED
  BY <1>5, <1>6

\* The rows other calls set: those of other files, and of other names.
LEMMA OtherAttrRows ==
  ASSUME IInv, NEW c \in Client, pc[c] \in LastStatements, c \notin gone, UNCHANGED file,
         \A a : ~(a.file = fid[c] /\ a.name = req[c].attr) => (a \in attr' <=> a \in attr),
         NEW f, NEW n, NEW v, ~(f = req[c].file /\ n = req[c].attr)
  PROVE  HasAttr(f, n, v)' <=> HasAttr(f, n, v)
<1>1. \A r \in file : r.id = fid[c] <=> r.name = req[c].file
  BY FileOfCall
<1>2. ASSUME NEW r \in file, r.name = f
      PROVE  \A a : a.file = r.id /\ a.name = n => (a \in attr' <=> a \in attr)
  BY <1>1, <1>2
<1> QED
  BY <1>2 DEF HasAttr

LEMMA SetAttrStoreStep ==
  ASSUME IInv, IInv', NEW c \in Client, Undisturbed(c), SetAttr(c)
  PROVE  Store!SetAttr(c)
<1>1. pc[c] = "setattr" /\ UNCHANGED <<file, tag, fileTag>> /\ LastStatement(c, "setattr")
      /\ fid[c] \in Ids(file)
  BY DEF SetAttr, LastStatement
<1>2. PICK id : attr' = (attr \ AttrRows(c)) \cup
        {[id |-> id, file |-> fid[c], name |-> req[c].attr, value |-> req[c].value]}
  BY DEF SetAttr
<1> DEFINE row == [id |-> id, file |-> fid[c], name |-> req[c].attr, value |-> req[c].value]
<1>3. /\ row.file = fid[c] /\ row.name = req[c].attr /\ row.value = req[c].value
      /\ attr' = (attr \ AttrRows(c)) \cup {row}
  BY <1>2
<1> HIDE DEF row
<1>4. /\ c \notin gone /\ phase[c] = "busy" /\ req[c].op = "setattr" /\ req[c] \in Request
      /\ req[c].file \in files
      /\ \A r \in file : r.id = fid[c] <=> r.name = req[c].file
  BY <1>1, FileOfCall
<1> DEFINE Same(f, n) == f = req[c].file /\ n = req[c].attr
<1>5. ASSUME NEW f \in File, NEW n \in Attr, NEW v \in Value
      PROVE  HasAttr(f, n, v)' <=> IF Same(f, n) THEN v = req[c].value ELSE HasAttr(f, n, v)
  <2>1. CASE Same(f, n)
    <3>1. PICK r \in file : r.id = fid[c]
      BY <1>1 DEF Ids
    <3>2. r.name = f
      BY <1>4, <2>1, <3>1
    <3>3. \A a \in attr' : a.file = fid[c] /\ a.name = n => a = row
      BY <1>3, <2>1 DEF AttrRows
    <3>4. \A s \in file : s.name = f => s.id = fid[c]
      BY <1>4, <2>1
    <3>5. ASSUME HasAttr(f, n, v)' PROVE v = req[c].value
      BY <1>1, <1>3, <3>3, <3>4, <3>5 DEF HasAttr
    <3>6. ASSUME v = req[c].value PROVE HasAttr(f, n, v)'
      BY <1>1, <1>3, <2>1, <3>1, <3>2, <3>6 DEF HasAttr
    <3> QED
      BY <2>1, <3>5, <3>6
  <2>2. CASE ~Same(f, n)
    <3>1. \A a : ~(a.file = fid[c] /\ a.name = req[c].attr) => (a \in attr' <=> a \in attr)
      BY <1>3 DEF AttrRows
    <3>2. HasAttr(f, n, v)' <=> HasAttr(f, n, v)
      BY <1>1, <1>4, <2>2, <3>1, OtherAttrRows
    <3> QED
      BY <2>2, <3>2
  <2> QED
    BY <2>1, <2>2
<1> DEFINE T == Store!OtherAttrs(req[c].file, req[c].attr)
                  \cup {<<req[c].file, req[c].attr, req[c].value>>}
<1>6. attrs \subseteq File \X Attr \X Value
      /\ \A f \in File, n \in Attr, v \in Value : <<f, n, v>> \in attrs <=> HasAttr(f, n, v)
  BY AttrRowsOf DEF AttrsShown, IInv
<1>7. T \in SUBSET (File \X Attr \X Value)
  BY <1>4, <1>6 DEF Store!OtherAttrs, Request
<1>8. \A f \in File, n \in Attr, v \in Value : <<f, n, v>> \in T <=> HasAttr(f, n, v)'
  BY <1>5, <1>6 DEF Store!OtherAttrs
<1>9. attrs' = T
  <2> HIDE DEF T
  <2> QED
    BY <1>7, <1>8, AttrsAfter DEF IInv
<1>10. tagged' = tagged
  BY <1>1 DEF tagged, TagsOf, Named
<1> QED
  BY <1>1, <1>4, <1>9, <1>10, LastStatementStep DEF Store!SetAttr

LEMMA UnsetAttrStoreStep ==
  ASSUME IInv, IInv', NEW c \in Client, Undisturbed(c), UnsetAttr(c)
  PROVE  Store!UnsetAttr(c) \/ Store!Gone(c)
<1>1. /\ pc[c] = "unsetattr" /\ UNCHANGED <<file, tag, fileTag>>
      /\ LastStatement(c, "unsetattr") /\ attr' = attr \ AttrRows(c)
  BY DEF UnsetAttr, LastStatement
<1>2. /\ phase[c] = "busy" /\ req[c].op = "unsetattr" /\ req[c] \in Request
      /\ c \in gone <=> fid[c] \notin Ids(file)
      /\ c \notin gone => \A r \in file : r.id = fid[c] <=> r.name = req[c].file
  BY <1>1, FileOfCall
<1>3. tagged' = tagged
  BY <1>1 DEF tagged, TagsOf, Named
<1>4. Store!Finish(c, TRUE) /\ UNCHANGED <<tags, files>>
  BY <1>1, LastStatementStep
<1>5. CASE c \in gone
  <2>1. attr' = attr
    BY <1>1, <1>2, <1>5 DEF IInv, TablesOK, AttrRows
  <2>2. attrs' = attrs
    BY <1>1, <2>1 DEF attrs, AttrsOf, Named, Ids
  <2> QED
    BY <1>2, <1>3, <1>4, <1>5, <2>2 DEF Store!Gone, Store!data
<1>6. CASE c \notin gone
  <2> DEFINE Same(f, n) == f = req[c].file /\ n = req[c].attr
             T == Store!OtherAttrs(req[c].file, req[c].attr)
  <2>1. ASSUME NEW f \in File, NEW n \in Attr, NEW v \in Value
        PROVE  HasAttr(f, n, v)' <=> ~Same(f, n) /\ HasAttr(f, n, v)
    <3>1. CASE Same(f, n)
      BY <1>1, <1>2, <1>6, <3>1 DEF HasAttr, AttrRows
    <3>2. CASE ~Same(f, n)
      <4>1. \A a : ~(a.file = fid[c] /\ a.name = req[c].attr) => (a \in attr' <=> a \in attr)
        BY <1>1 DEF AttrRows
      <4>2. HasAttr(f, n, v)' <=> HasAttr(f, n, v)
        BY <1>1, <1>6, <3>2, <4>1, OtherAttrRows
      <4> QED
        BY <3>2, <4>2
    <3> QED
      BY <3>1, <3>2
  <2>2. attrs \subseteq File \X Attr \X Value
        /\ \A f \in File, n \in Attr, v \in Value : <<f, n, v>> \in attrs <=> HasAttr(f, n, v)
    BY AttrRowsOf DEF AttrsShown, IInv
  <2>3. T \in SUBSET (File \X Attr \X Value)
    BY <2>2 DEF Store!OtherAttrs
  <2>4. \A f \in File, n \in Attr, v \in Value : <<f, n, v>> \in T <=> HasAttr(f, n, v)'
    BY <2>1, <2>2 DEF Store!OtherAttrs
  <2>5. attrs' = T
    <3> HIDE DEF T
    <3> QED
      BY <2>3, <2>4, AttrsAfter DEF IInv
  <2> QED
    BY <1>2, <1>3, <1>4, <1>6, <2>5 DEF Store!UnsetAttr
<1> QED
  BY <1>5, <1>6

\* A removal takes effect with its DELETE, and makes its file gone for the
\* calls that have found it already.
LEMMA RemoveFileStoreStep ==
  ASSUME IInv, IInv', NEW c \in Client, Undisturbed(c), RemoveFile(c)
  PROVE  (\E G \in SUBSET Client : Store!RemoveFile(c, G)) \/ Store!RemoveMissed(c)
<1>1. /\ pc[c] = "removefile" /\ pc'[c] = "changes" /\ UNCHANGED <<tag, req, ok>>
      /\ file' = {r \in file : r.id # fid[c]}
      /\ fileTag' = {p \in fileTag : p.file # fid[c]}
      /\ attr' = {r \in attr : r.file # fid[c]}
      /\ changes'[ConnOf[c]] = IF fid[c] \in Ids(file) THEN 1 ELSE 0
  BY DEF RemoveFile, Goto, Wrote, ret, IInv, TypeOK
<1>2. /\ phase[c] = "busy" /\ req[c].op = "removefile" /\ req[c] \in Request
      /\ c \in gone <=> fid[c] \notin Ids(file)
      /\ c \notin gone => req[c].file \in files
      /\ c \notin gone => \A r \in file : r.id = fid[c] <=> r.name = req[c].file
  BY <1>1, FileOfCall
<1>3. phase' = [phase EXCEPT ![c] = IF c \in gone THEN "missed" ELSE "removed"]
  <2>1. phase'[c] = IF c \in gone THEN "missed" ELSE "removed"
    BY <1>1, <1>2 DEF phase
  <2> QED
    BY <2>1, PhaseAfter DEF IInv
<1>4. c \notin gone' /\ tags' = tags
  BY <1>1 DEF gone, HasFileId, tags
<1>5. CASE c \in gone
  <2>1. UNCHANGED <<file, tag, fileTag, attr>>
    BY <1>1, <1>2, <1>5 DEF Ids, IInv, TablesOK
  <2>2. UNCHANGED <<tags, files, tagged, attrs>>
    BY <2>1 DEF tags, files, Names, tagged, TagsOf, Named, attrs, AttrsOf, Ids
  <2>3. gone' = gone \ {c}
    <3>1. gone' \ {c} = gone \ {c}
      BY <2>1, GoneAfter DEF Ids
    <3> QED
      BY <1>4, <3>1
  <2> QED
    BY <1>1, <1>2, <1>3, <1>5, <2>2, <2>3 DEF Store!RemoveMissed, Store!data
<1>6. CASE c \notin gone
  <2> DEFINE G == gone' \ gone
  <2>1. \A d \in Client \ {c} :
          /\ HasFileId(d)' <=> HasFileId(d)
          /\ FileIdOf(d)' = FileIdOf(d)
    BY DEF Undisturbed, ReadsConn, HasFileId, FileIdOf
  <2>2. \A i : i \in Ids(file') <=> i \in Ids(file) /\ i # fid[c]
    BY <1>1 DEF Ids
  <2>3. gone' = (gone \cup G) \ {c}
    BY <1>4, <1>6, <2>1, <2>2 DEF gone
  <2>4. \A d \in G : phase[d] = "busy" /\ req[d].file = req[c].file
    <3> SUFFICES ASSUME NEW d \in G PROVE phase[d] = "busy" /\ req[d].file = req[c].file
      OBVIOUS
    <3>1. d \in Client \ {c}
      BY <1>4 DEF gone
    <3>2. HasFileId(d) /\ FileIdOf(d) = fid[c] /\ fid[c] \in Ids(file)
      BY <1>2, <1>6, <2>1, <2>2, <3>1 DEF gone
    <3>3. PICK r \in file : r.id = fid[c]
      BY <3>2 DEF Ids
    <3>4. r.name = req[c].file /\ r.name = req[d].file
      BY <1>2, <1>6, <3>1, <3>2, <3>3 DEF IInv, IdsRight, IdsRightFor
    <3>5. phase[d] = "busy"
      BY <3>1, <3>2 DEF phase, HasFileId
    <3> QED
      BY <3>4, <3>5
  <2>5. G \in SUBSET Client
    BY DEF gone
  <2>6. files' = files \ {req[c].file}
    BY <1>1, <1>2, <1>6 DEF files, Names
  <2>7. tagged' = {p \in tagged : p[1] # req[c].file}
    <3> DEFINE T == {p \in tagged : p[1] # req[c].file}
    <3>1. \A f \in File, t \in Tag : HasTag(f, t)' <=> HasTag(f, t) /\ f # req[c].file
      BY <1>1, <1>2, <1>6 DEF HasTag
    <3>2. T \in SUBSET (File \X Tag)
      BY TaggedRows DEF TaggedShown
    <3>3. \A f \in File, t \in Tag : <<f, t>> \in T <=> HasTag(f, t)'
      BY <3>1, TaggedRows DEF TaggedShown
    <3> HIDE DEF T
    <3>4. tagged' = T
      BY <3>2, <3>3, TaggedAfter
    <3> QED
      BY <3>4 DEF T
  <2>8. attrs' = {t \in attrs : t[1] # req[c].file}
    <3> DEFINE T == {t \in attrs : t[1] # req[c].file}
    <3>1. \A f \in File, n \in Attr, v \in Value :
            HasAttr(f, n, v)' <=> HasAttr(f, n, v) /\ f # req[c].file
      BY <1>1, <1>2, <1>6 DEF HasAttr
    <3>2. attrs \subseteq File \X Attr \X Value
          /\ \A f \in File, n \in Attr, v \in Value : <<f, n, v>> \in attrs <=> HasAttr(f, n, v)
      BY AttrRowsOf DEF AttrsShown, IInv
    <3>3. T \in SUBSET (File \X Attr \X Value)
      BY <3>2
    <3>4. \A f \in File, n \in Attr, v \in Value : <<f, n, v>> \in T <=> HasAttr(f, n, v)'
      BY <3>1, <3>2
    <3> HIDE DEF T
    <3>5. attrs' = T
      BY <3>3, <3>4, AttrsAfter DEF IInv
    <3> QED
      BY <3>5 DEF T
  <2> HIDE DEF G
  <2>9. Store!RemoveFile(c, G)
    BY <1>1, <1>2, <1>3, <1>4, <1>6, <2>3, <2>4, <2>6, <2>7, <2>8 DEF Store!RemoveFile
  <2> QED
    BY <2>5, <2>9
<1> QED
  BY <1>5, <1>6

LEMMA ReadFailSteps ==
  ASSUME IInv, NEW c \in Client, Undisturbed(c),
         GetTags(c) \/ GetAttr(c) \/ SetTagFails(c) \/ SetAttrFails(c) \/ DeleteBusy(c)
  PROVE  Store!Read(c) \/ Store!Fail(c)
<1>1. ASSUME NEW op \in {"gettags", "getattr"}, NEW rows, Fetch(c, op, rows) PROVE Store!Read(c)
  <2>1. pc[c] = op /\ UNCHANGED <<db, req>> /\ UNCHANGED <<file, req>>
        /\ \E result : Finish(c, TRUE, FALSE, result)
    BY <1>1 DEF Fetch, db
  <2>2. Store!Finish(c, TRUE)
    BY <2>1, FinishAfter
  <2>3. phase[c] = "busy" /\ req[c].op = op
    BY <2>1, FileOfCall
  <2> QED
    BY <2>1, <2>2, <2>3, NoRowChanges DEF Store!Read, Store!data
<1>2. ASSUME SetTagFails(c) \/ SetAttrFails(c) \/ DeleteBusy(c) PROVE Store!Fail(c)
  <2>1. pc[c] \in LastStatements /\ UNCHANGED <<db, req>> /\ Finish(c, FALSE, TRUE, {})
    BY <1>2 DEF SetTagFails, SetAttrFails, DeleteBusy, StatementError
  <2> QED
    BY <2>1, FailStep
<1> QED
  BY <1>1, <1>2 DEF GetTags, GetAttr
\* Splitting a path is no step of the store.
LEMMA SplitStoreStep ==
  ASSUME IInv, NEW c \in Client, Undisturbed(c), SplitInVain(c) \/ FileName(c)
  PROVE  UNCHANGED Store!vars
<1>1. /\ UNCHANGED <<db, req>> /\ UNCHANGED <<file, req, ok>> /\ UNCHANGED <<fid, rowid>>
      /\ \/ pc[c] = "settag_name" /\ pc'[c] = "sel_tag"
         \/ pc[c] = "gettags_name" /\ pc'[c] = "gettags"
         \/ pc[c] = "file_name" /\ pc'[c] = "sel_file"
  BY DEF SplitInVain, FileName, db, conn, ret, IInv, TypeOK
<1>2. phase'[c] = phase[c]
  BY <1>1 DEF phase
<1>3. c \in gone' <=> c \in gone
  BY <1>1 DEF gone, HasFileId, FileIdOf
<1>4. UNCHANGED <<files, phase, req, ok, gone>>
  BY <1>1, <1>2, <1>3, GoesOnAfter
<1> QED
  BY <1>1, <1>4, NoRowChanges DEF Store!vars
-----------------------------------------------------------------------------
\* Every step of the repository is a step of the store or none.
LEMMA StoreStep ==
  ASSUME OneClientPerConnection, IInv, IInv', [Next]_vars
  PROVE  [Store!Next]_Store!vars
<1>1. ASSUME NEW c \in Client, (\E r \in Requests : Call(c, r)) \/ Step(c) \/ Return(c)
      PROVE  [Store!Next]_Store!vars
  <2>1. Undisturbed(c)
    BY <1>1, ConnectionsSeparate, OthersUndisturbed DEF Control, IInv
  <2>2. CASE (\E r \in Requests : Call(c, r)) \/ Return(c) \/ RemoveFileChanges(c)
    BY <2>1, <2>2, CallReturnStep
  <2>3. CASE SelectTag(c) \/ InsertTag(c) \/ InsertTagFails(c) \/ TagRowid(c)
    BY <2>1, <2>3, TagSteps
  <2>4. CASE SelectFile(c) \/ InsertFile(c) \/ InsertFileFails(c) \/ FileRowid(c)
    BY <2>1, <2>4, FileSteps
  <2>5. CASE SetTag(c)
    BY <2>1, <2>5, SetTagStoreStep DEF Store!Next
  <2>6. CASE UnsetTag(c) \/ ClearTags(c)
    BY <2>1, <2>6, UntagStoreStep DEF Store!Next
  <2>7. CASE SetAttr(c)
    BY <2>1, <2>7, SetAttrStoreStep DEF Store!Next
  <2>8. CASE UnsetAttr(c)
    BY <2>1, <2>8, UnsetAttrStoreStep DEF Store!Next
  <2>9. CASE RemoveFile(c)
    BY <2>1, <2>9, RemoveFileStoreStep DEF Store!Next
  <2>10. CASE GetTags(c) \/ GetAttr(c) \/ SetTagFails(c) \/ SetAttrFails(c) \/ DeleteBusy(c)
    BY <2>1, <2>10, ReadFailSteps DEF Store!Next
  <2>11. CASE SplitInVain(c) \/ FileName(c)
    BY <2>1, <2>11, SplitStoreStep
  <2> QED
    BY <1>1, <2>2, <2>3, <2>4, <2>5, <2>6, <2>7, <2>8, <2>9, <2>10, <2>11 DEF Step
<1>2. ASSUME UNCHANGED <<db, conn, pc, req, tid, fid, ret>> PROVE UNCHANGED Store!vars
  <2>1. UNCHANGED <<tags, files, tagged, attrs>>
    BY <1>2, NoRowChanges
  <2>2. UNCHANGED phase
    BY <1>2 DEF phase, conn
  <2>3. UNCHANGED gone
    BY <1>2 DEF gone, HasFileId, FileIdOf, Ids, db, conn
  <2> QED
    BY <1>2, <2>1, <2>2, <2>3 DEF Store!vars, ret
<1> QED
  BY <1>1, <1>2 DEF Next, vars

LEMMA StoreInit == Init => Store!Init
<1> SUFFICES ASSUME Init PROVE Store!Init
  OBVIOUS
<1>1. phase = [c \in Client |-> "idle"]
  BY DEF Init, phase
<1>2. tagged = {} /\ attrs = {}
  BY DEF Init, tagged, TagsOf, attrs, AttrsOf
<1>3. gone = {}
  BY DEF Init, gone, HasFileId
<1> QED
  BY <1>1, <1>2, <1>3 DEF Init, Store!Init, NoCall, Store!NoCall

\* Clients with a connection each see a store of tags and attributes in
\* which every operation of repo_sqlite.c takes effect at one instant, on the
\* file and the tag it was given, although it is a chain of statements and
\* any of them may fail.
THEOREM StoreCorrect ==
  ASSUME OneClientPerConnection PROVE Spec => StoreSpec
<1>1. IInv /\ IInv' /\ [Next]_vars => [Store!Next]_Store!vars
  BY StoreStep
<1> QED
  BY <1>1, StoreInit, IdsInvariant, PTL DEF Spec, StoreSpec, Store!Spec
=============================================================================
