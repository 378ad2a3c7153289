------------------------------- MODULE Handles -------------------------------
(***************************************************************************)
(* How an operation of core/data.c finds the repository it works on: the   *)
(* indicator file of a folder says where the repository of its files is    *)
(* (ufa_repo_getrepofolderfor), a table keeps an open handle for every     *)
(* folder that was used (get_repo), and ufa_repo_init opens the others,    *)
(* creates the database of a new one and writes its indicator file.  The   *)
(* monitor thread and the threads of connections share the table, and      *)
(* nothing locks it.  The test that there is a table, its creation, a      *)
(* lookup, the search and the write of a put, and one access to a file are *)
(* steps; what an operation does with a handle is Repo's business.  There  *)
(* are fewer folders than make the table grow (hashtable.c:134).           *)
(*                                                                         *)
(* Env lists what happens beside the regular case:                         *)
(*   "reading"  an indicator file is read while it is being written        *)
(*   "move"     a folder of a repository is renamed                        *)
(*   "copy"     it is copied                                               *)
(*   "delete"   it is deleted, and may be created again                    *)
(***************************************************************************)
EXTENDS Integers, Sequences, FiniteSets

CONSTANTS
  Thread,   \* threads that call data.c
  Folder,   \* folders, and
  View,     \*   directories of a mounted view (core/ufafs.c)
  Env,      \* see above
  None,     \* in place of a folder
  MaxOps,   \* bound on the number of operations, for TLC
  MaxMoves  \* bound on the number of changes users make, for TLC

ASSUME HandlesAssumption ==
  /\ IsFiniteSet(Folder) /\ Folder \cap View = {}
  /\ {None, "empty", "none"} \cap (Folder \cup View) = {}
  /\ Env \subseteq {"reading", "move", "copy", "delete"}
  /\ MaxOps \in Nat /\ MaxMoves \in Nat

VARIABLES
  exists,   \* the folders that are there
  writable, \* those in which the daemon may create and write files
  data,     \* the database in each folder, or 0
  ind,      \* its indicator file: the folder it names, "empty", or "none"
  lastData, \* number of databases ever created
  tables,   \* number of tables made: 0 as long as repos is NULL
  repos,    \* the last one: folder -> handle or 0 for NULL
  opened,   \* per handle, the database it is open on
  freed,    \* handles that were freed
  crossed,  \* history: the folders that two threads were opening at a time,
            \*   or whose handle the table lost
  at,       \* what each thread does next
  op,       \* the operation it performs
  todo,     \* the folders it has still to find a handle for
  key,      \* the folder it looks up
  seen,     \* the table that its put searched, and the folders it saw there
  got,      \* the handles it has
  error,    \* an error was set
  asked,    \* the folders on which the operation is to be performed
  done,     \* history: the databases on which it was performed, and those of
            \*   the folders it was asked for
  ops, moves

disk == <<exists, writable, data, ind, lastData>>
cache == <<tables, repos, opened, freed, crossed>>
local == <<at, op, todo, key, seen, got, error, done, asked>>
vars == <<disk, cache, local, ops, moves>>

Dir == Folder \cup View
Op == {"file", "folder", "rename", "search"}

\* The repository that a file or folder in d belongs to, for its user.
Home(d) == IF d \in View THEN ind[d] ELSE d
Base(d) == IF Home(d) \in Folder THEN data[Home(d)] ELSE 0

Empty == [d \in {} |-> 0]
Unseen == [table |-> 0, keys |-> {}]

Init ==
  /\ exists \in {e \in SUBSET Dir : View \subseteq e}
  /\ writable = exists \ View
  /\ \E made \in SUBSET (exists \cap Folder) :
       \E n \in [Folder -> 0 .. Cardinality(Folder)] :
         /\ \A f \in Folder : n[f] # 0 <=> f \in made
         /\ \A f, g \in made : n[f] = n[g] => f = g
         /\ data = [d \in Dir |-> IF d \in Folder THEN n[d] ELSE 0]
         /\ \E v \in [View -> made], i \in [Folder -> BOOLEAN] :
              ind = [d \in Dir |-> IF d \in View THEN v[d]
                                   ELSE IF d \in made /\ i[d] THEN d ELSE "none"]
  /\ lastData = Cardinality(Folder)
  /\ tables = 0
  /\ repos = Empty
  /\ opened = <<>>
  /\ freed = {}
  /\ crossed = {}
  /\ at = [t \in Thread |-> "idle"]
  /\ op = [t \in Thread |-> "folder"]
  /\ todo = [t \in Thread |-> <<>>]
  /\ key = [t \in Thread |-> None]
  /\ seen = [t \in Thread |-> Unseen]
  /\ got = [t \in Thread |-> <<>>]
  /\ error = [t \in Thread |-> FALSE]
  /\ done = [t \in Thread |-> <<>>]
  /\ asked = [t \in Thread |-> <<>>]
  /\ ops = 0 /\ moves = 0

-----------------------------------------------------------------------------
(* Operations.                                                             *)

\* How the folders of an operation are found: that of a file by its indicator
\* file, and others as they are given.
By(way, d) == [way |-> way, dir |-> d]
Orders(S) == {s \in [1 .. Cardinality(S) -> S] : \A i, j \in DOMAIN s : s[i] = s[j] => i = j}
Plans(o) ==
  CASE o = "file" -> {<<By("file", d)>> : d \in Dir}
    [] o = "folder" -> {<<By("folder", d)>> : d \in Dir}
    [] o = "rename" -> {<<By("file", d), By("folder", e)>> : d \in Folder, e \in Folder}
    [] o = "search" ->
         UNION {{[i \in DOMAIN s |-> By("folder", s[i])] : s \in Orders(S)} :
                  S \in SUBSET (Folder \cap exists)}

\* A tool's request or the monitor's event.  A search takes the repositories
\* it is given and the folders of the configuration, each once.
Begin(t, o) ==
  /\ at[t] = "idle" /\ ops < MaxOps
  /\ \E plan \in Plans(o) :
       /\ todo' = [todo EXCEPT ![t] = plan]
       /\ asked' = [asked EXCEPT ![t] = [i \in DOMAIN plan |-> plan[i].dir]]
       /\ at' = [at EXCEPT ![t] = IF plan = <<>> THEN "idle" ELSE "find"]
  /\ op' = [op EXCEPT ![t] = o]
  /\ got' = [got EXCEPT ![t] = <<>>]
  /\ error' = [error EXCEPT ![t] = FALSE]
  /\ done' = [done EXCEPT ![t] = <<>>]
  /\ ops' = ops + 1
  /\ UNCHANGED <<disk, cache, key, seen, moves>>

\* The operation ends, and with it its variables.
End(t) ==
  /\ at' = [at EXCEPT ![t] = "idle"]
  /\ todo' = [todo EXCEPT ![t] = <<>>]
  /\ key' = [key EXCEPT ![t] = None]
  /\ got' = [got EXCEPT ![t] = <<>>]
  /\ UNCHANGED op

\* It ends without a handle to use.
Fail(t, e) ==
  /\ End(t)
  /\ error' = [error EXCEPT ![t] = e]
  /\ UNCHANGED <<done, asked>>

\* (The mutant keeps the folder of the first lookup.)
FindOnce(t) ==
  /\ at[t] = "find"
  /\ key' = [key EXCEPT ![t] = IF @ = None THEN Home(todo[t][1].dir) ELSE @]
  /\ at' = [at EXCEPT ![t] = "look"]
  /\ UNCHANGED <<disk, cache, op, todo, seen, got, error, asked, done, ops, moves>>

\* ufa_repo_getrepofolderfor; for an empty indicator file get_repo is given
\* NULL, and no error is set.
Find(t) ==
  LET d == todo[t][1].dir IN
  /\ at[t] = "find"
  /\ \/ /\ \/ todo[t][1].way = "folder" /\ key' = [key EXCEPT ![t] = d]
           \/ /\ todo[t][1].way = "file" /\ d \in exists /\ ind[d] \in Folder
              /\ key' = [key EXCEPT ![t] = ind[d]]
           \/ /\ todo[t][1].way = "file" /\ d \in exists
              /\ ind[d] = "none" /\ data[d] # 0
              /\ key' = [key EXCEPT ![t] = d]
        /\ at' = [at EXCEPT ![t] = "look"]
        /\ UNCHANGED <<op, todo, got, error, done, asked>>
     \/ /\ todo[t][1].way = "file" /\ d \in exists /\ ind[d] = "empty"
        /\ "reading" \in Env
        /\ Fail(t, FALSE)
     \/ /\ todo[t][1].way = "file"
        /\ d \notin exists \/ (ind[d] = "none" /\ data[d] = 0)
        /\ Fail(t, TRUE)
  /\ UNCHANGED <<disk, cache, seen, ops, moves>>

Opens == {"open", "clear", "write", "put", "link"}
Cached(k) == IF k \in DOMAIN repos THEN repos[k] ELSE 0

Opening(k, t) == at[t] \in Opens /\ key[t] = k

\* (The mutant opens a folder whether there is a handle or not.)
LookNowhere(t) ==
  /\ at[t] = "look"
  /\ IF tables = 0 THEN at' = [at EXCEPT ![t] = "make"] /\ UNCHANGED crossed
     ELSE /\ crossed' = crossed \cup {k \in {key[t]} : \E u \in Thread : Opening(k, u)}
          /\ at' = [at EXCEPT ![t] = "open"]
  /\ UNCHANGED <<disk, tables, repos, opened, freed, op, todo, key, seen, got, error, asked,
                 done, ops, moves>>

\* init_repo_hashtable, unless there is a table, and ufa_hashtable_get of
\* get_repo: a handle, or the folder must be opened, whoever else opens it.
Look(t) ==
  LET k == key[t] IN
  /\ at[t] = "look"
  /\ \/ /\ tables = 0
        /\ at' = [at EXCEPT ![t] = "make"]
        /\ UNCHANGED <<crossed, got>>
     \/ /\ tables # 0 /\ Cached(k) # 0
        /\ got' = [got EXCEPT ![t] = Append(@, Cached(k))]
        /\ at' = [at EXCEPT ![t] = "got"]
        /\ UNCHANGED crossed
     \/ /\ tables # 0 /\ Cached(k) = 0
        /\ crossed' = IF \E u \in Thread : Opening(k, u) THEN crossed \cup {k} ELSE crossed
        /\ at' = [at EXCEPT ![t] = "open"]
        /\ UNCHANGED got
  /\ UNCHANGED <<disk, tables, repos, opened, freed, op, todo, key, seen, error, done, asked,
                 ops, moves>>

\* The table is made, also if another thread has made one since the test.
Make(t) ==
  /\ at[t] = "make"
  /\ tables' = tables + 1
  /\ repos' = Empty
  /\ crossed' = crossed \cup DOMAIN repos
  /\ at' = [at EXCEPT ![t] = "look"]
  /\ UNCHANGED <<disk, opened, freed, op, todo, key, seen, got, error, done, asked, ops,
                 moves>>

\* (The mutant sets no error.)
OpenSilently(t) ==
  LET k == key[t] IN
  /\ at[t] = "open"
  /\ k \notin exists
  /\ got' = [got EXCEPT ![t] = Append(@, 0)]
  /\ at' = [at EXCEPT ![t] = "put"]
  /\ UNCHANGED <<disk, cache, op, todo, key, seen, error, asked, done, ops, moves>>

\* ufa_repo_init: the folder must be there, and the database is opened or
\* created.  Handle 0 is put into the table after a failure.
Open(t) ==
  LET k == key[t] IN
  /\ at[t] = "open"
  /\ \/ /\ k \in exists
        /\ data[k] # 0 \/ k \in writable
        /\ IF data[k] # 0 THEN UNCHANGED <<data, lastData>>
           ELSE data' = [data EXCEPT ![k] = lastData + 1] /\ lastData' = lastData + 1
        /\ opened' = Append(opened, data'[k])
        /\ got' = [got EXCEPT ![t] = Append(@, Len(opened) + 1)]
        /\ at' = [at EXCEPT ![t] = "clear"]
        /\ UNCHANGED error
     \/ /\ k \notin exists \/ (data[k] = 0 /\ k \notin writable)
        /\ got' = [got EXCEPT ![t] = Append(@, 0)]
        /\ error' = [error EXCEPT ![t] = TRUE]
        /\ at' = [at EXCEPT ![t] = "put"]
        /\ UNCHANGED <<data, lastData, opened>>
  /\ UNCHANGED <<exists, writable, ind, tables, repos, freed, crossed, op, todo, key, seen,
                 done, asked, ops, moves>>

\* create_repo_indicator_file: fopen empties the file; a failure is an error,
\* but the handle stays.
Clear(t) ==
  LET k == key[t] IN
  /\ at[t] = "clear"
  /\ \/ /\ k \in exists \cap writable
        /\ ind' = [ind EXCEPT ![k] = "empty"]
        /\ at' = [at EXCEPT ![t] = "write"]
        /\ UNCHANGED error
     \/ /\ k \notin exists \cap writable
        /\ error' = [error EXCEPT ![t] = TRUE]
        /\ at' = [at EXCEPT ![t] = "put"]
        /\ UNCHANGED ind
  /\ UNCHANGED <<exists, writable, data, lastData, cache, op, todo, key, seen, got, done,
                 asked, ops, moves>>

\* fclose writes the path.
Write(t) ==
  /\ at[t] = "write"
  /\ ind' = [ind EXCEPT ![key[t]] = key[t]]
  /\ at' = [at EXCEPT ![t] = "put"]
  /\ UNCHANGED <<exists, writable, data, lastData, cache, op, todo, key, seen, got, error,
                 done, asked, ops, moves>>

Last(s) == s[Len(s)]

\* What ufa_hashtable_put frees: the handle that was there.
Replaced(k) == {Cached(k)} \ {0}

\* ufa_hashtable_put of get_repo looks for the folder in the table, and frees
\* the handle that it finds there.
Put(t) ==
  /\ at[t] = "put"
  /\ freed' = freed \cup Replaced(key[t])
  /\ seen' = [seen EXCEPT ![t] = [table |-> tables, keys |-> DOMAIN repos]]
  /\ at' = [at EXCEPT ![t] = "link"]
  /\ UNCHANGED <<disk, tables, repos, opened, crossed, op, todo, key, got, error, done, asked,
                 ops, moves>>

\* (The mutant does not keep the handle.)
LinkNothing(t) ==
  /\ at[t] = "link" /\ Last(got[t]) # 0
  /\ at' = [at EXCEPT ![t] = "got"]
  /\ seen' = [seen EXCEPT ![t] = Unseen]
  /\ UNCHANGED <<disk, cache, op, todo, key, got, error, asked, done, ops, moves>>

\* It stores the handle where it found the folder, or in a new node before
\* those of the bucket; nodes that others have added to the bucket since are
\* lost.  The table may have been replaced.  Without a handle the operation ends.
Link(t) ==
  LET k == key[t]
      h == Last(got[t])
      new == DOMAIN repos \ seen[t].keys IN
  /\ at[t] = "link"
  /\ \/ /\ seen[t].table # tables \/ k \in seen[t].keys \ DOMAIN repos
        /\ crossed' = crossed \cup {k}
        /\ UNCHANGED repos
     \/ /\ seen[t].table = tables /\ k \in seen[t].keys \cap DOMAIN repos
        /\ repos' = [d \in DOMAIN repos |-> IF d = k THEN h ELSE repos[d]]
        /\ UNCHANGED crossed
     \/ /\ seen[t].table = tables /\ k \notin seen[t].keys
        /\ \E lost \in SUBSET new :
             /\ {k} \cap new \subseteq lost
             /\ repos' = [d \in (DOMAIN repos \ lost) \cup {k} |-> IF d = k THEN h ELSE repos[d]]
             /\ crossed' = crossed \cup lost
  /\ seen' = [seen EXCEPT ![t] = Unseen]
  /\ \/ /\ h = 0
        /\ Fail(t, error[t])
     \/ /\ h # 0
        /\ at' = [at EXCEPT ![t] = "got"]
        /\ UNCHANGED <<op, todo, key, got, error, done, asked>>
  /\ UNCHANGED <<disk, tables, opened, freed, ops, moves>>

\* What is done through a handle that was freed is undefined.
Undefined == 0
Reached(h) == IF h \in freed THEN Undefined ELSE opened[h]

\* The databases of the handles t has, with those that it should have.
Performed(t) ==
  [i \in DOMAIN got[t] |->
     [on |-> Reached(got[t][i]), of |-> Base(asked[t][Len(done[t]) + i])]]

\* The operation is performed when it has all its handles, a search on each of
\* them; after an error, though it has a handle, it is not.
Use(t) ==
  /\ at[t] = "got"
  /\ done' = IF error[t] \/ (op[t] # "search" /\ Len(todo[t]) > 1) THEN done
             ELSE [done EXCEPT ![t] = @ \o Performed(t)]
  /\ \/ /\ ~error[t] /\ Len(todo[t]) > 1
        /\ at' = [at EXCEPT ![t] = "find"]
        /\ todo' = [todo EXCEPT ![t] = Tail(@)]
        /\ got' = [got EXCEPT ![t] = IF op[t] = "search" THEN <<>> ELSE @]
        /\ UNCHANGED <<op, key>>
     \/ /\ error[t] \/ Len(todo[t]) = 1
        /\ End(t)
  /\ UNCHANGED <<disk, cache, seen, error, asked, ops, moves>>

-----------------------------------------------------------------------------
(* Users.                                                                  *)

Create(f) ==
  /\ f \in Folder \ exists
  /\ exists' = exists \cup {f} /\ writable' = writable \cup {f}
  /\ UNCHANGED <<data, ind, lastData>>

\* A user gives or takes the right to write.
Chmod(f) ==
  /\ f \in exists
  /\ writable' = IF f \in writable THEN writable \ {f} ELSE writable \cup {f}
  /\ UNCHANGED <<exists, data, ind, lastData>>

\* "ufactl init", in a process of its own.
InitRepo(f) ==
  /\ f \in exists \cap writable /\ ind[f] # "empty"
  /\ ind' = [ind EXCEPT ![f] = f]
  /\ IF data[f] # 0 THEN UNCHANGED <<data, lastData>>
     ELSE data' = [data EXCEPT ![f] = lastData + 1] /\ lastData' = lastData + 1
  /\ UNCHANGED <<exists, writable>>

Move(f, g) ==
  /\ "move" \in Env
  /\ f \in exists /\ g \in Folder \ exists
  /\ exists' = (exists \ {f}) \cup {g}
  /\ writable' = IF f \in writable THEN (writable \ {f}) \cup {g} ELSE writable \ {g}
  /\ data' = [data EXCEPT ![g] = data[f], ![f] = 0]
  /\ ind' = [ind EXCEPT ![g] = ind[f], ![f] = "none"]
  /\ UNCHANGED lastData

Copy(f, g) ==
  /\ "copy" \in Env
  /\ f \in exists /\ g \in Folder \ exists
  /\ exists' = exists \cup {g}
  /\ writable' = writable \cup {g}
  /\ data' = [data EXCEPT ![g] = IF data[f] = 0 THEN 0 ELSE lastData + 1]
  /\ lastData' = lastData + 1
  /\ ind' = [ind EXCEPT ![g] = ind[f]]

Delete(f) ==
  /\ "delete" \in Env
  /\ f \in exists
  /\ exists' = exists \ {f} /\ writable' = writable \ {f}
  /\ data' = [data EXCEPT ![f] = 0]
  /\ ind' = [ind EXCEPT ![f] = "none"]
  /\ UNCHANGED lastData

User ==
  /\ moves < MaxMoves
  /\ moves' = moves + 1
  /\ \E f \in Folder :
       \/ Create(f) \/ Chmod(f) \/ InitRepo(f) \/ Delete(f)
       \/ \E g \in Folder : Move(f, g) \/ Copy(f, g)
  /\ UNCHANGED <<cache, local, ops>>

Next ==
  \/ \E t \in Thread :
       \/ \E o \in Op : Begin(t, o)
       \/ Find(t) \/ Look(t) \/ Make(t) \/ Open(t) \/ Clear(t) \/ Write(t)
       \/ Put(t) \/ Link(t) \/ Use(t)
  \/ User

Spec == Init /\ [][Next]_vars
-----------------------------------------------------------------------------
Data == 0 .. lastData
Handle == 1 .. Len(opened)

TypeOK ==
  /\ exists \subseteq Dir /\ writable \subseteq exists \cap Folder
  /\ data \in [Dir -> Data]
  /\ ind \in [Dir -> Folder \cup {"empty", "none"}]
  /\ lastData \in Nat
  /\ tables \in Nat /\ crossed \subseteq Dir
  /\ DOMAIN repos \subseteq Dir /\ \A d \in DOMAIN repos : repos[d] \in {0} \cup Handle
  /\ opened \in Seq(Data \ {0})
  /\ freed \subseteq Handle
  /\ at \in [Thread -> {"idle", "find", "look", "make", "got"} \cup Opens]
  /\ op \in [Thread -> Op]
  /\ todo \in [Thread -> Seq([way: {"file", "folder"}, dir: Dir])]
  /\ key \in [Thread -> Dir \cup {None}]
  /\ seen \in [Thread -> [table: Nat, keys: SUBSET Dir]]
  /\ got \in [Thread -> Seq({0} \cup Handle)]
  /\ error \in [Thread -> BOOLEAN]
  /\ asked \in [Thread -> Seq(Dir)]
  /\ done \in [Thread -> Seq([on: Data, of: Data])]
  /\ ops \in 0 .. MaxOps /\ moves \in 0 .. MaxMoves

\* A handle is freed, under whoever uses it, only as that of a folder that two
\* threads were opening at a time, or that the table had lost.
FreesOnlyCrossed ==
  [][\A h \in freed' \ freed : \E k \in crossed : h = Cached(k)]_vars

\* Until then the daemon has at most one open handle on a database, so that it
\* never waits for a lock of its own.
OneHandle ==
  crossed = {} =>
    \A h, k \in Handle \ freed : opened[h] = opened[k] => h = k

\* An operation is performed on the databases of the folders it names, and on
\* no other, in particular on none that is not there any more, except through
\* a freed handle.
RightRepo ==
  \A t \in Thread : \A i \in DOMAIN done[t] :
    done[t][i].on \in {done[t][i].of, Undefined}

\* An operation that ends without an error was performed on all its folders.
FailsLoudly ==
  \A t \in Thread : at[t] = "idle" /\ ~error[t] => Len(done[t]) = Len(asked[t])
=============================================================================
