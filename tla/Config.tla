------------------------------- MODULE Config --------------------------------
(***************************************************************************)
(* The file "dirs" and the processes that change it: ufactl add and ufactl *)
(* remove (tools/ufactl.c, core/config.c).  A process reads the list,      *)
(* changes its copy, writes it to a temporary file and renames that.       *)
(* The mutex of config.c is one process's own.                             *)
(*                                                                         *)
(* Env lists what happens beside the regular case:                         *)
(*   "parallel"  several processes run at a time                           *)
(*   "last"      a removal leaves no folder in the list                    *)
(*   "relative"  ufactl remove is given a path that is not absolute        *)
(*   "gone"      listed folders disappear and come back (a drive that is   *)
(*               not mounted)                                              *)
(*   "full"      the disk is full: a part of the temporary file is written *)
(*   "crash"     processes die                                             *)
(*   "fails"     files cannot be created, or the new file not renamed      *)
(*   "unreadable" "dirs" cannot be opened for reading                      *)
(***************************************************************************)
EXTENDS Naturals, FiniteSets

CONSTANTS
  Proc,     \* processes
  Folder,   \* absolute paths of folders
  Env,      \* see above
  NoFile,   \* in place of the content of "dirs" before it exists
  MaxCalls  \* bound on the number of calls, for TLC

ASSUME EnvAssumption ==
  /\ Env \subseteq {"parallel", "last", "relative", "gone", "full", "crash",
              "fails", "unreadable"}
  /\ MaxCalls \in Nat

ASSUME NoFileAssumption == \A S \in SUBSET Folder : S # NoFile

VARIABLES
  file,    \* the folders "dirs" lists, or NoFile
  onDisk,  \* the paths that are folders now
  pc,      \* what each process does next
  req,     \* the call of each process: [op, dir, spelling]
  list,    \* its copy of the list
  calls,   \* number of calls made
  wanted,  \* history: what the calls that returned true asked for, and
  unsure   \*   the folders whose last change was made by a call that was
           \*   killed before it could return

hist == <<wanted, unsure>>
vars == <<file, onDisk, pc, req, list, calls, hist>>

Request == [op: {"add", "remove"}, dir: Folder, spelling: {"absolute", "relative"}]

Listed == IF file = NoFile THEN {} ELSE file

Init ==
  /\ file = NoFile
  /\ onDisk \in SUBSET Folder
  /\ pc = [p \in Proc |-> "idle"]
  /\ req \in [Proc -> {r \in Request : r.op = "add" /\ r.spelling = "absolute"}]
  /\ list = [p \in Proc |-> {}]
  /\ calls = 0
  /\ wanted = {} /\ unsure = {}

Goto(p, at) == pc' = [pc EXCEPT ![p] = at]

Alone == "parallel" \in Env \/ \A p \in Proc : pc[p] = "idle"

Call(p, r) ==
  /\ pc[p] = "idle" /\ Alone
  /\ calls < MaxCalls
  /\ "relative" \in Env \/ r.spelling = "absolute"
  /\ ("last" \notin Env /\ r.op = "remove") => (Listed \cap onDisk) \ {r.dir} # {}
  /\ req' = [req EXCEPT ![p] = r]
  /\ calls' = calls + 1
  /\ Goto(p, "check")
  /\ UNCHANGED <<file, onDisk, list, hist>>

\* check_and_create_config_dir: the file is there, or is going to be made.
Check(p) ==
  /\ pc[p] = "check"
  /\ Goto(p, IF file = NoFile THEN "create" ELSE "read")
  /\ UNCHANGED <<file, onDisk, req, list, calls, hist>>

\* fopen with "w" truncates the file if another process has made it since.
Create(p) ==
  /\ pc[p] = "create"
  /\ file' = {}
  /\ Goto(p, "read")
  /\ UNCHANGED <<onDisk, req, list, calls, hist>>

\* dirs cannot be created, or its replacement not written: the call returns
\* false.
Fail(p) ==
  /\ "fails" \in Env
  /\ pc[p] \in {"create", "write"}
  /\ Goto(p, "idle")
  /\ UNCHANGED <<file, onDisk, req, list, calls, hist>>

\* ufa_config_dirs: lines that are no folders are left out.  A file that cannot
\* be opened is an empty list, and no error.
Readable == Listed \cap onDisk

Read(p) ==
  /\ pc[p] = "read"
  /\ \/ list' = [list EXCEPT ![p] = Readable]
     \/ "unreadable" \in Env /\ list' = [list EXCEPT ![p] = {}]
  /\ Goto(p, req[p].op)
  /\ UNCHANGED <<file, onDisk, req, calls, hist>>

\* The effect of a call that returns true.
Asked(p) ==
  IF req[p].op = "add" THEN wanted \cup {req[p].dir} ELSE wanted \ {req[p].dir}

\* The call returns true, and its caller is told so.
Succeed(p) ==
  /\ Goto(p, "idle")
  /\ wanted' = Asked(p)
  /\ unsure' = unsure \ {req[p].dir}

\* add_dir makes the path absolute; what is not a folder is refused.
Add(p) ==
  LET dir == req[p].dir IN
  /\ pc[p] = "add"
  /\ \/ /\ dir \notin onDisk
        /\ Goto(p, "idle") /\ UNCHANGED <<list, hist>>
     \/ /\ dir \in onDisk /\ dir \in list[p]
        /\ Succeed(p) /\ UNCHANGED list
     \/ /\ dir \in onDisk /\ dir \notin list[p]
        /\ list' = [list EXCEPT ![p] = @ \cup {dir}]
        /\ Goto(p, "write") /\ UNCHANGED hist
  /\ UNCHANGED <<file, onDisk, req, calls>>

\* (The mutant compares pointers.)
FoundNever(p) == FALSE

\* remove_dir compares the path as it is given.
Found(p) == req[p].spelling = "absolute" /\ req[p].dir \in list[p]

Remove(p) ==
  /\ pc[p] = "remove"
  /\ \/ /\ ~Found(p)
        /\ Succeed(p) /\ UNCHANGED list
     \/ /\ Found(p)
        /\ list' = [list EXCEPT ![p] = @ \ {req[p].dir}]
        /\ Goto(p, "write") /\ UNCHANGED hist
  /\ UNCHANGED <<file, onDisk, req, calls>>

\* (The mutants write the folder alone, and nothing.)
OnlyNew(p) == {{req[p].dir}}
Nothing(p) == {file}

\* What the temporary file holds when it is renamed.
Written(p) == IF "full" \in Env THEN SUBSET list[p] ELSE {list[p]}

\* write_config renames the temporary file.  An empty list is not written.
Write(p) ==
  /\ pc[p] = "write"
  /\ \/ list[p] = {} /\ UNCHANGED file
     \/ list[p] # {} /\ file' \in Written(p)
  /\ Goto(p, "return")
  /\ UNCHANGED <<onDisk, req, list, calls, hist>>

\* The call returns from write_config to its caller.
Return(p) ==
  /\ pc[p] = "return"
  /\ Succeed(p)
  /\ UNCHANGED <<file, onDisk, req, list, calls>>

\* A process is killed.  The temporary file that it may leave behind is never
\* read; after the rename its change stays, though nobody was told.
Crash(p) ==
  /\ "crash" \in Env
  /\ pc[p] # "idle"
  /\ Goto(p, "idle")
  /\ unsure' = IF pc[p] = "return" THEN unsure \cup {req[p].dir} ELSE unsure
  /\ UNCHANGED <<file, onDisk, req, list, calls, wanted>>

\* In the regular case listed folders stay, and those that are being listed.
Stays(f) == f \in Listed \/ \E p \in Proc : pc[p] = "write" /\ f \in list[p]

Unmount(f) ==
  /\ "gone" \in Env \/ ~Stays(f)
  /\ onDisk' = onDisk \ {f}
  /\ UNCHANGED <<file, pc, req, list, calls, hist>>

Mount(f) ==
  /\ onDisk' = onDisk \cup {f}
  /\ UNCHANGED <<file, pc, req, list, calls, hist>>

Next ==
  \/ \E p \in Proc :
       \/ \E r \in Request : Call(p, r)
       \/ Check(p) \/ Create(p) \/ Read(p) \/ Add(p) \/ Remove(p) \/ Write(p)
       \/ Return(p) \/ Fail(p) \/ Crash(p)
  \/ \E f \in Folder : Unmount(f) \/ Mount(f)

Spec == Init /\ [][Next]_vars

-----------------------------------------------------------------------------
TypeOK ==
  /\ file \in {NoFile} \cup SUBSET Folder
  /\ onDisk \subseteq Folder
  /\ pc \in [Proc -> {"idle", "check", "create", "read", "add", "remove", "write",
                      "return"}]
  /\ req \in [Proc -> Request]
  /\ list \in [Proc -> SUBSET Folder]
  /\ calls \in 0 .. MaxCalls
  /\ wanted \subseteq Folder /\ unsure \subseteq Folder
  /\ \A p \in Proc :
       pc[p] \in {"read", "add", "remove", "write", "return"} => file # NoFile

\* A folder is listed just if the calls that returned true have asked for it.
Follows(f) == f \in Listed <=> f \in wanted

\* When no call is under way, "dirs" lists what the calls that returned true
\* have asked for: an added folder is there until it is removed.  Calls that
\* failed have changed nothing, nor have those that were killed, unless that was
\* between the rename and their return, and then nothing but their own folder,
\* until the next call about it returns true.
FileFollowsCalls ==
  (\A p \in Proc : pc[p] = "idle") => \A f \in Folder \ unsure : Follows(f)

\* A step changes the entry of no folder but the one its process was called for.
OnlyNamedFolder ==
  [][\A f \in Folder :
       (f \in Listed /\ f \notin Listed') \/ (f \notin Listed /\ f \in Listed')
         => \E p \in Proc : pc[p] = "write" /\ pc'[p] = "return" /\ req[p].dir = f]_vars

\* "dirs" with the change process p was asked for.
Edited(p) == IF req[p].op = "add" THEN Listed \cup {req[p].dir} ELSE Listed \ {req[p].dir}

\* Why FileFollowsCalls holds for one process at a time: the list that is
\* written is the file's, with the one change, and only the process that has
\* made it and has not returned yet may know better than wanted.
OneAtATime == \A p, q \in Proc : pc[p] # "idle" /\ pc[q] # "idle" => p = q

ConfigInv ==
  /\ TypeOK
  /\ OneAtATime
  /\ Listed \subseteq onDisk
  /\ \A f \in Folder \ unsure :
       Follows(f) \/ \E p \in Proc : pc[p] = "return" /\ req[p].dir = f
  /\ \A p \in Proc :
       /\ pc[p] = "create" => file = NoFile
       /\ pc[p] \in {"add", "remove"} => pc[p] = req[p].op /\ list[p] = Listed
       /\ pc[p] # "idle" => req[p].spelling = "absolute"
       /\ pc[p] # "idle" /\ req[p].op = "remove" => Listed \ {req[p].dir} # {}
       /\ pc[p] = "write" => list[p] = Edited(p) /\ list[p] # {} /\ list[p] \subseteq onDisk
       /\ pc[p] = "return" => Listed = Edited(p)
=============================================================================
