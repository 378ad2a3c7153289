---------------------------- MODULE ConfigProofs ----------------------------
(***************************************************************************)
(* Theorems about Config, for every set of processes and folders.          *)
(***************************************************************************)
EXTENDS Config, TLAPS

\* The last disjunct of Next: folders that no process was asked about.
Disk == \E f \in Folder : Unmount(f) \/ Mount(f)

\* What a process may do and leave the file as it is.
Reads(p) ==
  \/ \E r \in Request : Call(p, r)
  \/ Check(p) \/ Read(p) \/ Add(p) \/ Remove(p) \/ Return(p) \/ Fail(p) \/ Crash(p)

Steps == {"idle", "check", "create", "read", "add", "remove", "write", "return"}

LEMMA TypeStep ==
  ASSUME TypeOK, Next
  PROVE  TypeOK'
<1>. USE DEF TypeOK, hist
<1>1. ASSUME NEW p \in Proc, NEW at \in Steps, Goto(p, at)
      PROVE  /\ pc' \in [Proc -> Steps] /\ pc'[p] = at
             /\ \A q \in Proc : q # p => pc'[q] = pc[q]
  BY <1>1 DEF Goto, Steps
<1>2. ASSUME NEW p \in Proc, NEW r \in Request, Call(p, r) PROVE TypeOK'
  <2>1. Goto(p, "check") /\ "check" \in Steps
    BY <1>2 DEF Call, Steps
  <2>. QED
    BY <1>1, <1>2, <2>1, EnvAssumption DEF Call, Steps
<1>3. ASSUME NEW p \in Proc, Check(p) PROVE TypeOK'
  <2>. DEFINE at == IF file = NoFile THEN "create" ELSE "read"
  <2>1. Goto(p, at) /\ at \in Steps
    BY <1>3 DEF Check, Steps
  <2>2. at = "read" => file # NoFile
    OBVIOUS
  <2>3. at \notin {"add", "remove", "write"}
    OBVIOUS
  <2>. HIDE DEF at
  <2>. QED
    BY <1>1, <1>3, <2>1, <2>2, <2>3 DEF Check, Steps
<1>4. ASSUME NEW p \in Proc, Create(p) PROVE TypeOK'
  <2>1. Goto(p, "read") /\ "read" \in Steps /\ file' = {} /\ {} # NoFile
    BY <1>4, NoFileAssumption DEF Create, Steps
  <2>. QED
    BY <1>1, <1>4, <2>1 DEF Create, Steps
<1>5. ASSUME NEW p \in Proc, Read(p) PROVE TypeOK'
  <2>1. Goto(p, req[p].op) /\ req[p].op \in Steps /\ pc[p] = "read"
    BY <1>5 DEF Read, Steps, Request
  <2>2. Readable \in SUBSET Folder
    BY DEF Readable, Listed
  <2>. QED
    BY <1>1, <1>5, <2>1, <2>2 DEF Read, Steps
<1>6. ASSUME NEW p \in Proc, Add(p) \/ Remove(p) PROVE TypeOK'
  <2>1. \/ Goto(p, "idle") /\ UNCHANGED list
        \/ Goto(p, "write") /\ \E S \in SUBSET Folder : list' = [list EXCEPT ![p] = S]
    <3>1. list[p] \cup {req[p].dir} \in SUBSET Folder /\ list[p] \ {req[p].dir} \in SUBSET Folder
      BY DEF Request
    <3>. QED  BY <1>6, <3>1 DEF Add, Remove, Succeed
  <2>2. /\ pc[p] \in {"add", "remove"} /\ UNCHANGED <<file, onDisk, req, calls>>
        /\ wanted' \subseteq Folder /\ unsure' \subseteq Folder
    BY <1>6 DEF Add, Remove, Succeed, Asked, Request
  <2>3. "idle" \in Steps /\ "write" \in Steps
    BY DEF Steps
  <2>. QED
    BY <1>1, <2>1, <2>2, <2>3 DEF Steps
<1>7. ASSUME NEW p \in Proc, Write(p) PROVE TypeOK'
  <2>1. Goto(p, "return") /\ "return" \in Steps /\ pc[p] = "write"
    BY <1>7 DEF Write, Steps
  <2>2. file' \in SUBSET Folder /\ file' # NoFile
    BY <1>7, NoFileAssumption DEF Write, Written
  <2>. QED
    BY <1>1, <1>7, <2>1, <2>2 DEF Write, Steps
<1>8. ASSUME NEW p \in Proc, Return(p) \/ Fail(p) \/ Crash(p) PROVE TypeOK'
  <2>1. Goto(p, "idle") /\ "idle" \in Steps
    BY <1>8 DEF Return, Succeed, Fail, Crash, Steps
  <2>2. /\ UNCHANGED <<file, onDisk, req, list, calls>>
        /\ wanted' \subseteq Folder /\ unsure' \subseteq Folder
    BY <1>8 DEF Return, Succeed, Fail, Crash, Asked, Request
  <2>. QED
    BY <1>1, <2>1, <2>2 DEF Steps
<1>9. CASE Disk
  BY <1>9 DEF Disk, Unmount, Mount
<1>. QED
  BY <1>2, <1>3, <1>4, <1>5, <1>6, <1>7, <1>8, <1>9 DEF Next, Disk

\* Whatever happens to processes, disk and folders, the file is a list of
\* folders from the moment a process works on it.
THEOREM TypeCorrect == Spec => []TypeOK
<1>1. Init => TypeOK
  BY EnvAssumption DEF Init, TypeOK, Request
<1>2. TypeOK /\ UNCHANGED vars => TypeOK'
  BY DEF TypeOK, vars, hist
<1>. QED
  BY <1>1, <1>2, TypeStep, PTL DEF Spec

-----------------------------------------------------------------------------
\* One process at a time, which reads all of "dirs" and writes all of its list,
\* while listed folders stay on disk.  The list may run empty, and ufactl
\* remove be given whatever path.
OneEditor == Env \subseteq {"crash", "fails", "last", "relative"}

\* What a process holds between reading "dirs" and replacing it is what "dirs"
\* says, and then with that one change.
EditInv ==
  /\ OneAtATime
  /\ Listed \subseteq onDisk
  /\ \A p \in Proc :
       /\ pc[p] = "create" => file = NoFile
       /\ pc[p] \in {"add", "remove"} => pc[p] = req[p].op /\ list[p] = Listed
       /\ pc[p] = "write" => list[p] = Edited(p) /\ list[p] \subseteq onDisk

\* A step of one process leaves the others idle.
LEMMA OthersIdle ==
  ASSUME TypeOK, OneAtATime, OneEditor, NEW p \in Proc, NEW at, at \in Steps,
         pc[p] # "idle" \/ Alone, Goto(p, at)
  PROVE  /\ OneAtATime'
         /\ \A q \in Proc : q # p => pc'[q] = "idle"
         /\ pc'[p] = at
<1>1. \A q \in Proc : q # p => pc[q] = "idle"
  BY DEF OneAtATime, Alone, OneEditor
<1>. QED
  BY <1>1 DEF TypeOK, Goto, OneAtATime

LEMMA EditStep ==
  ASSUME TypeOK, EditInv, OneEditor, Next
  PROVE  EditInv'
<1>. USE DEF EditInv
<1>1. ASSUME NEW p \in Proc, NEW at \in {"idle", "check", "create", "read"}, Goto(p, at),
             pc[p] # "idle" \/ Alone, at = "create" => file = NoFile,
             UNCHANGED <<file, onDisk>>
      PROVE  EditInv'
  <2>1. /\ OneAtATime' /\ \A q \in Proc : q # p => pc'[q] = "idle"
        /\ pc'[p] = at
    BY <1>1, OthersIdle DEF Steps
  <2>2. Listed' = Listed
    BY <1>1 DEF Listed
  <2>. QED
    BY <1>1, <2>1, <2>2
<1>2. ASSUME NEW p \in Proc, \E r \in Request : Call(p, r) PROVE EditInv'
  BY <1>1, <1>2 DEF Call
<1>3. ASSUME NEW p \in Proc, Check(p) PROVE EditInv'
  <2>1. CASE file = NoFile
    BY <1>1, <1>3, <2>1 DEF Check
  <2>2. CASE file # NoFile
    BY <1>1, <1>3, <2>2 DEF Check
  <2>. QED  BY <2>1, <2>2
<1>4. ASSUME NEW p \in Proc, Create(p) PROVE EditInv'
  <2>1. /\ OneAtATime' /\ \A q \in Proc : q # p => pc'[q] = "idle"
        /\ pc'[p] = "read"
    BY <1>4, OthersIdle DEF Create, Steps
  <2>2. Listed' = {} /\ onDisk' = onDisk
    BY <1>4 DEF Create, Listed
  <2>. QED
    BY <2>1, <2>2
<1>5. ASSUME NEW p \in Proc, Read(p) PROVE EditInv'
  <2>1. req[p].op \in {"add", "remove"} /\ Listed \subseteq Folder
    BY DEF TypeOK, Request, Listed
  <2>2. /\ OneAtATime' /\ \A q \in Proc : q # p => pc'[q] = "idle"
        /\ pc'[p] = req[p].op
    BY <1>5, <2>1, OthersIdle DEF Read, Steps
  <2>3. Listed' = Listed /\ onDisk' = onDisk /\ req' = req /\ list' = [list EXCEPT ![p] = Listed]
    BY <1>5 DEF Read, Readable, OneEditor, Listed
  <2>4. list'[p] = Listed
    BY <2>1, <2>3 DEF TypeOK
  <2>. QED
    BY <2>1, <2>2, <2>3, <2>4
<1>6. ASSUME NEW p \in Proc, Add(p) \/ Remove(p) PROVE EditInv'
  <2>1. pc[p] = req[p].op /\ pc[p] \in {"add", "remove"} /\ list[p] = Listed
    BY <1>6 DEF Add, Remove
  <2>2. UNCHANGED <<file, onDisk, req>> /\ Listed' = Listed
    BY <1>6 DEF Add, Remove, Listed
  <2>3. CASE Goto(p, "idle")
    BY <1>1, <2>1, <2>2, <2>3
  <2>4. CASE Goto(p, "write")
    <3>1. /\ OneAtATime' /\ \A q \in Proc : q # p => pc'[q] = "idle"
          /\ pc'[p] = "write"
      BY <2>1, <2>4, OthersIdle DEF Steps
    <3>2. list' = [list EXCEPT ![p] = Edited(p)] /\ (req[p].op = "add" => req[p].dir \in onDisk)
      BY <1>6, <2>1, <2>4, <3>1 DEF Add, Remove, Succeed, Edited, Goto, TypeOK
    <3>3. list'[p] = Edited(p) /\ Edited(p)' = Edited(p) /\ Edited(p) \subseteq onDisk
      BY <2>2, <3>2 DEF Edited, TypeOK
    <3>. QED  BY <2>2, <3>1, <3>3
  <2>. QED
    BY <1>6, <2>3, <2>4 DEF Add, Remove, Succeed
<1>7. ASSUME NEW p \in Proc, Write(p) PROVE EditInv'
  <2>1. /\ OneAtATime' /\ \A q \in Proc : q # p => pc'[q] = "idle"
        /\ pc'[p] = "return"
    BY <1>7, OthersIdle DEF Write, Steps
  <2>2. Listed' \subseteq onDisk /\ onDisk' = onDisk
    BY <1>7, NoFileAssumption DEF Write, Written, OneEditor, Listed, TypeOK
  <2>. QED
    BY <2>1, <2>2
<1>8. ASSUME NEW p \in Proc, Return(p) \/ Fail(p) \/ Crash(p) PROVE EditInv'
  BY <1>1, <1>8 DEF Return, Succeed, Fail, Crash
<1>9. ASSUME NEW f \in Folder, Unmount(f) \/ Mount(f) PROVE EditInv'
  <2>1. UNCHANGED <<file, pc, req, list>> /\ Listed' = Listed
    BY <1>9 DEF Unmount, Mount, Listed
  <2>2. onDisk \subseteq onDisk' \/ (onDisk' = onDisk \ {f} /\ ~Stays(f))
    BY <1>9 DEF Unmount, Mount, OneEditor
  <2>3. /\ Listed \subseteq onDisk'
        /\ \A p \in Proc : pc[p] = "write" => list[p] \subseteq onDisk'
    BY <2>2 DEF Stays
  <2>. QED
    BY <2>1, <2>3 DEF OneAtATime, Edited
<1>. QED
  BY <1>2, <1>3, <1>4, <1>5, <1>6, <1>7, <1>8, <1>9 DEF Next

LEMMA EditInvariant ==
  ASSUME OneEditor
  PROVE  Spec => []EditInv
<1>1. Init => EditInv
  BY DEF Init, EditInv, OneAtATime, Listed
<1>2. EditInv /\ UNCHANGED vars => EditInv'
  BY DEF EditInv, OneAtATime, Listed, Edited, vars
<1>3. TypeOK /\ EditInv /\ [Next]_vars => EditInv'
  BY <1>2, EditStep
<1>. QED
  BY <1>1, <1>3, TypeCorrect, PTL DEF Spec

\* No call changes the entry of a folder it was not given: what write_config
\* renames over "dirs" differs from it in the one folder that was added or
\* removed.  (Also for a removal of the last folder, which changes nothing, and
\* for paths that remove_dir does not find.)
THEOREM EntriesOfOthersStay ==
  ASSUME OneEditor
  PROVE  Spec => OnlyNamedFolder
<1> DEFINE Changed(f) == (f \in Listed /\ f \notin Listed') \/ (f \notin Listed /\ f \in Listed')
           Named(f) == \E p \in Proc : pc[p] = "write" /\ pc'[p] = "return" /\ req[p].dir = f
<1>1. TypeOK /\ EditInv /\ [Next]_vars => \A f \in Folder : Changed(f) => Named(f)
  <2>. SUFFICES ASSUME TypeOK, EditInv, [Next]_vars PROVE \A f \in Folder : Changed(f) => Named(f)
    OBVIOUS
  <2>1. ASSUME UNCHANGED file PROVE \A f \in Folder : ~Changed(f)
    BY <2>1 DEF Listed
  <2>2. ASSUME NEW p \in Proc, Create(p) PROVE \A f \in Folder : ~Changed(f)
    BY <2>2, NoFileAssumption DEF EditInv, Create, Listed
  <2>3. ASSUME NEW p \in Proc, Write(p), NEW f \in Folder, Changed(f) PROVE Named(f)
    <3>1. pc[p] = "write" /\ pc'[p] = "return"
      BY <2>3 DEF Write, Goto, TypeOK
    <3>2. Listed' = Edited(p)
      <4>1. Listed' # Listed
        BY <2>3
      <4>2. file' = Edited(p)
        BY <2>3, <3>1, <4>1 DEF Write, Written, OneEditor, EditInv, Listed
      <4>. QED
        BY <2>3, <3>1, <4>2, NoFileAssumption DEF EditInv, TypeOK, Listed
    <3>3. req[p].dir = f
      BY <2>3, <3>2 DEF Edited
    <3>. QED
      BY <3>1, <3>3
  <2>4. ASSUME NEW p \in Proc, Reads(p) PROVE UNCHANGED file
    BY <2>4 DEF Reads, Call, Check, Read, Add, Remove, Return, Fail, Crash
  <2>5. CASE Disk
    BY <2>1, <2>5 DEF Disk, Unmount, Mount
  <2>. QED
    BY <2>1, <2>2, <2>3, <2>4, <2>5 DEF Next, Reads, Disk, vars
<1>. QED
  BY <1>1, TypeCorrect, EditInvariant, PTL DEF Spec, OnlyNamedFolder

-----------------------------------------------------------------------------
\* Beside that, folders are removed by their absolute path, and never the last.
Quiet == Env \subseteq {"crash", "fails"}

\* What ConfigInv says beyond EditInv: how the file and the calls that returned
\* true belong together.
Returning(f) == \E p \in Proc : pc[p] = "return" /\ req[p].dir = f

CallsInv ==
  /\ \A f \in Folder \ unsure : Follows(f) \/ Returning(f)
  /\ \A p \in Proc :
       /\ pc[p] # "idle" => req[p].spelling = "absolute"
       /\ pc[p] # "idle" /\ req[p].op = "remove" => Listed \ {req[p].dir} # {}
       /\ pc[p] = "return" => Listed = Edited(p)

LEMMA ConfigParts == ConfigInv <=> TypeOK /\ EditInv /\ CallsInv
<1>1. TypeOK /\ CallsInv => \A p \in Proc : pc[p] = "write" => Edited(p) # {}
  BY DEF CallsInv, Edited, TypeOK, Request
<1>. QED
  BY <1>1 DEF ConfigInv, EditInv, CallsInv, Returning

\* A call that finds "dirs" as its caller wants it makes the file and wanted
\* agree about its folder, if it returns true.
LEMMA SuccessFollows ==
  ASSUME TypeOK, OneAtATime, CallsInv, NEW p \in Proc, pc[p] # "idle",
         Listed = Edited(p), Succeed(p), UNCHANGED <<file, req>>
  PROVE  CallsInv'
<1>1. /\ pc'[p] = "idle" /\ \A q \in Proc : q # p => pc[q] = "idle" /\ pc'[q] = "idle"
      /\ Listed' = Listed
  BY DEF Succeed, Goto, TypeOK, OneAtATime, Listed
<1>2. ASSUME NEW f \in Folder \ unsure' PROVE Follows(f)'
  <2>1. CASE f = req[p].dir
    BY <1>1, <2>1 DEF Succeed, Asked, Edited, Follows
  <2>2. CASE f # req[p].dir
    <3>1. f \notin unsure /\ ~Returning(f)
      BY <1>1, <1>2, <2>2 DEF Succeed, Returning
    <3>2. Follows(f)
      BY <3>1 DEF CallsInv
    <3>. QED
      BY <1>1, <2>2, <3>2 DEF Succeed, Asked, Follows
  <2>. QED
    BY <2>1, <2>2
<1>. QED
  BY <1>1, <1>2 DEF CallsInv

LEMMA CallsStep ==
  ASSUME TypeOK, EditInv, CallsInv, Quiet, Next
  PROVE  CallsInv'
<1>. USE DEF hist
<1>1. ASSUME UNCHANGED <<wanted, unsure, req>>, Listed' = Listed,
             \A p \in Proc : /\ pc'[p] # "idle" => pc[p] # "idle"
                             /\ pc'[p] = "return" <=> pc[p] = "return"
      PROVE  CallsInv'
  <2>1. \A f : Follows(f)' = Follows(f) /\ Returning(f)' = Returning(f)
    BY <1>1 DEF Follows, Returning
  <2>. QED
    BY <1>1, <2>1 DEF CallsInv, Edited
<1>2. ASSUME NEW p \in Proc, NEW at, Goto(p, at), pc[p] \notin {"idle", "return"}, at # "return"
      PROVE  \A q \in Proc : /\ pc'[q] # "idle" => pc[q] # "idle"
                             /\ pc'[q] = "return" <=> pc[q] = "return"
  BY <1>2 DEF Goto, TypeOK
<1>3. ASSUME NEW p \in Proc, NEW r \in Request, Call(p, r) PROVE CallsInv'
  <2>1. /\ r.spelling = "absolute" /\ (r.op = "remove" => Listed \ {r.dir} # {})
        /\ UNCHANGED hist /\ Listed' = Listed
    BY <1>3 DEF Call, Quiet, Listed
  <2>2. /\ pc[p] = "idle" /\ pc'[p] = "check" /\ req'[p] = r
        /\ \A q \in Proc : q # p => req'[q] = req[q] /\ pc'[q] = pc[q]
    BY <1>3 DEF Call, Goto, TypeOK
  <2>3. \A f : Follows(f)' = Follows(f) /\ Returning(f)' = Returning(f)
    BY <2>1, <2>2 DEF Follows, Returning
  <2>4. \A q \in Proc : q # p => Edited(q)' = Edited(q)
    BY <2>1, <2>2 DEF Edited
  <2>. QED  BY <2>1, <2>2, <2>3, <2>4 DEF CallsInv
<1>4. ASSUME NEW p \in Proc, Check(p) \/ Read(p) \/ Fail(p) PROVE CallsInv'
  <2>1. /\ UNCHANGED <<file, wanted, unsure, req>> /\ pc[p] \notin {"idle", "return"}
        /\ \E at : Goto(p, at) /\ at # "return"
    <3>1. req[p].op # "return"
      BY DEF TypeOK, Request
    <3>. QED
      BY <1>4, <3>1 DEF Check, Read, Fail
  <2>. QED  BY <1>1, <1>2, <2>1 DEF Listed
<1>5. ASSUME NEW p \in Proc, Create(p) PROVE CallsInv'
  <2>1. Listed' = Listed /\ UNCHANGED <<hist, req>> /\ pc[p] = "create" /\ Goto(p, "read")
    BY <1>5, NoFileAssumption DEF Create, EditInv, Listed
  <2>. QED  BY <1>1, <1>2, <2>1
<1>6. ASSUME NEW p \in Proc, Add(p) \/ Remove(p) PROVE CallsInv'
  <2>1. UNCHANGED <<file, req>> /\ pc[p] \in {"add", "remove"} /\ Listed' = Listed
    BY <1>6 DEF Add, Remove, Listed
  <2>2. pc[p] = req[p].op /\ list[p] = Listed /\ req[p].spelling = "absolute"
    BY <2>1 DEF EditInv, CallsInv
  <2>3. CASE UNCHANGED hist /\ \E at \in {"idle", "write"} : Goto(p, at)
    BY <1>1, <1>2, <2>1, <2>3
  <2>4. CASE /\ Succeed(p)
             /\ IF req[p].op = "add" THEN req[p].dir \in list[p] ELSE req[p].dir \notin list[p]
    <3>1. Listed = Edited(p)
      BY <2>2, <2>4 DEF Edited
    <3>. QED
      BY <2>1, <2>4, <3>1, SuccessFollows DEF EditInv
  <2>. QED  BY <1>6, <2>2, <2>3, <2>4 DEF Add, Remove, Found
<1>7. ASSUME NEW p \in Proc, Write(p) PROVE CallsInv'
  <2>1. pc[p] = "write" /\ Goto(p, "return") /\ UNCHANGED <<req, hist>>
    BY <1>7 DEF Write
  <2>2. list[p] = Edited(p) /\ list[p] # {}
    BY <2>1, ConfigParts DEF ConfigInv
  <2>3. Listed' = Edited(p)
    BY <1>7, <2>2, NoFileAssumption DEF Write, Written, Quiet, Listed, TypeOK
  <2>4. pc'[p] = "return" /\ \A q \in Proc : q # p => pc[q] = "idle" /\ pc'[q] = "idle"
    BY <2>1 DEF EditInv, OneAtATime, Goto, TypeOK
  <2>5. Edited(p)' = Listed' /\ (req[p].op = "remove" => Listed' \ {req[p].dir} # {})
    BY <2>1, <2>3, <2>4 DEF Edited, CallsInv
  <2>6. ASSUME NEW f \in Folder \ unsure' PROVE Follows(f)' \/ Returning(f)'
    <3>1. CASE f = req[p].dir
      BY <2>1, <2>4, <3>1 DEF Returning
    <3>2. CASE f # req[p].dir
      <4>1. Follows(f)
        BY <2>1, <2>4, <2>6 DEF CallsInv, Returning
      <4>. QED
        BY <2>1, <2>3, <3>2, <4>1 DEF Follows, Edited
    <3>. QED  BY <3>1, <3>2
  <2>. QED  BY <2>1, <2>4, <2>5, <2>6 DEF CallsInv
<1>8. ASSUME NEW p \in Proc, Return(p) PROVE CallsInv'
  <2>1. pc[p] = "return" /\ Succeed(p) /\ UNCHANGED <<file, req>>
    BY <1>8 DEF Return
  <2>. QED
    BY <2>1, SuccessFollows DEF EditInv, CallsInv
<1>9. ASSUME NEW p \in Proc, Crash(p) PROVE CallsInv'
  <2>1. UNCHANGED <<file, wanted, req>> /\ pc[p] # "idle" /\ Goto(p, "idle") /\ Listed' = Listed
    BY <1>9 DEF Crash, Listed
  <2>2. CASE pc[p] # "return"
    BY <1>1, <1>2, <1>9, <2>1, <2>2 DEF Crash
  <2>3. CASE pc[p] = "return"
    <3>1. \A q \in Proc : pc'[q] = "idle" /\ (pc[q] = "return" => q = p)
      BY <2>1 DEF EditInv, OneAtATime, Goto, TypeOK
    <3>2. unsure' = unsure \cup {req[p].dir}
      BY <1>9, <2>3 DEF Crash
    <3>3. ASSUME NEW f \in Folder \ unsure' PROVE Follows(f)'
      <4>1. Follows(f)
        BY <3>1, <3>2, <3>3 DEF CallsInv, Returning
      <4>. QED
        BY <2>1, <4>1 DEF Follows
    <3>. QED
      BY <3>1, <3>3 DEF CallsInv
  <2>. QED  BY <2>2, <2>3
<1>10. CASE Disk
  BY <1>1, <1>10 DEF Disk, Unmount, Mount, Listed
<1>. QED
  BY <1>3, <1>4, <1>5, <1>6, <1>7, <1>8, <1>9, <1>10 DEF Next, Disk

\* If processes run one at a time (and may die, or fail to write), folders
\* stay on disk and at least one stays listed, a process that is between
\* reading "dirs" and renaming its own copy over it holds what "dirs" says, with
\* its one change, and "dirs" says what successful calls asked for, but for the
\* folder of a call that has renamed and not returned.
THEOREM ConfigInvariant ==
  ASSUME Quiet
  PROVE  Spec => []ConfigInv
<1>1. OneEditor
  BY DEF Quiet, OneEditor
<1>2. Init => CallsInv
  BY DEF Init, CallsInv, Listed, Follows
<1>3. CallsInv /\ UNCHANGED vars => CallsInv'
  BY DEF CallsInv, Listed, Follows, Returning, Edited, vars, hist
<1>4. TypeOK /\ EditInv /\ CallsInv /\ [Next]_vars => CallsInv'
  BY <1>3, CallsStep
<1>. QED
  BY <1>1, <1>2, <1>4, TypeCorrect, EditInvariant, ConfigParts, PTL DEF Spec

\* Then "dirs" lists what successful calls asked for whenever no call of
\* ufa_config_add_dir or ufa_config_remove_dir is under way, but for folders
\* whose last change was made by a process that was killed after its rename.
THEOREM ConfigCorrect ==
  ASSUME Quiet
  PROVE  Spec => []FileFollowsCalls
<1>1. ConfigInv => FileFollowsCalls
  BY DEF ConfigInv, FileFollowsCalls
<1>. QED
  BY <1>1, ConfigInvariant, PTL
=============================================================================
