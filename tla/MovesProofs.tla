---------------------------- MODULE MovesProofs -----------------------------
(***************************************************************************)
(* Theorems about Moves, for every number of folders, names, files, tags   *)
(* and attributes.                                                         *)
(***************************************************************************)
EXTENDS Moves, FiniteSetTheorems, TLAPS

Jobs == [from: Path, to: Path, marks: SUBSET Mark, missed: SUBSET Mark]

Unwatched(old) == {d \in listed : old[d] = 0}

LEMMA NewWatchesApart ==
  ASSUME listed \subseteq Dir, NEW last \in Nat, NEW old \in [Dir -> 0 .. last],
         \A d, e \in Dir : old[d] = old[e] /\ old[d] # 0 => d = e,
         NEW w \in NewWatches(old, last)
  PROVE  /\ Cardinality(Unwatched(old)) \in Nat
         /\ w \in [Dir -> 0 .. last + Cardinality(Unwatched(old))]
         /\ \A d, e \in Dir : w[d] = w[e] /\ w[d] # 0 => d = e
         /\ \A d \in Dir : w[d] # 0 <=> d \in listed
<1> DEFINE New == {d \in listed : old[d] = 0}
<1>1. Cardinality(New) \in Nat
  <2>1. New \subseteq Dir
    OBVIOUS
  <2>. QED
    BY <2>1, DirAssumption, FS_Subset, FS_CardinalityType
<1>2. PICK n \in Number(New) :
        /\ \A d, e \in New : n[d] = n[e] => d = e
        /\ w = [d \in Dir |-> IF d \in New THEN last + n[d] ELSE IF d \in listed THEN old[d] ELSE 0]
  BY DEF NewWatches
<1>3. \A d \in New : n[d] \in 1 .. Cardinality(New)
  BY <1>2 DEF Number
<1> HIDE DEF New
<1>4. \A d \in New : d \in listed /\ d \in Dir /\ old[d] = 0
  BY DEF New
<1>5. \A d \in listed \ New : old[d] # 0
  BY DEF New
<1>6. \A d \in Dir : w[d] \in 0 .. last + Cardinality(New)
  BY <1>1, <1>2, <1>3
<1>7. \A d, e \in Dir : w[d] = w[e] /\ w[d] # 0 => d = e
  BY <1>1, <1>2, <1>3, <1>4, <1>5
<1>8. \A d \in Dir : w[d] # 0 <=> d \in listed
  BY <1>1, <1>2, <1>3, <1>4, <1>5
<1>. QED
  BY <1>1, <1>2, <1>6, <1>7, <1>8 DEF New, Unwatched

-----------------------------------------------------------------------------
\* A rename with its old path is a rename.
LEMMA NotNoJob == \A j \in Jobs : j # NoJob
<1>1. \A j \in Jobs : j.from \in Path
  BY DEF Jobs
<1>. QED
  BY <1>1, ValuesAssumption DEF NoJob, Path

LEMMA TypeInit == Init => TypeOK
<1>. SUFFICES ASSUME Init PROVE TypeOK
  OBVIOUS
<1>1. /\ wds \in [Dir -> 0 .. lastWd] /\ lastWd \in Nat
      /\ \A d, e \in Dir : wds[d] = wds[e] /\ wds[d] # 0 => d = e
  <2>1. /\ listed \subseteq Dir /\ wds \in NewWatches(NoWatches, 1) /\ lastWd = 1 + Cardinality(Dir)
        /\ NoWatches \in [Dir -> 0 .. 1]
        /\ \A d, e \in Dir : NoWatches[d] = NoWatches[e] /\ NoWatches[d] # 0 => d = e
        /\ Unwatched(NoWatches) = Dir
    BY DEF Init, FirstWatches, NoWatches, Unwatched
  <2>2. /\ Cardinality(Unwatched(NoWatches)) \in Nat
        /\ wds \in [Dir -> 0 .. 1 + Cardinality(Unwatched(NoWatches))]
        /\ \A d, e \in Dir : wds[d] = wds[e] /\ wds[d] # 0 => d = e
    BY <2>1, NewWatchesApart, 1 \in Nat
  <2>. QED
    BY <2>1, <2>2
<1>. QED
  BY <1>1, EnvAssumption DEF Init, TypeOK, NoJob

\* What a crash leaves has the right types.
LEMMA TypeDies ==
  ASSUME TypeOK, Dies, UNCHANGED <<place, listed, cookies, truth>>,
         row' \in [Path -> {NoRow} \cup SUBSET Mark]
  PROVE  TypeOK'
<1>1. /\ wds' \in [Dir -> 0 .. lastWd'] /\ lastWd' \in Nat
      /\ \A d, e \in Dir : wds'[d] = wds'[e] /\ wds'[d] # 0 => d = e
  BY DEF Dies, NoWatches
<1>2. /\ queue' = <<>> /\ batch' = <<>> /\ buffered' = {} /\ pc' = "select" /\ job' = NoJob
      /\ alive' \in BOOLEAN
  BY DEF Dies
<1>. QED
  BY <1>1, <1>2 DEF TypeOK

LEMMA TypeUser ==
  ASSUME TypeOK, User
  PROVE  TypeOK'
<1>1. ASSUME NEW d \in Dir, Relist(d) PROVE TypeOK'
  <2>1. cookies' \in 0 .. MaxEvents
    BY <1>1, EnvAssumption DEF Relist, MayAct, TypeOK
  <2>2. queue' \in Seq(Event \cup {DirsEvent}) /\ listed' \subseteq Dir
    BY <1>1 DEF Relist, TypeOK
  <2>. QED
    BY <1>1, <2>1, <2>2 DEF Relist, TypeOK, monitor
<1>2. \A p \in Path, k \in {"from", "to", "delete"} : Seen(k, p) \in Seq(Event \cup {DirsEvent})
  <2>1. SUFFICES ASSUME NEW p \in Path, NEW k \in {"from", "to", "delete"}
                 PROVE  Seen(k, p) \in Seq(Event \cup {DirsEvent})
    OBVIOUS
  <2>2. wds[p[1]] \in Nat /\ Cookie \in Nat
    BY DEF TypeOK, Path, Cookie
  <2>3. [kind |-> k, path |-> p, wd |-> wds[p[1]], cookie |-> Cookie] \in Event
    BY <2>2 DEF Event
  <2>4. <<[kind |-> k, path |-> p, wd |-> wds[p[1]], cookie |-> Cookie]>> \in Seq(Event \cup {DirsEvent})
    BY <2>3
  <2>5. CASE wds[p[1]] = 0
    <3>1. Seen(k, p) = <<>>
      BY <2>5 DEF Seen
    <3>. QED
      BY <3>1
  <2>6. CASE wds[p[1]] # 0
    <3>1. Seen(k, p) = <<[kind |-> k, path |-> p, wd |-> wds[p[1]], cookie |-> Cookie]>>
      BY <2>6 DEF Seen
    <3>. QED
      BY <2>4, <3>1
  <2>. QED
    BY <2>5, <2>6
<1>3. ASSUME UserActs, place' \in [Inode -> {Outside, Absent} \cup Path],
             truth' \in [Inode -> SUBSET Mark], queue' \in Seq(Event \cup {DirsEvent})
      PROVE  TypeOK'
  <2>1. cookies' \in 0 .. MaxEvents
    BY <1>3, EnvAssumption DEF UserActs, MayAct, TypeOK
  <2>. QED
    BY <1>3, <2>1 DEF UserActs, TypeOK, monitor
<1>4. ASSUME NEW i \in Inode, NEW p \in Path, PutAt(i, p)
      PROVE  /\ place' \in [Inode -> {Outside, Absent} \cup Path]
             /\ truth' \in [Inode -> SUBSET Mark]
  <2>1. place' \in [Inode -> {Outside, Absent} \cup Path]
    BY <1>4 DEF PutAt, TypeOK
  <2>2. truth' = [j \in Inode |-> IF Inside(j)' THEN truth[j] ELSE {}]
    BY <1>4 DEF PutAt
  <2>. QED
    BY <2>1, <2>2 DEF TypeOK
<1>5. \A i \in Inode : Inside(i) => place[i] \in Path
  BY DEF TypeOK, Inside
<1>6. ASSUME NEW i \in Inode, NEW p \in Path, Move(i, p) PROVE TypeOK'
  <2>1. /\ UserActs /\ PutAt(i, p) /\ place[i] \in Path
        /\ queue' = queue \o Seen("from", place[i]) \o Seen("to", p)
    BY <1>5, <1>6 DEF Move
  <2>2. /\ queue \in Seq(Event \cup {DirsEvent})
        /\ Seen("from", place[i]) \in Seq(Event \cup {DirsEvent})
        /\ Seen("to", p) \in Seq(Event \cup {DirsEvent})
    BY <1>2, <2>1 DEF TypeOK
  <2>3. queue' \in Seq(Event \cup {DirsEvent})
    BY <2>1, <2>2
  <2>. QED
    BY <1>3, <1>4, <2>1, <2>3
<1>7. ASSUME NEW i \in Inode, NEW p \in Path, MoveIn(i, p) PROVE TypeOK'
  <2>1. /\ UserActs /\ PutAt(i, p) /\ queue' = queue \o Seen("to", p)
        /\ queue \in Seq(Event \cup {DirsEvent}) /\ Seen("to", p) \in Seq(Event \cup {DirsEvent})
    BY <1>2, <1>7 DEF MoveIn, TypeOK
  <2>. QED
    BY <1>3, <1>4, <2>1
<1>8. ASSUME NEW i \in Inode, NEW p \in Path, Create(i, p) PROVE TypeOK'
  BY <1>3, <1>4, <1>8 DEF Create, TypeOK
<1>9. ASSUME NEW i \in Inode, MoveOut(i) PROVE TypeOK'
  <2>1. /\ UserActs /\ queue' = queue \o Seen("from", place[i])
        /\ queue \in Seq(Event \cup {DirsEvent}) /\ Seen("from", place[i]) \in Seq(Event \cup {DirsEvent})
    BY <1>2, <1>5, <1>9 DEF MoveOut, TypeOK
  <2>2. /\ place' \in [Inode -> {Outside, Absent} \cup Path]
        /\ truth' \in [Inode -> SUBSET Mark]
    BY <1>9 DEF MoveOut, TypeOK
  <2>. QED
    BY <1>3, <2>1, <2>2
<1>10. ASSUME NEW i \in Inode, Delete(i) PROVE TypeOK'
  <2>1. /\ UserActs /\ queue' = queue \o Seen("delete", place[i])
        /\ queue \in Seq(Event \cup {DirsEvent}) /\ Seen("delete", place[i]) \in Seq(Event \cup {DirsEvent})
    BY <1>2, <1>5, <1>10 DEF Delete, TypeOK
  <2>2. /\ place' \in [Inode -> {Outside, Absent} \cup Path]
        /\ truth' \in [Inode -> SUBSET Mark]
    BY <1>10 DEF Delete, TypeOK
  <2>. QED
    BY <1>3, <2>1, <2>2
<1>11. ASSUME NEW i \in Inode, NEW m \in Mark, GiveMark(i, m) PROVE TypeOK'
  <2>1. Marks(place[i]) \subseteq Mark
    BY <1>5, <1>11 DEF GiveMark, Marks, TypeOK
  <2>2. row' \in [Path -> {NoRow} \cup SUBSET Mark] /\ truth' \in [Inode -> SUBSET Mark]
    BY <1>11, <2>1 DEF GiveMark, TypeOK
  <2>. QED
    BY <1>11, <2>2 DEF GiveMark, TypeOK, monitor
<1>. QED
  BY <1>1, <1>6, <1>7, <1>8, <1>9, <1>10, <1>11 DEF User

\* A batch and what is left of the queue hold events, as the queue did.
LEMMA SplitQueue ==
  ASSUME NEW S, NEW s \in Seq(S), NEW n \in 1 .. Len(s)
  PROVE  /\ SubSeq(s, 1, n) \in Seq(S)
         /\ SubSeq(s, n + 1, Len(s)) \in Seq(S)
<1>1. \A k \in 1 .. Len(s) : s[k] \in S
  OBVIOUS
<1>. QED
  BY <1>1

LEMMA TypeHandle ==
  ASSUME TypeOK, BufferOrSkip \/ StartRename \/ Reload \/ NoPath \/ FlushLone \/ SelectAgain
                   \/ \E n \in 1 .. Len(queue) : ReadEvents(n)
  PROVE  TypeOK'
<1>1. ASSUME NEW n \in 1 .. Len(queue), ReadEvents(n) PROVE TypeOK'
  <2>1. /\ batch' \in Seq(Event \cup {DirsEvent}) /\ queue' \in Seq(Event \cup {DirsEvent})
        /\ pc = "select" /\ pc' = "handle" /\ buffered' = buffered /\ job' = job
    BY <1>1, SplitQueue DEF ReadEvents, TypeOK
  <2>. QED
    BY <1>1, <2>1 DEF ReadEvents, TypeOK, watches
<1>2. batch # <<>> => /\ Head(batch) \in Event \cup {DirsEvent}
                      /\ Tail(batch) \in Seq(Event \cup {DirsEvent})
                      /\ Head(batch).kind \in {"from", "to"} => Head(batch) \in Event
  BY DEF TypeOK, DirsEvent
<1>3. CASE BufferOrSkip
  <2>1. buffered' \subseteq Event
    BY <1>2, <1>3 DEF BufferOrSkip, TypeOK
  <2>. QED
    BY <1>2, <1>3, <2>1 DEF BufferOrSkip, TypeOK, watches
<1>4. CASE StartRename
  <2>1. PICK h \in HalfOf(Head(batch)) :
          /\ job' = [from |-> h.path, to |-> Head(batch).path, marks |-> {}, missed |-> {}]
          /\ buffered' = buffered \ {h}
    BY <1>4 DEF StartRename
  <2>2. h \in Event /\ Head(batch) \in Event
    BY <1>2, <1>4 DEF StartRename, HalfOf, TypeOK
  <2>3. h.path \in Path /\ Head(batch).path \in Path
    BY <2>2 DEF Event
  <2>4. job' \in Jobs
    BY <2>1, <2>3 DEF Jobs
  <2>5. job' # NoJob
    BY <2>4, NotNoJob
  <2>. QED
    BY <1>2, <1>4, <2>1, <2>4, <2>5 DEF StartRename, TypeOK, watches, Jobs
<1>5. CASE Reload
  <2>1. /\ Cardinality(Unwatched(wds)) \in Nat
        /\ wds' \in [Dir -> 0 .. lastWd + Cardinality(Unwatched(wds))]
        /\ \A d, e \in Dir : wds'[d] = wds'[e] /\ wds'[d] # 0 => d = e
    BY <1>5, NewWatchesApart DEF Reload, TypeOK
  <2>2. lastWd' = lastWd + Cardinality(Unwatched(wds)) /\ buffered' \subseteq Event
    BY <1>5 DEF Reload, TypeOK, Unwatched
  <2>3. wds' \in [Dir -> 0 .. lastWd'] /\ lastWd' \in Nat
    BY <2>1, <2>2 DEF TypeOK
  <2>4. /\ batch # <<>> /\ batch' = Tail(batch) /\ pc = "handle"
        /\ UNCHANGED <<place, row, listed, queue, pc, job, alive, cookies, truth>>
    BY <1>5 DEF Reload
  <2>. QED
    BY <1>2, <2>1, <2>2, <2>3, <2>4 DEF TypeOK
<1>6. CASE NoPath
  BY <1>6, TypeDies DEF NoPath, TypeOK
<1>7. CASE FlushLone
  <2>1. row' \in [Path -> {NoRow} \cup SUBSET Mark] /\ buffered' \subseteq Event
    BY <1>7 DEF FlushLone, TypeOK
  <2>. QED
    BY <1>7, <2>1 DEF FlushLone, TypeOK, watches
<1>8. CASE SelectAgain
  BY <1>8 DEF SelectAgain, Lone, TypeOK, watches
<1>. QED
  BY <1>1, <1>3, <1>4, <1>5, <1>6, <1>7, <1>8

\* The paths of a rename are paths of the watched folders.
LEMMA JobPaths ==
  ASSUME TypeOK, pc \notin {"select", "handle"}
  PROVE  /\ job \in Jobs /\ job # NoJob
         /\ job.from \in Path /\ job.to \in Path /\ Renamed \in Path
         /\ job.from[1] \in Dir /\ job.to[1] \in Dir
<1>1. job \in Jobs /\ job # NoJob
  BY DEF TypeOK, Jobs
<1>. QED
  BY <1>1 DEF Path, Renamed, Jobs

LEMMA TypeMarks == TypeOK => \A p \in Path : Marks(p) \subseteq Mark
BY DEF TypeOK, Marks

LEMMA MarksAfter ==
  ASSUME TypeOK, NEW q \in Path, NEW S \in {NoRow} \cup SUBSET Mark,
         row' = [row EXCEPT ![q] = S]
  PROVE  \A p \in Path : Marks(p)' = IF p = q THEN (IF S = NoRow THEN {} ELSE S) ELSE Marks(p)
BY DEF TypeOK, Marks

LEMMA MarksGrow ==
  ASSUME TypeOK, NEW q \in Path, NEW m \in Mark, row' = [row EXCEPT ![q] = Marks(q) \cup {m}]
  PROVE  \A p \in Path : Marks(p)' = IF p = q THEN Marks(q) \cup {m} ELSE Marks(p)
<1>1. Marks(q) \cup {m} \in SUBSET Mark /\ Marks(q) \cup {m} # NoRow
  BY TypeMarks, ValuesAssumption
<1>. QED
  BY <1>1 DEF TypeOK, Marks

\* A row that is made for a file has no marks yet.
LEMMA MarksSame ==
  ASSUME TypeOK, NEW q \in Path, row' = [row EXCEPT ![q] = Marks(q)]
  PROVE  \A p \in Path : Marks(p)' = Marks(p)
<1>1. Marks(q) \in SUBSET Mark /\ Marks(q) # NoRow
  BY TypeMarks, ValuesAssumption
<1>. QED
  BY <1>1, MarksAfter

Wanted == Marks(job.from) \cap (IF pc = "gettags" THEN Tag ELSE Attr)

\* What a read of marks leaves: each that is there is fetched or missed.
Fetched ==
  /\ job' \in Jobs /\ job'.from = job.from /\ job'.to = job.to
  /\ job'.marks \subseteq Wanted /\ job.missed \subseteq job'.missed
  /\ Wanted \subseteq job'.marks \cup job'.missed
  /\ ~Busy => Wanted \subseteq job'.marks /\ job'.missed = job.missed
  /\ row' \in [Path -> {NoRow} \cup SUBSET Mark]
  /\ \A p \in Path : Marks(p)' = Marks(p)
  /\ pc' = IF pc = "gettags" THEN "settag" ELSE "setattr"

LEMMA FetchCases ==
  ASSUME TypeOK, FetchMarks
  PROVE  (EndRename /\ UNCHANGED row) \/ Fetched
<1>1. job \in Jobs /\ job.from \in Path /\ job.to \in Path
  BY JobPaths DEF FetchMarks
<1>2. CASE (~HasRow(job.from) \/ Busy) /\ EndRename /\ UNCHANGED row
  BY <1>2
<1>3. CASE /\ row' = [row EXCEPT ![job.from] = Marks(job.from)] \/ UNCHANGED row
           /\ \E found \in IF Busy THEN SUBSET Wanted ELSE {Wanted} :
                job' = [job EXCEPT !.marks = found, !.missed = @ \cup (Wanted \ found)]
           /\ pc' = IF pc = "gettags" THEN "settag" ELSE "setattr"
  <2>1. PICK found \in IF Busy THEN SUBSET Wanted ELSE {Wanted} :
          job' = [job EXCEPT !.marks = found, !.missed = @ \cup (Wanted \ found)]
    BY <1>3
  <2>2. found \subseteq Wanted /\ Wanted \subseteq Mark /\ (~Busy => found = Wanted)
    BY <1>1, <2>1, TypeMarks DEF Wanted
  <2>3. /\ job' \in Jobs /\ job'.from = job.from /\ job'.to = job.to
        /\ job'.marks = found /\ job'.missed = job.missed \cup (Wanted \ found)
    BY <1>1, <2>1, <2>2 DEF Jobs
  <2>4. /\ row' \in [Path -> {NoRow} \cup SUBSET Mark]
        /\ \A p \in Path : Marks(p)' = Marks(p)
    <3>1. CASE row' = [row EXCEPT ![job.from] = Marks(job.from)]
      BY <1>1, <3>1, MarksSame, TypeMarks DEF TypeOK
    <3>2. CASE UNCHANGED row
      BY <3>2 DEF TypeOK, Marks
    <3>. QED
      BY <1>3, <3>1, <3>2
  <2>. QED
    BY <1>3, <2>2, <2>3, <2>4 DEF Fetched
<1>. QED
  BY <1>2, <1>3 DEF FetchMarks, Wanted

\* One mark is set or, silently, not set.
Copied(m) ==
  /\ job' \in Jobs /\ job'.from = job.from /\ job'.to = job.to
  /\ job'.marks = job.marks \ {m}
  /\ row' \in [Path -> {NoRow} \cup SUBSET Mark]
  /\ \/ /\ job'.missed = job.missed
        /\ \A p \in Path : Marks(p)' = IF p = job.to THEN Marks(job.to) \cup {m} ELSE Marks(p)
     \/ /\ Busy
        /\ job'.missed = job.missed \cup {m}
        /\ \A p \in Path : Marks(p)' = Marks(p)

LEMMA CopyCases ==
  ASSUME TypeOK, CopyMark
  PROVE  \E m \in job.marks : m \in Mark /\ Copied(m)
<1>1. job \in Jobs /\ job.from \in Path /\ job.to \in Path /\ job.marks \subseteq Mark
  BY JobPaths DEF CopyMark, Jobs
<1>2. PICK m \in job.marks :
        \/ /\ row' = [row EXCEPT ![job.to] = Marks(job.to) \cup {m}]
           /\ job' = [job EXCEPT !.marks = @ \ {m}]
        \/ /\ Busy
           /\ job' = [job EXCEPT !.marks = @ \ {m}, !.missed = @ \cup {m}]
           /\ UNCHANGED row
  BY DEF CopyMark
<1>3. CASE /\ row' = [row EXCEPT ![job.to] = Marks(job.to) \cup {m}]
           /\ job' = [job EXCEPT !.marks = @ \ {m}]
  <2>1. /\ job' \in Jobs /\ job'.from = job.from /\ job'.to = job.to
        /\ job'.marks = job.marks \ {m} /\ job'.missed = job.missed
    BY <1>1, <1>3 DEF Jobs
  <2>2. \A p \in Path : Marks(p)' = IF p = job.to THEN Marks(job.to) \cup {m} ELSE Marks(p)
    BY <1>1, <1>3, MarksGrow
  <2>3. row' \in [Path -> {NoRow} \cup SUBSET Mark]
    <3>1. Marks(job.to) \cup {m} \in SUBSET Mark
      BY <1>1, TypeMarks
    <3>. QED
      BY <1>3, <3>1 DEF TypeOK
  <2>. QED
    BY <1>1, <2>1, <2>2, <2>3 DEF Copied
<1>4. CASE /\ Busy
           /\ job' = [job EXCEPT !.marks = @ \ {m}, !.missed = @ \cup {m}]
           /\ UNCHANGED row
  <2>1. /\ job' \in Jobs /\ job'.from = job.from /\ job'.to = job.to
        /\ job'.marks = job.marks \ {m} /\ job'.missed = job.missed \cup {m}
    BY <1>1, <1>4 DEF Jobs
  <2>2. /\ \A p \in Path : Marks(p)' = Marks(p)
        /\ row' \in [Path -> {NoRow} \cup SUBSET Mark]
    BY <1>4 DEF Marks, TypeOK
  <2>. QED
    BY <1>1, <1>4, <2>1, <2>2 DEF Copied
<1>. QED
  BY <1>2, <1>3, <1>4

LEMMA TypeEndRename ==
  ASSUME TypeOK, alive, pc \notin {"select", "handle"}, FreeUninitialized,
         UNCHANGED <<place, listed, cookies, truth>>,
         row' \in [Path -> {NoRow} \cup SUBSET Mark]
  PROVE  TypeOK'
<1>1. CASE Dies
  BY <1>1, TypeDies
<1>2. CASE EndRename /\ UNCHANGED <<alive, wds, lastWd, queue, batch, buffered>>
  BY <1>2 DEF EndRename, TypeOK
<1>. QED
  BY <1>1, <1>2 DEF FreeUninitialized

LEMMA TypeRename ==
  ASSUME TypeOK, RenameNotFound \/ RenameFails \/ RenameRow \/ FetchMarks \/ CopyMark
                   \/ CopyFails \/ TagsCopied \/ RemoveOld
  PROVE  TypeOK'
<1>1. /\ job \in Jobs /\ Renamed \in Path
      /\ job.from \in Path /\ job.to \in Path
      /\ pc \notin {"select", "handle"} /\ alive /\ job # NoJob
  <2>1. pc \notin {"select", "handle"} /\ alive
    BY DEF RenameNotFound, RenameFails, RenameRow, FetchMarks, CopyMark, CopyFails,
       TagsCopied, RemoveOld
  <2>. QED
    BY <2>1, JobPaths DEF TypeOK
<1>2. CASE RenameNotFound
  BY <1>1, <1>2 DEF RenameNotFound, EndRename, TypeOK, watches
<1>3. CASE RenameFails
  <2>1. row' \in [Path -> {NoRow} \cup SUBSET Mark]
    BY <1>1, <1>3, TypeMarks DEF RenameFails, TypeOK
  <2>. QED
    BY <1>1, <1>3, <2>1, TypeEndRename DEF RenameFails
<1>4. CASE RenameRow
  <2>1. row' \in [Path -> {NoRow} \cup SUBSET Mark]
    BY <1>1, <1>4, TypeMarks DEF RenameRow, TypeOK
  <2>. QED
    BY <1>1, <1>4, <2>1 DEF RenameRow, EndRename, TypeOK, watches
<1>5. CASE FetchMarks
  <2>1. CASE EndRename /\ UNCHANGED row
    BY <1>1, <1>5, <2>1 DEF FetchMarks, EndRename, TypeOK, watches
  <2>2. CASE Fetched
    <3>1. job' \in Jobs /\ job' # NoJob /\ row' \in [Path -> {NoRow} \cup SUBSET Mark]
      BY <2>2, NotNoJob DEF Fetched
    <3>2. pc \in {"gettags", "getattr"} /\ pc' \in {"settag", "setattr"}
      BY <1>5, <2>2 DEF FetchMarks, Fetched
    <3>. QED
      BY <1>5, <3>1, <3>2 DEF FetchMarks, TypeOK, watches, Jobs
  <2>. QED
    BY <1>5, <2>1, <2>2, FetchCases
<1>6. CASE CopyMark
  <2>1. PICK m \in job.marks : m \in Mark /\ Copied(m)
    BY <1>6, CopyCases
  <2>2. job' \in Jobs /\ job' # NoJob /\ row' \in [Path -> {NoRow} \cup SUBSET Mark]
    BY <2>1, NotNoJob DEF Copied
  <2>. QED
    BY <1>1, <1>6, <2>2 DEF CopyMark, TypeOK, watches, Jobs
<1>9. CASE CopyFails
  BY <1>1, <1>9 DEF CopyFails, EndRename, TypeOK, watches
<1>7. CASE TagsCopied
  BY <1>1, <1>7 DEF TagsCopied, TypeOK, watches
<1>8. CASE RemoveOld
  <2>1. row' \in [Path -> {NoRow} \cup SUBSET Mark]
    BY <1>1, <1>8 DEF RemoveOld, TypeOK
  <2>. QED
    BY <1>1, <1>8, <2>1 DEF RemoveOld, EndRename, TypeOK, watches
<1>. QED
  BY <1>2, <1>3, <1>4, <1>5, <1>6, <1>7, <1>8, <1>9

LEMMA TypeStep == TypeOK /\ [Next]_vars => TypeOK'
<1>. SUFFICES ASSUME TypeOK, [Next]_vars PROVE TypeOK'
  OBVIOUS
<1>1. CASE Monitor
  BY <1>1, TypeHandle, TypeRename DEF Monitor
<1>2. CASE User
  BY <1>2, TypeUser
<1>3. CASE Crash
  BY <1>3, TypeDies DEF Crash, TypeOK
<1>4. CASE Restart
  <2>1. /\ listed \subseteq Dir /\ wds' \in NewWatches(NoWatches, 1)
        /\ lastWd' = 1 + Cardinality(listed)
        /\ NoWatches \in [Dir -> 0 .. 1]
        /\ \A d, e \in Dir : NoWatches[d] = NoWatches[e] /\ NoWatches[d] # 0 => d = e
        /\ Unwatched(NoWatches) = listed
    BY <1>4 DEF Restart, FirstWatches, NoWatches, Unwatched, TypeOK
  <2>2. /\ Cardinality(Unwatched(NoWatches)) \in Nat
        /\ wds' \in [Dir -> 0 .. 1 + Cardinality(Unwatched(NoWatches))]
        /\ \A d, e \in Dir : wds'[d] = wds'[e] /\ wds'[d] # 0 => d = e
    BY <2>1, NewWatchesApart, 1 \in Nat
  <2>3. lastWd' = 1 + Cardinality(Unwatched(NoWatches)) /\ lastWd' \in Nat
    BY <2>1, <2>2
  <2>4. wds' \in [Dir -> 0 .. lastWd']
    BY <2>2, <2>3
  <2>5. UNCHANGED <<place, row, listed, queue, batch, buffered, pc, job, cookies, truth>>
        /\ alive' \in BOOLEAN
    BY <1>4 DEF Restart
  <2>. QED
    BY <2>2, <2>3, <2>4, <2>5 DEF TypeOK
<1>5. CASE UNCHANGED vars
  BY <1>5 DEF vars, monitor, TypeOK
<1>. QED
  BY <1>1, <1>2, <1>3, <1>4, <1>5 DEF Next

\* The monitor's tables, events and renames have their types in every state,
\* whatever users, kernel and machine do; no two folders share a watch; nothing
\* waits while the monitor sleeps.
THEOREM TypeCorrect == Spec => []TypeOK
BY TypeInit, TypeStep, PTL DEF Spec

-----------------------------------------------------------------------------
Carrying == pc \notin {"select", "handle"}

HasWatch(e) == e # DirsEvent => e.wd # 0

\* Events are those of watches, which the kernel numbers from 1; the monitor
\* renames between folders it watches, and a dead one does nothing.
Watched ==
  /\ \A k \in 1 .. Len(queue) : HasWatch(queue[k])
  /\ \A k \in 1 .. Len(batch) : HasWatch(batch[k])
  /\ \A h \in buffered : h.wd # 0
  /\ ~alive => pc = "select"
  /\ Carrying => wds[job.from[1]] # 0 /\ wds[job.to[1]] # 0

WatchedInv == TypeOK /\ Watched

LEMMA WatchedInit == Init => Watched
BY DEF Init, Watched, Carrying

LEMMA WatchedDies ==
  ASSUME Dies
  PROVE  Watched'
BY DEF Dies, Watched, Carrying

LEMMA SeenHasWatch ==
  \A k \in {"from", "to", "delete"}, p \in Path :
    \A n \in 1 .. Len(Seen(k, p)) : HasWatch(Seen(k, p)[n])
<1>. SUFFICES ASSUME NEW k \in {"from", "to", "delete"}, NEW p \in Path
              PROVE  \A n \in 1 .. Len(Seen(k, p)) : HasWatch(Seen(k, p)[n])
  OBVIOUS
<1>1. CASE wds[p[1]] = 0
  <2>1. Seen(k, p) = <<>>
    BY <1>1 DEF Seen
  <2>. QED
    BY <2>1
<1>2. CASE wds[p[1]] # 0
  <2>1. Seen(k, p) = <<[kind |-> k, path |-> p, wd |-> wds[p[1]], cookie |-> Cookie]>>
    BY <1>2 DEF Seen
  <2>2. HasWatch([kind |-> k, path |-> p, wd |-> wds[p[1]], cookie |-> Cookie])
    BY <1>2 DEF HasWatch
  <2>. QED
    BY <2>1, <2>2
<1>. QED
  BY <1>1, <1>2

LEMMA AllHaveWatch ==
  ASSUME NEW S, NEW s \in Seq(S), NEW t \in Seq(S),
         \A n \in 1 .. Len(s) : HasWatch(s[n]), \A n \in 1 .. Len(t) : HasWatch(t[n])
  PROVE  \A n \in 1 .. Len(s \o t) : HasWatch((s \o t)[n])
<1>. SUFFICES ASSUME NEW n \in 1 .. Len(s \o t) PROVE HasWatch((s \o t)[n])
  OBVIOUS
<1>1. CASE n <= Len(s)
  <2>1. (s \o t)[n] = s[n]
    BY <1>1
  <2>. QED
    BY <1>1, <2>1
<1>2. CASE n > Len(s)
  <2>1. (s \o t)[n] = t[n - Len(s)] /\ n - Len(s) \in 1 .. Len(t)
    BY <1>2
  <2>. QED
    BY <2>1
<1>. QED
  BY <1>1, <1>2

LEMMA SeenTyped ==
  ASSUME TypeOK
  PROVE  \A p \in Path, k \in {"from", "to", "delete"} : Seen(k, p) \in Seq(Event)
<1>1. SUFFICES ASSUME NEW p \in Path, NEW k \in {"from", "to", "delete"}
               PROVE  Seen(k, p) \in Seq(Event)
  OBVIOUS
<1>2. wds[p[1]] \in Nat /\ Cookie \in Nat
  BY DEF TypeOK, Path, Cookie
<1>3. [kind |-> k, path |-> p, wd |-> wds[p[1]], cookie |-> Cookie] \in Event
  BY <1>2 DEF Event
<1>4. <<[kind |-> k, path |-> p, wd |-> wds[p[1]], cookie |-> Cookie]>> \in Seq(Event)
  BY <1>3
<1>5. CASE wds[p[1]] = 0
  <2>1. Seen(k, p) = <<>>
    BY <1>5 DEF Seen
  <2>. QED
    BY <2>1
<1>6. CASE wds[p[1]] # 0
  <2>1. Seen(k, p) = <<[kind |-> k, path |-> p, wd |-> wds[p[1]], cookie |-> Cookie]>>
    BY <1>6 DEF Seen
  <2>. QED
    BY <1>4, <2>1
<1>. QED
  BY <1>5, <1>6

LEMMA WatchedUser ==
  ASSUME WatchedInv, User
  PROVE  Watched'
<1> DEFINE Item == Event \cup {DirsEvent}
<1>1. SUFFICES \A k \in 1 .. Len(queue') : HasWatch(queue'[k])
  <2>1. UNCHANGED monitor /\ UNCHANGED alive
    BY DEF User, Relist, Move, MoveIn, MoveOut, Create, Delete, GiveMark, UserActs
  <2>. QED
    BY <2>1 DEF WatchedInv, Watched, monitor, Carrying, HasWatch
<1>2. queue \in Seq(Item) /\ \A k \in 1 .. Len(queue) : HasWatch(queue[k])
  BY DEF WatchedInv, TypeOK, Watched
<1>3. ASSUME NEW s \in Seq(Item), \A k \in 1 .. Len(s) : HasWatch(s[k]), queue' = queue \o s
      PROVE  \A k \in 1 .. Len(queue') : HasWatch(queue'[k])
  BY <1>2, <1>3, AllHaveWatch
<1>4. \A p \in Path, k \in {"from", "to", "delete"} : Seen(k, p) \in Seq(Item)
  <2>1. \A p \in Path, k \in {"from", "to", "delete"} : Seen(k, p) \in Seq(Event)
    BY SeenTyped DEF WatchedInv
  <2>. QED
    BY <2>1
<1>5. \A i \in Inode : Inside(i) => place[i] \in Path
  BY DEF WatchedInv, TypeOK, Inside
<1>6. ASSUME NEW d \in Dir, Relist(d) PROVE \A k \in 1 .. Len(queue') : HasWatch(queue'[k])
  <2>1. queue' = queue \/ queue' = Append(queue, DirsEvent)
    BY <1>6 DEF Relist
  <2>. QED
    BY <1>2, <2>1 DEF HasWatch
<1>7. ASSUME NEW i \in Inode, NEW p \in Path, Move(i, p)
      PROVE  \A k \in 1 .. Len(queue') : HasWatch(queue'[k])
  <2>1. /\ place[i] \in Path
        /\ queue' = queue \o Seen("from", place[i]) \o Seen("to", p)
    BY <1>5, <1>7 DEF Move
  <2>2. /\ Seen("from", place[i]) \in Seq(Item) /\ Seen("to", p) \in Seq(Item)
        /\ queue \o Seen("from", place[i]) \in Seq(Item)
    BY <1>2, <1>4, <2>1
  <2>3. \A k \in 1 .. Len(queue \o Seen("from", place[i])) :
           HasWatch((queue \o Seen("from", place[i]))[k])
    BY <1>2, <2>1, <2>2, SeenHasWatch, AllHaveWatch
  <2>. QED
    BY <2>1, <2>2, <2>3, SeenHasWatch, AllHaveWatch
<1>8. ASSUME NEW i \in Inode, NEW p \in Path, MoveIn(i, p)
      PROVE  \A k \in 1 .. Len(queue') : HasWatch(queue'[k])
  BY <1>3, <1>4, <1>8, SeenHasWatch DEF MoveIn
<1>9. ASSUME NEW i \in Inode, MoveOut(i)
      PROVE  \A k \in 1 .. Len(queue') : HasWatch(queue'[k])
  BY <1>3, <1>4, <1>5, <1>9, SeenHasWatch DEF MoveOut
<1>10. ASSUME NEW i \in Inode, Delete(i)
       PROVE  \A k \in 1 .. Len(queue') : HasWatch(queue'[k])
  BY <1>3, <1>4, <1>5, <1>10, SeenHasWatch DEF Delete
<1>11. ASSUME NEW i \in Inode, UNCHANGED queue
       PROVE  \A k \in 1 .. Len(queue') : HasWatch(queue'[k])
  BY <1>2, <1>11
<1>. QED
  BY <1>6, <1>7, <1>8, <1>9, <1>10, <1>11 DEF User, Create, GiveMark

\* The monitor works only on rows of folders it watches.
LEMMA RenamesWatched ==
  ASSUME WatchedInv, Carrying
  PROVE  /\ wds[job.from[1]] # 0 /\ wds[job.to[1]] # 0 /\ wds[Renamed[1]] # 0
         /\ job.from \in Path /\ job.to \in Path /\ Renamed \in Path
BY JobPaths DEF WatchedInv, Watched, Carrying, Renamed

LEMMA WatchedStep == WatchedInv /\ [Next]_vars => Watched'
<1>. SUFFICES ASSUME WatchedInv, [Next]_vars PROVE Watched'
  OBVIOUS
<1>1. batch # <<>> => /\ Head(batch) \in Event \cup {DirsEvent}
                      /\ HasWatch(Head(batch))
                      /\ \A k \in 1 .. Len(Tail(batch)) : HasWatch(Tail(batch)[k])
                      /\ Head(batch).kind \in {"from", "to", "delete"} => Head(batch).wd # 0
  BY DEF WatchedInv, TypeOK, Watched, HasWatch, DirsEvent
<1>2. ASSUME NEW n \in 1 .. Len(queue), ReadEvents(n) PROVE Watched'
  <2>1. \A k \in 1 .. Len(batch') : HasWatch(batch'[k])
    BY <1>2 DEF ReadEvents, WatchedInv, TypeOK, Watched
  <2>2. \A k \in 1 .. Len(queue') : HasWatch(queue'[k])
    BY <1>2 DEF ReadEvents, WatchedInv, TypeOK, Watched
  <2>. QED
    BY <1>2, <2>1, <2>2 DEF ReadEvents, WatchedInv, Watched, Carrying
<1>3. CASE BufferOrSkip
  <2>1. \A h \in buffered' : h.wd # 0
    BY <1>1, <1>3 DEF BufferOrSkip, WatchedInv, Watched
  <2>. QED
    BY <1>1, <1>3, <2>1 DEF BufferOrSkip, WatchedInv, Watched, Carrying, watches
<1>4. CASE StartRename
  <2>1. PICK h \in HalfOf(Head(batch)) :
          /\ Known(h)
          /\ job' = [from |-> h.path, to |-> Head(batch).path, marks |-> {}, missed |-> {}]
          /\ buffered' = buffered \ {h}
    BY <1>4 DEF StartRename
  <2>2. wds[job'.from[1]] # 0 /\ wds[job'.to[1]] # 0
    BY <1>1, <1>4, <2>1 DEF StartRename, Known, HalfOf, WatchedInv, Watched
  <2>. QED
    BY <1>1, <1>4, <2>1, <2>2 DEF StartRename, WatchedInv, Watched, Carrying, watches
<1>5. CASE Reload
  <2>1. \A h \in buffered' : h.wd # 0
    BY <1>5 DEF Reload, WatchedInv, Watched
  <2>. QED
    BY <1>1, <1>5, <2>1 DEF Reload, WatchedInv, Watched, Carrying
<1>6. CASE NoPath
  BY <1>6, WatchedDies DEF NoPath
<1>7. CASE RenameNotFound
  BY <1>7 DEF RenameNotFound, EndRename, WatchedInv, Watched, Carrying, watches
<1>8. CASE RenameFails
  <2>1. CASE Dies
    BY <2>1, WatchedDies
  <2>2. CASE EndRename /\ UNCHANGED <<alive, wds, lastWd, queue, batch, buffered>>
    BY <1>8, <2>2 DEF RenameFails, EndRename, WatchedInv, Watched, Carrying
  <2>. QED
    BY <1>8, <2>1, <2>2 DEF RenameFails, FreeUninitialized
<1>9. CASE RenameRow
  BY <1>9 DEF RenameRow, EndRename, WatchedInv, Watched, Carrying, watches
<1>10. CASE FetchMarks
  <2>1. \/ pc' = "handle"
        \/ job'.from = job.from /\ job'.to = job.to
    BY <1>10, FetchCases DEF WatchedInv, Fetched, EndRename
  <2>. QED
    BY <1>10, <2>1 DEF FetchMarks, EndRename, WatchedInv, Watched, Carrying, watches
<1>11. CASE CopyMark
  <2>1. job'.from = job.from /\ job'.to = job.to
    BY <1>11, CopyCases DEF WatchedInv, Copied
  <2>. QED
    BY <1>11, <2>1 DEF CopyMark, WatchedInv, Watched, Carrying, watches
<1>12. CASE TagsCopied
  BY <1>12 DEF TagsCopied, WatchedInv, Watched, Carrying, watches
<1>13. CASE RemoveOld
  BY <1>13 DEF RemoveOld, EndRename, WatchedInv, Watched, Carrying, watches
<1>14. CASE FlushLone
  <2>1. \A h \in buffered' : h.wd # 0
    BY <1>14 DEF FlushLone, WatchedInv, Watched
  <2>. QED
    BY <1>14, <2>1 DEF FlushLone, WatchedInv, Watched, Carrying, watches
<1>15. CASE SelectAgain
  BY <1>15 DEF SelectAgain, WatchedInv, Watched, Carrying, watches
<1>16. CASE User
  BY <1>16, WatchedUser
<1>17. CASE Crash
  BY <1>17, WatchedDies DEF Crash
<1>18. CASE Restart
  BY <1>18 DEF Restart, WatchedInv, Watched, Carrying
<1>20. CASE CopyFails
  BY <1>20 DEF CopyFails, EndRename, WatchedInv, Watched, Carrying, watches
<1>19. CASE UNCHANGED vars
  BY <1>19 DEF vars, monitor, WatchedInv, Watched, Carrying
<1>. QED
  BY <1>2, <1>3, <1>4, <1>5, <1>6, <1>7, <1>8, <1>9, <1>10, <1>11, <1>12, <1>13, <1>14,
     <1>15, <1>16, <1>17, <1>18, <1>19, <1>20 DEF Next, Monitor

LEMMA WatchedCorrect == Spec => []WatchedInv
<1>1. Init => WatchedInv
  BY TypeInit, WatchedInit DEF WatchedInv
<1>2. WatchedInv /\ [Next]_vars => WatchedInv'
  BY TypeStep, WatchedStep DEF WatchedInv
<1>. QED
  BY <1>1, <1>2, PTL DEF Spec

-----------------------------------------------------------------------------
\* Clients tag files only while the monitor has nothing to do.
ClientsWait == "tag" \notin Env

LeftAlone == \A p \in Path : pc # "select" /\ row[p]' # row[p] => wds[p[1]] # 0

\* Only the steps of a rename and the flush of lone halves write to databases.
LEMMA WhoWrites ==
  ASSUME WatchedInv, ClientsWait, [Next]_vars, pc # "select", row' # row
  PROVE  RenameFails \/ RenameRow \/ FetchMarks \/ CopyMark \/ RemoveOld \/ FlushLone
<1>1. CASE User
  BY <1>1 DEF User, Relist, Move, MoveIn, MoveOut, Create, Delete, GiveMark, UserActs, Settled,
              ClientsWait
<1>2. CASE Monitor
  BY <1>2 DEF Monitor, ReadEvents, BufferOrSkip, StartRename, Reload, NoPath, RenameNotFound,
              CopyFails, TagsCopied, SelectAgain
<1>3. CASE Crash \/ Restart
  BY <1>3 DEF Crash, Restart
<1>. QED
  BY <1>1, <1>2, <1>3 DEF Next, vars

LEMMA UnlistedStep ==
  ASSUME WatchedInv, ClientsWait, [Next]_vars
  PROVE  LeftAlone
<1>. SUFFICES ASSUME NEW p \in Path, pc # "select", row'[p] # row[p] PROVE wds[p[1]] # 0
  BY DEF LeftAlone
<1>0. row \in [Path -> {NoRow} \cup SUBSET Mark]
  BY DEF WatchedInv, TypeOK
<1>1. CASE RenameFails
  <2>1. Carrying
    BY <1>1 DEF RenameFails, Carrying
  <2>2. p = Renamed
    BY <1>0, <1>1 DEF RenameFails
  <2>. QED
    BY <2>1, <2>2, RenamesWatched
<1>2. CASE RenameRow
  <2>1. Carrying
    BY <1>2 DEF RenameRow, Carrying
  <2>2. p = Renamed \/ p = job.to
    BY <1>2 DEF RenameRow
  <2>. QED
    BY <2>1, <2>2, RenamesWatched
<1>3. CASE FetchMarks
  <2>1. Carrying
    BY <1>3 DEF FetchMarks, Carrying
  <2>2. p = job.from
    BY <1>0, <1>3 DEF FetchMarks
  <2>. QED
    BY <2>1, <2>2, RenamesWatched
<1>4. CASE CopyMark
  <2>1. Carrying
    BY <1>4 DEF CopyMark, Carrying
  <2>2. p = job.to
    BY <1>0, <1>4 DEF CopyMark
  <2>. QED
    BY <2>1, <2>2, RenamesWatched
<1>5. CASE RemoveOld
  <2>1. Carrying
    BY <1>5 DEF RemoveOld, Carrying
  <2>2. p = job.from
    BY <1>0, <1>5 DEF RemoveOld
  <2>. QED
    BY <2>1, <2>2, RenamesWatched
<1>6. CASE FlushLone
  <2>1. PICK h \in buffered : Known(h) /\ (p = h.path \/ row' = row)
    BY <1>0, <1>6 DEF FlushLone, Lone
  <2>2. h.wd # 0 /\ p = h.path
    BY <2>1 DEF WatchedInv, Watched
  <2>. QED
    BY <2>1, <2>2 DEF Known
<1>. QED
  BY <1>1, <1>2, <1>3, <1>4, <1>5, <1>6, WhoWrites

\* A folder whose watch was removed is left alone, whatever was queued, read or
\* paired for it before, as long as its own clients do not write meanwhile.
THEOREM UnlistedCorrect == ClientsWait => (Spec => UnlistedLeftAlone)
<1>. SUFFICES ASSUME ClientsWait PROVE Spec => UnlistedLeftAlone
  OBVIOUS
<1>1. WatchedInv /\ [Next]_vars => [LeftAlone]_vars
  BY UnlistedStep
<1>. QED
  BY <1>1, WatchedCorrect, PTL DEF Spec, UnlistedLeftAlone, LeftAlone

-----------------------------------------------------------------------------
Copying == pc \in {"gettags", "settag", "getattr", "setattr"}

\* What has been copied, what is still to be copied and what was missed are
\* together the marks that the old row has; only a busy statement misses one.
CopyInv ==
  /\ Copying => job.from[1] # job.to[1]
  /\ pc = "settag" => Marks(job.from) \cap Tag \subseteq job.marks \cup Marks(job.to) \cup job.missed
  /\ pc \in {"getattr", "setattr"} => Marks(job.from) \cap Tag \subseteq Marks(job.to) \cup job.missed
  /\ pc = "setattr" => Marks(job.from) \cap Attr \subseteq job.marks \cup Marks(job.to) \cup job.missed
  /\ ~Busy => job.missed = {}

LEMMA CopyStep ==
  ASSUME WatchedInv, ClientsWait, CopyInv, [Next]_vars
  PROVE  CopyInv'
<1>0. TypeOK
  BY DEF WatchedInv
<1>1. ASSUME pc' \in {"select", "handle", "rename"}, job'.missed = {} \/ UNCHANGED job
      PROVE  CopyInv'
  BY <1>1 DEF CopyInv, Copying, Busy
<1>2. CASE UNCHANGED <<pc, job, row>>
  BY <1>2 DEF CopyInv, Copying, Marks, Busy
<1>3. CASE RenameRow
  <2>1. CASE job.to[1] # job.from[1] /\ pc' = "gettags" /\ UNCHANGED job
    BY <2>1 DEF CopyInv, Copying, Busy
  <2>. QED
    BY <1>1, <1>3, <2>1 DEF RenameRow, EndRename, NoJob
<1>4. CASE FetchMarks
  <2>1. job \in Jobs /\ job.from \in Path /\ job.to \in Path
    BY <1>0, <1>4, JobPaths DEF FetchMarks
  <2>2. CASE EndRename
    BY <1>1, <2>2 DEF EndRename, NoJob
  <2>3. CASE Fetched
    <3>1. Marks(job.from)' = Marks(job.from) /\ Marks(job.to)' = Marks(job.to)
      BY <2>1, <2>3 DEF Fetched, Marks
    <3>2. /\ pc \in {"gettags", "getattr"} /\ job.from[1] # job.to[1]
          /\ job'.from = job.from /\ job'.to = job.to /\ Wanted \subseteq job'.marks \cup job'.missed
          /\ job.missed \subseteq job'.missed
      BY <1>4, <2>3 DEF FetchMarks, Fetched, CopyInv, Copying
    <3>3. ~Busy => job'.missed = {}
      BY <2>3 DEF Fetched, CopyInv
    <3>4. CASE pc = "gettags"
      <4>1. pc' = "settag" /\ Marks(job.from) \cap Tag \subseteq job'.marks \cup job'.missed
        BY <2>3, <3>2, <3>4 DEF Fetched, Wanted
      <4>. QED
        BY <3>1, <3>2, <3>3, <4>1 DEF CopyInv, Copying, Busy
    <3>5. CASE pc = "getattr"
      <4>1. /\ pc' = "setattr" /\ Marks(job.from) \cap Attr \subseteq job'.marks \cup job'.missed
            /\ Marks(job.from) \cap Tag \subseteq Marks(job.to) \cup job'.missed
        BY <2>3, <3>2, <3>5 DEF Fetched, Wanted, CopyInv
      <4>. QED
        BY <3>1, <3>2, <3>3, <4>1 DEF CopyInv, Copying, Busy
    <3>. QED
      BY <3>2, <3>4, <3>5
  <2>. QED
    BY <1>0, <1>4, <2>2, <2>3, FetchCases
<1>5. CASE CopyMark
  <2>1. job \in Jobs /\ job.from \in Path /\ job.to \in Path
    BY <1>0, <1>5, JobPaths DEF CopyMark
  <2>2. PICK m \in job.marks : m \in Mark /\ Copied(m)
    BY <1>0, <1>5, CopyCases
  <2>3. job'.from = job.from /\ job'.to = job.to /\ job'.marks = job.marks \ {m}
    BY <2>2 DEF Copied
  <2>4. job.from # job.to
    BY <1>5 DEF CopyMark, CopyInv, Copying
  <2>5. CASE /\ job'.missed = job.missed
             /\ \A p \in Path : Marks(p)' = IF p = job.to THEN Marks(job.to) \cup {m}
                                            ELSE Marks(p)
    <3>1. Marks(job.from)' = Marks(job.from) /\ Marks(job.to)' = Marks(job.to) \cup {m}
      BY <2>1, <2>3, <2>4, <2>5 DEF Marks
    <3>. QED
      BY <1>5, <2>3, <2>5, <3>1 DEF CopyMark, CopyInv, Copying, Busy
  <2>6. CASE /\ Busy
             /\ job'.missed = job.missed \cup {m}
             /\ \A p \in Path : Marks(p)' = Marks(p)
    <3>1. Marks(job.from)' = Marks(job.from) /\ Marks(job.to)' = Marks(job.to)
      BY <2>1, <2>3, <2>6 DEF Marks
    <3>. QED
      BY <1>5, <2>3, <2>6, <3>1 DEF CopyMark, CopyInv, Copying, Busy
  <2>. QED
    BY <2>2, <2>5, <2>6 DEF Copied
<1>6. CASE TagsCopied
  BY <1>6 DEF TagsCopied, AllCopied, CopyInv, Copying, Marks, Busy
<1>7. ASSUME NEW i \in Inode, NEW m \in Mark, GiveMark(i, m) PROVE CopyInv'
  BY <1>1, <1>7 DEF GiveMark, ClientsWait, Settled, monitor
<1>8. CASE User
  BY <1>2, <1>7, <1>8 DEF User, Relist, Move, MoveIn, MoveOut, Create, Delete, UserActs, monitor
<1>9. CASE StartRename
  <2>1. pc' = "rename" /\ job'.missed = {}
    BY <1>9 DEF StartRename
  <2>. QED
    BY <1>1, <2>1
<1>10. CASE Monitor
  BY <1>1, <1>3, <1>4, <1>5, <1>6, <1>9, <1>10
  DEF Monitor, ReadEvents, BufferOrSkip, Reload, NoPath, Dies, RenameNotFound, EndRename, NoJob,
      RenameFails, FreeUninitialized, CopyFails, RemoveOld, FlushLone, SelectAgain
<1>11. CASE Crash \/ Restart
  BY <1>1, <1>2, <1>11 DEF Crash, Dies, NoJob, Restart
<1>. QED
  BY <1>2, <1>8, <1>10, <1>11 DEF Next, vars, monitor

Kept ==
  \A m \in Mark :
    (\E p \in Path : m \in Marks(p)) /\ (\A p \in Path : m \notin Marks(p)')
      => \/ \E h \in buffered : h.kind = "from" /\ m \in Marks(h.path)
         \/ m \in job.missed /\ m \in Marks(job.from)

LEMMA KeptStep ==
  ASSUME WatchedInv, ClientsWait, CopyInv, [Next]_vars
  PROVE  Kept
<1>0. TypeOK
  BY DEF WatchedInv
<1>. SUFFICES ASSUME NEW m \in Mark, NEW p \in Path, m \in Marks(p),
                     \A q \in Path : m \notin Marks(q)'
              PROVE  \/ \E h \in buffered : h.kind = "from" /\ m \in Marks(h.path)
                     \/ m \in job.missed /\ m \in Marks(job.from)
  BY DEF Kept
<1>1. CASE \A q \in Path : Marks(q) \subseteq Marks(q)'
  BY <1>1
<1>2. CASE row' = row
  BY <1>1, <1>2 DEF Marks
<1>3. ASSUME NEW i \in Inode, NEW n \in Mark, GiveMark(i, n) PROVE FALSE
  <2>1. place[i] \in Path
    BY <1>0, <1>3 DEF GiveMark, Inside, TypeOK
  <2>3. row' = [row EXCEPT ![place[i]] = Marks(place[i]) \cup {n}]
    BY <1>3 DEF GiveMark
  <2>4. \A q \in Path :
          Marks(q)' = IF q = place[i] THEN Marks(place[i]) \cup {n} ELSE Marks(q)
    BY <1>0, <2>1, <2>3, MarksGrow
  <2>. QED
    BY <2>4
<1>4. ASSUME Carrying PROVE job.from \in Path /\ job.to \in Path /\ Renamed \in Path
  BY <1>0, <1>4, JobPaths DEF Carrying
<1>5. CASE RenameFails
  <2>1. row' = row \/ row' = [row EXCEPT ![Renamed] = Marks(Renamed)]
    BY <1>5 DEF RenameFails
  <2>2. Renamed \in Path
    BY <1>4, <1>5 DEF RenameFails, Carrying
  <2>. QED
    BY <1>0, <1>1, <1>2, <2>1, <2>2, MarksSame
<1>6. CASE RenameRow
  <2>1. Renamed \in Path /\ job.to \in Path
    BY <1>4, <1>6 DEF RenameRow, Carrying
  <2>2. Marks(Renamed) \in SUBSET Mark /\ Marks(Renamed) # NoRow
    BY <1>0, <2>1, TypeMarks, ValuesAssumption
  <2>3. \A q \in Path : row'[q] = IF q = job.to THEN Marks(Renamed)
                                 ELSE IF q = Renamed THEN NoRow ELSE row[q]
    BY <1>6 DEF RenameRow
  <2>4. \A q \in Path : Marks(q)' = IF row'[q] = NoRow THEN {} ELSE row'[q]
    BY DEF Marks
  <2>5. m \notin Marks(Renamed) /\ p # Renamed
    BY <2>1, <2>2, <2>3, <2>4
  <2>6. p # job.to
    BY <1>6, <2>5 DEF RenameRow, Marks
  <2>7. Marks(p)' = Marks(p)
    BY <2>3, <2>4, <2>5, <2>6 DEF Marks
  <2>. QED
    BY <2>7
<1>7. CASE FetchMarks
  BY <1>0, <1>1, <1>2, <1>7, FetchCases DEF Fetched
<1>8. CASE CopyMark
  <2>1. PICK n \in job.marks : Copied(n)
    BY <1>0, <1>8, CopyCases
  <2>. QED
    BY <1>1, <2>1 DEF Copied
<1>9. CASE RemoveOld
  <2>1. job.from \in Path /\ job.to \in Path
    BY <1>4, <1>9 DEF RemoveOld, Carrying
  <2>2. CASE row' = [row EXCEPT ![job.from] = NoRow]
    <3>1. \A q \in Path : Marks(q)' = IF q = job.from THEN {} ELSE Marks(q)
      BY <1>0, <2>1, <2>2, MarksAfter
    <3>2. p = job.from
      BY <3>1
    <3>3. Marks(job.from) \subseteq Tag \cup Attr
      BY <1>0, <2>1, TypeMarks DEF Mark
    <3>4. job.to # job.from /\ Marks(job.from) \subseteq Marks(job.to) \cup job.missed
      BY <1>9, <3>3 DEF RemoveOld, AllCopied, CopyInv, Copying
    <3>. QED
      BY <2>1, <3>1, <3>2, <3>4
  <2>. QED
    BY <1>2, <1>9, <2>2 DEF RemoveOld
<1>10. CASE FlushLone
  <2>1. PICK h \in buffered : \/ h.kind = "from" /\ row' = [row EXCEPT ![h.path] = NoRow]
                             \/ row' = row
    BY <1>10 DEF FlushLone, Lone
  <2>2. h.path \in Path
    BY <1>0, <2>1 DEF TypeOK, Event
  <2>3. CASE h.kind = "from" /\ row' = [row EXCEPT ![h.path] = NoRow]
    <3>1. \A q \in Path : Marks(q)' = IF q = h.path THEN {} ELSE Marks(q)
      BY <1>0, <2>2, <2>3, MarksAfter
    <3>. QED
      BY <2>1, <2>3, <3>1
  <2>. QED
    BY <1>2, <2>1, <2>3
<1>11. CASE Monitor
  BY <1>2, <1>5, <1>6, <1>7, <1>8, <1>9, <1>10, <1>11
  DEF Monitor, ReadEvents, BufferOrSkip, StartRename, Reload, NoPath, RenameNotFound, CopyFails,
      TagsCopied, SelectAgain
<1>12. CASE User
  BY <1>2, <1>3, <1>12 DEF User, Relist, Move, MoveIn, MoveOut, Create, Delete, UserActs
<1>. QED
  BY <1>2, <1>11, <1>12 DEF Next, Crash, Restart, vars

\* A move between two folders copies before it removes: as long as clients do not
\* tag files meanwhile, no crash, failed rename or reload loses a mark, and a
\* statement that meets the lock of another process only one that the copy
\* passed over.
THEOREM MarksCorrect == ClientsWait => (Spec => MarksNotLost)
<1>. SUFFICES ASSUME ClientsWait PROVE Spec => MarksNotLost
  OBVIOUS
<1>1. Init => CopyInv
  BY DEF Init, CopyInv, Copying, NoJob
<1>2. WatchedInv /\ CopyInv /\ [Next]_vars => CopyInv'
  BY CopyStep
<1>3. WatchedInv /\ CopyInv /\ [Next]_vars => [Kept]_vars
  BY KeptStep
<1>. QED
  BY <1>1, <1>2, <1>3, WatchedCorrect, PTL DEF Spec, MarksNotLost, Kept

-----------------------------------------------------------------------------
\* The regular case: users and clients act when the monitor has caught up, names
\* are free when they are taken, and nothing fails.
RegularCase == Env = {}

Follows(i) == Marks(place[i]) = truth[i]

AllFollow == \A i \in Inode : Inside(i) => Follows(i)

\* The file at p was at q until now, and its marks still are.
Pending(q, p) ==
  /\ q \in Path /\ p \in Path /\ q # p /\ (q[1] = p[1] \/ q[2] = p[2])
  /\ OnDisk(p) /\ ~OnDisk(q)
  /\ \A i \in Inode : Inside(i) => IF place[i] = p THEN truth[i] = Marks(q) ELSE Follows(i)

Proper(e) == e \in Event /\ Known(e)

\* An event that does not come with another, and whose file's marks are in order.
Single(e) == Proper(e) /\ AllFollow /\ (e.kind = "from" => ~OnDisk(e.path))

\* The two events of a move.
Halves(h, e) ==
  /\ Proper(h) /\ h.kind = "from"
  /\ Proper(e) /\ e.kind = "to" /\ e.cookie = h.cookie
  /\ Pending(h.path, e.path) /\ row[e.path] = NoRow

\* What the one operation that is not yet handled has left to be read.
Expect(s) ==
  \/ s = <<>> /\ AllFollow
  \/ Len(s) = 1 /\ Single(s[1])
  \/ Len(s) = 2 /\ Halves(s[1], s[2])

NothingRead == batch = <<>> /\ buffered = {}

\* How far the monitor is with it.
Sleeping == pc = "select" /\ NothingRead /\ Expect(queue)
Reading == pc = "handle" /\ buffered = {} /\ Expect(batch)
Pairing == pc = "handle" /\ Len(batch) = 1 /\ \E h \in buffered : buffered = {h} /\ Halves(h, batch[1])
Flushing == pc = "handle" /\ batch = <<>> /\ \E h \in buffered : buffered = {h} /\ Single(h)
Renaming ==
  /\ pc = "rename" /\ NothingRead /\ Pending(job.from, job.to)
  /\ row[job.to] = NoRow /\ job.marks = {}
CopyingMarks ==
  /\ Copying /\ NothingRead /\ Pending(job.from, job.to)
  /\ Marks(job.to) \subseteq Marks(job.from) /\ job.marks \subseteq Marks(job.from)

FollowInv ==
  /\ alive /\ \A d \in Dir : wds[d] # 0
  /\ \A i, j \in Inode : place[i] = place[j] /\ Inside(i) => i = j
  /\ \A i \in Inode : ~Inside(i) => truth[i] = {}
  /\ pc # "select" => queue = <<>>
  /\ Sleeping \/ Reading \/ Pairing \/ Flushing \/ Renaming \/ CopyingMarks

LEMMA FollowInit == Init => FollowInv
<1>. SUFFICES ASSUME Init PROVE FollowInv
  OBVIOUS
<1>1. \A d \in Dir : wds[d] # 0
  <2>1. /\ listed = Dir /\ wds \in NewWatches(NoWatches, 1)
        /\ NoWatches \in [Dir -> 0 .. 1]
        /\ \A d, e \in Dir : NoWatches[d] = NoWatches[e] /\ NoWatches[d] # 0 => d = e
    BY DEF Init, FirstWatches, NoWatches
  <2>2. \A d \in Dir : wds[d] # 0 <=> d \in listed
    BY <2>1, NewWatchesApart, 1 \in Nat
  <2>. QED
    BY <2>1, <2>2
<1>2. \A i \in Inode : Inside(i) => Follows(i)
  BY DEF Init, Inside, Follows, Marks
<1>3. Sleeping
  BY <1>2 DEF Init, Sleeping, NothingRead, Expect, AllFollow
<1>. QED
  BY <1>1, <1>3 DEF Init, FollowInv

LEMMA Halved ==
  ASSUME TypeOK, FollowInv, NEW k \in {"from", "to", "delete"}, NEW p \in Path
  PROVE  \E e \in Event : /\ Seen(k, p) = <<e>> /\ e.kind = k /\ e.path = p
                          /\ e.cookie = Cookie /\ Known(e)
<1> DEFINE e == [kind |-> k, path |-> p, wd |-> wds[p[1]], cookie |-> Cookie]
<1>1. wds[p[1]] \in Nat /\ Cookie \in Nat /\ wds[p[1]] # 0
  BY DEF TypeOK, Path, Cookie, FollowInv
<1>2. e \in Event
  BY <1>1 DEF Event
<1>3. Seen(k, p) = <<e>> /\ Known(e)
  BY <1>1 DEF Seen, Known
<1>. QED
  BY <1>2, <1>3

FollowAll == TypeOK /\ FollowInv /\ CopyInv

LEMMA SettledFollows ==
  ASSUME FollowAll, Settled
  PROVE  AllFollow /\ NothingRead
BY DEF FollowAll, FollowInv, Settled, Sleeping, Reading, Pairing, Flushing, Renaming, CopyingMarks,
       Copying, Expect

\* The places and histories after a file was put at a free name.
LEMMA AfterPut ==
  ASSUME FollowAll, RegularCase, Settled, row' = row, NEW i \in Inode, NEW p \in Path,
         PutAt(i, p), place[i] # p
  PROVE  /\ row[p] = NoRow /\ ~OnDisk(p)
         /\ place' = [place EXCEPT ![i] = p]
         /\ truth' = truth
         /\ \A j \in Inode : Inside(j)' <=> j = i \/ Inside(j)
         /\ \A j, k \in Inode : place'[j] = place'[k] /\ Inside(j)' => j = k
         /\ OnDisk(p)'
         /\ \A q \in Path : Marks(q)' = Marks(q)
<1>1. /\ ~OnDisk(p) /\ row[p] = NoRow
      /\ place' = [j \in Inode |-> IF j = i THEN p ELSE IF place[j] = p THEN Absent ELSE place[j]]
      /\ truth' = [j \in Inode |-> IF Inside(j)' THEN truth[j] ELSE {}]
  BY DEF PutAt, RegularCase
<1>2. place' = [place EXCEPT ![i] = p]
  BY <1>1 DEF FollowAll, TypeOK, OnDisk
<1>3. p \notin {Outside, Absent}
  BY ValuesAssumption DEF Path
<1>4. \A j \in Inode : Inside(j)' <=> j = i \/ Inside(j)
  BY <1>2, <1>3 DEF FollowAll, TypeOK, Inside
<1>5. truth' = truth
  BY <1>1, <1>4 DEF FollowAll, TypeOK, FollowInv
<1>6. \A j, k \in Inode : place'[j] = place'[k] /\ Inside(j)' => j = k
  BY <1>1, <1>2, <1>3, <1>4 DEF FollowAll, TypeOK, FollowInv, OnDisk
<1>7. OnDisk(p)'
  BY <1>2 DEF OnDisk, FollowAll, TypeOK
<1>8. \A q \in Path : Marks(q)' = Marks(q)
  BY DEF Marks
<1>. QED
  BY <1>1, <1>2, <1>4, <1>5, <1>6, <1>7, <1>8

LEMMA FollowUser ==
  ASSUME FollowAll, RegularCase, User
  PROVE  FollowInv'
<1>1. Settled
  BY DEF User, Relist, Move, MoveIn, MoveOut, Create, Delete, GiveMark, UserActs, MayAct,
         RegularCase
<1>2. /\ queue = <<>> /\ pc = "select" /\ AllFollow /\ NothingRead
      /\ UNCHANGED monitor /\ UNCHANGED alive
  <2>1. UNCHANGED monitor /\ UNCHANGED alive
    BY DEF User, Relist, Move, MoveIn, MoveOut, Create, Delete, GiveMark, UserActs
  <2>. QED
    BY <1>1, <2>1, SettledFollows DEF Settled
<1>3. /\ pc' = "select" /\ NothingRead' /\ alive' /\ \A d \in Dir : wds'[d] # 0
  BY <1>2 DEF FollowAll, FollowInv, monitor, NothingRead
<1>4. \A i \in Inode : Inside(i) => place[i] \in Path
  BY DEF FollowAll, TypeOK, Inside
<1>5. ASSUME NEW i \in Inode, NEW p \in Path, Move(i, p) PROVE FollowInv'
  <2>1. /\ Inside(i) /\ place[i] # p /\ PutAt(i, p) /\ place[i] \in Path /\ row' = row
        /\ place[i][1] = p[1] \/ place[i][2] = p[2]
        /\ queue' = queue \o Seen("from", place[i]) \o Seen("to", p)
    BY <1>4, <1>5 DEF Move, UserActs, RegularCase
  <2>2. PICK h \in Event : /\ Seen("from", place[i]) = <<h>> /\ h.kind = "from"
                           /\ h.path = place[i] /\ h.cookie = Cookie /\ Known(h)
    BY <2>1, Halved DEF FollowAll
  <2>3. PICK e \in Event : /\ Seen("to", p) = <<e>> /\ e.kind = "to"
                           /\ e.path = p /\ e.cookie = Cookie /\ Known(e)
    BY <2>1, Halved DEF FollowAll
  <2>4. Len(queue') = 2 /\ queue'[1] = h /\ queue'[2] = e
    BY <1>2, <2>1, <2>2, <2>3
  <2>5. /\ row[p] = NoRow /\ ~OnDisk(p)
        /\ place' = [place EXCEPT ![i] = p]
        /\ truth' = truth
        /\ \A j \in Inode : Inside(j)' <=> j = i \/ Inside(j)
        /\ \A j, k \in Inode : place'[j] = place'[k] /\ Inside(j)' => j = k
        /\ OnDisk(p)'
        /\ \A q \in Path : Marks(q)' = Marks(q)
    BY <1>1, <2>1, AfterPut
  <2>7. Pending(h.path, e.path)'
    <3>1. \A j \in Inode : place'[j] # h.path
      BY <2>1, <2>2, <2>5 DEF FollowAll, FollowInv, TypeOK
    <3>2. \A j \in Inode : Inside(j)' =>
            IF place'[j] = p THEN truth'[j] = Marks(h.path)' ELSE Follows(j)'
      <4>1. \A j \in Inode : Inside(j)' => place'[j] = p <=> j = i
        BY <2>5 DEF FollowAll, TypeOK
      <4>2. truth[i] = Marks(h.path)
        BY <1>2, <2>1, <2>2 DEF AllFollow, Follows
      <4>3. \A j \in Inode : j # i /\ Inside(j) => Follows(j)'
        <5>1. \A j \in Inode : j # i => place'[j] = place[j]
          BY <2>5 DEF FollowAll, TypeOK
        <5>. QED
          BY <1>2, <2>1, <2>5, <5>1 DEF AllFollow, Follows, Marks
      <4>4. Marks(h.path)' = Marks(h.path)
        BY <2>1 DEF Marks
      <4>. QED
        BY <2>5, <4>1, <4>2, <4>3, <4>4
    <3>. QED
      BY <2>1, <2>2, <2>3, <2>5, <3>1, <3>2 DEF Pending, OnDisk
  <2>8. Halves(h, e)'
    BY <1>2, <2>1, <2>2, <2>3, <2>5, <2>7 DEF Halves, Proper, Known, monitor
  <2>9. Sleeping'
    BY <1>3, <2>4, <2>8 DEF Sleeping, Expect
  <2>. QED
    BY <1>3, <2>5, <2>9 DEF FollowInv, FollowAll
<1>6. ASSUME NEW i \in Inode, NEW p \in Path, MoveIn(i, p) \/ Create(i, p) PROVE FollowInv'
  <2>1. /\ ~Inside(i) /\ place[i] # p /\ PutAt(i, p) /\ row' = row
        /\ queue' = queue \o Seen("to", p) \/ queue' = queue
    BY <1>6, ValuesAssumption DEF MoveIn, Create, UserActs, Inside, Path
  <2>2. /\ row[p] = NoRow /\ ~OnDisk(p)
        /\ place' = [place EXCEPT ![i] = p]
        /\ truth' = truth
        /\ \A j \in Inode : Inside(j)' <=> j = i \/ Inside(j)
        /\ \A j, k \in Inode : place'[j] = place'[k] /\ Inside(j)' => j = k
        /\ OnDisk(p)'
        /\ \A q \in Path : Marks(q)' = Marks(q)
    BY <1>1, <2>1, AfterPut
  <2>3. AllFollow'
    <3>1. truth[i] = {} /\ place'[i] = p
      BY <2>1, <2>2 DEF FollowAll, FollowInv, TypeOK
    <3>2. \A j \in Inode : j # i => place'[j] = place[j]
      BY <2>2 DEF FollowAll, TypeOK
    <3>3. Follows(i)'
      BY <2>1, <2>2, <3>1 DEF Follows, Marks
    <3>4. \A j \in Inode : j # i /\ Inside(j) => Follows(j)'
      BY <1>2, <2>1, <2>2, <3>2 DEF AllFollow, Follows, Marks
    <3>. QED
      BY <2>2, <3>3, <3>4 DEF AllFollow
  <2>4. CASE queue' = queue \o Seen("to", p)
    <3>1. PICK e \in Event : /\ Seen("to", p) = <<e>> /\ e.kind = "to"
                             /\ e.path = p /\ e.cookie = Cookie /\ Known(e)
      BY Halved DEF FollowAll
    <3>2. Len(queue') = 1 /\ queue'[1] = e
      BY <1>2, <2>4, <3>1
    <3>3. Single(e)'
      BY <1>2, <2>3, <3>1 DEF Single, Proper, Known, monitor
    <3>4. Sleeping'
      BY <1>3, <3>2, <3>3 DEF Sleeping, Expect
    <3>. QED
      BY <1>3, <2>1, <2>2, <3>4 DEF FollowInv, FollowAll
  <2>5. CASE queue' = queue
    <3>1. Sleeping'
      BY <1>2, <1>3, <2>3, <2>5 DEF Sleeping, Expect
    <3>. QED
      BY <1>3, <2>1, <2>2, <3>1 DEF FollowInv, FollowAll
  <2>. QED
    BY <2>1, <2>4, <2>5
<1>7. ASSUME NEW i \in Inode, MoveOut(i) \/ Delete(i) PROVE FollowInv'
  <2>1. PICK k \in {"from", "delete"}, out \in {Outside, Absent} :
          /\ Inside(i) /\ place[i] \in Path /\ row' = row
          /\ place' = [place EXCEPT ![i] = out] /\ truth' = [truth EXCEPT ![i] = {}]
          /\ queue' = queue \o Seen(k, place[i])
    BY <1>4, <1>7 DEF MoveOut, Delete, UserActs
  <2>2. PICK e \in Event : /\ Seen(k, place[i]) = <<e>> /\ e.kind = k
                           /\ e.path = place[i] /\ Known(e)
    BY <2>1, Halved DEF FollowAll
  <2>3. Len(queue') = 1 /\ queue'[1] = e
    BY <1>2, <2>1, <2>2
  <2>4. /\ \A j \in Inode : Inside(j)' <=> j # i /\ Inside(j)
        /\ \A j \in Inode : j # i => place'[j] = place[j] /\ truth'[j] = truth[j]
        /\ place'[i] = out /\ truth'[i] = {}
    BY <2>1 DEF FollowAll, TypeOK, Inside
  <2>5. AllFollow'
    <3>1. \A j \in Inode : Inside(j)' => Follows(j)'
      BY <1>2, <2>1, <2>4 DEF AllFollow, Follows, Marks
    <3>. QED
      BY <3>1 DEF AllFollow
  <2>6. ~OnDisk(e.path)'
    BY <2>1, <2>2, <2>4, ValuesAssumption DEF OnDisk, FollowAll, FollowInv, Path
  <2>7. Single(e)'
    BY <1>2, <2>2, <2>5, <2>6 DEF Single, Proper, Known, monitor
  <2>8. Sleeping'
    BY <1>3, <2>3, <2>7 DEF Sleeping, Expect
  <2>9. /\ \A j, l \in Inode : place'[j] = place'[l] /\ Inside(j)' => j = l
        /\ \A j \in Inode : ~Inside(j)' => truth'[j] = {}
    <3>1. \A j, l \in Inode : place[j] = place[l] /\ Inside(j) => j = l
      BY DEF FollowAll, FollowInv
    <3>2. \A j \in Inode : ~Inside(j) => truth[j] = {}
      BY DEF FollowAll, FollowInv
    <3>3. \A j \in Inode : Inside(j)' => place'[j] # out
      BY <2>1, <2>4 DEF Inside
    <3>. QED
      BY <2>4, <3>1, <3>2, <3>3
  <2>. QED
    BY <1>3, <2>8, <2>9 DEF FollowInv
<1>8. ASSUME NEW i \in Inode, NEW m \in Mark, GiveMark(i, m) PROVE FollowInv'
  <2>1. /\ Inside(i) /\ place[i] \in Path
        /\ row' = [row EXCEPT ![place[i]] = Marks(place[i]) \cup {m}]
        /\ truth' = [truth EXCEPT ![i] = @ \cup {m}]
        /\ place' = place /\ queue' = queue
    BY <1>4, <1>8 DEF GiveMark
  <2>2. \A q \in Path : row'[q] = IF q = place[i] THEN Marks(place[i]) \cup {m} ELSE row[q]
    BY <2>1 DEF FollowAll, TypeOK
  <2>3. \A j \in Inode : Inside(j)' <=> Inside(j)
    BY <2>1 DEF Inside
  <2>4. AllFollow'
    <3>1. \A j \in Inode : Inside(j) => Marks(place[j]) = truth[j]
      BY <1>2 DEF AllFollow, Follows
    <3>2. \A j \in Inode : Inside(j) /\ place[j] = place[i] => j = i
      BY DEF FollowAll, FollowInv
    <3>3. \A j \in Inode : truth'[j] = IF j = i THEN truth[i] \cup {m} ELSE truth[j]
      BY <2>1 DEF FollowAll, TypeOK
    <3>4. Marks(place[i]) \cup {m} # NoRow
      BY <2>1, TypeMarks, ValuesAssumption DEF FollowAll
    <3>5. Follows(i)'
      BY <2>1, <2>2, <3>1, <3>3, <3>4 DEF Follows, Marks
    <3>6. \A j \in Inode : j # i /\ Inside(j) => Follows(j)'
      BY <1>4, <2>1, <2>2, <3>1, <3>2, <3>3 DEF Follows, Marks
    <3>. QED
      BY <2>3, <3>5, <3>6 DEF AllFollow
  <2>5. Sleeping'
    BY <1>2, <1>3, <2>1, <2>4 DEF Sleeping, Expect
  <2>6. \A j \in Inode : ~Inside(j)' => truth'[j] = {}
    BY <2>1, <2>3 DEF FollowAll, FollowInv, TypeOK
  <2>. QED
    BY <1>3, <2>1, <2>3, <2>5, <2>6 DEF FollowInv, FollowAll
<1>9. \A d \in Dir : ~Relist(d)
  BY DEF Relist, RegularCase
<1>. QED
  BY <1>5, <1>6, <1>7, <1>8, <1>9 DEF User

Framed == UNCHANGED <<place, wds, alive, truth, queue>> /\ pc' # "select"

LEMMA FollowFrame ==
  ASSUME FollowAll, Framed, pc # "select",
         (Reading \/ Pairing \/ Flushing \/ Renaming \/ CopyingMarks)'
  PROVE  FollowInv'
BY DEF FollowAll, FollowInv, Framed, Inside

LEMMA NoneLeft ==
  ASSUME NEW S, NEW s \in Seq(S), Len(s) = 0
  PROVE  s = <<>>
OBVIOUS

\* While the monitor reads, pairs and flushes events.
LEMMA FollowHandle ==
  ASSUME FollowAll, RegularCase, pc \in {"select", "handle"}, Monitor
  PROVE  FollowInv'
<1>0. /\ \A e \in Event : e.kind # "dirs"
      /\ DirsEvent.kind = "dirs"
  BY DEF Event, DirsEvent
<1>1. pc = "select" => Sleeping
  BY DEF FollowAll, FollowInv, Reading, Pairing, Flushing, Renaming, CopyingMarks, Copying
<1>2. pc = "handle" => Reading \/ Pairing \/ Flushing
  BY DEF FollowAll, FollowInv, Sleeping, Renaming, CopyingMarks, Copying
<1>3. ASSUME NEW n \in 1 .. Len(queue), ReadEvents(n) PROVE FollowInv'
  <2>1. n = Len(queue) /\ pc = "select" /\ queue \in Seq(Event \cup {DirsEvent})
    BY <1>3 DEF ReadEvents, RegularCase, FollowAll, TypeOK
  <2>2. batch' = queue /\ queue' = <<>> /\ buffered' = {} /\ pc' = "handle"
    BY <1>1, <1>3, <2>1 DEF ReadEvents, Sleeping, NothingRead
  <2>3. Expect(queue) /\ UNCHANGED <<place, row, wds, alive, truth>>
    BY <1>1, <1>3, <2>1 DEF Sleeping, ReadEvents, watches
  <2>4. Expect(batch)'
    BY <2>2, <2>3 DEF Expect, AllFollow, Single, Halves, Proper, Known, Pending, Follows, Marks,
                      Inside, OnDisk
  <2>5. Reading'
    BY <2>2, <2>4 DEF Reading
  <2>. QED
    BY <2>2, <2>3, <2>5 DEF FollowAll, FollowInv, Inside
<1>4. CASE BufferOrSkip
  <2>1. /\ pc = "handle" /\ batch # <<>> /\ batch' = Tail(batch) /\ pc' = pc
        /\ UNCHANGED <<place, row, wds, alive, truth, queue>>
    BY <1>4 DEF BufferOrSkip, watches
  <2>2. CASE Flushing
    BY <2>1, <2>2 DEF Flushing
  <2>3. CASE Pairing
    <3>1. PICK h \in buffered : buffered = {h} /\ Halves(h, batch[1])
      BY <2>3 DEF Pairing
    <3>2. h \in HalfOf(Head(batch)) /\ Head(batch).kind = "to"
      BY <2>1, <3>1 DEF HalfOf, Halves
    <3>. QED
      BY <1>4, <3>2 DEF BufferOrSkip
  <2>4. CASE Reading /\ Len(batch) = 1
    <3>1. Single(batch[1]) /\ Head(batch) = batch[1] /\ batch' = <<>> /\ buffered = {}
      BY <2>1, <2>4 DEF Reading, Expect, FollowAll, TypeOK
    <3>3. AllFollow'
      BY <2>1, <3>1 DEF Single, AllFollow, Follows, Inside, Marks
    <3>4. CASE buffered' = buffered
      BY <2>1, <3>1, <3>3, <3>4, FollowFrame DEF Reading, Expect, Framed
    <3>5. CASE batch[1].kind \in {"from", "to"} /\ buffered' = {batch[1]}
      <4>1. Flushing'
        BY <2>1, <3>1, <3>3, <3>5 DEF Flushing, Single, Proper, Known, OnDisk
      <4>. QED
        BY <2>1, <4>1, FollowFrame DEF Framed
    <3>. QED
      BY <1>4, <3>1, <3>4, <3>5 DEF BufferOrSkip
  <2>5. CASE Reading /\ Len(batch) = 2
    <3>1. /\ Halves(batch[1], batch[2]) /\ Head(batch) = batch[1] /\ buffered = {}
          /\ Len(batch') = 1 /\ batch'[1] = batch[2]
      <4>1. batch \in Seq(Event \cup {DirsEvent}) /\ Len(batch) = 2
        BY <2>5 DEF FollowAll, TypeOK
      <4>2. Head(batch) = batch[1] /\ Len(Tail(batch)) = 1 /\ Tail(batch)[1] = batch[2]
        BY <4>1
      <4>3. batch # <<>> /\ Len(batch) # 1
        BY <4>1
      <4>. QED
        BY <2>1, <2>5, <4>2, <4>3 DEF Reading, Expect
    <3>2. buffered' = {batch[1]}
      BY <1>4, <3>1 DEF BufferOrSkip, Halves
    <3>5. Pairing'
      <4>1. \E h \in Event : buffered' = {h} /\ Halves(h, batch'[1])
        BY <3>1, <3>2 DEF Halves, Proper
      <4>2. PICK h \in Event : buffered' = {h} /\ Halves(h, batch'[1])
        BY <4>1
      <4>3. batch[2] \in Event
        BY <3>1 DEF Halves, Proper
      <4>. QED
        BY <2>1, <3>1, <4>2, <4>3 DEF Pairing, Halves, Proper, Known, Pending, Follows, Marks, Inside,
                                      OnDisk
    <3>. QED
      BY <2>1, <3>5, FollowFrame DEF Framed
  <2>. QED
    BY <1>2, <2>1, <2>2, <2>3, <2>4, <2>5 DEF Reading, Expect
<1>5. CASE StartRename
  <2>1. pc = "handle" /\ batch # <<>> /\ HalfOf(Head(batch)) # {}
    BY <1>5 DEF StartRename
  <2>2. Pairing
    BY <1>2, <2>1 DEF Reading, Flushing, HalfOf
  <2>3. PICK h \in buffered : buffered = {h} /\ Halves(h, batch[1])
    BY <2>2 DEF Pairing
  <2>4. HalfOf(Head(batch)) = {h} /\ Head(batch) = batch[1] /\ Tail(batch) = <<>>
    <3>1. batch \in Seq(Event \cup {DirsEvent}) /\ Len(batch) = 1
      BY <2>2 DEF Pairing, FollowAll, TypeOK
    <3>2. Head(batch) = batch[1] /\ Tail(batch) = <<>>
      <4>1. Tail(batch) \in Seq(Event \cup {DirsEvent}) /\ Len(Tail(batch)) = 0
        BY <3>1
      <4>2. Tail(batch) = <<>>
        BY <4>1, NoneLeft
      <4>. QED
        BY <3>1, <4>2
    <3>3. h.cookie = batch[1].cookie
      BY <2>3 DEF Halves
    <3>4. HalfOf(batch[1]) = {h}
      BY <2>3, <3>3 DEF HalfOf
    <3>. QED
      BY <3>2, <3>4
  <2>5. /\ job' = [from |-> h.path, to |-> batch[1].path, marks |-> {}, missed |-> {}]
        /\ NothingRead' /\ pc' = "rename"
        /\ UNCHANGED <<place, row, wds, alive, truth, queue>>
    BY <1>5, <2>3, <2>4 DEF StartRename, NothingRead, watches
  <2>6. Pending(h.path, batch[1].path) /\ row[batch[1].path] = NoRow
    BY <2>3 DEF Halves
  <2>7. Renaming'
    BY <2>5, <2>6 DEF Renaming, Pending, Follows, Marks, Inside, OnDisk
  <2>. QED
    BY <2>1, <2>5, <2>7, FollowFrame DEF Framed
<1>6. CASE FlushLone
  <2>1. /\ pc = "handle" /\ batch = <<>> /\ buffered # {} /\ batch' = batch /\ pc' = pc
        /\ UNCHANGED <<place, wds, alive, truth, queue>>
    BY <1>6 DEF FlushLone, Lone, watches
  <2>2. Flushing
    BY <1>2, <2>1 DEF Reading, Pairing
  <2>3. PICK h \in buffered : buffered = {h} /\ Single(h)
    BY <2>2 DEF Flushing
  <2>4. buffered' = {} /\ row' = IF h.kind = "from" THEN [row EXCEPT ![h.path] = NoRow] ELSE row
    BY <1>6, <2>3 DEF FlushLone, Lone, Busy, RegularCase
  <2>5. AllFollow'
    <3>1. \A i \in Inode : Inside(i) => place[i] \in Path
      BY DEF FollowAll, TypeOK, Inside
    <3>2. \A i \in Inode : Inside(i) => row'[place[i]] = row[place[i]]
      BY <2>3, <2>4, <3>1 DEF Single, OnDisk, FollowAll, TypeOK
    <3>. QED
      BY <2>1, <2>3, <3>2 DEF Single, AllFollow, Follows, Inside, Marks
  <2>6. Reading'
    BY <2>1, <2>4, <2>5 DEF Reading, Expect
  <2>. QED
    BY <2>1, <2>6, FollowFrame DEF Framed
<1>7. CASE SelectAgain
  <2>1. /\ pc = "handle" /\ batch = <<>> /\ buffered = {} /\ pc' = "select"
        /\ UNCHANGED <<place, row, wds, alive, truth, queue, batch, buffered>>
    BY <1>7 DEF SelectAgain, Lone, watches
  <2>2. Reading /\ queue = <<>>
    BY <1>2, <2>1 DEF Pairing, Flushing, FollowAll, FollowInv
  <2>3. AllFollow'
    BY <2>1, <2>2 DEF Reading, Expect, AllFollow, Follows, Inside, Marks
  <2>4. Sleeping'
    BY <2>1, <2>2, <2>3 DEF Sleeping, NothingRead, Expect
  <2>. QED
    BY <2>1, <2>4 DEF FollowAll, FollowInv, Inside
<1>8. batch # <<>> => Proper(Head(batch)) /\ Head(batch) \in Event
  BY <1>1, <1>2 DEF Sleeping, NothingRead, Reading, Pairing, Flushing, Expect, Single, Halves, Proper
<1>9. \A h \in buffered : Known(h)
  BY <1>1, <1>2 DEF Sleeping, NothingRead, Reading, Pairing, Flushing, Single, Halves, Proper
<1>10. ~Reload
  BY <1>0, <1>8 DEF Reload
<1>11. ~NoPath
  BY <1>8, <1>9 DEF NoPath, Proper, HalfOf
<1>. QED
  BY <1>3, <1>4, <1>5, <1>6, <1>7, <1>10, <1>11
  DEF Monitor, RenameNotFound, RenameFails, RenameRow, FetchMarks, CopyMark, CopyFails,
      TagsCopied, RemoveOld

\* The marks of the new name are those of the old one: the move is over.
LEMMA MoveOver ==
  ASSUME FollowAll, NEW q \in Path, NEW p \in Path, Pending(q, p),
         UNCHANGED <<place, truth>>,
         \A r \in Path \ {q} : Marks(r)' = IF r = p THEN Marks(q) ELSE Marks(r)
  PROVE  AllFollow'
<1>. SUFFICES ASSUME NEW i \in Inode, Inside(i) PROVE Follows(i)'
  BY DEF AllFollow, Inside
<1>1. place[i] \in Path \ {q}
  BY DEF FollowAll, TypeOK, Inside, Pending, OnDisk
<1>2. (IF row'[place[i]] = NoRow THEN {} ELSE row'[place[i]])
        = IF place[i] = p THEN Marks(q) ELSE Marks(place[i])
  <2>1. \A r \in Path : Marks(r)' = IF row'[r] = NoRow THEN {} ELSE row'[r]
    BY DEF Marks
  <2>. QED
    BY <1>1, <2>1
<1>3. Marks(place[i])' = IF place[i] = p THEN Marks(q) ELSE Marks(place[i])
  BY <1>2 DEF Marks
<1>4. truth[i] = IF place[i] = p THEN Marks(q) ELSE Marks(place[i])
  BY DEF Pending, Follows
<1>. QED
  BY <1>3, <1>4 DEF Follows

\* The rename goes on: rows change, but not the marks of the old name, nor
\* those of files other than the one moved.
LEMMA StillPending ==
  ASSUME FollowAll, NEW q \in Path, NEW p \in Path, Pending(q, p),
         UNCHANGED <<place, truth>>,
         \A r \in Path \ {p} : Marks(r)' = Marks(r)
  PROVE  Pending(q, p)'
<1>1. Marks(q)' = Marks(q)
  BY DEF Pending
<1>2. ASSUME NEW i \in Inode, Inside(i), place[i] # p PROVE Follows(i)'
  <2>1. place[i] \in Path \ {p}
    BY <1>2 DEF FollowAll, TypeOK, Inside
  <2>2. \A r \in Path : Marks(r)' = IF row'[r] = NoRow THEN {} ELSE row'[r]
    BY DEF Marks
  <2>3. (IF row'[place[i]] = NoRow THEN {} ELSE row'[place[i]]) = Marks(place[i])
    BY <2>1, <2>2
  <2>. QED
    BY <1>2, <2>3 DEF Pending, Follows, Marks
<1>. QED
  BY <1>1, <1>2 DEF Pending, OnDisk, Inside

LEMMA FollowRename ==
  ASSUME FollowAll, RegularCase, pc \notin {"select", "handle"}, Monitor
  PROVE  FollowInv'
<1>0. TypeOK
  BY DEF FollowAll
<1>1. /\ NothingRead /\ Pending(job.from, job.to) /\ queue = <<>> /\ OnDisk(job.to)
      /\ Renaming \/ CopyingMarks
  BY DEF FollowAll, FollowInv, Sleeping, Reading, Pairing, Flushing, Renaming, CopyingMarks, Pending
<1>2. job \in Jobs
  BY <1>0, JobPaths
<1>3. PICK q \in Path, p \in Path : q = job.from /\ p = job.to
  BY <1>2 DEF Jobs
<1>4. /\ Pending(q, p) /\ q # p /\ OnDisk(p) /\ Renamed = <<p[1], q[2]>>
      /\ q[1] \in Dir /\ q[2] \in Name /\ p[1] \in Dir /\ p[2] \in Name
      /\ q = <<q[1], q[2]>> /\ p = <<p[1], p[2]>>
      /\ p[1] = q[1] => Renamed = q
      /\ p[1] # q[1] => Renamed = p
  BY <1>1, <1>3 DEF Pending, Path, Renamed
<1>5. /\ Marks(q) \in SUBSET Mark /\ Marks(p) \in SUBSET Mark
      /\ Marks(q) # NoRow /\ Marks(p) # NoRow
  BY <1>0, TypeMarks, ValuesAssumption
<1>6. ASSUME UNCHANGED <<place, wds, alive, truth, queue, batch, buffered>>, EndRename,
             \A r \in Path \ {q} : Marks(r)' = IF r = p THEN Marks(q) ELSE Marks(r)
      PROVE  FollowInv'
  <2>1. AllFollow'
    BY <1>4, <1>6, MoveOver
  <2>2. Reading'
    BY <1>1, <1>6, <2>1 DEF Reading, EndRename, NothingRead, Expect
  <2>. QED
    BY <1>6, <2>2, FollowFrame DEF Framed, EndRename
<1>7. ASSUME UNCHANGED <<place, wds, alive, truth, queue, batch, buffered>>, Copying',
             job'.from = q, job'.to = p, job'.marks \subseteq Marks(q),
             \A r \in Path \ {p} : Marks(r)' = Marks(r), Marks(p)' \subseteq Marks(q)
      PROVE  FollowInv'
  <2>1. Pending(q, p)' /\ Marks(q)' = Marks(q)
    BY <1>4, <1>7, StillPending
  <2>2. Pending(job.from, job.to)' /\ Marks(job.from)' = Marks(q) /\ Marks(job.to)' \subseteq Marks(q)
    BY <1>7, <2>1 DEF Pending, Marks
  <2>3. CopyingMarks'
    BY <1>1, <1>7, <2>2 DEF CopyingMarks, NothingRead
  <2>. QED
    BY <1>7, <2>3, FollowFrame DEF Framed, Copying
<1>8. pc # "rename" => CopyingMarks /\ Marks(p) \subseteq Marks(q) /\ job.marks \subseteq Marks(q)
  BY <1>1, <1>3 DEF Renaming, CopyingMarks
<1>9. pc = "rename" => row[p] = NoRow /\ Marks(p) = {}
  BY <1>1, <1>3 DEF Renaming, CopyingMarks, Copying, Marks
<1>10. CASE RenameNotFound
  BY <1>1, <1>10 DEF RenameNotFound
<1>11. CASE RenameFails
  <2>1. ~HasRow(Renamed) /\ row' = row
    BY <1>3, <1>4, <1>9, <1>11 DEF RenameFails, HasRow, Busy, RegularCase
  <2>2. Renamed = q /\ Marks(q) = {}
    BY <1>4, <2>1 DEF HasRow, Marks
  <2>3. UNCHANGED <<place, wds, alive, truth, queue, batch, buffered>> /\ EndRename
    BY <1>11 DEF RenameFails, FreeUninitialized, RegularCase
  <2>4. \A r \in Path \ {q} : Marks(r)' = IF r = p THEN Marks(q) ELSE Marks(r)
    BY <1>9, <1>11, <2>1, <2>2 DEF RenameFails, Marks
  <2>. QED
    BY <1>6, <2>3, <2>4
<1>12. CASE RenameRow
  <2>1. /\ pc = "rename" /\ UNCHANGED <<place, wds, alive, truth, queue, batch, buffered>>
        /\ \A r \in Path : row'[r] = IF r = p THEN Marks(Renamed)
                                      ELSE IF r = Renamed THEN NoRow ELSE row[r]
    BY <1>3, <1>12 DEF RenameRow, watches
  <2>2. \A r \in Path : Marks(r)' = IF row'[r] = NoRow THEN {} ELSE row'[r]
    BY DEF Marks
  <2>3. CASE p[1] = q[1]
    <3>1. Renamed = q /\ EndRename
      BY <1>3, <1>4, <1>12, <2>3 DEF RenameRow
    <3>2. \A r \in Path \ {q} : Marks(r)' = IF r = p THEN Marks(q) ELSE Marks(r)
      BY <1>5, <2>1, <2>2, <3>1 DEF Marks
    <3>. QED
      BY <1>6, <2>1, <3>1, <3>2
  <2>4. CASE p[1] # q[1]
    <3>1. Renamed = p /\ pc' = "gettags" /\ job' = job
      BY <1>3, <1>4, <1>12, <2>4 DEF RenameRow
    <3>2. /\ \A r \in Path \ {p} : Marks(r)' = Marks(r)
          /\ Marks(p)' = {}
      BY <1>5, <1>9, <2>1, <2>2, <3>1 DEF Marks
    <3>3. job.marks \subseteq Marks(q)
      BY <1>1, <2>1 DEF Renaming, CopyingMarks, Copying, NoJob
    <3>. QED
      BY <1>3, <1>7, <2>1, <3>1, <3>2, <3>3 DEF Copying
  <2>. QED
    BY <2>3, <2>4
<1>13. CASE FetchMarks
  <2>1. /\ pc \in {"gettags", "getattr"}
        /\ UNCHANGED <<place, wds, alive, truth, queue, batch, buffered>>
    BY <1>13 DEF FetchMarks, watches
  <2>2. CASE ~HasRow(job.from) /\ EndRename /\ UNCHANGED row
    <3>1. Marks(q) = {} /\ Marks(p) = {}
      BY <1>3, <1>8, <2>1, <2>2 DEF HasRow, Marks
    <3>2. \A r \in Path \ {q} : Marks(r)' = IF r = p THEN Marks(q) ELSE Marks(r)
      BY <2>2, <3>1 DEF Marks
    <3>. QED
      BY <1>6, <2>1, <2>2, <3>2
  <2>3. CASE Fetched
    <3>1. \A r \in Path : Marks(r)' = Marks(r)
      BY <2>3 DEF Fetched
    <3>2. job'.from = q /\ job'.to = p /\ job'.marks \subseteq Marks(q)
      BY <1>3, <2>3 DEF Fetched, Wanted
    <3>3. Marks(p) \subseteq Marks(q) /\ Copying'
      BY <1>8, <2>1, <2>3 DEF Copying, Fetched
    <3>. QED
      BY <1>7, <2>1, <3>1, <3>2, <3>3
  <2>4. EndRename /\ UNCHANGED row => pc' = "handle"
    BY DEF EndRename
  <2>5. Fetched => pc' # "handle"
    BY DEF Fetched
  <2>6. CASE EndRename /\ UNCHANGED row
    BY <1>13, <2>1, <2>2, <2>6 DEF FetchMarks, Busy, RegularCase, EndRename
  <2>. QED
    BY <1>0, <1>13, <2>3, <2>6, FetchCases
<1>14. CASE CopyMark
  <2>1. PICK m \in job.marks : m \in Mark /\ Copied(m)
    BY <1>0, <1>14, CopyCases
  <2>2. /\ pc \in {"settag", "setattr"} /\ pc' = pc
        /\ UNCHANGED <<place, wds, alive, truth, queue, batch, buffered>>
    BY <1>14 DEF CopyMark, watches
  <2>3. m \in Marks(q)
    BY <1>8, <2>1, <2>2
  <2>4. \A r \in Path : Marks(r)' = IF r = p THEN Marks(p) \cup {m} ELSE Marks(r)
    BY <1>3, <2>1 DEF Copied, Busy, RegularCase
  <2>5. job'.from = q /\ job'.to = p /\ job'.marks \subseteq Marks(q)
    BY <1>3, <1>8, <2>1, <2>2 DEF Copied
  <2>6. Marks(p)' \subseteq Marks(q) /\ Copying'
    BY <1>8, <2>2, <2>3, <2>4 DEF Copying
  <2>. QED
    BY <1>7, <2>2, <2>4, <2>5, <2>6
<1>15. CASE TagsCopied
  <2>1. /\ pc = "settag" /\ pc' = "getattr" /\ job' = job /\ row' = row
        /\ UNCHANGED <<place, wds, alive, truth, queue, batch, buffered>>
    BY <1>15 DEF TagsCopied, watches
  <2>2. \A r \in Path : Marks(r)' = Marks(r)
    BY <2>1 DEF Marks
  <2>. QED
    BY <1>3, <1>7, <1>8, <2>1, <2>2 DEF Copying
<1>16. CASE RemoveOld
  <2>1. /\ pc = "setattr" /\ job.marks = {} /\ row' = [row EXCEPT ![q] = NoRow] /\ EndRename
        /\ UNCHANGED <<place, wds, alive, truth, queue, batch, buffered>>
    BY <1>3, <1>16 DEF RemoveOld, AllCopied, watches, Busy, RegularCase
  <2>2. Marks(q) \subseteq Marks(p)
    BY <1>3, <1>5, <2>1 DEF FollowAll, CopyInv, Mark, Busy, RegularCase
  <2>3. \A r \in Path : Marks(r)' = IF r = q THEN {} ELSE Marks(r)
    BY <1>0, <2>1, MarksAfter
  <2>4. Marks(p) = Marks(q)
    BY <1>8, <2>1, <2>2
  <2>. QED
    BY <1>6, <2>1, <2>3, <2>4
<1>17. ~CopyFails
  BY DEF CopyFails, Busy, RegularCase
<1>. QED
  BY <1>10, <1>11, <1>12, <1>13, <1>14, <1>15, <1>16, <1>17
  DEF Monitor, ReadEvents, BufferOrSkip, StartRename, Reload, NoPath, FlushLone, SelectAgain

LEMMA FollowStep ==
  ASSUME WatchedInv, FollowAll, RegularCase, [Next]_vars
  PROVE  FollowInv'
<1>1. CASE Monitor
  BY <1>1, FollowHandle, FollowRename
<1>2. CASE User
  BY <1>2, FollowUser
<1>3. CASE Crash \/ Restart
  BY <1>3 DEF Crash, Restart, RegularCase
<1>4. CASE UNCHANGED vars
  <2>1. UNCHANGED <<place, row, wds, queue, batch, buffered, pc, job, alive, truth>>
    BY <1>4 DEF vars, monitor
  <2>2. AllFollow => AllFollow'
    BY <2>1 DEF AllFollow, Follows, Marks, Inside
  <2>4. Pending(job.from, job.to) => Pending(job.from, job.to)'
    BY <2>1 DEF Pending, Follows, Marks, Inside, OnDisk
  <2>5. \A e \in Event : Single(e) => Single(e)'
    BY <2>1, <2>2 DEF Single, Proper, Known, OnDisk
  <2>7. Expect(queue) => Expect(queue)'
    BY <2>1, <2>2 DEF Expect, Single, Halves, Proper, Known, Pending, Follows, Marks, Inside, OnDisk
  <2>8. Expect(batch) => Expect(batch)'
    BY <2>1, <2>2 DEF Expect, Single, Halves, Proper, Known, Pending, Follows, Marks, Inside, OnDisk
  <2>9. Sleeping \/ Reading => (Sleeping \/ Reading)'
    BY <2>1, <2>7, <2>8 DEF Sleeping, Reading, NothingRead
  <2>10. Pairing => Pairing'
    <3>1. SUFFICES ASSUME Pairing PROVE Pairing'
      OBVIOUS
    <3>2. PICK h \in buffered : buffered = {h} /\ Halves(h, batch[1])
      BY <3>1 DEF Pairing
    <3>3. Halves(h, batch[1])'
      BY <2>1, <3>2 DEF Halves, Proper, Known, Pending, Follows, Marks, Inside, OnDisk
    <3>. QED
      BY <2>1, <3>1, <3>2, <3>3 DEF Pairing
  <2>11. Flushing => Flushing'
    <3>1. SUFFICES ASSUME Flushing PROVE Flushing'
      OBVIOUS
    <3>2. PICK h \in buffered : buffered = {h} /\ Single(h)
      BY <3>1 DEF Flushing
    <3>3. Single(h)'
      BY <2>5, <3>2 DEF Single, Proper
    <3>. QED
      BY <2>1, <3>1, <3>2, <3>3 DEF Flushing
  <2>12. Renaming \/ CopyingMarks => (Renaming \/ CopyingMarks)'
    BY <2>1, <2>4 DEF Renaming, CopyingMarks, Copying, NothingRead, Marks
  <2>. QED
    BY <2>1, <2>9, <2>10, <2>11, <2>12 DEF FollowAll, FollowInv, Inside
<1>. QED
  BY <1>1, <1>2, <1>3, <1>4 DEF Next

\* Whenever the monitor has handled all events, each file in a watched folder has
\* in its folder's database exactly the marks its users gave it, wherever it was
\* moved: by the rename of a row within a folder, by the chain of copies between
\* two.
THEOREM MarksFollow == RegularCase => (Spec => []MarksFollowFiles)
<1>. SUFFICES ASSUME RegularCase PROVE Spec => []MarksFollowFiles
  OBVIOUS
<1>0. ClientsWait
  BY DEF ClientsWait, RegularCase
<1>1. Init => CopyInv
  BY DEF Init, CopyInv, Copying, NoJob
<1>2. WatchedInv /\ CopyInv /\ [Next]_vars => CopyInv'
  BY <1>0, CopyStep
<1>3. Init => FollowInv
  BY FollowInit
<1>4. WatchedInv /\ CopyInv /\ FollowInv /\ [Next]_vars => FollowInv'
  BY FollowStep DEF FollowAll, WatchedInv
<1>5. WatchedInv /\ CopyInv /\ FollowInv => MarksFollowFiles
  BY SettledFollows DEF FollowAll, WatchedInv, MarksFollowFiles, AllFollow, Follows
<1>. QED
  BY <1>1, <1>2, <1>3, <1>4, <1>5, WatchedCorrect, PTL DEF Spec
=============================================================================
