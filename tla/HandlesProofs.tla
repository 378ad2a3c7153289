---------------------------- MODULE HandlesProofs ----------------------------
(***************************************************************************)
(* Theorems about Handles, for every number of threads, folders and views, *)
(* each for as much of Env as the code can bear: the databases on which    *)
(* operations are performed (RightRepository), what holds whatever happens *)
(* (TypeCorrect, LossIsReported), and the table of handles                 *)
(* (FreedWhenCrossed, OneHandlePerDatabase).                               *)
(***************************************************************************)
EXTENDS Handles, FiniteSetTheorems, SequenceTheorems, TLAPS

\* Nobody moves, copies or deletes a folder.
FoldersStay == Env \subseteq {"reading"}

\* The threads that have opened a folder and have yet to put the handle.
Pending == {t \in Thread : at[t] \in {"clear", "write", "put", "link"}}

\* A folder that is looked up is one, and the indicator file of no view is
\* written.
KeyInv ==
  \A t \in Thread :
    /\ at[t] \in Opens \cup {"look", "make", "got"} => key[t] \in Dir
    /\ at[t] = "write" => key[t] \in Folder

\* What is on the disk: databases differ, views have none and name a folder,
\* and the indicator file of a folder names no other.
DiskInv ==
  /\ \A d, e \in Dir : data[d] = data[e] /\ data[d] # 0 => d = e
  /\ \A v \in View : data[v] = 0 /\ ind[v] \in Folder
  /\ \A f \in Folder : ind[f] \in {f, "empty", "none"}

\* The handles in the table and those about to be put there are open on the
\* database of their folder.
CacheInv ==
  /\ \A d \in DOMAIN repos : repos[d] # 0 => opened[repos[d]] = data[d]
  /\ \A t \in Pending :
       got[t] # <<>> /\ (Last(got[t]) # 0 => opened[Last(got[t])] = data[key[t]])

\* The folder of asked[t] that t looks for at the moment.
Pos(t) == Len(asked[t]) - Len(todo[t]) + 1
Found(t) == IF t \in Pending \/ at[t] = "got" THEN 1 ELSE 0

\* An operation looks for its folders one after the other, and its handles
\* are open on the databases of those it has found.
Aims(t) ==
  at[t] # "idle" =>
    /\ Len(todo[t]) \in 1 .. Len(asked[t])
    /\ \A i \in 1 .. Len(todo[t]) : todo[t][i].dir = asked[t][Len(asked[t]) - Len(todo[t]) + i]
    /\ at[t] # "find" => key[t] \in {asked[t][Pos(t)], Home(asked[t][Pos(t)])}
    /\ Len(done[t]) + Len(got[t]) = Len(asked[t]) - Len(todo[t]) + Found(t)
    /\ \A i \in 1 .. Len(got[t]) :
         IF got[t][i] = 0 THEN at[t] \in {"put", "link"} /\ i = Len(got[t])
         ELSE opened[got[t][i]] = Base(asked[t][Len(done[t]) + i])

HandlesInv ==
  /\ TypeOK
  /\ KeyInv
  /\ DiskInv
  /\ CacheInv
  /\ \A t \in Thread : Aims(t)
  /\ RightRepo

-----------------------------------------------------------------------------
(* Facts about the operators.                                              *)

Lookup == [way : {"file", "folder"}, dir : Dir]

LEMMA PlansType ==
  ASSUME NEW o \in Op, NEW plan \in Plans(o)
  PROVE  plan \in Seq(Lookup)
<1>1. \A d \in Dir : By("file", d) \in Lookup /\ By("folder", d) \in Lookup
  BY DEF By, Lookup
<1>2. CASE o = "file"
  <2>1. PICK d \in Dir : plan = <<By("file", d)>>
    BY <1>2 DEF Plans
  <2>. QED
    BY <1>1, <2>1
<1>3. CASE o = "folder"
  <2>1. PICK d \in Dir : plan = <<By("folder", d)>>
    BY <1>3 DEF Plans
  <2>. QED
    BY <1>1, <2>1
<1>4. CASE o = "rename"
  <2>1. PICK d \in Folder, e \in Folder : plan = <<By("file", d), By("folder", e)>>
    BY <1>4 DEF Plans
  <2>. QED
    BY <1>1, <2>1 DEF Dir
<1>5. CASE o = "search"
  <2>1. PICK S \in SUBSET (Folder \cap exists) : \E s \in Orders(S) :
               plan = [i \in DOMAIN s |-> By("folder", s[i])]
    BY <1>5 DEF Plans
  <2>. PICK s \in Orders(S) : plan = [i \in DOMAIN s |-> By("folder", s[i])]
    BY <2>1
  <2>2. Cardinality(S) \in Nat
    BY HandlesAssumption, FS_Subset, FS_CardinalityType
  <2>. DEFINE n == Cardinality(S)
  <2>3. s \in [1 .. n -> S]
    BY DEF Orders
  <2>. HIDE DEF n
  <2>4. plan \in [1 .. n -> Lookup]
    BY <1>1, <2>3 DEF Dir
  <2>. QED
    BY <2>2, <2>4, SeqDef DEF n
<1>. QED
  BY <1>2, <1>3, <1>4, <1>5 DEF Op

\* A key that belongs to d is the folder of d's files, and a key with a database
\* has theirs.
LEMMA BaseIs ==
  ASSUME TypeOK, DiskInv, NEW d \in Dir, NEW k \in {d, Home(d)}, data[k] # 0
  PROVE  k \in Folder /\ Base(d) = data[k]
BY HandlesAssumption DEF TypeOK, DiskInv, Base, Home, Dir

\* Databases and handles stay, and so do the folders that views name.
Grows ==
  /\ \A d \in Dir : data[d] # 0 => data'[d] = data[d]
  /\ \A v \in View : ind'[v] = ind[v]
  /\ \A h \in Handle : h \in Handle' /\ opened'[h] = opened[h]

LEMMA KeyHome ==
  ASSUME NEW d \in Dir, NEW k \in {d, Home(d)}, k \in Folder
  PROVE  Home(d) = k
BY HandlesAssumption DEF Home, Dir

LEMMA BaseStays ==
  ASSUME TypeOK, DiskInv, Grows, NEW d \in Dir
  PROVE  Home(d)' = Home(d) /\ (Base(d) # 0 => Base(d)' = Base(d))
BY HandlesAssumption DEF TypeOK, DiskInv, Grows, Base, Home, Dir

\* What an operation of thread u has stays right.
Has(u) ==
  /\ todo'[u] = todo[u] /\ key'[u] = key[u] /\ got'[u] = got[u]
  /\ asked'[u] = asked[u] /\ done'[u] = done[u]

LEMMA AimsGo ==
  ASSUME HandlesInv, Grows, NEW u \in Thread, Has(u), at[u] # "idle",
         Found(u)' = Found(u), at'[u] # "find" => at[u] # "find",
         \A i \in 1 .. Len(got[u]) : got[u][i] = 0 => at'[u] \in {"put", "link"}
  PROVE  Aims(u)'
<1>. DEFINE n == Len(asked[u])
<1>0. Aims(u)
  BY DEF HandlesInv
<1>1. /\ asked[u] \in Seq(Dir) /\ todo[u] \in Seq(Lookup)
      /\ done[u] \in Seq([on : Data, of : Data]) /\ got[u] \in Seq({0} \cup Handle)
  BY DEF HandlesInv, TypeOK, Lookup
<1>2. n \in Nat /\ Len(todo[u]) \in 1 .. n /\ Pos(u) \in 1 .. n
  <2>1. n \in Nat
    BY <1>1
  <2>2. Len(todo[u]) \in 1 .. n
    BY <1>0 DEF Aims
  <2>3. \A a \in Nat : \A b \in 1 .. a : a - b + 1 \in 1 .. a
    OBVIOUS
  <2>. HIDE DEF n
  <2>4. n - Len(todo[u]) + 1 \in 1 .. n
    BY <2>1, <2>2, <2>3
  <2>. QED
    BY <2>1, <2>2, <2>4 DEF Pos, n
<1>3. Pos(u)' = Pos(u)
  BY DEF Pos, Has
<1>4. Home(asked[u][Pos(u)])' = Home(asked[u][Pos(u)])
  <2>1. asked[u][Pos(u)] \in Dir
    BY <1>1, <1>2
  <2>. QED
    BY <2>1, <1>3, BaseStays DEF HandlesInv, Has, Home
<1>5. ASSUME NEW i \in 1 .. Len(got[u]), got[u][i] # 0
      PROVE  opened'[got[u][i]] = Base(asked[u][Len(done[u]) + i])'
  <2>1. opened[got[u][i]] = Base(asked[u][Len(done[u]) + i])
    BY <1>5 DEF HandlesInv, Aims
  <2>2. got[u][i] \in Handle /\ opened[got[u][i]] # 0
    BY <1>1, <1>5 DEF HandlesInv, TypeOK, Handle
  <2>3. Len(done[u]) + i \in 1 .. n
    <3>1. Len(done[u]) + Len(got[u]) = n - Len(todo[u]) + Found(u)
      BY <1>0 DEF Aims
    <3>2. Len(done[u]) \in Nat /\ Len(got[u]) \in Nat /\ Found(u) \in {0, 1}
      BY <1>1 DEF Found
    <3>3. \A a \in Nat, d \in Nat, g \in Nat, f \in {0, 1} : \A b \in 1 .. a, j \in 1 .. g :
             d + g = a - b + f => d + j \in 1 .. a
      OBVIOUS
    <3>. HIDE DEF n
    <3>. QED
      BY <1>2, <1>5, <3>1, <3>2, <3>3
  <2>4. asked[u][Len(done[u]) + i] \in Dir
    BY <1>1, <2>3
  <2>. PICK d : d = asked[u][Len(done[u]) + i]
    OBVIOUS
  <2>5. d \in Dir /\ Base(d) # 0 /\ (asked[u][Len(done[u]) + i])' = d
    BY <2>1, <2>2, <2>4 DEF Has
  <2>6. Base(d)' = Base(d)
    BY <2>5, BaseStays DEF HandlesInv
  <2>7. opened'[got[u][i]] = opened[got[u][i]]
    BY <2>2 DEF Grows
  <2>. QED
    BY <2>1, <2>5, <2>6, <2>7 DEF Base, Home
<1>6. /\ todo'[u] = todo[u] /\ key'[u] = key[u] /\ got'[u] = got[u]
      /\ asked'[u] = asked[u] /\ done'[u] = done[u] /\ asked[u][Pos(u)]' = asked[u][Pos(u)]
  BY <1>3 DEF Has
<1>7. at'[u] # "find" => key'[u] \in {asked[u][Pos(u)]', Home(asked[u][Pos(u)])'}
  BY <1>0, <1>4, <1>6 DEF Aims
<1>8. ASSUME NEW i \in 1 .. Len(got[u])
      PROVE  IF got[u][i] = 0 THEN at'[u] \in {"put", "link"} /\ i = Len(got[u])
             ELSE opened'[got[u][i]] = Base(asked[u][Len(done[u]) + i])'
  BY <1>0, <1>5, <1>8 DEF Aims
<1>9. /\ Len(todo[u]) \in 1 .. Len(asked[u])
      /\ \A i \in 1 .. Len(todo[u]) :
           todo[u][i].dir = asked[u][Len(asked[u]) - Len(todo[u]) + i]
      /\ Len(done[u]) + Len(got[u]) = Len(asked[u]) - Len(todo[u]) + Found(u)'
  BY <1>0 DEF Aims
<1>. QED
  BY <1>6, <1>7, <1>8, <1>9 DEF Aims

Rests(u) == Has(u) /\ at'[u] = at[u]

LEMMA AimsStay ==
  ASSUME HandlesInv, Grows, NEW u \in Thread, Rests(u)
  PROVE  Aims(u)'
<1>1. CASE at[u] = "idle"
  BY <1>1 DEF Rests, Aims
<1>2. CASE at[u] # "idle"
  <2>1. Found(u)' = Found(u) /\ Has(u)
    BY DEF Found, Pending, Rests
  <2>2. \A i \in 1 .. Len(got[u]) : got[u][i] = 0 => at'[u] \in {"put", "link"}
    BY <1>2 DEF HandlesInv, Aims, Rests
  <2>. QED
    BY <1>2, <2>1, <2>2, AimsGo DEF Rests
<1>. QED
  BY <1>1, <1>2

\* A step of a thread leaves the other threads alone.
LEMMA ThreadStep ==
  ASSUME HandlesInv, TypeOK', KeyInv', DiskInv', CacheInv', Grows,
         NEW t \in Thread, Aims(t)',
         \A u \in Thread \ {t} : Rests(u),
         \A i \in DOMAIN done'[t] : done'[t][i].on \in {done'[t][i].of, Undefined}
  PROVE  HandlesInv'
<1>1. \A u \in Thread : Aims(u)'
  BY AimsStay
<1>2. RightRepo'
  BY DEF HandlesInv, RightRepo, Rests, Has
<1>. QED
  BY <1>1, <1>2 DEF HandlesInv

-----------------------------------------------------------------------------
(* Steps of an operation that use neither the table nor the disk.          *)

\* What an operation works with.
LEMMA Own ==
  ASSUME HandlesInv, NEW t \in Thread
  PROVE  /\ asked[t] \in Seq(Dir) /\ todo[t] \in Seq(Lookup)
         /\ got[t] \in Seq({0} \cup Handle) /\ done[t] \in Seq([on : Data, of : Data])
         /\ at[t] # "idle" =>
              /\ Aims(t) /\ Len(todo[t]) \in 1 .. Len(asked[t])
              /\ todo[t][1] \in Lookup /\ todo[t][1].dir = asked[t][Pos(t)]
              /\ asked[t][Pos(t)] \in Dir
              /\ \A i \in 1 .. Len(got[t]) : Len(done[t]) + i \in 1 .. Len(asked[t])
<1>1. /\ asked[t] \in Seq(Dir) /\ todo[t] \in Seq(Lookup)
      /\ done[t] \in Seq([on : Data, of : Data]) /\ got[t] \in Seq({0} \cup Handle)
  BY DEF HandlesInv, TypeOK, Lookup
<1>2. SUFFICES ASSUME at[t] # "idle"
      PROVE  /\ Aims(t) /\ Len(todo[t]) \in 1 .. Len(asked[t])
             /\ todo[t][1] \in Lookup /\ todo[t][1].dir = asked[t][Pos(t)]
             /\ asked[t][Pos(t)] \in Dir
             /\ \A i \in 1 .. Len(got[t]) : Len(done[t]) + i \in 1 .. Len(asked[t])
  BY <1>1
<1>. DEFINE n == Len(asked[t]) l == Len(todo[t]) m == Len(got[t]) k == Len(done[t])
<1>3. n \in Nat /\ m \in Nat /\ k \in Nat /\ Found(t) \in {0, 1}
  BY <1>1 DEF Found
<1>4. /\ Aims(t) /\ l \in 1 .. n
      /\ k + m = n - l + Found(t)
      /\ \A i \in 1 .. l : todo[t][i].dir = asked[t][n - l + i]
  BY <1>2 DEF HandlesInv, Aims
<1>5. Pos(t) = n - l + 1
  BY DEF Pos
<1>6. todo[t][1] \in Lookup /\ todo[t][1].dir = asked[t][n - l + 1]
  <2>1. 1 \in 1 .. l
    BY <1>3, <1>4
  <2>. QED
    BY <1>1, <1>4, <2>1, ElementOfSeq
<1>. HIDE DEF n, l, m, k
<1>7. n - l + 1 \in 1 .. n /\ \A i \in 1 .. m : k + i \in 1 .. n
  BY <1>3, <1>4
<1>8. asked[t][n - l + 1] \in Dir
  BY <1>1, <1>7, ElementOfSeq DEF n
<1>. QED
  BY <1>4, <1>5, <1>6, <1>7, <1>8 DEF n, l, m, k

\* The table and the disk are as before, and t is neither at work on a folder
\* before the step nor after it.
LEMMA CacheStays ==
  ASSUME HandlesInv, NEW t \in Thread, UNCHANGED <<disk, repos, opened>>,
         \A u \in Thread \ {t} : Rests(u),
         at[t] \notin Opens, at'[t] \notin Opens
  PROVE  DiskInv' /\ CacheInv' /\ Grows
<1>1. Pending' = Pending /\ Pending \subseteq Thread \ {t}
  BY DEF Pending, Opens, Rests
<1>2. Handle' = Handle /\ \A k : Cached(k)' = Cached(k)
  BY DEF Handle, Cached
<1>3. DiskInv' /\ Grows
  BY <1>2 DEF HandlesInv, DiskInv, Grows, disk
<1>4. CacheInv'
  BY <1>1, <1>2 DEF HandlesInv, CacheInv, Rests, Has, disk
<1>. QED
  BY <1>3, <1>4

SeenType == [Thread -> [table : Nat, keys : SUBSET Dir]]

LEMMA TypeGoes ==
  ASSUME TypeOK, UNCHANGED <<disk, opened, freed, moves>>,
         tables' \in Nat, crossed' \subseteq Dir, DOMAIN repos' \subseteq Dir,
         \A d \in DOMAIN repos' : repos'[d] \in {0} \cup Handle,
         seen' \in SeenType,
         at' \in [Thread -> {"idle", "find", "look", "make", "got"} \cup Opens],
         op' \in [Thread -> Op], todo' \in [Thread -> Seq(Lookup)],
         key' \in [Thread -> Dir \cup {None}], got' \in [Thread -> Seq({0} \cup Handle)],
         error' \in [Thread -> BOOLEAN], asked' \in [Thread -> Seq(Dir)],
         done' \in [Thread -> Seq([on : Data, of : Data])], ops' \in 0 .. MaxOps
  PROVE  TypeOK'
<1>1. Data' = Data /\ Handle' = Handle
  BY DEF Data, Handle, disk
<1>. QED
  BY <1>1 DEF TypeOK, Lookup, Opens, SeenType, disk

LEMMA TypeStays ==
  ASSUME TypeOK, UNCHANGED <<disk, cache, seen, moves>>,
         at' \in [Thread -> {"idle", "find", "look", "make", "got"} \cup Opens],
         op' \in [Thread -> Op], todo' \in [Thread -> Seq(Lookup)],
         key' \in [Thread -> Dir \cup {None}], got' \in [Thread -> Seq({0} \cup Handle)],
         error' \in [Thread -> BOOLEAN], asked' \in [Thread -> Seq(Dir)],
         done' \in [Thread -> Seq([on : Data, of : Data])], ops' \in 0 .. MaxOps
  PROVE  TypeOK'
<1>1. /\ tables' \in Nat /\ crossed' \subseteq Dir /\ DOMAIN repos' \subseteq Dir
      /\ \A d \in DOMAIN repos' : repos'[d] \in {0} \cup Handle
      /\ seen' \in SeenType /\ UNCHANGED <<disk, opened, freed, moves>>
  BY DEF TypeOK, SeenType, cache
<1>. QED
  BY <1>1, TypeGoes

LEMMA BeginStep ==
  ASSUME HandlesInv, NEW t \in Thread, NEW o \in Op, Begin(t, o)
  PROVE  HandlesInv'
<1>. PICK plan \in Plans(o) :
       /\ todo' = [todo EXCEPT ![t] = plan]
       /\ asked' = [asked EXCEPT ![t] = [i \in DOMAIN plan |-> plan[i].dir]]
       /\ at' = [at EXCEPT ![t] = IF plan = <<>> THEN "idle" ELSE "find"]
  BY DEF Begin
<1>1. plan \in Seq(Lookup)
  BY PlansType
<1>. DEFINE dirs == [i \in DOMAIN plan |-> plan[i].dir]
<1>2. /\ dirs \in Seq(Dir) /\ Len(dirs) = Len(plan)
      /\ \A i \in 1 .. Len(plan) : dirs[i] = plan[i].dir
  <2>1. Len(plan) \in Nat /\ plan \in [1 .. Len(plan) -> Lookup]
    BY <1>1, LenProperties
  <2>2. dirs \in [1 .. Len(plan) -> Dir]
    BY <2>1 DEF Lookup
  <2>. QED
    BY <2>1, <2>2, SeqDef
<1>. HIDE DEF dirs
<1>3. /\ at[t] = "idle" /\ UNCHANGED <<disk, cache, key, seen, moves>> /\ ops' = ops + 1
      /\ op' = [op EXCEPT ![t] = o] /\ got' = [got EXCEPT ![t] = <<>>]
      /\ error' = [error EXCEPT ![t] = FALSE] /\ done' = [done EXCEPT ![t] = <<>>]
      /\ ops < MaxOps /\ asked' = [asked EXCEPT ![t] = dirs]
  BY DEF Begin, dirs
<1>4. TypeOK /\ \A u \in Thread \ {t} : Rests(u)
  BY <1>3 DEF HandlesInv, TypeOK, Rests, Has
<1>5. /\ at'[t] = IF plan = <<>> THEN "idle" ELSE "find"
      /\ todo'[t] = plan /\ asked'[t] = dirs /\ got'[t] = <<>> /\ done'[t] = <<>>
  BY <1>3 DEF HandlesInv, TypeOK
<1>6. DiskInv' /\ CacheInv' /\ Grows
  BY <1>3, <1>4, <1>5, CacheStays DEF Opens, cache
<1>7. TypeOK'
  <2>1. todo'[t] \in Seq(Lookup) /\ asked'[t] \in Seq(Dir) /\ at'[t] \in {"idle", "find"}
    BY <1>1, <1>2, <1>5
  <2>2. ops' \in 0 .. MaxOps /\ error' \in [Thread -> BOOLEAN] /\ op' \in [Thread -> Op]
    BY <1>3, <1>4, HandlesAssumption DEF TypeOK
  <2>3. /\ at' \in [Thread -> {"idle", "find", "look", "make", "got"} \cup Opens]
        /\ todo' \in [Thread -> Seq(Lookup)] /\ asked' \in [Thread -> Seq(Dir)]
    BY <1>3, <1>4, <2>1 DEF TypeOK, Lookup
  <2>4. /\ got' \in [Thread -> Seq({0} \cup Handle)]
        /\ done' \in [Thread -> Seq([on : Data, of : Data])]
        /\ key' \in [Thread -> Dir \cup {None}]
    BY <1>3, <1>4, EmptySeq DEF TypeOK
  <2>. QED
    BY <1>3, <1>4, <2>2, <2>3, <2>4, TypeStays DEF Lookup
<1>8. KeyInv'
  BY <1>3, <1>4, <1>5 DEF HandlesInv, KeyInv, Rests, Has, Opens
<1>9. Aims(t)'
  <2>1. SUFFICES ASSUME plan # <<>> PROVE Aims(t)'
    BY <1>5 DEF Aims
  <2>2. Len(plan) \in Nat \ {0} /\ Found(t)' = 0
    BY <1>1, <1>5, <2>1, EmptySeq DEF Found, Pending
  <2>. QED
    BY <1>2, <1>5, <2>2 DEF Aims
<1>10. \A i \in DOMAIN done'[t] : done'[t][i].on \in {done'[t][i].of, Undefined}
  BY <1>5
<1>. QED
  BY <1>4, <1>6, <1>7, <1>8, <1>9, <1>10, ThreadStep

\* The operation ends without the handle it looks for.
LEMMA FailStep ==
  ASSUME HandlesInv, NEW t \in Thread, NEW e \in BOOLEAN, Fail(t, e),
         at[t] \notin Opens, UNCHANGED <<disk, cache, seen, ops, moves>>
  PROVE  HandlesInv'
<1>1. /\ at' = [at EXCEPT ![t] = "idle"] /\ todo' = [todo EXCEPT ![t] = <<>>]
      /\ key' = [key EXCEPT ![t] = None] /\ got' = [got EXCEPT ![t] = <<>>]
      /\ error' = [error EXCEPT ![t] = e] /\ UNCHANGED <<op, done, asked>>
  BY DEF Fail, End
<1>2. TypeOK /\ (\A u \in Thread \ {t} : Rests(u)) /\ at'[t] = "idle"
  BY <1>1 DEF HandlesInv, TypeOK, Rests, Has
<1>3. DiskInv' /\ CacheInv' /\ Grows
  BY <1>2, CacheStays DEF Opens, cache
<1>4. TypeOK'
  <2>1. /\ at' \in [Thread -> {"idle", "find", "look", "make", "got"} \cup Opens]
        /\ todo' \in [Thread -> Seq(Lookup)] /\ key' \in [Thread -> Dir \cup {None}]
        /\ got' \in [Thread -> Seq({0} \cup Handle)] /\ error' \in [Thread -> BOOLEAN]
    BY <1>1, <1>2, EmptySeq DEF TypeOK, Lookup
  <2>2. /\ op' \in [Thread -> Op] /\ asked' \in [Thread -> Seq(Dir)] /\ ops' \in 0 .. MaxOps
        /\ done' \in [Thread -> Seq([on : Data, of : Data])]
    BY <1>1, <1>2 DEF TypeOK
  <2>. QED
    BY <1>2, <2>1, <2>2, TypeStays DEF Lookup
<1>5. KeyInv'
  BY <1>1, <1>2 DEF HandlesInv, KeyInv, Rests, Has, Opens
<1>6. Aims(t)'
  BY <1>2 DEF Aims
<1>7. \A i \in DOMAIN done'[t] : done'[t][i].on \in {done'[t][i].of, Undefined}
  BY <1>1 DEF HandlesInv, RightRepo
<1>. QED
  BY <1>2, <1>3, <1>4, <1>5, <1>6, <1>7, ThreadStep

LEMMA FindStep ==
  ASSUME HandlesInv, NEW t \in Thread, Find(t)
  PROVE  HandlesInv'
<1>. DEFINE d == todo[t][1].dir
<1>1. at[t] = "find" /\ UNCHANGED <<disk, cache, seen, ops, moves>>
  BY DEF Find
<1>2. CASE Fail(t, TRUE) \/ Fail(t, FALSE)
  BY <1>1, <1>2, FailStep DEF Opens
<1>3. CASE /\ \/ key' = [key EXCEPT ![t] = d]
              \/ ind[d] \in Folder /\ key' = [key EXCEPT ![t] = ind[d]]
           /\ at' = [at EXCEPT ![t] = "look"]
           /\ UNCHANGED <<op, todo, got, error, done, asked>>
  <2>1. d \in Dir /\ d = asked[t][Pos(t)] /\ Aims(t) /\ TypeOK
    BY <1>1, Own DEF Lookup, HandlesInv
  <2>2. (\A u \in Thread \ {t} : Rests(u)) /\ at'[t] = "look"
    BY <1>3, <2>1 DEF TypeOK, Rests, Has
  <2>3. DiskInv' /\ CacheInv' /\ Grows
    BY <1>1, <2>2, CacheStays DEF Opens, cache
  <2>4. key'[t] \in {d, Home(d)} /\ key'[t] \in Dir
    <3>1. ind[d] \in Folder => ind[d] \in {d, Home(d)}
      BY <2>1, HandlesAssumption DEF HandlesInv, DiskInv, Home, Dir
    <3>. QED
      BY <1>3, <2>1, <3>1 DEF TypeOK, Dir
  <2>5. TypeOK'
    <3>1. Data' = Data /\ Handle' = Handle
      BY <1>1 DEF Data, Handle, disk, cache
    <3>. QED
      BY <1>1, <1>3, <2>1, <3>1 DEF TypeOK, Opens, disk, cache, Dir
  <2>6. KeyInv'
    BY <1>3, <2>2, <2>4 DEF HandlesInv, KeyInv, Rests, Has, Opens
  <2>7. Aims(t)'
    <3>1. Pos(t)' = Pos(t) /\ Found(t)' = Found(t)
      BY <1>1, <1>3, <2>2 DEF Pos, Found, Pending
    <3>2. \A x : Home(x)' = Home(x)
      BY <1>1 DEF Home, disk
    <3>3. \A x : Base(x)' = Base(x)
      BY <1>1 DEF Base, Home, disk
    <3>. QED
      BY <1>1, <1>3, <2>1, <2>2, <2>4, <3>1, <3>2, <3>3 DEF Aims, cache, Home
  <2>8. \A i \in DOMAIN done'[t] : done'[t][i].on \in {done'[t][i].of, Undefined}
    BY <1>3 DEF HandlesInv, RightRepo
  <2>. QED
    BY <2>2, <2>3, <2>5, <2>6, <2>7, <2>8, ThreadStep
<1>4. \/ Fail(t, TRUE) \/ Fail(t, FALSE)
      \/ /\ \/ key' = [key EXCEPT ![t] = d]
            \/ ind[d] \in Folder /\ key' = [key EXCEPT ![t] = ind[d]]
         /\ at' = [at EXCEPT ![t] = "look"]
         /\ UNCHANGED <<op, todo, got, error, done, asked>>
  BY DEF Find
<1>. QED
  BY <1>2, <1>3, <1>4

-----------------------------------------------------------------------------
(* Steps that use the table and the disk.                                  *)

\* A thread gets handle h, or 0, for the folder it looks for.
LEMMA AimsGot ==
  ASSUME HandlesInv, Grows, NEW t \in Thread, at[t] \in {"look", "open"},
         NEW h \in {0} \cup Handle', got'[t] = Append(got[t], h),
         todo'[t] = todo[t], key'[t] = key[t], asked'[t] = asked[t], done'[t] = done[t],
         at'[t] \in {"got", "clear", "put"}, h = 0 => at'[t] = "put",
         h # 0 => opened'[h] = Base(asked[t][Pos(t)])'
  PROVE  Aims(t)'
<1>. DEFINE n == Len(asked[t]) l == Len(todo[t]) m == Len(got[t]) k == Len(done[t])
<1>1. /\ asked[t] \in Seq(Dir) /\ todo[t] \in Seq(Lookup)
      /\ got[t] \in Seq({0} \cup Handle) /\ done[t] \in Seq([on : Data, of : Data])
      /\ Aims(t) /\ asked[t][Pos(t)] \in Dir
      /\ \A i \in 1 .. m : k + i \in 1 .. n
  BY Own
<1>2. Found(t) = 0 /\ Found(t)' = 1 /\ Pos(t) = n - l + 1 /\ Pos(t)' = Pos(t)
  BY DEF Found, Pos, Pending
<1>3. n \in Nat /\ l \in 1 .. n /\ m \in Nat /\ k \in Nat /\ k + m = n - l
  <2>1. l \in 1 .. n /\ k + m = n - l + Found(t)
    BY <1>1 DEF Aims
  <2>2. n \in Nat /\ m \in Nat /\ k \in Nat
    BY <1>1
  <2>. HIDE DEF n, l, m, k
  <2>. QED
    BY <1>2, <2>1, <2>2
<1>4. Len(got'[t]) = m + 1 /\ got'[t][m + 1] = h /\ \A i \in 1 .. m : got'[t][i] = got[t][i]
  BY <1>1
<1>5. Home(asked[t][Pos(t)])' = Home(asked[t][Pos(t)])
  BY <1>1, <1>2, BaseStays DEF HandlesInv, Home
<1>6. ASSUME NEW i \in 1 .. m
      PROVE  got[t][i] # 0 /\ opened'[got[t][i]] = Base(asked[t][k + i])'
  <2>1. got[t][i] # 0 /\ opened[got[t][i]] = Base(asked[t][k + i])
    BY <1>1 DEF Aims
  <2>2. got[t][i] \in Handle /\ opened[got[t][i]] # 0
    <3>1. got[t][i] \in {0} \cup Handle
      BY <1>1
    <3>2. \A g \in Handle : opened[g] # 0
      BY DEF HandlesInv, TypeOK, Handle
    <3>. QED
      BY <2>1, <3>1, <3>2
  <2>3. asked[t][k + i] \in Dir
    BY <1>1
  <2>4. Base(asked[t][k + i])' = Base(asked[t][k + i])
    <3>. PICK d : d = asked[t][k + i]
      OBVIOUS
    <3>1. d \in Dir /\ Base(d) # 0 /\ asked[t][k + i]' = d
      BY <2>1, <2>2, <2>3
    <3>2. Base(d)' = Base(d)
      BY <3>1, BaseStays DEF HandlesInv
    <3>. QED
      BY <3>1, <3>2 DEF Base, Home
  <2>. QED
    BY <2>1, <2>2, <2>4 DEF Grows
<1>7. k + (m + 1) = Pos(t)
  <2>. HIDE DEF n, l, m, k
  <2>. QED
    BY <1>2, <1>3
<1>8. ASSUME NEW i \in 1 .. Len(got'[t])
      PROVE  IF got'[t][i] = 0 THEN at'[t] \in {"put", "link"} /\ i = Len(got'[t])
             ELSE opened'[got'[t][i]] = Base(asked[t][Len(done[t]) + i])'
  <2>1. CASE i \in 1 .. m
    BY <1>4, <1>6, <2>1
  <2>2. CASE i = m + 1
    BY <1>2, <1>4, <1>7, <2>2
  <2>. QED
    BY <1>3, <1>4, <2>1, <2>2
<1>9. /\ Len(todo'[t]) \in 1 .. Len(asked'[t])
      /\ \A i \in 1 .. Len(todo'[t]) :
           todo'[t][i].dir = asked'[t][Len(asked'[t]) - Len(todo'[t]) + i]
      /\ key'[t] \in {asked[t][Pos(t)]', Home(asked[t][Pos(t)])'}
  BY <1>1, <1>2, <1>5 DEF Aims
<1>10. Len(done'[t]) + Len(got'[t]) = Len(asked'[t]) - Len(todo'[t]) + Found(t)'
  <2>. HIDE DEF n, l, m, k
  <2>1. k + (m + 1) = n - l + 1
    BY <1>3
  <2>. QED
    BY <1>2, <1>4, <2>1 DEF n, l, m, k
<1>. QED
  BY <1>8, <1>9, <1>10 DEF Aims

\* A thread looks for a handle, and has none yet; a table may be made.
LEMMA WaitStep ==
  ASSUME HandlesInv, NEW t \in Thread, at[t] \in {"look", "make"},
         NEW a \in {"look", "make", "open"}, at' = [at EXCEPT ![t] = a],
         UNCHANGED <<disk, opened, freed, op, todo, key, seen, got, error, done, asked, ops,
                     moves>>,
         repos' = repos \/ repos' = Empty, tables' \in Nat, crossed' \subseteq Dir
  PROVE  HandlesInv'
<1>1. TypeOK /\ key[t] \in Dir /\ at[t] \notin Opens
  BY DEF HandlesInv, KeyInv, Opens
<1>2. Handle' = Handle
  BY DEF Handle
<1>3. (\A u \in Thread \ {t} : Rests(u)) /\ at'[t] = a /\ Has(t)
  BY <1>1 DEF TypeOK, Rests, Has
<1>4. DiskInv' /\ Grows
  BY <1>2 DEF HandlesInv, DiskInv, Grows, disk
<1>5. Pending' = Pending
  BY <1>3 DEF Pending, Rests
<1>6. DOMAIN repos' \subseteq DOMAIN repos /\ \A e \in DOMAIN repos' : repos'[e] = repos[e]
  BY DEF Empty
<1>7. CacheInv'
  <2>1. \A e \in DOMAIN repos' : repos'[e] # 0 => opened'[repos'[e]] = data'[e]
    BY <1>6 DEF HandlesInv, CacheInv, disk
  <2>2. \A u \in Pending' :
          got'[u] # <<>> /\ (Last(got'[u]) # 0 => opened'[Last(got'[u])] = data'[key'[u]])
    BY <1>5 DEF HandlesInv, CacheInv, disk
  <2>. QED
    BY <2>1, <2>2 DEF CacheInv
<1>8. TypeOK'
  <2>1. /\ at' \in [Thread -> {"idle", "find", "look", "make", "got"} \cup Opens]
        /\ op' \in [Thread -> Op] /\ todo' \in [Thread -> Seq(Lookup)]
        /\ got' \in [Thread -> Seq({0} \cup Handle)]
        /\ key' \in [Thread -> Dir \cup {None}] /\ error' \in [Thread -> BOOLEAN]
        /\ asked' \in [Thread -> Seq(Dir)] /\ ops' \in 0 .. MaxOps
        /\ done' \in [Thread -> Seq([on : Data, of : Data])] /\ seen' \in SeenType
    BY <1>1 DEF TypeOK, Lookup, Opens, SeenType
  <2>2. DOMAIN repos' \subseteq Dir /\ \A d \in DOMAIN repos' : repos'[d] \in {0} \cup Handle
    BY <1>1, <1>6 DEF TypeOK
  <2>. QED
    BY <1>1, <2>1, <2>2, TypeGoes
<1>9. KeyInv'
  BY <1>1, <1>3 DEF HandlesInv, KeyInv, Rests, Has, Opens
<1>10. Aims(t)'
  <2>1. Found(t)' = Found(t)
    BY <1>3 DEF Found, Pending
  <2>2. \A i \in 1 .. Len(got[t]) : got[t][i] # 0
    BY DEF HandlesInv, Aims
  <2>. QED
    BY <1>3, <1>4, <2>1, <2>2, AimsGo
<1>11. \A i \in DOMAIN done'[t] : done'[t][i].on \in {done'[t][i].of, Undefined}
  BY DEF HandlesInv, RightRepo
<1>. QED
  BY <1>3, <1>4, <1>7, <1>8, <1>9, <1>10, <1>11, ThreadStep

LEMMA LookStep ==
  ASSUME HandlesInv, NEW t \in Thread, Look(t)
  PROVE  HandlesInv'
<1>. DEFINE k == key[t] d == asked[t][Pos(t)]
<1>1. /\ at[t] = "look" /\ TypeOK /\ k \in Dir /\ d \in Dir /\ k \in {d, Home(d)}
      /\ UNCHANGED <<disk, tables, repos, opened, freed, op, todo, key, seen, error, done,
                     asked, ops, moves>>
  BY Own DEF Look, HandlesInv, KeyInv, Aims
<1>2. Handle' = Handle /\ (\A f : Cached(f)' = Cached(f)) /\ \A x : Base(x)' = Base(x)
  BY <1>1 DEF Handle, Cached, Base, Home, disk
<1>3. CASE /\ Cached(k) # 0 /\ got' = [got EXCEPT ![t] = Append(@, Cached(k))]
           /\ at' = [at EXCEPT ![t] = "got"] /\ crossed' = crossed
  <2>1. Cached(k) \in Handle /\ opened[Cached(k)] = data[k]
    BY <1>3 DEF HandlesInv, TypeOK, CacheInv, Cached
  <2>2. (\A u \in Thread \ {t} : Rests(u)) /\ at'[t] = "got"
    BY <1>1, <1>3 DEF TypeOK, Rests, Has
  <2>3. DiskInv' /\ CacheInv' /\ Grows
    BY <1>1, <2>2, CacheStays DEF Opens, cache
  <2>4. TypeOK'
    <3>1. got[t] \in Seq({0} \cup Handle)
      BY Own
    <3>2. got' \in [Thread -> Seq({0} \cup Handle)]
      BY <1>1, <1>3, <2>1, <3>1 DEF TypeOK
    <3>3. /\ at' \in [Thread -> {"idle", "find", "look", "make", "got"} \cup Opens]
          /\ op' \in [Thread -> Op] /\ todo' \in [Thread -> Seq(Lookup)]
          /\ key' \in [Thread -> Dir \cup {None}] /\ error' \in [Thread -> BOOLEAN]
          /\ asked' \in [Thread -> Seq(Dir)] /\ ops' \in 0 .. MaxOps
          /\ done' \in [Thread -> Seq([on : Data, of : Data])]
      BY <1>1, <1>3 DEF TypeOK, Lookup
    <3>. QED
      BY <1>1, <1>3, <3>2, <3>3, TypeStays DEF cache
  <2>5. KeyInv'
    BY <1>1, <2>2 DEF HandlesInv, KeyInv, Rests, Has, Opens
  <2>6. Aims(t)'
    <3>1. opened[Cached(k)] # 0
      BY <2>1 DEF HandlesInv, TypeOK, Handle
    <3>2. data[k] = Base(d)
      BY <1>1, <2>1, <3>1, BaseIs DEF HandlesInv
    <3>3. opened'[Cached(k)] = Base(d)'
      BY <1>1, <1>2, <2>1, <3>2 DEF Pos
    <3>4. got'[t] = Append(got[t], Cached(k))
      BY <1>1, <1>3 DEF TypeOK
    <3>. QED
      BY <1>1, <1>2, <1>3, <2>1, <2>2, <2>3, <3>3, <3>4, AimsGot
  <2>7. \A i \in DOMAIN done'[t] : done'[t][i].on \in {done'[t][i].of, Undefined}
    BY <1>1 DEF HandlesInv, RightRepo
  <2>. QED
    BY <2>2, <2>3, <2>4, <2>5, <2>6, <2>7, ThreadStep
<1>4. ASSUME NEW a \in {"make", "open"}, at' = [at EXCEPT ![t] = a], got' = got,
             crossed' \in {crossed, crossed \cup {k}}
      PROVE  HandlesInv'
  <2>1. tables' \in Nat /\ crossed' \subseteq Dir
    BY <1>1, <1>4 DEF TypeOK
  <2>. QED
    BY <1>1, <1>4, <2>1, WaitStep
<1>5. CASE /\ at' = [at EXCEPT ![t] = "make"]
           /\ UNCHANGED <<crossed, got>>
  BY <1>4, <1>5
<1>6. CASE /\ at' = [at EXCEPT ![t] = "open"] /\ got' = got
           /\ crossed' \in {crossed, crossed \cup {k}}
  BY <1>4, <1>6
<1>. QED
  BY <1>3, <1>5, <1>6 DEF Look

LEMMA MakeStep ==
  ASSUME HandlesInv, NEW t \in Thread, Make(t)
  PROVE  HandlesInv'
<1>1. tables' \in Nat /\ crossed' \subseteq Dir
  BY DEF Make, HandlesInv, TypeOK
<1>. QED
  BY <1>1, WaitStep DEF Make

\* A database is created, or none, in a folder without one, and a handle may
\* be opened: the disk stays in order, and nothing that is known changes.
LEMMA DiskGrows ==
  ASSUME TypeOK, DiskInv, NEW k \in Folder,
         \/ data' = data /\ lastData' = lastData
         \/ data[k] = 0 /\ data' = [data EXCEPT ![k] = lastData + 1] /\ lastData' = lastData + 1,
         \A v \in View : ind'[v] = ind[v],
         \A f \in Folder : ind'[f] \in {f, "empty", "none"},
         opened' = opened \/ opened' = Append(opened, data'[k])
  PROVE  /\ DiskInv' /\ Grows
         /\ data' \in [Dir -> Data'] /\ lastData' \in Nat /\ Data \subseteq Data'
<1>1. /\ data \in [Dir -> Data] /\ lastData \in Nat /\ opened \in Seq(Data \ {0})
      /\ Data = 0 .. lastData /\ Data' = 0 .. lastData'
  BY DEF TypeOK, Data
<1>2. lastData' \in Nat /\ Data \subseteq Data'
  BY <1>1
<1>3. /\ data' \in [Dir -> Data']
      /\ \A d \in Dir : data'[d] = data[d] \/ (d = k /\ data[d] = 0 /\ data'[d] = lastData + 1)
  BY <1>1, <1>2 DEF Dir
<1>4. \A d, e \in Dir : data'[d] = data'[e] /\ data'[d] # 0 => d = e
  BY <1>1, <1>3 DEF DiskInv
<1>5. \A h \in Handle : h \in Handle' /\ opened'[h] = opened[h]
  BY <1>1 DEF Handle
<1>6. Grows
  BY <1>3, <1>5 DEF Grows
<1>7. DiskInv'
  BY <1>3, <1>4, HandlesAssumption DEF DiskInv, Dir
<1>. QED
  BY <1>2, <1>3, <1>6, <1>7

LEMMA LastAppend ==
  ASSUME NEW S, NEW s \in Seq(S), NEW x \in S
  PROVE  Append(s, x) \in Seq(S) /\ Append(s, x) # <<>> /\ Last(Append(s, x)) = x
<1>1. Len(Append(s, x)) = Len(s) + 1 /\ Len(s) \in Nat /\ Append(s, x)[Len(s) + 1] = x
  BY LenProperties
<1>2. Append(s, x) \in Seq(S)
  OBVIOUS
<1>. QED
  BY <1>1, <1>2, EmptySeq DEF Last

LEMMA OpenStep ==
  ASSUME HandlesInv, NEW t \in Thread, Open(t)
  PROVE  HandlesInv'
<1>. DEFINE k == key[t] d == asked[t][Pos(t)]
<1>1. /\ at[t] = "open" /\ k \in Dir /\ d \in Dir /\ k \in {d, Home(d)}
      /\ UNCHANGED <<exists, writable, ind, tables, repos, freed, crossed, op, todo, key, seen,
                     done, asked, ops, moves>>
  BY Own DEF Open, HandlesInv, KeyInv, Aims, Opens
<1>2. TypeOK /\ DiskInv /\ CacheInv
  BY DEF HandlesInv
<1>3. got[t] \in Seq({0} \cup Handle) /\ opened \in Seq(Data \ {0})
  BY Own, <1>2 DEF TypeOK
<1>4. \A u \in Pending : Last(got[u]) # 0 => Last(got[u]) \in Handle
  <2>1. \A u \in Pending : got[u] \in Seq({0} \cup Handle) /\ got[u] # <<>>
    BY <1>2, Own DEF CacheInv, Pending
  <2>. QED
    BY <2>1 DEF Last
<1>5. CASE /\ k \in exists /\ (data[k] # 0 \/ k \in writable)
           /\ IF data[k] # 0 THEN UNCHANGED <<data, lastData>>
              ELSE data' = [data EXCEPT ![k] = lastData + 1] /\ lastData' = lastData + 1
           /\ opened' = Append(opened, data'[k])
           /\ got' = [got EXCEPT ![t] = Append(@, Len(opened) + 1)]
           /\ at' = [at EXCEPT ![t] = "clear"]
           /\ error' = error
  <2>. DEFINE h == Len(opened) + 1
  <2>1. k \in Folder
    BY <1>1, <1>2, <1>5 DEF TypeOK, DiskInv, Dir
  <2>2. /\ DiskInv' /\ Grows /\ data' \in [Dir -> Data'] /\ lastData' \in Nat
        /\ Data \subseteq Data'
    <3>1. \/ data' = data /\ lastData' = lastData
          \/ data[k] = 0 /\ data' = [data EXCEPT ![k] = lastData + 1]
             /\ lastData' = lastData + 1
      BY <1>5
    <3>2. \A f \in Folder : ind'[f] \in {f, "empty", "none"}
      BY <1>1, <1>2 DEF DiskInv
    <3>3. \A v \in View : ind'[v] = ind[v]
      BY <1>1
    <3>. HIDE DEF k
    <3>. QED
      BY <1>2, <1>5, <2>1, <3>1, <3>2, <3>3, DiskGrows
  <2>3. data'[k] \in Data' \ {0}
    BY <1>1, <1>2, <1>5, <2>2 DEF TypeOK, Data
  <2>4. /\ opened' \in Seq(Data' \ {0}) /\ Handle' = Handle \cup {h} /\ h \notin Handle
        /\ opened'[h] = data'[k] /\ h # 0 /\ h \in Nat
    <3>1. opened \in Seq(Data' \ {0})
      BY <1>3, <2>2, SeqMonotonic
    <3>. QED
      BY <1>3, <1>5, <2>3, <3>1 DEF Handle
  <2>5. (\A u \in Thread \ {t} : Rests(u)) /\ at'[t] = "clear" /\ got'[t] = Append(got[t], h)
    BY <1>1, <1>2, <1>5 DEF TypeOK, Rests, Has
  <2>6. Last(got'[t]) = h /\ got'[t] # <<>> /\ got'[t] \in Seq({0} \cup Handle')
    <3>1. got[t] \in Seq({0} \cup Handle')
      BY <1>3, <2>4, SeqMonotonic
    <3>. QED
      BY <2>4, <2>5, <3>1, LastAppend
  <2>7. Pending' = Pending \cup {t} /\ t \notin Pending
    BY <1>1, <2>5 DEF Pending, Rests
  <2>8. TypeOK'
    <3>1. got' \in [Thread -> Seq({0} \cup Handle')]
      <4>1. \A u \in Thread \ {t} : got'[u] \in Seq({0} \cup Handle')
        BY <2>4, <2>5, Own, SeqMonotonic DEF Rests, Has
      <4>. QED
        BY <1>2, <1>5, <2>6, <4>1 DEF TypeOK
    <3>2. done' \in [Thread -> Seq([on : Data', of : Data'])]
      <4>1. \A u \in Thread : done[u] \in Seq([on : Data', of : Data'])
        <5>1. [on : Data, of : Data] \subseteq [on : Data', of : Data']
          BY <2>2
        <5>2. \A u \in Thread : done[u] \in Seq([on : Data, of : Data])
          BY Own
        <5>. HIDE DEF k, d, h
        <5>. QED
          BY <5>1, <5>2, SeqMonotonic
      <4>. QED
        BY <1>1, <1>2, <4>1 DEF TypeOK
    <3>3. \A f \in DOMAIN repos' : repos'[f] \in {0} \cup Handle'
      BY <1>1, <1>2, <2>4 DEF TypeOK
    <3>4. freed' \subseteq Handle'
      BY <1>1, <1>2, <2>4 DEF TypeOK
    <3>5. at' \in [Thread -> {"idle", "find", "look", "make", "got"} \cup Opens]
      BY <1>2, <1>5 DEF TypeOK, Opens
    <3>. QED
      BY <1>1, <1>2, <1>5, <2>2, <2>4, <3>1, <3>2, <3>3, <3>4, <3>5 DEF TypeOK, Opens
  <2>9. KeyInv'
    BY <1>1, <2>5 DEF HandlesInv, KeyInv, Rests, Has, Opens
  <2>10. CacheInv'
    <3>3. ASSUME NEW e \in DOMAIN repos', repos'[e] # 0
          PROVE  opened'[repos'[e]] = data'[e]
      <4>1. repos[e] \in Handle /\ opened[repos[e]] = data[e] /\ e \in Dir
        BY <1>1, <1>2, <3>3 DEF TypeOK, CacheInv
      <4>2. data[e] # 0
        BY <1>3, <4>1 DEF Handle
      <4>. QED
        BY <1>1, <2>2, <4>1, <4>2 DEF Grows
    <3>4. ASSUME NEW u \in Pending'
          PROVE  got'[u] # <<>> /\ (Last(got'[u]) # 0 => opened'[Last(got'[u])] = data'[key'[u]])
      <4>1. CASE u = t
        BY <1>1, <2>4, <2>6, <4>1
      <4>2. CASE u # t
        <5>1. u \in Thread \ {t} /\ u \in Pending /\ got'[u] = got[u] /\ key'[u] = key[u]
          BY <2>5, <2>7, <4>2 DEF Pending, Rests, Has
        <5>2. got[u] # <<>> /\ (Last(got[u]) # 0 => opened[Last(got[u])] = data[key[u]])
          BY <1>2, <5>1 DEF CacheInv
        <5>3. key[u] \in Dir
          BY <5>1 DEF HandlesInv, KeyInv, Pending, Opens
        <5>4. Last(got[u]) # 0 => Last(got[u]) \in Handle /\ opened[Last(got[u])] # 0
          BY <1>3, <1>4, <5>1 DEF Handle
        <5>. QED
          BY <2>2, <5>1, <5>2, <5>3, <5>4 DEF Grows
      <4>. QED
        BY <4>1, <4>2
    <3>. QED
      BY <3>3, <3>4 DEF CacheInv
  <2>11. Aims(t)'
    <3>1. Home(d) = k
      BY <1>1, <2>1, KeyHome
    <3>2. Home(d)' = Home(d)
      BY <1>1 DEF Home, Pos
    <3>3. opened'[h] = Base(d)'
      BY <2>1, <2>4, <3>1, <3>2 DEF Base
    <3>. QED
      BY <1>1, <2>2, <2>4, <2>5, <3>3, AimsGot
  <2>12. \A i \in DOMAIN done'[t] : done'[t][i].on \in {done'[t][i].of, Undefined}
    BY <1>1 DEF HandlesInv, RightRepo
  <2>. QED
    BY <2>2, <2>5, <2>8, <2>9, <2>10, <2>11, <2>12, ThreadStep
<1>6. CASE /\ got' = [got EXCEPT ![t] = Append(@, 0)]
           /\ error' = [error EXCEPT ![t] = TRUE]
           /\ at' = [at EXCEPT ![t] = "put"]
           /\ UNCHANGED <<data, lastData, opened>>
  <2>1. (\A u \in Thread \ {t} : Rests(u)) /\ at'[t] = "put" /\ got'[t] = Append(got[t], 0)
    BY <1>1, <1>2, <1>6 DEF TypeOK, Rests, Has
  <2>2. Last(got'[t]) = 0 /\ got'[t] # <<>> /\ got'[t] \in Seq({0} \cup Handle)
    BY <1>3, <2>1, LastAppend
  <2>3. Pending' = Pending \cup {t} /\ t \notin Pending /\ Handle' = Handle
    BY <1>1, <1>6, <2>1 DEF Pending, Rests, Handle
  <2>4. DiskInv' /\ Grows
    BY <1>1, <1>2, <1>6, <2>3 DEF DiskInv, Grows
  <2>5. TypeOK'
    <3>1. Data' = Data
      BY <1>6 DEF Data
    <3>2. got' \in [Thread -> Seq({0} \cup Handle)]
      BY <1>2, <1>6, <2>1, <2>2 DEF TypeOK
    <3>. QED
      BY <1>1, <1>2, <1>6, <2>3, <3>1, <3>2 DEF TypeOK, Opens
  <2>6. KeyInv'
    BY <1>1, <2>1 DEF HandlesInv, KeyInv, Rests, Has, Opens
  <2>7. CacheInv'
    <3>3. \A e \in DOMAIN repos' : repos'[e] # 0 => opened'[repos'[e]] = data'[e]
      BY <1>1, <1>2, <1>6 DEF CacheInv
    <3>4. \A u \in Pending' :
            got'[u] # <<>> /\ (Last(got'[u]) # 0 => opened'[Last(got'[u])] = data'[key'[u]])
      BY <1>1, <1>2, <1>6, <2>1, <2>2, <2>3 DEF CacheInv, Rests, Has, Pending
    <3>. QED
      BY <3>3, <3>4 DEF CacheInv
  <2>8. Aims(t)'
    BY <1>1, <2>1, <2>4, AimsGot
  <2>9. \A i \in DOMAIN done'[t] : done'[t][i].on \in {done'[t][i].of, Undefined}
    BY <1>1 DEF HandlesInv, RightRepo
  <2>. QED
    BY <2>1, <2>4, <2>5, <2>6, <2>7, <2>8, <2>9, ThreadStep
<1>. QED
  BY <1>5, <1>6 DEF Open

\* The indicator file of a folder is emptied or written.
LEMMA IndicatorStep ==
  ASSUME HandlesInv, NEW t \in Thread, at[t] \in {"clear", "write"},
         NEW next \in {"write", "put"}, at' = [at EXCEPT ![t] = next],
         next = "write" => key[t] \in Folder,
         \/ ind' = ind
         \/ key[t] \in Folder /\ ind' = [ind EXCEPT ![key[t]] = "empty"]
         \/ key[t] \in Folder /\ ind' = [ind EXCEPT ![key[t]] = key[t]],
         error' \in [Thread -> BOOLEAN],
         UNCHANGED <<exists, writable, data, lastData, cache, op, todo, key, seen, got, asked,
                     done, ops, moves>>
  PROVE  HandlesInv'
<1>1. TypeOK /\ DiskInv /\ CacheInv /\ KeyInv /\ key[t] \in Dir
  BY DEF HandlesInv, KeyInv, Opens
<1>2. (\A u \in Thread \ {t} : Rests(u)) /\ at'[t] = next /\ Has(t)
  BY <1>1 DEF TypeOK, Rests, Has
<1>3. Pending' = Pending /\ t \in Pending
  BY <1>2 DEF Pending, Rests
<1>4. Handle' = Handle /\ Data' = Data
  BY DEF Handle, Data, cache
<1>5. /\ ind' \in [Dir -> Folder \cup {"empty", "none"}]
      /\ \A v \in View : ind'[v] = ind[v]
      /\ \A f \in Folder : ind'[f] \in {f, "empty", "none"}
  <2>1. ind \in [Dir -> Folder \cup {"empty", "none"}]
    BY <1>1 DEF TypeOK
  <2>2. ind' \in [Dir -> Folder \cup {"empty", "none"}]
    BY <2>1
  <2>3. \A v \in View : ind'[v] = ind[v]
    BY <2>1, HandlesAssumption DEF Dir
  <2>4. \A f \in Folder : ind'[f] \in {f, "empty", "none"}
    BY <1>1, <2>1 DEF DiskInv, Dir
  <2>. QED
    BY <2>2, <2>3, <2>4
<1>6. DiskInv' /\ Grows
  BY <1>1, <1>4, <1>5 DEF DiskInv, Grows, cache
<1>7. TypeOK'
  BY <1>1, <1>4, <1>5 DEF TypeOK, Opens, cache
<1>8. KeyInv'
  BY <1>1, <1>2 DEF KeyInv, Rests, Has, Opens
<1>9. CacheInv'
  <2>3. \A e \in DOMAIN repos' : repos'[e] # 0 => opened'[repos'[e]] = data'[e]
    BY <1>1 DEF CacheInv, cache
  <2>4. \A u \in Pending' :
          got'[u] # <<>> /\ (Last(got'[u]) # 0 => opened'[Last(got'[u])] = data'[key'[u]])
    BY <1>1, <1>3 DEF CacheInv, cache
  <2>. QED
    BY <2>3, <2>4 DEF CacheInv
<1>10. Aims(t)'
  <2>1. Found(t)' = Found(t)
    BY <1>3 DEF Found
  <2>2. \A i \in 1 .. Len(got[t]) : got[t][i] # 0
    BY DEF HandlesInv, Aims
  <2>. QED
    BY <1>2, <1>6, <2>1, <2>2, AimsGo
<1>11. \A i \in DOMAIN done'[t] : done'[t][i].on \in {done'[t][i].of, Undefined}
  BY DEF HandlesInv, RightRepo
<1>. QED
  BY <1>2, <1>6, <1>7, <1>8, <1>9, <1>10, <1>11, ThreadStep

LEMMA ClearStep ==
  ASSUME HandlesInv, NEW t \in Thread, Clear(t)
  PROVE  HandlesInv'
<1>1. error \in [Thread -> BOOLEAN] /\ writable \subseteq Folder
  BY DEF HandlesInv, TypeOK
<1>. QED
  BY <1>1, IndicatorStep DEF Clear

LEMMA WriteStep ==
  ASSUME HandlesInv, NEW t \in Thread, Write(t)
  PROVE  HandlesInv'
<1>1. error \in [Thread -> BOOLEAN] /\ key[t] \in Folder
  BY DEF HandlesInv, TypeOK, KeyInv, Write
<1>. QED
  BY <1>1, IndicatorStep DEF Write

LEMMA PutStep ==
  ASSUME HandlesInv, NEW t \in Thread, Put(t)
  PROVE  HandlesInv'
<1>1. /\ at[t] = "put" /\ at' = [at EXCEPT ![t] = "link"]
      /\ TypeOK /\ DiskInv /\ CacheInv /\ KeyInv
      /\ seen' = [seen EXCEPT ![t] = [table |-> tables, keys |-> DOMAIN repos]]
      /\ freed' = freed \cup Replaced(key[t])
      /\ UNCHANGED <<disk, tables, repos, opened, crossed, op, todo, key, got, error, done,
                     asked, ops, moves>>
  BY DEF Put, HandlesInv
<1>2. (\A u \in Thread \ {t} : Rests(u)) /\ at'[t] = "link" /\ Has(t)
  BY <1>1 DEF TypeOK, Rests, Has
<1>3. Pending' = Pending /\ Handle' = Handle /\ Data' = Data
  BY <1>1, <1>2 DEF Pending, Rests, Handle, Data, disk
<1>4. DiskInv' /\ Grows
  BY <1>1, <1>3 DEF DiskInv, Grows, disk
<1>5. TypeOK'
  <2>1. freed' \subseteq Handle
    BY <1>1 DEF TypeOK, Replaced, Cached
  <2>2. seen' \in SeenType
    BY <1>1 DEF TypeOK, SeenType
  <2>. QED
    BY <1>1, <1>3, <2>1, <2>2 DEF TypeOK, SeenType, Opens, disk
<1>6. KeyInv'
  BY <1>1, <1>2 DEF KeyInv, Rests, Has, Opens
<1>7. CacheInv'
  <2>1. \A e \in DOMAIN repos' : repos'[e] # 0 => opened'[repos'[e]] = data'[e]
    BY <1>1 DEF CacheInv, disk
  <2>2. \A u \in Pending' :
          got'[u] # <<>> /\ (Last(got'[u]) # 0 => opened'[Last(got'[u])] = data'[key'[u]])
    BY <1>1, <1>3 DEF CacheInv, disk
  <2>. QED
    BY <2>1, <2>2 DEF CacheInv
<1>8. Aims(t)'
  <2>1. Found(t)' = Found(t)
    BY <1>1, <1>2 DEF Found, Pending
  <2>. QED
    BY <1>1, <1>2, <1>4, <2>1, AimsGo
<1>9. \A i \in DOMAIN done'[t] : done'[t][i].on \in {done'[t][i].of, Undefined}
  BY <1>1 DEF HandlesInv, RightRepo
<1>. QED
  BY <1>2, <1>4, <1>5, <1>6, <1>7, <1>8, <1>9, ThreadStep

\* What the end of a put of t does to the table: the folder of t may get its
\* handle, and others may be lost.
LEMMA LinkTable ==
  ASSUME TypeOK, NEW t \in Thread, key[t] \in Dir, Link(t)
  PROVE  /\ DOMAIN repos' \subseteq DOMAIN repos \cup {key[t]} /\ crossed' \subseteq Dir
         /\ \A e \in DOMAIN repos' : \/ e = key[t] /\ repos'[e] = Last(got[t])
                                     \/ e \in DOMAIN repos /\ repos'[e] = repos[e]
<1>. PICK k, h : k = key[t] /\ h = Last(got[t])
  OBVIOUS
<1>1. crossed \subseteq Dir /\ DOMAIN repos \subseteq Dir
  BY DEF TypeOK
<1>2. CASE crossed' = crossed \cup {k} /\ repos' = repos
  BY <1>1, <1>2
<1>3. CASE /\ k \in DOMAIN repos /\ crossed' = crossed
           /\ repos' = [d \in DOMAIN repos |-> IF d = k THEN h ELSE repos[d]]
  <2>1. DOMAIN repos' = DOMAIN repos
    BY <1>3
  <2>2. \A e \in DOMAIN repos : repos'[e] = IF e = k THEN h ELSE repos[e]
    BY <1>3
  <2>. QED
    BY <1>1, <1>3, <2>1, <2>2
<1>4. CASE \E lost \in SUBSET DOMAIN repos :
             /\ repos' = [d \in (DOMAIN repos \ lost) \cup {k} |-> IF d = k THEN h ELSE repos[d]]
             /\ crossed' = crossed \cup lost
  BY <1>1, <1>4
<1>. QED
  BY <1>2, <1>3, <1>4 DEF Link

LEMMA LinkStep ==
  ASSUME HandlesInv, NEW t \in Thread, Link(t)
  PROVE  HandlesInv'
<1>. DEFINE k == key[t] h == Last(got[t])
<1>1. /\ at[t] = "link" /\ k \in Dir /\ TypeOK /\ DiskInv /\ CacheInv /\ KeyInv
      /\ UNCHANGED <<disk, tables, opened, freed, ops, moves>>
      /\ seen' = [seen EXCEPT ![t] = Unseen]
  BY DEF Link, HandlesInv, KeyInv, Opens
<1>13. /\ DOMAIN repos' \subseteq DOMAIN repos \cup {k} /\ crossed' \subseteq Dir
       /\ \A e \in DOMAIN repos' :
            (e = k /\ repos'[e] = h) \/ (e \in DOMAIN repos /\ repos'[e] = repos[e])
  <2>. HIDE DEF h, k
  <2>. QED
    BY <1>1, LinkTable DEF h, k
<1>2. t \in Pending /\ got[t] # <<>> /\ got[t] \in Seq({0} \cup Handle)
  BY <1>1, Own DEF Pending, CacheInv
<1>3. h \in {0} \cup Handle /\ (h # 0 => opened[h] = data[k])
  BY <1>1, <1>2 DEF CacheInv, Last
<1>4. seen' \in SeenType
  BY <1>1 DEF TypeOK, SeenType, Unseen
<1>5. Handle' = Handle /\ Data' = Data
  BY <1>1 DEF Handle, Data, disk
<1>6. DiskInv' /\ Grows
  BY <1>1, <1>5 DEF DiskInv, Grows, disk
<1>9. ASSUME \A u \in Thread \ {t} : Rests(u), at'[t] \in {"idle", "got"}
      PROVE  CacheInv'
  <2>1. Pending' = Pending \ {t}
    BY <1>9 DEF Pending, Rests
  <2>3. \A e \in DOMAIN repos' : repos'[e] # 0 => opened'[repos'[e]] = data'[e]
    BY <1>1, <1>13, <1>3 DEF CacheInv, disk
  <2>4. \A u \in Pending' :
          got'[u] # <<>> /\ (Last(got'[u]) # 0 => opened'[Last(got'[u])] = data'[key'[u]])
    BY <1>1, <1>9, <2>1 DEF CacheInv, disk, Rests, Has, Pending
  <2>. QED
    BY <2>3, <2>4 DEF CacheInv
<1>10. /\ DOMAIN repos' \subseteq Dir
       /\ \A e \in DOMAIN repos' : repos'[e] \in {0} \cup Handle'
  BY <1>1, <1>13, <1>3, <1>5 DEF TypeOK
<1>11. CASE h = 0 /\ Fail(t, error[t])
  <2>1. /\ at' = [at EXCEPT ![t] = "idle"] /\ todo' = [todo EXCEPT ![t] = <<>>]
        /\ key' = [key EXCEPT ![t] = None] /\ got' = [got EXCEPT ![t] = <<>>]
        /\ error' = [error EXCEPT ![t] = error[t]] /\ UNCHANGED <<op, done, asked>>
    BY <1>11 DEF Fail, End
  <2>2. (\A u \in Thread \ {t} : Rests(u)) /\ at'[t] = "idle"
    BY <1>1, <2>1 DEF TypeOK, Rests, Has
  <2>3. TypeOK'
    <3>1. /\ at' \in [Thread -> {"idle", "find", "look", "make", "got"} \cup Opens]
          /\ todo' \in [Thread -> Seq(Lookup)] /\ key' \in [Thread -> Dir \cup {None}]
          /\ got' \in [Thread -> Seq({0} \cup Handle)] /\ error' \in [Thread -> BOOLEAN]
      BY <1>1, <2>1, EmptySeq DEF TypeOK, Lookup
    <3>. QED
      BY <1>1, <1>13, <1>4, <1>5, <1>10, <2>1, <3>1 DEF TypeOK, SeenType, Lookup, Opens, disk
  <2>4. KeyInv'
    BY <1>1, <2>2 DEF KeyInv, Rests, Has, Opens
  <2>5. Aims(t)'
    BY <2>2 DEF Aims
  <2>6. \A i \in DOMAIN done'[t] : done'[t][i].on \in {done'[t][i].of, Undefined}
    BY <2>1 DEF HandlesInv, RightRepo
  <2>. QED
    BY <1>6, <1>9, <2>2, <2>3, <2>4, <2>5, <2>6, ThreadStep
<1>12. CASE /\ h # 0 /\ at' = [at EXCEPT ![t] = "got"]
            /\ UNCHANGED <<op, todo, key, got, error, done, asked>>
  <2>1. (\A u \in Thread \ {t} : Rests(u)) /\ at'[t] = "got" /\ Has(t)
    BY <1>1, <1>12 DEF TypeOK, Rests, Has
  <2>2. TypeOK'
    BY <1>1, <1>13, <1>4, <1>5, <1>10, <1>12 DEF TypeOK, SeenType, Opens, disk
  <2>3. KeyInv'
    BY <1>1, <2>1 DEF KeyInv, Rests, Has, Opens
  <2>4. Aims(t)'
    <3>1. Found(t)' = Found(t)
      BY <1>1, <2>1 DEF Found, Pending
    <3>2. \A i \in 1 .. Len(got[t]) : got[t][i] # 0
      BY <1>1, <1>12 DEF HandlesInv, Aims, Last
    <3>. QED
      BY <1>1, <1>6, <2>1, <3>1, <3>2, AimsGo
  <2>5. \A i \in DOMAIN done'[t] : done'[t][i].on \in {done'[t][i].of, Undefined}
    BY <1>12 DEF HandlesInv, RightRepo
  <2>. QED
    BY <1>6, <1>9, <2>1, <2>2, <2>3, <2>4, <2>5, ThreadStep
<1>. QED
  BY <1>11, <1>12 DEF Link

LEMMA UseStep ==
  ASSUME HandlesInv, NEW t \in Thread, Use(t)
  PROVE  HandlesInv'
<1>. DEFINE n == Len(asked[t]) l == Len(todo[t]) m == Len(got[t]) c == Len(done[t])
            D == [on : Data, of : Data]
<1>1. /\ at[t] = "got" /\ UNCHANGED <<disk, cache, seen, error, asked, ops, moves>>
      /\ TypeOK /\ KeyInv /\ Aims(t)
  BY DEF Use, HandlesInv
<1>2. /\ asked[t] \in Seq(Dir) /\ todo[t] \in Seq(Lookup)
      /\ got[t] \in Seq({0} \cup Handle) /\ done[t] \in Seq(D)
      /\ l \in 1 .. n /\ \A i \in 1 .. m : c + i \in 1 .. n
  BY <1>1, Own
<1>3. n \in Nat /\ m \in Nat /\ c \in Nat /\ c + m = n - l + 1
  <2>1. n \in Nat /\ m \in Nat /\ c \in Nat
    BY <1>2
  <2>2. Found(t) = 1
    BY <1>1 DEF Found
  <2>. QED
    BY <1>1, <2>1, <2>2 DEF Aims
<1>4. /\ Data' = Data /\ Handle' = Handle /\ (\A x : Home(x)' = Home(x))
      /\ \A x : Base(x)' = Base(x)
  BY <1>1 DEF Data, Handle, Base, Home, disk, cache
<1>5. \A i \in 1 .. m : got[t][i] \in Handle /\ opened[got[t][i]] = Base(asked[t][c + i])
  BY <1>1, <1>2 DEF Aims
<1>6. /\ Performed(t) \in Seq(D) /\ Len(Performed(t)) = m
      /\ \A i \in 1 .. m : Performed(t)[i].on \in {Performed(t)[i].of, Undefined}
  <2>1. Performed(t) = [i \in 1 .. m |->
           [on |-> Reached(got[t][i]), of |-> Base(asked[t][c + i])]]
    BY <1>2 DEF Performed
  <2>2. /\ \A i \in 1 .. m : opened[got[t][i]] \in Data /\ Reached(got[t][i]) \in Data
        /\ \A i \in 1 .. m : Reached(got[t][i]) \in {opened[got[t][i]], Undefined}
    BY <1>1, <1>5 DEF TypeOK, Handle, Reached, Undefined, Data
  <2>3. Performed(t) \in [1 .. m -> D]
    BY <1>5, <2>1, <2>2
  <2>4. \A i \in 1 .. m : Performed(t)[i].on \in {Performed(t)[i].of, Undefined}
    BY <1>5, <2>1, <2>2
  <2>. HIDE DEF m, D
  <2>. QED
    BY <1>3, <2>3, <2>4, SeqDef
<1>11. /\ done[t] \o Performed(t) \in Seq(D)
       /\ Len(done[t] \o Performed(t)) = c + m
       /\ DOMAIN (done[t] \o Performed(t)) = 1 .. c + m
       /\ \A i \in 1 .. c + m :
            (done[t] \o Performed(t))[i] = IF i <= c THEN done[t][i] ELSE Performed(t)[i - c]
  <2>1. done[t] \in Seq(D) /\ Performed(t) \in Seq(D) /\ Len(Performed(t)) = m
    BY <1>2, <1>6
  <2>. HIDE DEF D
  <2>2. /\ done[t] \o Performed(t) \in Seq(D)
        /\ Len(done[t] \o Performed(t)) = c + m
        /\ \A i \in 1 .. c + m :
            (done[t] \o Performed(t))[i] = IF i <= c THEN done[t][i] ELSE Performed(t)[i - c]
    <3>. DEFINE P == Performed(t)
    <3>1. P \in Seq(D) /\ Len(P) = m
      BY <2>1
    <3>. HIDE DEF P, m
    <3>2. /\ done[t] \o P \in Seq(D) /\ Len(done[t] \o P) = Len(done[t]) + Len(P)
          /\ \A i \in 1 .. Len(done[t]) + Len(P) :
               (done[t] \o P)[i] = IF i <= Len(done[t]) THEN done[t][i] ELSE P[i - Len(done[t])]
      BY <2>1, <3>1, ConcatProperties
    <3>. QED
      BY <3>1, <3>2 DEF P
  <2>. QED
    BY <2>2, LenProperties
<1>7. /\ done'[t] \in Seq(D) /\ done' = [done EXCEPT ![t] = done'[t]]
      /\ done'[t] \in {done[t], done[t] \o Performed(t)}
  <2>2. done' = done \/ done' = [done EXCEPT ![t] = done[t] \o Performed(t)]
    BY DEF Use
  <2>. QED
    BY <1>1, <1>2, <1>11, <2>2 DEF TypeOK
<1>8. \A i \in DOMAIN done'[t] : done'[t][i].on \in {done'[t][i].of, Undefined}
  <2>1. \A i \in DOMAIN done[t] : done[t][i].on \in {done[t][i].of, Undefined}
    BY DEF HandlesInv, RightRepo
  <2>2. CASE done'[t] = done[t]
    BY <2>1, <2>2
  <2>3. CASE done'[t] = done[t] \o Performed(t)
    <3>1. /\ DOMAIN done'[t] = 1 .. c + m
          /\ \A i \in 1 .. c + m : done'[t][i] = IF i <= c THEN done[t][i] ELSE Performed(t)[i - c]
      BY <1>11, <2>3
    <3>2. DOMAIN done[t] = 1 .. c
      BY <1>2, LenProperties
    <3>. HIDE DEF c, m, n, l
    <3>3. \A i \in 1 .. c + m : i <= c => i \in 1 .. c
      BY <1>3
    <3>4. \A i \in 1 .. c + m : ~(i <= c) => i - c \in 1 .. m
      BY <1>3
    <3>. QED
      BY <1>6, <2>1, <3>1, <3>2, <3>3, <3>4
  <2>. QED
    BY <1>7, <2>2, <2>3
<1>9. CASE End(t)
  <2>1. /\ at' = [at EXCEPT ![t] = "idle"] /\ todo' = [todo EXCEPT ![t] = <<>>]
        /\ key' = [key EXCEPT ![t] = None] /\ got' = [got EXCEPT ![t] = <<>>] /\ op' = op
    BY <1>9 DEF End
  <2>2. (\A u \in Thread \ {t} : Rests(u)) /\ at'[t] = "idle"
    BY <1>1, <1>7, <2>1 DEF TypeOK, Rests, Has
  <2>3. DiskInv' /\ CacheInv' /\ Grows
    BY <1>1, <2>2, CacheStays DEF Opens, cache
  <2>4. TypeOK'
    <3>1. /\ at' \in [Thread -> {"idle", "find", "look", "make", "got"} \cup Opens]
          /\ todo' \in [Thread -> Seq(Lookup)] /\ key' \in [Thread -> Dir \cup {None}]
          /\ got' \in [Thread -> Seq({0} \cup Handle)]
      BY <1>1, <2>1, EmptySeq DEF TypeOK, Lookup
    <3>2. done' \in [Thread -> Seq(D)]
      BY <1>1, <1>7 DEF TypeOK
    <3>3. /\ op' \in [Thread -> Op] /\ error' \in [Thread -> BOOLEAN]
          /\ asked' \in [Thread -> Seq(Dir)] /\ ops' \in 0 .. MaxOps
      BY <1>1, <2>1 DEF TypeOK
    <3>. QED
      BY <1>1, <3>1, <3>2, <3>3, TypeStays
  <2>5. KeyInv'
    BY <1>1, <2>2 DEF KeyInv, Rests, Has, Opens
  <2>6. Aims(t)'
    BY <2>2 DEF Aims
  <2>. QED
    BY <1>8, <2>2, <2>3, <2>4, <2>5, <2>6, ThreadStep
<1>10. CASE /\ l > 1
            /\ at' = [at EXCEPT ![t] = "find"]
            /\ todo' = [todo EXCEPT ![t] = Tail(@)]
            /\ op' = op /\ key' = key
            /\ \/ /\ done' = done /\ got' = got
               \/ /\ done'[t] = done[t] \o Performed(t)
                  /\ got' = [got EXCEPT ![t] = <<>>]
  <2>1. (\A u \in Thread \ {t} : Rests(u)) /\ at'[t] = "find" /\ todo'[t] = Tail(todo[t])
    BY <1>1, <1>7, <1>10 DEF TypeOK, Rests, Has
  <2>2. DiskInv' /\ CacheInv' /\ Grows
    BY <1>1, <2>1, CacheStays DEF Opens, cache
  <2>3. /\ Tail(todo[t]) \in Seq(Lookup) /\ Len(Tail(todo[t])) = l - 1
        /\ \A i \in 1 .. l - 1 : Tail(todo[t])[i] = todo[t][i + 1]
    <3>1. todo[t] # <<>>
      BY <1>2, <1>10
    <3>. QED
      BY <1>2, <3>1, HeadTailProperties
  <2>4. TypeOK'
    <3>1. /\ at' \in [Thread -> {"idle", "find", "look", "make", "got"} \cup Opens]
          /\ todo' \in [Thread -> Seq(Lookup)] /\ key' \in [Thread -> Dir \cup {None}]
          /\ got' \in [Thread -> Seq({0} \cup Handle)]
      <4>1. got' = got \/ got' = [got EXCEPT ![t] = <<>>]
        BY <1>10
      <4>2. got' \in [Thread -> Seq({0} \cup Handle)]
        <5>1. <<>> \in Seq({0} \cup Handle) /\ got \in [Thread -> Seq({0} \cup Handle)]
          BY <1>1, EmptySeq DEF TypeOK
        <5>. QED
          BY <4>1, <5>1
      <4>3. todo' = [todo EXCEPT ![t] = Tail(todo[t])]
        BY <1>10
      <4>4. todo' \in [Thread -> Seq(Lookup)]
        BY <1>1, <2>3, <4>3 DEF TypeOK, Lookup
      <4>. QED
        BY <1>1, <1>10, <4>2, <4>4 DEF TypeOK
    <3>2. done' \in [Thread -> Seq(D)]
      BY <1>1, <1>7 DEF TypeOK
    <3>3. /\ op' \in [Thread -> Op] /\ error' \in [Thread -> BOOLEAN]
          /\ asked' \in [Thread -> Seq(Dir)] /\ ops' \in 0 .. MaxOps
      BY <1>1, <1>10 DEF TypeOK
    <3>. QED
      BY <1>1, <3>1, <3>2, <3>3, TypeStays
  <2>5. KeyInv'
    BY <1>1, <2>1 DEF KeyInv, Rests, Has, Opens
  <2>6. l - 1 \in 1 .. n /\ \A i \in 1 .. l - 1 : i + 1 \in 1 .. l /\ n - l + (i + 1) = n - (l - 1) + i
    <3>1. n \in Nat /\ l \in 1 .. n /\ l > 1
      BY <1>2, <1>3, <1>10
    <3>. HIDE DEF n, l
    <3>. QED
      BY <3>1
  <2>7. \A i \in 1 .. l - 1 : Tail(todo[t])[i].dir = asked[t][n - (l - 1) + i]
    <3>1. \A i \in 1 .. l : todo[t][i].dir = asked[t][n - l + i]
      BY <1>1 DEF Aims
    <3>. HIDE DEF n, l
    <3>. QED
      BY <2>3, <2>6, <3>1
  <2>8. /\ Len(done'[t]) + Len(got'[t]) = n - (l - 1)
        /\ \A i \in 1 .. Len(got'[t]) :
             got'[t][i] # 0 /\ opened[got'[t][i]] = Base(asked[t][Len(done'[t]) + i])
    <3>1. CASE done' = done /\ got' = got
      <4>1. \A i \in 1 .. m : got[t][i] # 0
        BY <1>5 DEF Handle
      <4>2. c + m = n - (l - 1)
        <5>. HIDE DEF n, l, m, c
        <5>. QED
          BY <1>2, <1>3
      <4>. QED
        BY <1>5, <3>1, <4>1, <4>2
    <3>2. CASE done'[t] = done[t] \o Performed(t) /\ got' = [got EXCEPT ![t] = <<>>]
      <4>1. Len(done'[t]) = c + m
        BY <1>11, <3>2
      <4>2. Len(got'[t]) = 0
        BY <1>1, <3>2 DEF TypeOK
      <4>3. \A i \in 1 .. 0 : FALSE
        OBVIOUS
      <4>4. c + m + 0 = n - (l - 1)
        <5>. HIDE DEF n, l, m, c
        <5>. QED
          BY <1>2, <1>3
      <4>. QED
        BY <4>1, <4>2, <4>3, <4>4
    <3>. QED
      BY <1>10, <3>1, <3>2
  <2>9. Aims(t)'
    <3>1. Found(t)' = 0 /\ asked'[t] = asked[t]
      BY <1>1, <2>1 DEF Found, Pending
    <3>2. Len(todo'[t]) \in 1 .. Len(asked'[t])
      BY <1>1, <2>1, <2>3, <2>6
    <3>3. \A i \in 1 .. Len(todo'[t]) :
            todo'[t][i].dir = asked'[t][Len(asked'[t]) - Len(todo'[t]) + i]
      BY <1>1, <2>1, <2>3, <2>7
    <3>4. Len(done'[t]) + Len(got'[t]) = Len(asked'[t]) - Len(todo'[t]) + Found(t)'
      <4>1. Len(done'[t]) + Len(got'[t]) = n - (l - 1) /\ n \in Nat /\ l \in 1 .. n
        BY <1>2, <1>3, <2>8
      <4>. HIDE DEF n, l
      <4>2. n - (l - 1) + 0 = n - (l - 1)
        BY <4>1
      <4>. QED
        BY <2>1, <2>3, <3>1, <4>1, <4>2 DEF n, l
    <3>5. \A i \in 1 .. Len(got'[t]) :
            got'[t][i] # 0 /\ opened'[got'[t][i]] = Base(asked[t][Len(done[t]) + i])'
      <4>1. \A i : Base(asked[t][Len(done[t]) + i])' = Base(asked[t][Len(done'[t]) + i])
        BY <1>1 DEF Base, Home, disk
      <4>. QED
        BY <1>1, <2>8, <4>1 DEF cache
    <3>. QED
      BY <2>1, <3>1, <3>2, <3>3, <3>4, <3>5 DEF Aims
  <2>. QED
    BY <1>8, <2>1, <2>2, <2>4, <2>5, <2>9, ThreadStep
<1>12. \/ End(t)
       \/ /\ ~error[t] /\ l > 1
          /\ at' = [at EXCEPT ![t] = "find"]
          /\ todo' = [todo EXCEPT ![t] = Tail(@)]
          /\ got' = [got EXCEPT ![t] = IF op[t] = "search" THEN <<>> ELSE @]
          /\ op' = op /\ key' = key
  BY DEF Use
<1>13. ASSUME ~error[t], l > 1
       PROVE  done' = IF op[t] # "search" THEN done
                      ELSE [done EXCEPT ![t] = @ \o Performed(t)]
  BY <1>13 DEF Use
<1>14. ASSUME ~error[t], l > 1, got' = [got EXCEPT ![t] = IF op[t] = "search" THEN <<>> ELSE @]
       PROVE  \/ done' = done /\ got' = got
              \/ done'[t] = done[t] \o Performed(t) /\ got' = [got EXCEPT ![t] = <<>>]
  <2>1. CASE op[t] = "search"
    BY <1>1, <1>13, <1>14, <2>1 DEF TypeOK
  <2>2. CASE op[t] # "search"
    BY <1>1, <1>13, <1>14, <2>2 DEF TypeOK
  <2>. QED
    BY <2>1, <2>2
<1>. QED
  BY <1>9, <1>10, <1>12, <1>14

\* Users create folders and repositories and change rights.
LEMMA UserStep ==
  ASSUME HandlesInv, FoldersStay, User
  PROVE  HandlesInv'
<1>1. PICK f \in Folder : Create(f) \/ Chmod(f) \/ InitRepo(f)
  BY DEF User, Delete, Move, Copy, FoldersStay
<1>2. /\ UNCHANGED <<cache, local, ops>> /\ moves' \in 0 .. MaxMoves
      /\ TypeOK /\ DiskInv /\ CacheInv /\ KeyInv /\ f \in Dir
  <2>1. moves \in 0 .. MaxMoves /\ moves < MaxMoves /\ moves' = moves + 1
    BY DEF User, HandlesInv, TypeOK
  <2>2. moves' \in 0 .. MaxMoves
    BY <2>1, HandlesAssumption
  <2>. QED
    BY <2>2 DEF User, HandlesInv, Dir
<1>3. /\ exists' \subseteq Dir /\ writable' \subseteq exists' \cap Folder
  BY <1>1, <1>2 DEF Create, Chmod, InitRepo, TypeOK, Dir
<1>4. /\ \/ data' = data /\ lastData' = lastData
         \/ data[f] = 0 /\ data' = [data EXCEPT ![f] = lastData + 1] /\ lastData' = lastData + 1
      /\ ind' = ind \/ ind' = [ind EXCEPT ![f] = f]
  BY <1>1 DEF Create, Chmod, InitRepo
<1>5. /\ ind' \in [Dir -> Folder \cup {"empty", "none"}]
      /\ \A v \in View : ind'[v] = ind[v]
      /\ \A g \in Folder : ind'[g] \in {g, "empty", "none"}
  <2>1. ind \in [Dir -> Folder \cup {"empty", "none"}]
    BY <1>2 DEF TypeOK
  <2>2. ind' \in [Dir -> Folder \cup {"empty", "none"}]
    BY <1>4, <2>1
  <2>3. \A v \in View : ind'[v] = ind[v]
    BY <1>4, <2>1, HandlesAssumption DEF Dir
  <2>4. \A g \in Folder : ind'[g] \in {g, "empty", "none"}
    BY <1>2, <1>4, <2>1 DEF DiskInv, Dir
  <2>. QED
    BY <2>2, <2>3, <2>4
<1>6. /\ DiskInv' /\ Grows /\ data' \in [Dir -> Data'] /\ lastData' \in Nat
      /\ Data \subseteq Data'
  BY <1>2, <1>4, <1>5, DiskGrows DEF cache
<1>7. /\ Handle' = Handle /\ Pending' = Pending
      /\ \A u \in Thread : Rests(u)
  BY <1>2 DEF Handle, Pending, Rests, Has, cache, local
<1>8. TypeOK'
  <2>1. done' \in [Thread -> Seq([on : Data', of : Data'])]
    <3>1. [on : Data, of : Data] \subseteq [on : Data', of : Data']
      BY <1>6
    <3>2. \A u \in Thread : done[u] \in Seq([on : Data, of : Data])
      BY Own
    <3>3. \A u \in Thread : done[u] \in Seq([on : Data', of : Data'])
      BY <3>1, <3>2, SeqMonotonic
    <3>. QED
      BY <1>2, <3>3 DEF TypeOK, local
  <2>2. opened' \in Seq(Data' \ {0})
    BY <1>2, <1>6, SeqMonotonic DEF TypeOK, cache
  <2>. QED
    BY <1>2, <1>3, <1>5, <1>6, <1>7, <2>1, <2>2 DEF TypeOK, Opens, cache, local
<1>9. KeyInv'
  BY <1>2 DEF KeyInv, local
<1>10. CacheInv'
  <2>1. \A h \in Handle, e \in Dir : opened[h] = data[e] => opened'[h] = data'[e]
    BY <1>2, <1>6 DEF TypeOK, Handle, Grows
  <2>2. \A e \in DOMAIN repos : repos[e] # 0 => repos[e] \in Handle /\ e \in Dir
    BY <1>2 DEF TypeOK
  <2>3. \A u \in Pending : /\ got[u] # <<>> /\ key[u] \in Dir
                           /\ Last(got[u]) # 0 => Last(got[u]) \in Handle
    <3>1. SUFFICES ASSUME NEW u \in Pending
          PROVE  /\ got[u] # <<>> /\ key[u] \in Dir
                 /\ Last(got[u]) # 0 => Last(got[u]) \in Handle
      OBVIOUS
    <3>2. got[u] # <<>> /\ key[u] \in Dir /\ got[u] \in Seq({0} \cup Handle)
      BY <1>2, Own DEF CacheInv, KeyInv, Pending, Opens
    <3>. QED
      BY <3>2 DEF Last
  <2>4. \A e \in DOMAIN repos' : repos'[e] # 0 => opened'[repos'[e]] = data'[e]
    BY <1>2, <2>1, <2>2 DEF CacheInv, cache
  <2>5. \A u \in Pending' :
          got'[u] # <<>> /\ (Last(got'[u]) # 0 => opened'[Last(got'[u])] = data'[key'[u]])
    BY <1>2, <1>7, <2>1, <2>3 DEF CacheInv, local
  <2>. QED
    BY <2>4, <2>5 DEF CacheInv
<1>11. \A u \in Thread : Aims(u)'
  BY <1>6, <1>7, AimsStay
<1>12. RightRepo'
  BY <1>2 DEF HandlesInv, RightRepo, local
<1>. QED
  BY <1>6, <1>8, <1>9, <1>10, <1>11, <1>12 DEF HandlesInv

-----------------------------------------------------------------------------
LEMMA HandlesInit == Init => HandlesInv
<1>. SUFFICES ASSUME Init PROVE HandlesInv
  OBVIOUS
<1>. PICK made \in SUBSET (exists \cap Folder) :
       \E n \in [Folder -> 0 .. Cardinality(Folder)] :
         /\ \A f \in Folder : n[f] # 0 <=> f \in made
         /\ \A f, g \in made : n[f] = n[g] => f = g
         /\ data = [d \in Dir |-> IF d \in Folder THEN n[d] ELSE 0]
         /\ \E v \in [View -> made], i \in [Folder -> BOOLEAN] :
              ind = [d \in Dir |-> IF d \in View THEN v[d]
                                   ELSE IF d \in made /\ i[d] THEN d ELSE "none"]
  BY DEF Init
<1>. PICK n \in [Folder -> 0 .. Cardinality(Folder)] :
         /\ \A f \in Folder : n[f] # 0 <=> f \in made
         /\ \A f, g \in made : n[f] = n[g] => f = g
         /\ data = [d \in Dir |-> IF d \in Folder THEN n[d] ELSE 0]
         /\ \E v \in [View -> made], i \in [Folder -> BOOLEAN] :
              ind = [d \in Dir |-> IF d \in View THEN v[d]
                                   ELSE IF d \in made /\ i[d] THEN d ELSE "none"]
  OBVIOUS
<1>. PICK v \in [View -> made], i \in [Folder -> BOOLEAN] :
       ind = [d \in Dir |-> IF d \in View THEN v[d]
                            ELSE IF d \in made /\ i[d] THEN d ELSE "none"]
  OBVIOUS
<1>1. Cardinality(Folder) \in Nat /\ lastData = Cardinality(Folder)
  BY HandlesAssumption, FS_CardinalityType DEF Init
<1>2. /\ data \in [Dir -> Data] /\ (\A d \in View : data[d] = 0)
      /\ \A d \in Folder : data[d] = n[d]
  BY <1>1, HandlesAssumption DEF Data, Dir
<1>3. /\ ind \in [Dir -> Folder \cup {"empty", "none"}]
      /\ \A d \in View : ind[d] \in Folder
      /\ \A f \in Folder : ind[f] \in {f, "empty", "none"}
  BY HandlesAssumption DEF Dir
<1>4. DiskInv
  BY <1>2, <1>3 DEF DiskInv, Dir
<1>5. Handle = {} /\ opened \in Seq(Data \ {0}) /\ freed = {}
  BY DEF Init, Handle
<1>6. TypeOK
  <2>1. /\ exists \subseteq Dir /\ writable \subseteq exists \cap Folder
        /\ ops \in 0 .. MaxOps /\ moves \in 0 .. MaxMoves
    BY HandlesAssumption DEF Init, Dir
  <2>2. /\ todo \in [Thread -> Seq([way : {"file", "folder"}, dir : Dir])]
        /\ got \in [Thread -> Seq({0} \cup Handle)] /\ asked \in [Thread -> Seq(Dir)]
        /\ done \in [Thread -> Seq([on : Data, of : Data])]
    BY EmptySeq DEF Init
  <2>3. /\ at \in [Thread -> {"idle", "find", "look", "make", "got"} \cup Opens]
        /\ op \in [Thread -> Op] /\ key \in [Thread -> Dir \cup {None}]
        /\ error \in [Thread -> BOOLEAN]
    BY DEF Init, Op
  <2>4. /\ DOMAIN repos \subseteq Dir /\ \A d \in DOMAIN repos : repos[d] \in {0} \cup Handle
        /\ tables \in Nat /\ crossed \subseteq Dir
        /\ seen \in [Thread -> [table : Nat, keys : SUBSET Dir]]
    BY DEF Init, Empty, Unseen
  <2>. QED
    BY <1>1, <1>2, <1>3, <1>5, <2>1, <2>2, <2>3, <2>4 DEF TypeOK
<1>7. \A t \in Thread : at[t] = "idle" /\ done[t] = <<>>
  BY DEF Init
<1>8. Pending = {} /\ DOMAIN repos = {}
  BY <1>7 DEF Pending, Init, Empty
<1>9. KeyInv /\ RightRepo /\ \A t \in Thread : Aims(t)
  <2>1. KeyInv
    BY <1>7 DEF KeyInv, Opens
  <2>2. RightRepo
    BY <1>7 DEF RightRepo
  <2>3. \A t \in Thread : Aims(t)
    BY <1>7 DEF Aims
  <2>. QED
    BY <2>1, <2>2, <2>3
<1>10. CacheInv
  BY <1>8 DEF CacheInv
<1>. QED
  BY <1>4, <1>6, <1>9, <1>10 DEF HandlesInv

LEMMA HandlesStep ==
  ASSUME HandlesInv, FoldersStay, [Next]_vars
  PROVE  HandlesInv'
<1>1. CASE UNCHANGED vars
  <2>1. UNCHANGED <<disk, cache, local, ops, moves>>
    BY <1>1 DEF vars
  <2>2. TypeOK'
    <3>1. Data' = Data /\ Handle' = Handle
      BY <2>1 DEF Data, Handle, disk, cache
    <3>. QED
      BY <2>1, <3>1 DEF HandlesInv, TypeOK, disk, cache, local
  <2>3. DiskInv' /\ KeyInv'
    BY <2>1 DEF HandlesInv, DiskInv, KeyInv, disk, local
  <2>4. CacheInv'
    <3>1. Pending' = Pending
      BY <2>1 DEF Pending, local
    <3>. QED
      BY <2>1, <3>1 DEF HandlesInv, CacheInv, disk, cache, local
  <2>5. \A t \in Thread : Aims(t)'
    <3>1. Grows /\ \A t \in Thread : Rests(t)
      BY <2>1 DEF Grows, Rests, Has, Handle, disk, cache, local
    <3>. QED
      BY <3>1, AimsStay
  <2>6. RightRepo'
    BY <2>1 DEF HandlesInv, RightRepo, local
  <2>. QED
    BY <2>2, <2>3, <2>4, <2>5, <2>6 DEF HandlesInv
<1>2. ASSUME NEW t \in Thread, NEW o \in Op, Begin(t, o) PROVE HandlesInv'
  BY <1>2, BeginStep
<1>3. ASSUME NEW t \in Thread, Find(t) PROVE HandlesInv'
  BY <1>3, FindStep
<1>4. ASSUME NEW t \in Thread, Look(t) \/ Make(t) PROVE HandlesInv'
  BY <1>4, LookStep, MakeStep
<1>5. ASSUME NEW t \in Thread, Open(t) PROVE HandlesInv'
  BY <1>5, OpenStep
<1>6. ASSUME NEW t \in Thread, Clear(t) PROVE HandlesInv'
  BY <1>6, ClearStep
<1>7. ASSUME NEW t \in Thread, Write(t) PROVE HandlesInv'
  BY <1>7, WriteStep
<1>8. ASSUME NEW t \in Thread, Put(t) \/ Link(t) PROVE HandlesInv'
  BY <1>8, PutStep, LinkStep
<1>9. ASSUME NEW t \in Thread, Use(t) PROVE HandlesInv'
  BY <1>9, UseStep
<1>10. CASE User
  BY <1>10, UserStep
<1>. QED
  BY <1>1, <1>2, <1>3, <1>4, <1>5, <1>6, <1>7, <1>8, <1>9, <1>10 DEF Next

\* As long as no folder is moved, copied or deleted, an operation is performed
\* on the databases of the folders it was asked for, in whatever order threads
\* find, open and put handles, and whatever the table loses; when two of them
\* open one folder at the same time, both have it open on the same database.
\* (When a handle is freed in use is the question of FreedWhenCrossed.)
THEOREM RightRepository ==
  ASSUME FoldersStay
  PROVE  Spec => []RightRepo
<1>1. HandlesInv => RightRepo
  BY DEF HandlesInv
<1>. QED
  BY <1>1, HandlesInit, HandlesStep, PTL DEF Spec

-----------------------------------------------------------------------------
(* Whatever threads and users do.                                          *)

\* How far a thread is: it has found what is not left to do, has a handle for
\* each of them, and 0 in place of one only after an error.
Steady(t) ==
  at[t] # "idle" =>
    /\ Len(todo[t]) \in 1 .. Len(asked[t])
    /\ Len(done[t]) + Len(got[t]) = Len(asked[t]) - Len(todo[t]) + Found(t)
    /\ Found(t) = 1 => got[t] # <<>>
    /\ \A i \in 1 .. Len(got[t]) :
         got[t][i] = 0 => at[t] \in {"put", "link"} /\ i = Len(got[t]) /\ error[t]

TypeInv ==
  /\ TypeOK
  /\ KeyInv
  /\ \A t \in Thread : Steady(t)

Alone(t) == \A u \in Thread \ {t} : Rests(u) /\ error'[u] = error[u]

\* A step of thread t.
LEMMA LocalStep ==
  ASSUME TypeInv, NEW t \in Thread, TypeOK', Alone(t), Steady(t)',
         at'[t] \in Opens \cup {"look", "make", "got"} => key'[t] \in Dir,
         at'[t] = "write" => key'[t] \in Folder
  PROVE  TypeInv'
<1>1. ASSUME NEW u \in Thread \ {t} PROVE Steady(u)'
  <2>1. Found(u)' = Found(u)
    BY DEF Alone, Found, Pending, Rests
  <2>2. Steady(u) /\ Has(u) /\ at'[u] = at[u] /\ error'[u] = error[u]
    BY DEF TypeInv, Alone, Rests
  <2>. QED
    BY <2>1, <2>2 DEF Steady, Has
<1>2. KeyInv'
  BY DEF TypeInv, KeyInv, Alone, Rests, Has
<1>. QED
  BY <1>1, <1>2 DEF TypeInv

\* What a thread works with.
LEMMA Works ==
  ASSUME TypeInv, NEW t \in Thread
  PROVE  /\ asked[t] \in Seq(Dir) /\ todo[t] \in Seq(Lookup) /\ error[t] \in BOOLEAN
         /\ got[t] \in Seq({0} \cup Handle) /\ done[t] \in Seq([on : Data, of : Data])
         /\ at[t] # "idle" =>
              /\ Steady(t) /\ todo[t] # <<>> /\ todo[t][1] \in Lookup
              /\ \A i \in 1 .. Len(got[t]) : Len(done[t]) + i \in 1 .. Len(asked[t])
<1>1. /\ asked[t] \in Seq(Dir) /\ todo[t] \in Seq(Lookup) /\ error[t] \in BOOLEAN
      /\ got[t] \in Seq({0} \cup Handle) /\ done[t] \in Seq([on : Data, of : Data])
  BY DEF TypeInv, TypeOK, Lookup
<1>. SUFFICES ASSUME at[t] # "idle"
     PROVE  /\ Steady(t) /\ todo[t] # <<>> /\ todo[t][1] \in Lookup
            /\ \A i \in 1 .. Len(got[t]) : Len(done[t]) + i \in 1 .. Len(asked[t])
  BY <1>1
<1>. DEFINE n == Len(asked[t]) l == Len(todo[t]) m == Len(got[t]) c == Len(done[t])
<1>2. n \in Nat /\ m \in Nat /\ c \in Nat /\ Found(t) \in {0, 1}
  BY <1>1 DEF Found
<1>3. Steady(t) /\ l \in 1 .. n /\ c + m = n - l + Found(t)
  BY DEF TypeInv, Steady
<1>4. todo[t] # <<>> /\ todo[t][1] \in Lookup
  BY <1>1, <1>3
<1>5. \A i \in 1 .. m : c + i \in 1 .. n
  <2>. HIDE DEF n, l, m, c
  <2>. QED
    BY <1>2, <1>3
<1>. QED
  BY <1>3, <1>4, <1>5

LEMMA PlanDirs ==
  ASSUME NEW plan \in Seq(Lookup)
  PROVE  /\ [i \in DOMAIN plan |-> plan[i].dir] \in Seq(Dir)
         /\ Len([i \in DOMAIN plan |-> plan[i].dir]) = Len(plan)
<1>. DEFINE dirs == [i \in DOMAIN plan |-> plan[i].dir]
<1>1. Len(plan) \in Nat /\ plan \in [1 .. Len(plan) -> Lookup]
  BY LenProperties
<1>2. dirs \in [1 .. Len(plan) -> Dir]
  BY <1>1 DEF Lookup
<1>. QED
  BY <1>1, <1>2, SeqDef

LEMMA BeginTyped ==
  ASSUME TypeInv, NEW t \in Thread, NEW o \in Op, Begin(t, o)
  PROVE  TypeInv' /\ (FailsLoudly => FailsLoudly')
<1>. PICK plan \in Plans(o) :
       /\ todo' = [todo EXCEPT ![t] = plan]
       /\ asked' = [asked EXCEPT ![t] = [i \in DOMAIN plan |-> plan[i].dir]]
       /\ at' = [at EXCEPT ![t] = IF plan = <<>> THEN "idle" ELSE "find"]
  BY DEF Begin
<1>. DEFINE dirs == [i \in DOMAIN plan |-> plan[i].dir]
<1>1. plan \in Seq(Lookup) /\ dirs \in Seq(Dir) /\ Len(dirs) = Len(plan)
  BY PlansType, PlanDirs
<1>. HIDE DEF dirs
<1>2. /\ UNCHANGED <<disk, cache, key, seen, moves>> /\ ops' = ops + 1 /\ ops < MaxOps
      /\ op' = [op EXCEPT ![t] = o] /\ got' = [got EXCEPT ![t] = <<>>]
      /\ error' = [error EXCEPT ![t] = FALSE] /\ done' = [done EXCEPT ![t] = <<>>]
      /\ asked' = [asked EXCEPT ![t] = dirs]
  BY DEF Begin, dirs
<1>3. TypeOK
  BY DEF TypeInv
<1>4. /\ at'[t] = IF plan = <<>> THEN "idle" ELSE "find"
      /\ todo'[t] = plan /\ asked'[t] = dirs /\ got'[t] = <<>> /\ done'[t] = <<>>
  BY <1>2, <1>3 DEF TypeOK
<1>5. Alone(t)
  BY <1>2, <1>3 DEF TypeOK, Alone, Rests, Has
<1>6. TypeOK'
  <2>1. ops' \in 0 .. MaxOps /\ error' \in [Thread -> BOOLEAN] /\ op' \in [Thread -> Op]
    BY <1>2, <1>3, HandlesAssumption DEF TypeOK
  <2>2. /\ at' \in [Thread -> {"idle", "find", "look", "make", "got"} \cup Opens]
        /\ todo' \in [Thread -> Seq(Lookup)] /\ asked' \in [Thread -> Seq(Dir)]
    <3>1. todo'[t] \in Seq(Lookup) /\ asked'[t] \in Seq(Dir) /\ at'[t] \in {"idle", "find"}
      BY <1>1, <1>4
    <3>. QED
      BY <1>2, <1>3, <3>1 DEF TypeOK, Lookup
  <2>3. /\ got' \in [Thread -> Seq({0} \cup Handle)]
        /\ done' \in [Thread -> Seq([on : Data, of : Data])]
        /\ key' \in [Thread -> Dir \cup {None}]
    BY <1>2, <1>3, EmptySeq DEF TypeOK
  <2>. QED
    BY <1>2, <1>3, <2>1, <2>2, <2>3, TypeStays
<1>7. Steady(t)'
  <2>. SUFFICES ASSUME plan # <<>> PROVE Steady(t)'
    BY <1>4 DEF Steady
  <2>1. Len(plan) \in Nat \ {0} /\ Found(t)' = 0
    BY <1>1, <1>4, EmptySeq DEF Found, Pending
  <2>. QED
    BY <1>1, <1>4, <2>1 DEF Steady
<1>8. TypeInv'
  BY <1>4, <1>5, <1>6, <1>7, LocalStep DEF Opens
<1>9. ASSUME FailsLoudly PROVE FailsLoudly'
  <2>1. \A u \in Thread \ {t} :
           at'[u] = "idle" /\ ~error'[u] => Len(done'[u]) = Len(asked'[u])
    BY <1>5, <1>9 DEF FailsLoudly, Alone, Rests, Has
  <2>2. at'[t] = "idle" => Len(done'[t]) = Len(asked'[t])
    BY <1>1, <1>4
  <2>. QED
    BY <2>1, <2>2 DEF FailsLoudly
<1>. QED
  BY <1>8, <1>9

\* The operation of t ends.
LEMMA EndTyped ==
  ASSUME TypeInv, NEW t \in Thread, End(t), UNCHANGED <<disk, moves, ops, asked, opened>>,
         DOMAIN repos' \subseteq Dir, \A d \in DOMAIN repos' : repos'[d] \in {0} \cup Handle,
         freed' \subseteq Handle, tables' \in Nat, crossed' \subseteq Dir, seen' \in SeenType,
         NEW e \in BOOLEAN, error' = [error EXCEPT ![t] = e],
         NEW D \in Seq([on : Data, of : Data]), done' = [done EXCEPT ![t] = D],
         "reading" \notin Env => e \/ Len(D) = Len(asked[t])
  PROVE  TypeInv' /\ (FailsLoudly /\ "reading" \notin Env => FailsLoudly')
<1>1. /\ at' = [at EXCEPT ![t] = "idle"] /\ todo' = [todo EXCEPT ![t] = <<>>]
      /\ key' = [key EXCEPT ![t] = None] /\ got' = [got EXCEPT ![t] = <<>>]
      /\ op' = op /\ TypeOK
  BY DEF End, TypeInv
<1>2. Alone(t) /\ at'[t] = "idle" /\ error'[t] = e /\ done'[t] = D
  BY <1>1 DEF TypeOK, Alone, Rests, Has
<1>3. TypeOK'
  <2>1. Data' = Data /\ Handle' = Handle
    BY DEF Data, Handle, disk
  <2>2. /\ at' \in [Thread -> {"idle", "find", "look", "make", "got"} \cup Opens]
        /\ todo' \in [Thread -> Seq(Lookup)] /\ key' \in [Thread -> Dir \cup {None}]
        /\ got' \in [Thread -> Seq({0} \cup Handle)] /\ error' \in [Thread -> BOOLEAN]
        /\ done' \in [Thread -> Seq([on : Data, of : Data])]
    BY <1>1, EmptySeq DEF TypeOK, Lookup
  <2>. QED
    BY <1>1, <2>1, <2>2 DEF TypeOK, SeenType, Lookup, Opens, disk
<1>4. Steady(t)'
  BY <1>2 DEF Steady
<1>5. TypeInv'
  BY <1>2, <1>3, <1>4, LocalStep DEF Opens
<1>6. ASSUME FailsLoudly, "reading" \notin Env PROVE FailsLoudly'
  <2>1. \A u \in Thread \ {t} :
           at'[u] = "idle" /\ ~error'[u] => Len(done'[u]) = Len(asked'[u])
    BY <1>2, <1>6 DEF FailsLoudly, Alone, Rests, Has
  <2>2. ~error'[t] => Len(done'[t]) = Len(asked'[t])
    BY <1>2, <1>6
  <2>. QED
    BY <2>1, <2>2 DEF FailsLoudly
<1>. QED
  BY <1>5, <1>6

\* It does not end, and nothing that was performed or is asked for changes.
LEMMA LoudStays ==
  ASSUME NEW t \in Thread, Alone(t), at'[t] # "idle"
  PROVE  FailsLoudly => FailsLoudly'
BY DEF FailsLoudly, Alone, Rests, Has

LEMMA FindTyped ==
  ASSUME TypeInv, NEW t \in Thread, Find(t)
  PROVE  TypeInv' /\ (FailsLoudly /\ "reading" \notin Env => FailsLoudly')
<1>. DEFINE d == todo[t][1].dir
<1>1. at[t] = "find" /\ UNCHANGED <<disk, cache, seen, ops, moves>> /\ TypeOK
  BY DEF Find, TypeInv
<1>2. done[t] \in Seq([on : Data, of : Data]) /\ d \in Dir /\ Steady(t)
  BY <1>1, Works DEF Lookup
<1>3. ASSUME NEW e \in BOOLEAN, Fail(t, e), e \/ "reading" \in Env
      PROVE  TypeInv' /\ (FailsLoudly /\ "reading" \notin Env => FailsLoudly')
  <2>1. /\ End(t) /\ UNCHANGED <<disk, moves, ops, asked, opened>>
        /\ error' = [error EXCEPT ![t] = e] /\ done' = [done EXCEPT ![t] = done[t]]
    BY <1>1, <1>3 DEF Fail, TypeOK, cache
  <2>2. /\ DOMAIN repos' \subseteq Dir /\ (\A f \in DOMAIN repos' : repos'[f] \in {0} \cup Handle)
        /\ freed' \subseteq Handle /\ tables' \in Nat /\ crossed' \subseteq Dir
        /\ seen' \in SeenType
    BY <1>1 DEF TypeOK, SeenType, cache
  <2>. QED
    BY <1>2, <1>3, <2>1, <2>2, EndTyped
<1>4. CASE /\ key' = [key EXCEPT ![t] = d] \/ (ind[d] \in Folder /\ key' = [key EXCEPT ![t] = ind[d]])
           /\ at' = [at EXCEPT ![t] = "look"]
           /\ UNCHANGED <<op, todo, got, error, done, asked>>
  <2>1. key'[t] \in Dir /\ at'[t] = "look" /\ Alone(t)
    BY <1>1, <1>2, <1>4 DEF TypeOK, Dir, Alone, Rests, Has
  <2>2. TypeOK'
    <3>1. /\ at' \in [Thread -> {"idle", "find", "look", "make", "got"} \cup Opens]
          /\ key' \in [Thread -> Dir \cup {None}]
      BY <1>1, <1>2, <1>4 DEF TypeOK, Dir
    <3>2. /\ op' \in [Thread -> Op] /\ todo' \in [Thread -> Seq(Lookup)]
          /\ got' \in [Thread -> Seq({0} \cup Handle)] /\ error' \in [Thread -> BOOLEAN]
          /\ asked' \in [Thread -> Seq(Dir)] /\ ops' \in 0 .. MaxOps
          /\ done' \in [Thread -> Seq([on : Data, of : Data])]
      BY <1>1, <1>4 DEF TypeOK, Lookup
    <3>. QED
      BY <1>1, <3>1, <3>2, TypeStays
  <2>3. Steady(t)'
    <3>1. Found(t) = 0 /\ Found(t)' = 0
      BY <1>1, <2>1 DEF Found, Pending
    <3>. QED
      BY <1>1, <1>2, <1>4, <2>1, <3>1 DEF Steady
  <2>. QED
    BY <2>1, <2>2, <2>3, LocalStep, LoudStays DEF Opens
<1>5. \/ Fail(t, TRUE) \/ (Fail(t, FALSE) /\ "reading" \in Env)
      \/ /\ key' = [key EXCEPT ![t] = d] \/ (ind[d] \in Folder /\ key' = [key EXCEPT ![t] = ind[d]])
         /\ at' = [at EXCEPT ![t] = "look"]
         /\ UNCHANGED <<op, todo, got, error, done, asked>>
  BY DEF Find
<1>. QED
  BY <1>3, <1>4, <1>5

\* A thread has handle h, or 0 after an error, for the folder it looks for.
LEMMA SteadyGot ==
  ASSUME TypeInv, NEW t \in Thread, at[t] \in {"look", "open"}, NEW H, Handle \subseteq H,
         NEW h \in {0} \cup H, got'[t] = Append(got[t], h), todo'[t] = todo[t],
         asked'[t] = asked[t], done'[t] = done[t], at'[t] \in {"got", "clear", "put"},
         h = 0 => at'[t] = "put" /\ error'[t]
  PROVE  Steady(t)' /\ got'[t] \in Seq({0} \cup H)
<1>. DEFINE n == Len(asked[t]) l == Len(todo[t]) m == Len(got[t]) c == Len(done[t])
<1>1. got[t] \in Seq({0} \cup Handle) /\ n \in Nat /\ c \in Nat /\ m \in Nat /\ Steady(t)
  BY Works
<1>2. Found(t) = 0 /\ Found(t)' = 1
  BY DEF Found, Pending
<1>3. l \in 1 .. n /\ c + m = n - l /\ \A i \in 1 .. m : got[t][i] # 0
  <2>1. l \in 1 .. n /\ c + m = n - l + Found(t) /\ \A i \in 1 .. m : got[t][i] # 0
    BY <1>1 DEF Steady
  <2>. HIDE DEF n, l, m, c
  <2>. QED
    BY <1>1, <1>2, <2>1
<1>4. got[t] \in Seq({0} \cup H)
  BY <1>1, SeqMonotonic
<1>5. /\ got'[t] \in Seq({0} \cup H) /\ Len(got'[t]) = m + 1 /\ got'[t] # <<>>
      /\ got'[t][m + 1] = h /\ \A i \in 1 .. m : got'[t][i] = got[t][i]
  <2>1. got'[t] \in Seq({0} \cup H) /\ got'[t] # <<>>
    BY <1>4, LastAppend
  <2>2. /\ Len(got'[t]) = m + 1 /\ got'[t][m + 1] = h
        /\ \A i \in 1 .. m : got'[t][i] = got[t][i]
    BY <1>4
  <2>. QED
    BY <2>1, <2>2
<1>6. \A i \in 1 .. Len(got'[t]) :
         got'[t][i] = 0 => at'[t] \in {"put", "link"} /\ i = Len(got'[t]) /\ error'[t]
  <2>1. \A i \in 1 .. m + 1 : i \in 1 .. m \/ i = m + 1
    BY <1>1
  <2>. QED
    BY <1>3, <1>5, <2>1
<1>7. c + (m + 1) = n - l + 1
  <2>. HIDE DEF n, l, m, c
  <2>. QED
    BY <1>1, <1>3
<1>. QED
  BY <1>2, <1>3, <1>5, <1>6, <1>7 DEF Steady

LEMMA WaitTyped ==
  ASSUME TypeInv, NEW t \in Thread, at[t] \in {"look", "make"},
         NEW a \in {"look", "make", "open"}, at' = [at EXCEPT ![t] = a],
         UNCHANGED <<disk, opened, freed, op, todo, key, seen, got, error, done, asked, ops,
                     moves>>,
         repos' = repos \/ repos' = Empty, tables' \in Nat, crossed' \subseteq Dir
  PROVE  TypeInv' /\ (FailsLoudly => FailsLoudly')
<1>1. TypeOK /\ key[t] \in Dir /\ at[t] # "idle"
  BY DEF TypeInv, KeyInv
<1>2. at'[t] = a /\ Alone(t)
  BY <1>1 DEF TypeOK, Alone, Rests, Has
<1>3. TypeOK'
  <2>1. /\ at' \in [Thread -> {"idle", "find", "look", "make", "got"} \cup Opens]
        /\ op' \in [Thread -> Op] /\ todo' \in [Thread -> Seq(Lookup)]
        /\ got' \in [Thread -> Seq({0} \cup Handle)]
        /\ key' \in [Thread -> Dir \cup {None}] /\ error' \in [Thread -> BOOLEAN]
        /\ asked' \in [Thread -> Seq(Dir)] /\ ops' \in 0 .. MaxOps
        /\ done' \in [Thread -> Seq([on : Data, of : Data])] /\ seen' \in SeenType
    BY <1>1 DEF TypeOK, Lookup, Opens, SeenType
  <2>2. DOMAIN repos' \subseteq Dir /\ \A d \in DOMAIN repos' : repos'[d] \in {0} \cup Handle
    BY <1>1 DEF TypeOK, Empty
  <2>. QED
    BY <1>1, <2>1, <2>2, TypeGoes
<1>4. Steady(t)'
  <2>1. Found(t) = 0 /\ Found(t)' = 0 /\ Steady(t)
    BY <1>1, <1>2, Works DEF Found, Pending
  <2>. QED
    BY <1>1, <1>2, <2>1 DEF Steady
<1>. QED
  BY <1>1, <1>2, <1>3, <1>4, LocalStep, LoudStays

LEMMA LookTyped ==
  ASSUME TypeInv, NEW t \in Thread, Look(t)
  PROVE  TypeInv' /\ (FailsLoudly => FailsLoudly')
<1>1. /\ at[t] = "look" /\ UNCHANGED <<disk, tables, repos, opened, freed, op, todo, key, seen, error, done,
                     asked, ops, moves>>
      /\ TypeOK /\ key[t] \in Dir
  BY DEF Look, TypeInv, KeyInv
<1>2. /\ op' \in [Thread -> Op] /\ todo' \in [Thread -> Seq(Lookup)]
      /\ key' \in [Thread -> Dir \cup {None}] /\ error' \in [Thread -> BOOLEAN]
      /\ asked' \in [Thread -> Seq(Dir)] /\ ops' \in 0 .. MaxOps
      /\ done' \in [Thread -> Seq([on : Data, of : Data])]
  BY <1>1 DEF TypeOK, Lookup
<1>3. CASE /\ Cached(key[t]) # 0 /\ got' = [got EXCEPT ![t] = Append(@, Cached(key[t]))]
           /\ at' = [at EXCEPT ![t] = "got"] /\ crossed' = crossed
  <2>. PICK h : h = Cached(key[t])
    OBVIOUS
  <2>1. h \in Handle
    BY <1>1, <1>3 DEF TypeOK, Cached
  <2>2. at'[t] = "got" /\ got'[t] = Append(got[t], h) /\ Alone(t)
    BY <1>1, <1>3 DEF TypeOK, Alone, Rests, Has
  <2>3. Steady(t)' /\ got'[t] \in Seq({0} \cup Handle)
    <3>1. h # 0
      BY <1>3
    <3>. QED
      BY <1>1, <2>1, <2>2, <3>1, SteadyGot
  <2>4. TypeOK'
    <3>1. /\ at' \in [Thread -> {"idle", "find", "look", "make", "got"} \cup Opens]
          /\ got' \in [Thread -> Seq({0} \cup Handle)]
      BY <1>1, <1>3, <2>2, <2>3 DEF TypeOK
    <3>. QED
      BY <1>1, <1>2, <1>3, <3>1, TypeStays DEF cache
  <2>. QED
    BY <1>1, <2>2, <2>3, <2>4, LocalStep, LoudStays DEF Opens
<1>4. ASSUME NEW a \in {"make", "open"}, at' = [at EXCEPT ![t] = a], got' = got,
             crossed' \in {crossed, crossed \cup {key[t]}}
      PROVE  TypeInv' /\ (FailsLoudly => FailsLoudly')
  <2>1. tables' \in Nat /\ crossed' \subseteq Dir
    BY <1>1, <1>4 DEF TypeOK
  <2>. QED
    BY <1>1, <1>4, <2>1, WaitTyped
<1>5. CASE at' = [at EXCEPT ![t] = "make"] /\ UNCHANGED <<crossed, got>>
  BY <1>4, <1>5
<1>6. CASE /\ at' = [at EXCEPT ![t] = "open"] /\ got' = got
           /\ crossed' \in {crossed, crossed \cup {key[t]}}
  BY <1>4, <1>6
<1>. QED
  BY <1>3, <1>5, <1>6 DEF Look

LEMMA MakeTyped ==
  ASSUME TypeInv, NEW t \in Thread, Make(t)
  PROVE  TypeInv' /\ (FailsLoudly => FailsLoudly')
<1>1. tables' \in Nat /\ crossed' \subseteq Dir
  BY DEF Make, TypeInv, TypeOK
<1>. QED
  BY <1>1, WaitTyped DEF Make

\* What grows while databases and handles are created keeps its type.
LEMMA SetsGrow ==
  ASSUME TypeOK, data' \in [Dir -> Data'], lastData' \in Nat, lastData <= lastData',
         opened' = opened \/ \E x \in Data' \ {0} : opened' = Append(opened, x)
  PROVE  /\ Data \subseteq Data' /\ Handle \subseteq Handle' /\ opened' \in Seq(Data' \ {0})
         /\ \A u \in Thread : /\ got[u] \in Seq({0} \cup Handle')
                              /\ done[u] \in Seq([on : Data', of : Data'])
<1>1. lastData \in Nat /\ opened \in Seq(Data \ {0})
  BY DEF TypeOK
<1>2. Data \subseteq Data'
  BY <1>1 DEF Data
<1>3. opened \in Seq(Data' \ {0})
  BY <1>1, <1>2, SeqMonotonic
<1>4. opened' \in Seq(Data' \ {0}) /\ Handle \subseteq Handle'
  <2>1. CASE opened' = opened
    BY <1>3, <2>1 DEF Handle
  <2>2. ASSUME NEW x \in Data' \ {0}, opened' = Append(opened, x)
        PROVE  opened' \in Seq(Data' \ {0}) /\ Handle \subseteq Handle'
    <3>1. opened' \in Seq(Data' \ {0}) /\ Len(opened') = Len(opened) + 1
      BY <1>3, <2>2, AppendProperties
    <3>. QED
      BY <1>3, <3>1 DEF Handle
  <2>. QED
    BY <2>1, <2>2
<1>5. \A u \in Thread : got[u] \in Seq({0} \cup Handle')
  <2>1. {0} \cup Handle \subseteq {0} \cup Handle'
    BY <1>4
  <2>2. \A u \in Thread : got[u] \in Seq({0} \cup Handle)
    BY DEF TypeOK
  <2>. QED
    BY <2>1, <2>2, SeqMonotonic
<1>6. \A u \in Thread : done[u] \in Seq([on : Data', of : Data'])
  <2>1. [on : Data, of : Data] \subseteq [on : Data', of : Data']
    BY <1>2
  <2>2. \A u \in Thread : done[u] \in Seq([on : Data, of : Data])
    BY DEF TypeOK
  <2>. QED
    BY <2>1, <2>2, SeqMonotonic
<1>. QED
  BY <1>2, <1>4, <1>5, <1>6

LEMMA OpenTyped ==
  ASSUME TypeInv, NEW t \in Thread, Open(t)
  PROVE  TypeInv' /\ (FailsLoudly => FailsLoudly')
<1>. DEFINE k == key[t]
<1>1. /\ at[t] = "open" /\ TypeOK /\ k \in Dir
      /\ UNCHANGED <<exists, writable, ind, tables, repos, freed, crossed, op, todo, key, seen,
                     done, asked, ops, moves>>
  BY DEF Open, TypeInv, KeyInv, Opens
<1>2. ASSUME NEW h, h \in {0} \cup Handle', got' = [got EXCEPT ![t] = Append(@, h)],
             NEW a \in {"clear", "put"}, at' = [at EXCEPT ![t] = a],
             error' = error \/ error' = [error EXCEPT ![t] = TRUE],
             h = 0 => a = "put" /\ error' = [error EXCEPT ![t] = TRUE],
             data' \in [Dir -> Data'], lastData' \in Nat, lastData <= lastData',
             opened' = opened \/ \E x \in Data' \ {0} : opened' = Append(opened, x)
      PROVE  TypeInv' /\ (FailsLoudly => FailsLoudly')
  <2>1. /\ Data \subseteq Data' /\ Handle \subseteq Handle' /\ opened' \in Seq(Data' \ {0})
        /\ \A u \in Thread : /\ got[u] \in Seq({0} \cup Handle')
                             /\ done[u] \in Seq([on : Data', of : Data'])
    BY <1>1, <1>2, SetsGrow
  <2>2. at'[t] = a /\ got'[t] = Append(got[t], h) /\ Alone(t) /\ (h = 0 => error'[t])
    BY <1>1, <1>2 DEF TypeOK, Alone, Rests, Has
  <2>3. Steady(t)' /\ got'[t] \in Seq({0} \cup Handle')
    <3>1. asked'[t] = asked[t] /\ done'[t] = done[t] /\ todo'[t] = todo[t]
      BY <1>1
    <3>2. PICK H : H = Handle'
      OBVIOUS
    <3>. QED
      BY <1>1, <1>2, <2>1, <2>2, <3>1, <3>2, SteadyGot
  <2>4. TypeOK'
    <3>1. got' \in [Thread -> Seq({0} \cup Handle')]
      BY <1>1, <1>2, <2>1, <2>2, <2>3 DEF TypeOK
    <3>2. done' \in [Thread -> Seq([on : Data', of : Data'])]
      BY <1>1, <2>1 DEF TypeOK
    <3>3. (\A f \in DOMAIN repos' : repos'[f] \in {0} \cup Handle') /\ freed' \subseteq Handle'
      BY <1>1, <2>1 DEF TypeOK
    <3>4. /\ at' \in [Thread -> {"idle", "find", "look", "make", "got"} \cup Opens]
          /\ error' \in [Thread -> BOOLEAN]
      BY <1>1, <1>2 DEF TypeOK, Opens
    <3>. QED
      BY <1>1, <1>2, <2>1, <3>1, <3>2, <3>3, <3>4 DEF TypeOK, Opens
  <2>. QED
    BY <1>1, <1>2, <2>2, <2>3, <2>4, LocalStep, LoudStays DEF Opens
<1>3. CASE /\ IF data[k] # 0 THEN UNCHANGED <<data, lastData>>
              ELSE data' = [data EXCEPT ![k] = lastData + 1] /\ lastData' = lastData + 1
           /\ opened' = Append(opened, data'[k])
           /\ got' = [got EXCEPT ![t] = Append(@, Len(opened) + 1)]
           /\ at' = [at EXCEPT ![t] = "clear"]
           /\ error' = error
  <2>1. lastData \in Nat /\ data \in [Dir -> Data] /\ opened \in Seq(Data \ {0})
    BY <1>1 DEF TypeOK
  <2>2. lastData' \in Nat /\ lastData <= lastData' /\ Data \subseteq Data'
    BY <1>3, <2>1 DEF Data
  <2>3. data' \in [Dir -> Data'] /\ data'[k] \in Data' \ {0}
    <3>1. CASE data[k] # 0
      BY <1>1, <1>3, <2>1, <2>2, <3>1
    <3>2. CASE data[k] = 0
      <4>1. lastData + 1 \in Data' \ {0}
        BY <1>3, <2>1, <3>2 DEF Data
      <4>. QED
        BY <1>1, <1>3, <2>1, <2>2, <3>2, <4>1
    <3>. QED
      BY <3>1, <3>2
  <2>4. Len(opened) + 1 \in Handle' /\ Len(opened) + 1 # 0
    <3>1. Len(opened') = Len(opened) + 1 /\ Len(opened) \in Nat
      BY <1>3, <2>1
    <3>. QED
      BY <3>1 DEF Handle
  <2>. QED
    BY <1>2, <1>3, <2>2, <2>3, <2>4
<1>4. CASE /\ got' = [got EXCEPT ![t] = Append(@, 0)]
           /\ error' = [error EXCEPT ![t] = TRUE]
           /\ at' = [at EXCEPT ![t] = "put"]
           /\ UNCHANGED <<data, lastData, opened>>
  <2>1. data' \in [Dir -> Data'] /\ lastData' \in Nat /\ lastData <= lastData'
    BY <1>1, <1>4 DEF TypeOK, Data
  <2>. QED
    BY <1>2, <1>4, <2>1
<1>. QED
  BY <1>3, <1>4 DEF Open

LEMMA IndicatorTyped ==
  ASSUME TypeInv, NEW t \in Thread, Clear(t) \/ Write(t)
  PROVE  TypeInv' /\ (FailsLoudly => FailsLoudly')
<1>1. /\ at[t] \in {"clear", "write"} /\ TypeOK /\ KeyInv /\ Steady(t)
      /\ UNCHANGED <<exists, writable, data, lastData, cache, op, todo, key, seen, got, done,
                     asked, ops, moves>>
  BY DEF Clear, Write, TypeInv
<1>2. PICK a \in {"write", "put"} : at' = [at EXCEPT ![t] = a] /\ (a = "write" => key[t] \in Folder)
  BY <1>1 DEF Clear, Write, TypeOK
<1>3. error' = error \/ error' = [error EXCEPT ![t] = TRUE]
  BY DEF Clear, Write
<1>4. ind' \in [Dir -> Folder \cup {"empty", "none"}]
  <2>1. ind' = ind \/ \E x \in Folder \cup {"empty"} : ind' = [ind EXCEPT ![key[t]] = x]
    BY <1>1 DEF Clear, Write, KeyInv
  <2>. QED
    BY <1>1, <2>1 DEF TypeOK
<1>5. at'[t] = a /\ Alone(t)
  BY <1>1, <1>2, <1>3 DEF TypeOK, Alone, Rests, Has
<1>6. TypeOK'
  <2>1. Data' = Data /\ Handle' = Handle
    BY <1>1 DEF Data, Handle, cache
  <2>2. /\ at' \in [Thread -> {"idle", "find", "look", "make", "got"} \cup Opens]
        /\ error' \in [Thread -> BOOLEAN]
    BY <1>1, <1>2, <1>3 DEF TypeOK, Opens
  <2>. QED
    BY <1>1, <1>4, <2>1, <2>2 DEF TypeOK, Opens, cache
<1>7. Steady(t)'
  <2>1. Found(t) = 1 /\ Found(t)' = 1
    BY <1>1, <1>5 DEF Found, Pending
  <2>. QED
    BY <1>1, <1>5, <2>1 DEF Steady
<1>. QED
  BY <1>1, <1>2, <1>5, <1>6, <1>7, LocalStep, LoudStays DEF KeyInv, Opens

LEMMA PutTyped ==
  ASSUME TypeInv, NEW t \in Thread, Put(t)
  PROVE  TypeInv' /\ (FailsLoudly => FailsLoudly')
<1>1. /\ at[t] = "put" /\ at' = [at EXCEPT ![t] = "link"] /\ key[t] \in Dir
      /\ TypeOK /\ Steady(t)
      /\ seen' = [seen EXCEPT ![t] = [table |-> tables, keys |-> DOMAIN repos]]
      /\ freed' = freed \cup Replaced(key[t])
      /\ UNCHANGED <<disk, tables, repos, opened, crossed, op, todo, key, got, error, done,
                     asked, ops, moves>>
  BY DEF Put, TypeInv, KeyInv, Opens
<1>2. at'[t] = "link" /\ Alone(t)
  BY <1>1 DEF TypeOK, Alone, Rests, Has
<1>3. TypeOK'
  <2>1. Data' = Data /\ Handle' = Handle
    BY <1>1 DEF Data, Handle, disk
  <2>2. freed' \subseteq Handle
    BY <1>1 DEF TypeOK, Replaced, Cached
  <2>3. seen' \in SeenType
    BY <1>1 DEF TypeOK, SeenType
  <2>. QED
    BY <1>1, <2>1, <2>2, <2>3 DEF TypeOK, SeenType, Opens, disk
<1>4. Steady(t)'
  <2>1. Found(t) = 1 /\ Found(t)' = 1
    BY <1>1, <1>2 DEF Found, Pending
  <2>. QED
    BY <1>1, <1>2, <2>1 DEF Steady
<1>. QED
  BY <1>1, <1>2, <1>3, <1>4, LocalStep, LoudStays DEF Opens

LEMMA LinkTyped ==
  ASSUME TypeInv, NEW t \in Thread, Link(t)
  PROVE  TypeInv' /\ (FailsLoudly /\ "reading" \notin Env => FailsLoudly')
<1>. PICK h : h = Last(got[t])
  OBVIOUS
<1>1. /\ at[t] = "link" /\ key[t] \in Dir /\ TypeOK /\ Steady(t)
      /\ UNCHANGED <<disk, tables, opened, freed, ops, moves>>
      /\ seen' = [seen EXCEPT ![t] = Unseen]
  BY DEF Link, TypeInv, KeyInv, Opens
<1>2. /\ got[t] # <<>> /\ got[t] \in Seq({0} \cup Handle)
      /\ h = got[t][Len(got[t])] /\ Len(got[t]) \in Nat \ {0}
  <2>1. Found(t) = 1
    BY <1>1 DEF Found, Pending
  <2>2. got[t] # <<>> /\ got[t] \in Seq({0} \cup Handle)
    BY <1>1, <2>1, Works DEF Steady
  <2>. QED
    BY <2>2 DEF Last
<1>3. h \in {0} \cup Handle
  BY <1>2
<1>4. DOMAIN repos' \subseteq Dir /\ \A e \in DOMAIN repos' : repos'[e] \in {0} \cup Handle
  BY <1>1, <1>3, LinkTable DEF TypeOK
<1>5. freed' \subseteq Handle /\ tables' \in Nat /\ crossed' \subseteq Dir /\ seen' \in SeenType
  BY <1>1, LinkTable DEF TypeOK, SeenType, Unseen
<1>6. CASE h = 0 /\ Fail(t, error[t])
  <2>1. error[t] \in BOOLEAN /\ done[t] \in Seq([on : Data, of : Data])
    BY Works
  <2>2. /\ End(t) /\ asked' = asked /\ error' = [error EXCEPT ![t] = error[t]]
        /\ done' = [done EXCEPT ![t] = done[t]]
    BY <1>1, <1>6 DEF Fail, TypeOK
  <2>3. error[t]
    <3>1. Len(got[t]) \in 1 .. Len(got[t]) /\ got[t][Len(got[t])] = 0
      BY <1>2, <1>6
    <3>2. \A i \in 1 .. Len(got[t]) : got[t][i] = 0 => error[t] = TRUE
      BY <1>1, <2>1 DEF Steady
    <3>. QED
      BY <3>1, <3>2
  <2>. QED
    BY <1>1, <1>4, <1>5, <2>1, <2>2, <2>3, EndTyped
<1>7. CASE /\ h # 0 /\ at' = [at EXCEPT ![t] = "got"]
           /\ UNCHANGED <<op, todo, key, got, error, done, asked>>
  <2>1. at'[t] = "got" /\ Alone(t)
    BY <1>1, <1>7 DEF TypeOK, Alone, Rests, Has
  <2>2. TypeOK'
    <3>1. Data' = Data /\ Handle' = Handle
      BY <1>1 DEF Data, Handle, disk
    <3>2. at' \in [Thread -> {"idle", "find", "look", "make", "got"} \cup Opens]
      BY <1>1, <1>7 DEF TypeOK
    <3>. QED
      BY <1>1, <1>4, <1>5, <1>7, <3>1, <3>2 DEF TypeOK, SeenType, Opens, disk
  <2>3. Steady(t)'
    <3>1. Found(t) = 1 /\ Found(t)' = 1
      BY <1>1, <2>1 DEF Found, Pending
    <3>2. \A i \in 1 .. Len(got[t]) : got[t][i] # 0
      BY <1>1, <1>2, <1>7 DEF Steady
    <3>. QED
      BY <1>1, <1>7, <2>1, <3>1, <3>2 DEF Steady
  <2>. QED
    BY <1>1, <1>7, <2>1, <2>2, <2>3, LocalStep, LoudStays DEF Opens
<1>. QED
  BY <1>6, <1>7 DEF Link

LEMMA UseTyped ==
  ASSUME TypeInv, NEW t \in Thread, Use(t)
  PROVE  TypeInv' /\ (FailsLoudly /\ "reading" \notin Env => FailsLoudly')
<1>. DEFINE n == Len(asked[t]) l == Len(todo[t]) m == Len(got[t]) c == Len(done[t])
            D == [on : Data, of : Data]
<1>1. /\ at[t] = "got" /\ UNCHANGED <<disk, cache, seen, error, asked, ops, moves>>
      /\ TypeOK /\ KeyInv /\ Steady(t)
  BY DEF Use, TypeInv
<1>2. /\ asked[t] \in Seq(Dir) /\ todo[t] \in Seq(Lookup) /\ error[t] \in BOOLEAN
      /\ got[t] \in Seq({0} \cup Handle) /\ done[t] \in Seq(D)
      /\ \A i \in 1 .. m : c + i \in 1 .. n
  BY <1>1, Works
<1>3. /\ n \in Nat /\ m \in Nat /\ c \in Nat /\ l \in 1 .. n /\ c + m = n - l + 1
      /\ \A i \in 1 .. m : got[t][i] \in Handle
  <2>1. n \in Nat /\ m \in Nat /\ c \in Nat
    BY <1>2
  <2>2. Found(t) = 1
    BY <1>1 DEF Found
  <2>3. l \in 1 .. n /\ c + m = n - l + Found(t) /\ \A i \in 1 .. m : got[t][i] # 0
    BY <1>1 DEF Steady
  <2>4. \A i \in 1 .. m : got[t][i] \in Handle
    BY <1>2, <2>3
  <2>. HIDE DEF n, l, m, c
  <2>5. c + m = n - l + 1
    BY <2>2, <2>3
  <2>. QED
    BY <2>1, <2>3, <2>4, <2>5
<1>4. Performed(t) \in Seq(D) /\ Len(Performed(t)) = m
  <2>1. Performed(t) = [i \in 1 .. m |->
           [on |-> Reached(got[t][i]), of |-> Base(asked[t][c + i])]]
    BY <1>2 DEF Performed
  <2>2. \A i \in 1 .. m : Reached(got[t][i]) \in Data
    <3>1. \A h \in Handle : opened[h] \in Data /\ 0 \in Data
      BY <1>1 DEF TypeOK, Handle, Data
    <3>. HIDE DEF m
    <3>. QED
      BY <1>3, <3>1 DEF Reached, Undefined
  <2>3. \A d \in Dir : Base(d) \in Data
    BY <1>1 DEF TypeOK, Base, Dir, Data
  <2>4. \A i \in 1 .. m : Base(asked[t][c + i]) \in Data
    <3>1. \A j \in 1 .. n : asked[t][j] \in Dir
      BY <1>2
    <3>. HIDE DEF n, m, c
    <3>. QED
      BY <1>2, <2>3, <3>1
  <2>5. Performed(t) \in [1 .. m -> D]
    BY <2>1, <2>2, <2>4
  <2>. HIDE DEF m, D
  <2>. QED
    BY <1>3, <2>5, SeqDef
<1>5. done[t] \o Performed(t) \in Seq(D) /\ Len(done[t] \o Performed(t)) = c + m
  <2>1. done[t] \in Seq(D) /\ Performed(t) \in Seq(D) /\ Len(Performed(t)) = m
    BY <1>2, <1>4
  <2>. DEFINE P == Performed(t)
  <2>2. P \in Seq(D) /\ Len(P) = m
    BY <2>1
  <2>. HIDE DEF P, D, m
  <2>3. done[t] \o P \in Seq(D) /\ Len(done[t] \o P) = Len(done[t]) + Len(P)
    BY <2>1, <2>2, ConcatProperties
  <2>. QED
    BY <2>2, <2>3 DEF P
<1>6. PICK d \in Seq(D) : /\ done' = [done EXCEPT ![t] = d]
                          /\ d = IF error[t] \/ (op[t] # "search" /\ l > 1) THEN done[t]
                                 ELSE done[t] \o Performed(t)
  <2>1. CASE error[t] \/ (op[t] # "search" /\ l > 1)
    BY <1>1, <1>2, <2>1 DEF Use, TypeOK
  <2>2. CASE ~(error[t] \/ (op[t] # "search" /\ l > 1))
    BY <1>1, <1>5, <2>2 DEF Use, TypeOK
  <2>. QED
    BY <2>1, <2>2
<1>7. CASE End(t) /\ (error[t] \/ l = 1)
  <2>1. error[t] \/ Len(d) = n
    <3>. SUFFICES ASSUME ~error[t] PROVE Len(d) = n
      OBVIOUS
    <3>1. l = 1 /\ ~(l > 1)
      <4>1. l = 1
        BY <1>7
      <4>. HIDE DEF l
      <4>. QED
        BY <4>1
    <3>2. Len(d) = c + m
      BY <1>5, <1>6, <3>1
    <3>. HIDE DEF n, l, m, c
    <3>. QED
      BY <1>3, <3>1, <3>2
  <2>2. error' = [error EXCEPT ![t] = error[t]] /\ UNCHANGED <<disk, moves, ops, asked, opened>>
    BY <1>1 DEF TypeOK, cache
  <2>3. /\ DOMAIN repos' \subseteq Dir /\ (\A f \in DOMAIN repos' : repos'[f] \in {0} \cup Handle)
        /\ freed' \subseteq Handle /\ tables' \in Nat /\ crossed' \subseteq Dir
        /\ seen' \in SeenType
    BY <1>1 DEF TypeOK, SeenType, cache
  <2>4. "reading" \notin Env => error[t] \/ Len(d) = Len(asked[t])
    BY <2>1
  <2>. QED
    BY <1>2, <1>6, <1>7, <2>2, <2>3, <2>4, EndTyped
<1>8. CASE /\ ~error[t] /\ l > 1 /\ at' = [at EXCEPT ![t] = "find"]
           /\ todo' = [todo EXCEPT ![t] = Tail(@)]
           /\ got' = [got EXCEPT ![t] = IF op[t] = "search" THEN <<>> ELSE @]
           /\ UNCHANGED <<op, key>>
  <2>1. Alone(t) /\ at'[t] = "find" /\ todo'[t] = Tail(todo[t]) /\ done'[t] = d
        /\ got'[t] = IF op[t] = "search" THEN <<>> ELSE got[t]
    BY <1>1, <1>6, <1>8 DEF TypeOK, Alone, Rests, Has
  <2>2. Tail(todo[t]) \in Seq(Lookup) /\ Len(Tail(todo[t])) = l - 1
    <3>1. todo[t] # <<>>
      BY <1>2, <1>8
    <3>. QED
      BY <1>2, <3>1, HeadTailProperties
  <2>3. TypeOK'
    <3>1. todo' \in [Thread -> Seq(Lookup)]
      BY <1>1, <1>8, <2>2 DEF TypeOK, Lookup
    <3>2. got' \in [Thread -> Seq({0} \cup Handle)]
      BY <1>1, <1>8, EmptySeq DEF TypeOK
    <3>3. done' \in [Thread -> Seq(D)]
      BY <1>1, <1>6 DEF TypeOK
    <3>4. /\ at' \in [Thread -> {"idle", "find", "look", "make", "got"} \cup Opens]
          /\ op' \in [Thread -> Op] /\ key' \in [Thread -> Dir \cup {None}]
          /\ error' \in [Thread -> BOOLEAN] /\ asked' \in [Thread -> Seq(Dir)]
          /\ ops' \in 0 .. MaxOps
      BY <1>1, <1>8 DEF TypeOK
    <3>. QED
      BY <1>1, <3>1, <3>2, <3>3, <3>4, TypeStays
  <2>4. Steady(t)'
    <3>1. Found(t)' = 0
      BY <2>1 DEF Found, Pending
    <3>2. l - 1 \in 1 .. n /\ c + m = n - (l - 1)
      <4>1. l > 1
        BY <1>8
      <4>. HIDE DEF n, l, m, c
      <4>. QED
        BY <1>3, <4>1
    <3>3. Len(d) + Len(got'[t]) = c + m /\ \A i \in 1 .. Len(got'[t]) : got'[t][i] # 0
      <4>1. CASE op[t] = "search"
        <5>1. got'[t] = <<>> /\ Len(d) = c + m
          BY <1>5, <1>6, <1>8, <2>1, <4>1
        <5>2. Len(got'[t]) = 0 /\ 1 .. 0 = {}
          BY <5>1
        <5>3. c + m + 0 = c + m
          BY <1>3
        <5>. QED
          BY <5>1, <5>2, <5>3
      <4>2. CASE op[t] # "search"
        <5>1. got'[t] = got[t] /\ d = done[t]
          BY <1>6, <1>8, <2>1, <4>2
        <5>2. \A i \in 1 .. m : got[t][i] # 0
          BY <1>3 DEF Handle
        <5>. QED
          BY <5>1, <5>2
      <4>. QED
        BY <4>1, <4>2
    <3>4. asked'[t] = asked[t]
      BY <1>1
    <3>5. Len(todo'[t]) \in 1 .. Len(asked'[t])
      BY <2>1, <2>2, <3>2, <3>4
    <3>6. Len(done'[t]) + Len(got'[t]) = Len(asked'[t]) - Len(todo'[t]) + Found(t)'
      <4>1. n - (l - 1) + 0 = n - (l - 1)
        <5>. HIDE DEF n
        <5>. QED
          BY <1>3, <3>2
      <4>. QED
        BY <2>1, <2>2, <3>1, <3>2, <3>3, <3>4, <4>1
    <3>7. ~(Found(t)' = 1)
      BY <3>1
    <3>8. \A i \in 1 .. Len(got'[t]) :
             got'[t][i] = 0 => at'[t] \in {"put", "link"} /\ i = Len(got'[t]) /\ error'[t]
      BY <3>3
    <3>. HIDE DEF n, l, m, c
    <3>. QED
      BY <3>5, <3>6, <3>7, <3>8, Zenon DEF Steady
  <2>. QED
    BY <2>1, <2>3, <2>4, LocalStep, LoudStays DEF Opens
<1>. QED
  BY <1>7, <1>8 DEF Use

LEMMA UserTyped ==
  ASSUME TypeInv, User
  PROVE  TypeInv' /\ (FailsLoudly => FailsLoudly')
<1>. DEFINE Users(f, g) == \/ Create(f) \/ Chmod(f) \/ InitRepo(f) \/ Delete(f)
                           \/ Move(f, g) \/ Copy(f, g)
<1>1. TypeOK /\ UNCHANGED <<cache, local, ops>> /\ \E f, g \in Folder : Users(f, g)
  BY DEF User, TypeInv
<1>2. PICK f \in Folder, g \in Folder : Users(f, g)
  BY <1>1
<1>3. moves' \in 0 .. MaxMoves
  BY <1>1, HandlesAssumption DEF User, TypeOK
<1>4. f \in Dir /\ g \in Dir /\ lastData \in Nat /\ data \in [Dir -> Data]
      /\ ind \in [Dir -> Folder \cup {"empty", "none"}]
  BY <1>1 DEF TypeOK, Dir
<1>5. exists' \subseteq Dir /\ writable' \subseteq exists' \cap Folder
  BY <1>1, <1>2, <1>4 DEF TypeOK, Create, Chmod, InitRepo, Delete, Move, Copy
<1>6. lastData' \in {lastData, lastData + 1} /\ lastData' \in Nat /\ lastData <= lastData'
  <2>1. lastData' \in {lastData, lastData + 1}
    BY <1>2 DEF Create, Chmod, InitRepo, Delete, Move, Copy
  <2>. QED
    BY <1>4, <2>1
<1>7. Data \subseteq Data' /\ lastData' \in Data' /\ 0 \in Data'
  BY <1>4, <1>6 DEF Data
<1>8. data' \in [Dir -> Data']
  <2>1. \/ data' = data
        \/ \E x \in Data' : data' = [data EXCEPT ![f] = x]
        \/ \E x \in Data' : data' = [data EXCEPT ![g] = x]
        \/ \E x \in Data' : data' = [data EXCEPT ![g] = x, ![f] = 0]
    <3>1. CASE Create(f) \/ Chmod(f)
      BY <3>1 DEF Create, Chmod
    <3>2. CASE InitRepo(f)
      <4>1. \/ data' = data
            \/ data' = [data EXCEPT ![f] = lastData'] /\ lastData' \in Data'
        BY <1>7, <3>2 DEF InitRepo
      <4>. QED
        BY <4>1
    <3>3. CASE Delete(f)
      BY <1>7, <3>3 DEF Delete
    <3>4. CASE Move(f, g)
      BY <1>4, <1>7, <3>4 DEF Move
    <3>5. CASE Copy(f, g)
      <4>1. \E x \in {0, lastData'} : data' = [data EXCEPT ![g] = x]
        BY <3>5 DEF Copy
      <4>. QED
        BY <1>7, <4>1
    <3>. QED
      BY <1>2, <3>1, <3>2, <3>3, <3>4, <3>5
  <2>. QED
    BY <1>4, <1>7, <2>1
<1>9. ind' \in [Dir -> Folder \cup {"empty", "none"}]
  <2>1. \/ ind' = ind
        \/ \E x \in Folder \cup {"none"} : ind' = [ind EXCEPT ![f] = x]
        \/ ind' = [ind EXCEPT ![g] = ind[f]]
        \/ ind' = [ind EXCEPT ![g] = ind[f], ![f] = "none"]
    BY <1>2 DEF Create, Chmod, InitRepo, Delete, Move, Copy
  <2>. QED
    BY <1>4, <2>1
<1>10. /\ opened' \in Seq(Data' \ {0}) /\ Handle' = Handle
       /\ \A u \in Thread : done[u] \in Seq([on : Data', of : Data'])
  <2>1. opened' = opened
    BY <1>1 DEF cache
  <2>. QED
    BY <1>1, <1>6, <1>8, <2>1, SetsGrow DEF Handle
<1>11. TypeOK'
  <2>1. done' \in [Thread -> Seq([on : Data', of : Data'])]
    BY <1>1, <1>10 DEF TypeOK, local
  <2>. QED
    BY <1>1, <1>3, <1>5, <1>6, <1>8, <1>9, <1>10, <2>1 DEF TypeOK, Opens, cache, local
<1>12. KeyInv' /\ (\A t \in Thread : Steady(t)')
  <2>1. KeyInv'
    BY <1>1 DEF TypeInv, KeyInv, local
  <2>2. ASSUME NEW t \in Thread PROVE Steady(t)'
    <3>1. Found(t)' = Found(t)
      BY <1>1 DEF Found, Pending, local
    <3>. QED
      BY <1>1, <3>1 DEF TypeInv, Steady, local
  <2>. QED
    BY <2>1, <2>2
<1>13. FailsLoudly => FailsLoudly'
  BY <1>1 DEF FailsLoudly, local
<1>. QED
  BY <1>11, <1>12, <1>13 DEF TypeInv

LEMMA TypedStep ==
  TypeInv /\ [Next]_vars => TypeInv' /\ (FailsLoudly /\ "reading" \notin Env => FailsLoudly')
<1>. SUFFICES ASSUME TypeInv, [Next]_vars
     PROVE  TypeInv' /\ (FailsLoudly /\ "reading" \notin Env => FailsLoudly')
  OBVIOUS
<1>1. CASE UNCHANGED vars
  <2>1. UNCHANGED <<disk, cache, local, ops, moves>>
    BY <1>1 DEF vars
  <2>2. TypeOK'
    <3>1. Data' = Data /\ Handle' = Handle
      BY <2>1 DEF Data, Handle, disk, cache
    <3>. QED
      BY <2>1, <3>1 DEF TypeInv, TypeOK, disk, cache, local
  <2>3. KeyInv' /\ (FailsLoudly => FailsLoudly')
    BY <2>1 DEF TypeInv, KeyInv, FailsLoudly, local
  <2>4. ASSUME NEW t \in Thread PROVE Steady(t)'
    <3>1. Found(t)' = Found(t)
      BY <2>1 DEF Found, Pending, local
    <3>. QED
      BY <2>1, <3>1 DEF TypeInv, Steady, local
  <2>. QED
    BY <2>2, <2>3, <2>4 DEF TypeInv
<1>2. ASSUME NEW t \in Thread, NEW o \in Op, Begin(t, o)
      PROVE  TypeInv' /\ (FailsLoudly => FailsLoudly')
  BY <1>2, BeginTyped
<1>3. ASSUME NEW t \in Thread,
             \/ Find(t) \/ Look(t) \/ Make(t) \/ Open(t) \/ Clear(t) \/ Write(t)
             \/ Put(t) \/ Link(t) \/ Use(t)
      PROVE  TypeInv' /\ (FailsLoudly /\ "reading" \notin Env => FailsLoudly')
  BY <1>3, FindTyped, LookTyped, MakeTyped, OpenTyped, IndicatorTyped, PutTyped, LinkTyped,
     UseTyped
<1>4. CASE User
  BY <1>4, UserTyped
<1>. QED
  BY <1>1, <1>2, <1>3, <1>4 DEF Next

LEMMA TypedInit == Init => TypeInv /\ FailsLoudly
<1>. SUFFICES ASSUME Init PROVE TypeInv /\ FailsLoudly
  OBVIOUS
<1>1. \A t \in Thread : at[t] = "idle" /\ done[t] = <<>> /\ asked[t] = <<>>
  BY DEF Init
<1>2. HandlesInv
  BY HandlesInit
<1>. QED
  BY <1>1, <1>2 DEF HandlesInv, TypeInv, Steady, FailsLoudly

\* The table, the files and what threads have keep their types, whatever
\* threads and users do: no thread looks up a folder it was not given, and none
\* performs an operation through the handle 0.
THEOREM TypeCorrect == Spec => []TypeOK
<1>1. TypeInv => TypeOK
  BY DEF TypeInv
<1>. QED
  BY <1>1, TypedInit, TypedStep, PTL DEF Spec

\* Unless an indicator file is read while it is being written, an operation of
\* data.c that ends without an error was performed on all its folders: what
\* other threads put into the table and users do to the folders cannot make it
\* skip one in silence.
THEOREM LossIsReported ==
  ASSUME "reading" \notin Env
  PROVE  Spec => []FailsLoudly
<1>1. TypeInv /\ FailsLoudly /\ [Next]_vars => TypeInv' /\ FailsLoudly'
  BY TypedStep
<1>. QED
  BY <1>1, TypedInit, PTL DEF Spec
-----------------------------------------------------------------------------
(* The table, when folders are moved, copied and deleted and threads race.  *)
(* What holds of a folder holds until two threads open it at a time, or the *)
(* table loses its entry: until it is in crossed, where it stays.           *)

\* One thread at a time opens a folder, and only one without a handle, so that
\* nothing is there to be freed when it puts its own.
OpeningInv ==
  \A k \in Dir \ crossed : \A t \in Thread : Opening(k, t) =>
    /\ Cached(k) = 0
    /\ \A u \in Thread : Opening(k, u) => u = t

\* h is the handle for d, in the table or about to be put there.
Puts(t, d, h) == t \in Pending /\ key[t] = d /\ Last(got[t]) = h
HandleFor(d, h) ==
  \/ d \in DOMAIN repos /\ repos[d] = h
  \/ \E t \in Thread : Puts(t, d, h)

\* Every handle is for a folder, and a database, as long as it is there, in the
\* folder for which it was opened.
OwnerInv ==
  /\ \A d, e \in Dir : data[d] = data[e] /\ data[d] # 0 => d = e
  /\ \A h \in Handle : \E d \in Dir : HandleFor(d, h)
  /\ \A d, e \in Dir : \A h, k \in Handle :
       HandleFor(d, h) /\ HandleFor(e, k) /\ opened[h] = opened[k] => d = e
  /\ \A d, e \in Dir : \A h \in Handle : HandleFor(d, h) /\ data[e] = opened[h] => d = e

KeptInv == crossed = {} => OwnerInv

NoneMoved == "move" \notin Env

\* The steps of a thread, but for those that change the table or open a folder.
Plain(t) ==
  \/ \E o \in Op : Begin(t, o)
  \/ Find(t) \/ Clear(t) \/ Write(t) \/ Put(t) \/ Use(t)

\* The other threads rest when t takes a step.
LEMMA OthersRest ==
  ASSUME TypeInv, NEW t \in Thread,
         Plain(t) \/ Look(t) \/ Make(t) \/ Open(t) \/ Link(t)
  PROVE  \A u \in Thread \ {t} : at'[u] = at[u] /\ key'[u] = key[u] /\ got'[u] = got[u]
<1>1. /\ at \in [Thread -> {"idle", "find", "look", "make", "got"} \cup Opens]
      /\ key \in [Thread -> Dir \cup {None}] /\ got \in [Thread -> Seq({0} \cup Handle)]
  BY DEF TypeInv, TypeOK
<1>2. CASE \E o \in Op : Begin(t, o)
  BY <1>1, <1>2 DEF Begin
<1>3. CASE Find(t)
  BY <1>1, <1>3 DEF Find, Fail, End
<1>4. CASE Look(t) \/ Make(t) \/ Open(t)
  BY <1>1, <1>4 DEF Look, Make, Open
<1>5. CASE Clear(t) \/ Write(t) \/ Put(t)
  BY <1>1, <1>5 DEF Clear, Write, Put
<1>6. CASE Link(t)
  <2>1. \/ at' = [at EXCEPT ![t] = "got"] /\ key' = key /\ got' = got
        \/ Fail(t, error[t])
    BY <1>6 DEF Link
  <2>. QED
    BY <1>1, <2>1 DEF Fail, End
<1>7. CASE Use(t)
  BY <1>1, <1>7 DEF Use, End
<1>. QED
  BY <1>2, <1>3, <1>4, <1>5, <1>6, <1>7 DEF Plain

\* What a step of t does to the table and to t.
LEMMA StepOpens ==
  ASSUME TypeInv, NEW t \in Thread, Plain(t) \/ Open(t)
  PROVE  /\ repos' = repos /\ crossed' = crossed
         /\ at'[t] \in Opens => key'[t] = key[t] /\ at[t] \in Opens
<1>1. /\ at \in [Thread -> {"idle", "find", "look", "make", "got"} \cup Opens]
      /\ key \in [Thread -> Dir \cup {None}]
  BY DEF TypeInv, TypeOK
<1>2. CASE \E o \in Op : Begin(t, o)
  BY <1>1, <1>2 DEF Begin, Opens, cache
<1>3. CASE Find(t)
  BY <1>1, <1>3 DEF Find, Fail, End, Opens, cache
<1>4. CASE Open(t)
  BY <1>1, <1>4 DEF Open, Opens
<1>5. CASE Clear(t) \/ Write(t) \/ Put(t)
  BY <1>1, <1>5 DEF Clear, Write, Put, Opens, cache
<1>6. CASE Use(t)
  BY <1>1, <1>6 DEF Use, End, Opens, cache
<1>. QED
  BY <1>2, <1>3, <1>4, <1>5, <1>6 DEF Plain

\* A lookup opens a folder that has no handle, and crosses other threads.
LEMMA LookOpens ==
  ASSUME TypeInv, NEW t \in Thread, Look(t) \/ Make(t)
  PROVE  /\ crossed \subseteq crossed' /\ key' = key
         /\ \A k : Cached(k)' \in {0, Cached(k)}
         /\ at'[t] \in Opens => /\ Cached(key[t]) = 0
                                /\ (\E u \in Thread : Opening(key[t], u)) => key[t] \in crossed'
<1>1. at \in [Thread -> {"idle", "find", "look", "make", "got"} \cup Opens]
  BY DEF TypeInv, TypeOK
<1>2. CASE Look(t)
  <2>1. key' = key /\ repos' = repos /\ crossed \subseteq crossed'
    BY <1>2 DEF Look
  <2>2. \A k : Cached(k)' = Cached(k)
    BY <2>1 DEF Cached
  <2>3. at'[t] \in Opens => /\ Cached(key[t]) = 0
                            /\ (\E u \in Thread : Opening(key[t], u)) => key[t] \in crossed'
    BY <1>1, <1>2 DEF Look, Opens
  <2>. QED
    BY <2>1, <2>2, <2>3
<1>3. CASE Make(t)
  <2>1. key' = key /\ repos' = Empty /\ crossed \subseteq crossed' /\ at'[t] = "look"
    BY <1>1, <1>3 DEF Make
  <2>2. \A k : Cached(k)' = 0
    BY <2>1 DEF Cached, Empty
  <2>. QED
    BY <2>1, <2>2 DEF Opens
<1>. QED
  BY <1>2, <1>3

\* The end of a put changes the entry of its own folder, and may lose others.
LEMMA LinkOpens ==
  ASSUME TypeInv, NEW t \in Thread, Link(t)
  PROVE  /\ at[t] \in Opens /\ at'[t] \notin Opens /\ key[t] \in Dir
         /\ crossed \subseteq crossed'
         /\ \A k : k # key[t] => Cached(k)' \in {0, Cached(k)}
<1>1. at[t] = "link" /\ at[t] \in Opens /\ key[t] \in Dir /\ TypeOK
  BY DEF Link, TypeInv, KeyInv, Opens
<1>2. at'[t] \in {"idle", "got"}
  <2>1. \/ at' = [at EXCEPT ![t] = "got"]
        \/ Fail(t, error[t])
    BY DEF Link
  <2>2. at \in [Thread -> {"idle", "find", "look", "make", "got"} \cup Opens]
    BY <1>1 DEF TypeOK
  <2>. QED
    BY <2>1, <2>2 DEF Fail, End
<1>3. crossed \subseteq crossed'
  BY DEF Link
<1>4. \A e \in DOMAIN repos' : \/ e = key[t] /\ repos'[e] = Last(got[t])
                               \/ e \in DOMAIN repos /\ repos'[e] = repos[e]
  BY <1>1, LinkTable
<1>5. \A k : k # key[t] => Cached(k)' \in {0, Cached(k)}
  BY <1>4 DEF Cached
<1>. QED
  BY <1>1, <1>2, <1>3, <1>5 DEF Opens

LEMMA OpeningStep ==
  ASSUME TypeInv, OpeningInv, [Next]_vars
  PROVE  OpeningInv' /\ crossed \subseteq crossed'
<1>1. CASE UNCHANGED vars \/ User
  <2>1. repos' = repos /\ crossed' = crossed /\ at' = at /\ key' = key
    BY <1>1 DEF User, vars, cache, local
  <2>. QED
    BY <2>1 DEF OpeningInv, Opening, Cached
<1>2. ASSUME NEW t \in Thread, Plain(t) \/ Open(t)
      PROVE  OpeningInv' /\ crossed \subseteq crossed'
  <2>1. \A u \in Thread \ {t} : at'[u] = at[u] /\ key'[u] = key[u]
    BY <1>2, OthersRest
  <2>2. /\ repos' = repos /\ crossed' = crossed
        /\ at'[t] \in Opens => key'[t] = key[t] /\ at[t] \in Opens
    BY <1>2, StepOpens
  <2>3. \A k : Cached(k)' = Cached(k)
    BY <2>2 DEF Cached
  <2>4. \A k : \A u \in Thread : Opening(k, u)' => Opening(k, u)
    BY <2>1, <2>2 DEF Opening
  <2>. QED
    BY <2>2, <2>3, <2>4 DEF OpeningInv
<1>3. ASSUME NEW t \in Thread, Look(t) \/ Make(t)
      PROVE  OpeningInv' /\ crossed \subseteq crossed'
  <2>1. \A u \in Thread \ {t} : at'[u] = at[u] /\ key'[u] = key[u]
    BY <1>3, OthersRest
  <2>2. /\ crossed \subseteq crossed' /\ key' = key
        /\ \A k : Cached(k)' \in {0, Cached(k)}
        /\ at'[t] \in Opens => /\ Cached(key[t]) = 0
                               /\ (\E u \in Thread : Opening(key[t], u)) => key[t] \in crossed'
    BY <1>3, LookOpens
  <2>3. ASSUME NEW k \in Dir \ crossed', NEW v \in Thread, Opening(k, v)'
        PROVE  Cached(k)' = 0 /\ \A u \in Thread : Opening(k, u)' => u = v
    <3>1. \A u \in Thread \ {t} : Opening(k, u)' => Opening(k, u)
      BY <2>1 DEF Opening
    <3>2. CASE Opening(k, t)'
      <4>1. key[t] = k /\ at'[t] \in Opens
        BY <2>2, <3>2 DEF Opening
      <4>2. Cached(k) = 0 /\ \A u \in Thread : ~Opening(k, u)
        BY <2>2, <2>3, <4>1
      <4>3. Cached(k)' = 0
        BY <2>2, <4>2
      <4>. QED
        BY <2>3, <3>1, <4>2, <4>3
    <3>3. CASE ~Opening(k, t)'
      <4>1. \A u \in Thread : Opening(k, u)' => Opening(k, u)
        BY <3>1, <3>3
      <4>2. Cached(k) = 0 /\ \A u \in Thread : Opening(k, u) => u = v
        BY <2>2, <2>3, <4>1 DEF OpeningInv
      <4>. QED
        BY <2>2, <4>1, <4>2
    <3>. QED
      BY <3>2, <3>3
  <2>. QED
    BY <2>2, <2>3 DEF OpeningInv
<1>4. ASSUME NEW t \in Thread, Link(t)
      PROVE  OpeningInv' /\ crossed \subseteq crossed'
  <2>1. \A u \in Thread \ {t} : at'[u] = at[u] /\ key'[u] = key[u]
    BY <1>4, OthersRest
  <2>2. /\ at[t] \in Opens /\ at'[t] \notin Opens /\ key[t] \in Dir
        /\ crossed \subseteq crossed'
        /\ \A k : k # key[t] => Cached(k)' \in {0, Cached(k)}
    BY <1>4, LinkOpens
  <2>3. ASSUME NEW k \in Dir \ crossed', NEW v \in Thread, Opening(k, v)'
        PROVE  Cached(k)' = 0 /\ \A u \in Thread : Opening(k, u)' => u = v
    <3>1. v # t /\ \A u \in Thread : Opening(k, u)' => Opening(k, u)
      BY <2>1, <2>2, <2>3 DEF Opening
    <3>2. Cached(k) = 0 /\ \A u \in Thread : Opening(k, u) => u = v
      BY <2>2, <2>3, <3>1 DEF OpeningInv
    <3>3. k # key[t]
      BY <2>2, <3>1, <3>2 DEF Opening
    <3>. QED
      BY <2>2, <3>1, <3>2, <3>3
  <2>. QED
    BY <2>2, <2>3 DEF OpeningInv
<1>. QED
  BY <1>1, <1>2, <1>3, <1>4 DEF Next, Plain

LEMMA OpeningInit == Init => OpeningInv
BY DEF Init, OpeningInv, Opening, Opens

\* Only a put frees a handle, the one that it finds for its folder.
LEMMA PutFrees ==
  ASSUME TypeInv, OpeningInv, [Next]_vars
  PROVE  \A h \in freed' \ freed : \E k \in crossed : h = Cached(k)
<1>1. CASE UNCHANGED vars \/ User
  <2>1. freed' = freed
    BY <1>1 DEF User, vars, cache
  <2>. QED
    BY <2>1
<1>2. ASSUME NEW t \in Thread, ~Put(t),
             \/ \E o \in Op : Begin(t, o)
             \/ Find(t) \/ Look(t) \/ Make(t) \/ Open(t) \/ Clear(t) \/ Write(t)
             \/ Link(t) \/ Use(t)
      PROVE  freed' = freed
  <2>1. CASE (\E o \in Op : Begin(t, o)) \/ Find(t) \/ Look(t) \/ Make(t)
    BY <2>1 DEF Begin, Find, Look, Make, cache
  <2>2. CASE Open(t) \/ Clear(t) \/ Write(t) \/ Link(t) \/ Use(t)
    BY <2>2 DEF Open, Clear, Write, Link, Use, cache
  <2>. QED
    BY <1>2, <2>1, <2>2
<1>3. ASSUME NEW t \in Thread, Put(t)
      PROVE  \A h \in freed' \ freed : \E k \in crossed : h = Cached(k)
  <2>1. /\ key[t] \in Dir /\ Opening(key[t], t)
        /\ freed' = freed \cup ({Cached(key[t])} \ {0})
    BY <1>3 DEF Put, TypeInv, KeyInv, Opening, Opens, Replaced
  <2>2. key[t] \in crossed \/ Cached(key[t]) = 0
    BY <2>1 DEF OpeningInv
  <2>. QED
    BY <2>1, <2>2
<1>. QED
  BY <1>1, <1>2, <1>3 DEF Next

\* A put frees a handle only of a folder that two threads were opening at a
\* time or whose entry the table had lost, though folders are moved, copied and
\* deleted: whoever opens a folder alone takes no handle from anybody.
THEOREM FreedWhenCrossed == Spec => FreesOnlyCrossed
<1>1. Init => TypeInv /\ OpeningInv
  BY TypedInit, OpeningInit
<1>2. TypeInv /\ OpeningInv /\ [Next]_vars => TypeInv' /\ OpeningInv'
  BY TypedStep, OpeningStep
<1>3. TypeInv /\ OpeningInv /\ [Next]_vars =>
        [\A h \in freed' \ freed : \E k \in crossed : h = Cached(k)]_vars
  BY PutFrees
<1>. QED
  BY <1>1, <1>2, <1>3, PTL DEF Spec, FreesOnlyCrossed

\* What t puts into the table when nothing is crossed, nothing of it being there.
LEMMA LinkAlone ==
  ASSUME TypeInv, OpeningInv, crossed' = {}, NEW t \in Thread, Link(t)
  PROVE  /\ Cached(key[t]) = 0
         /\ repos' = [d \in DOMAIN repos \cup {key[t]} |->
                        IF d = key[t] THEN Last(got[t]) ELSE repos[d]]
<1>. PICK k, h : k = key[t] /\ h = Last(got[t])
  OBVIOUS
<1>1. key[t] \in Dir /\ at[t] \in Opens /\ crossed = {}
  BY LinkOpens
<1>2. Cached(k) = 0
  BY <1>1 DEF OpeningInv, Opening
<1>3. CASE /\ k \in DOMAIN repos
           /\ repos' = [d \in DOMAIN repos |-> IF d = k THEN h ELSE repos[d]]
  <2>1. DOMAIN repos \cup {k} = DOMAIN repos
    BY <1>3
  <2>. QED
    BY <1>2, <1>3, <2>1
<1>4. ASSUME NEW lost \in SUBSET (DOMAIN repos \ seen[t].keys),
             {k} \cap (DOMAIN repos \ seen[t].keys) \subseteq lost,
             crossed' = crossed \cup lost,
             repos' = [d \in (DOMAIN repos \ lost) \cup {k} |-> IF d = k THEN h ELSE repos[d]]
      PROVE  repos' = [d \in DOMAIN repos \cup {k} |-> IF d = k THEN h ELSE repos[d]]
  <2>1. lost = {}
    BY <1>4
  <2>. QED
    BY <1>4, <2>1
<1>5. ~(crossed' = crossed \cup {k})
  OBVIOUS
<1>. QED
  BY <1>2, <1>3, <1>4, <1>5 DEF Link

\* A step that opens nothing and creates one database at most.
LEMMA OwnersStay ==
  ASSUME TypeInv, OwnerInv, opened' = opened, NEW g \in Dir,
         \A d \in Dir : data'[d] \in {0, data[d]} \/ (d = g /\ data'[d] = lastData + 1),
         \A d \in Dir : \A h \in Handle : HandleFor(d, h)' <=> HandleFor(d, h)
  PROVE  OwnerInv'
<1>1. /\ lastData \in Nat /\ \A d \in Dir : data[d] \in 0 .. lastData
      /\ \A h \in Handle : opened[h] \in 1 .. lastData
  BY DEF TypeInv, TypeOK, Data, Handle
<1>2. Handle' = Handle
  BY DEF Handle
<1>3. \A d \in Dir : data'[d] # 0 /\ d # g => data'[d] = data[d] /\ data'[d] <= lastData
  BY <1>1
<1>4. data'[g] \in {0, data[g], lastData + 1}
  OBVIOUS
<1>5. \A d, e \in Dir : data'[d] = data'[e] /\ data'[d] # 0 => d = e
  BY <1>1, <1>3, <1>4 DEF OwnerInv
<1>6. \A d, e \in Dir : \A h \in Handle : HandleFor(d, h) /\ data'[e] = opened[h] => d = e
  <2>1. ASSUME NEW e \in Dir, NEW h \in Handle, data'[e] = opened[h]
        PROVE  data[e] = opened[h]
    BY <1>1, <2>1
  <2>. QED
    BY <2>1 DEF OwnerInv
<1>. QED
  BY <1>2, <1>5, <1>6 DEF OwnerInv

\* A step of t that opens nothing leaves every handle with its folder.
LEMMA HandlesKept ==
  ASSUME TypeInv, OpeningInv, crossed = {}, crossed' = {}, NEW t \in Thread,
         Plain(t) \/ Look(t) \/ Make(t) \/ Link(t), NEW d \in Dir, NEW h \in Handle
  PROVE  HandleFor(d, h)' <=> HandleFor(d, h)
<1>1. \A u \in Thread \ {t} : Puts(u, d, h)' <=> Puts(u, d, h)
  BY OthersRest DEF Puts, Pending
<1>2. at \in [Thread -> {"idle", "find", "look", "make", "got"} \cup Opens]
  BY DEF TypeInv, TypeOK
<1>3. CASE (\E o \in Op : Begin(t, o)) \/ Find(t) \/ Look(t) \/ Make(t) \/ Use(t)
  <2>1. DOMAIN repos' = DOMAIN repos /\ \A e \in DOMAIN repos : repos'[e] = repos[e]
    <3>1. CASE Make(t)
      BY <3>1 DEF Make, Empty
    <3>2. CASE ~Make(t)
      BY <1>3, <3>2 DEF Begin, Find, Look, Use, cache
    <3>. QED
      BY <3>1, <3>2
  <2>2. t \notin Pending
    BY <1>3 DEF Begin, Find, Look, Make, Use, Pending
  <2>3. t \notin Pending'
    <3>1. at'[t] \in {"idle", "find", "look", "make", "got", "open"}
      BY <1>2, <1>3 DEF Begin, Find, Look, Make, Use, Fail, End
    <3>. QED
      BY <3>1 DEF Pending
  <2>. QED
    BY <1>1, <2>1, <2>2, <2>3 DEF HandleFor, Puts
<1>4. CASE Clear(t) \/ Write(t) \/ Put(t)
  <2>1. repos' = repos /\ key' = key /\ got' = got
    BY <1>4 DEF Clear, Write, Put, cache
  <2>2. t \in Pending /\ t \in Pending'
    BY <1>2, <1>4 DEF Clear, Write, Put, Pending
  <2>. QED
    BY <1>1, <2>1, <2>2 DEF HandleFor, Puts
<1>5. CASE Link(t)
  <2>1. /\ at[t] = "link" /\ at'[t] \notin Opens
        /\ Cached(key[t]) = 0
        /\ repos' = [e \in DOMAIN repos \cup {key[t]} |->
                       IF e = key[t] THEN Last(got[t]) ELSE repos[e]]
    BY <1>5, LinkAlone, LinkOpens DEF Link
  <2>2. h # 0
    BY DEF Handle
  <2>3. t \in Pending /\ t \notin Pending'
    BY <2>1 DEF Pending, Opens
  <2>4. CASE d = key[t]
    <3>1. ~(d \in DOMAIN repos /\ repos[d] = h)
      BY <2>1, <2>2, <2>4 DEF Cached
    <3>2. d \in DOMAIN repos' /\ (repos'[d] = h <=> Puts(t, d, h))
      BY <2>1, <2>3, <2>4 DEF Puts
    <3>. QED
      BY <1>1, <2>3, <3>1, <3>2 DEF HandleFor, Puts
  <2>5. CASE d # key[t]
    <3>1. (d \in DOMAIN repos' /\ repos'[d] = h) <=> (d \in DOMAIN repos /\ repos[d] = h)
      BY <2>1, <2>5
    <3>2. ~Puts(t, d, h) /\ ~Puts(t, d, h)'
      BY <2>3, <2>5 DEF Puts
    <3>. QED
      BY <1>1, <3>1, <3>2 DEF HandleFor
  <2>. QED
    BY <2>4, <2>5
<1>. QED
  BY <1>3, <1>4, <1>5 DEF Plain

\* No step of a thread but Open changes a database, or the handles there are.
LEMMA DataKept ==
  ASSUME NEW t \in Thread, Plain(t) \/ Look(t) \/ Make(t) \/ Link(t)
  PROVE  data' = data /\ opened' = opened
<1>1. CASE (\E o \in Op : Begin(t, o)) \/ Find(t) \/ Look(t) \/ Make(t)
  BY <1>1 DEF Begin, Find, Look, Make, disk, cache
<1>2. CASE Clear(t) \/ Write(t) \/ Put(t) \/ Link(t) \/ Use(t)
  BY <1>2 DEF Clear, Write, Put, Link, Use, disk, cache
<1>. QED
  BY <1>1, <1>2 DEF Plain

\* The handle that is opened is the only one for its folder and on its
\* database.
LEMMA OpenOwned ==
  ASSUME TypeInv, TypeInv', OpeningInv, crossed = {}, OwnerInv, NEW t \in Thread, Open(t)
  PROVE  OwnerInv'
<1>. PICK k, n : k = key[t] /\ n = Len(opened) + 1
  OBVIOUS
<1>1. /\ at[t] = "open" /\ k \in Dir /\ repos' = repos /\ key' = key
      /\ Cached(k) = 0
      /\ \A u \in Thread : at[u] \in Opens /\ key[u] = k => u = t
  BY DEF Open, TypeInv, KeyInv, OpeningInv, Opening, Opens
<1>2. /\ lastData \in Nat /\ data \in [Dir -> 0 .. lastData]
      /\ \A h \in Handle : opened[h] \in 1 .. lastData
      /\ opened \in Seq(Data \ {0}) /\ Len(opened) \in Nat /\ Handle = 1 .. Len(opened)
      /\ \A d \in DOMAIN repos : repos[d] \in {0} \cup Handle
  <2>1. /\ lastData \in Nat /\ data \in [Dir -> 0 .. lastData]
        /\ opened \in Seq(Data \ {0}) /\ Data = 0 .. lastData /\ Handle = 1 .. Len(opened)
        /\ \A d \in DOMAIN repos : repos[d] \in {0} \cup Handle
    BY DEF TypeInv, TypeOK, Data, Handle
  <2>2. \A h \in Handle : opened[h] \in Data \ {0}
    BY <2>1
  <2>3. \A h \in Handle : opened[h] \in 1 .. lastData
    BY <2>1, <2>2
  <2>. QED
    BY <2>1, <2>3
<1>3. \A d \in Dir : \A h : \A u \in Thread \ {t} : Puts(u, d, h)' <=> Puts(u, d, h)
  BY OthersRest DEF Puts, Pending
<1>4. t \notin Pending
  BY <1>1 DEF Pending
<1>5. \A h \in Handle : ~HandleFor(k, h)
  <2>1. \A h \in Handle : ~(k \in DOMAIN repos /\ repos[k] = h)
    BY <1>1, <1>2 DEF Cached
  <2>2. \A u \in Thread : u \in Pending => key[u] # k
    BY <1>1, <1>4 DEF Pending, Opens
  <2>. QED
    BY <2>1, <2>2 DEF HandleFor, Puts
<1>6. /\ got \in [Thread -> Seq({0} \cup Handle)]
      /\ at \in [Thread -> {"idle", "find", "look", "make", "got"} \cup Opens]
  BY DEF TypeInv, TypeOK
<1>7. ASSUME NEW h, got' = [got EXCEPT ![t] = Append(@, h)]
      PROVE  Last(got'[t]) = h
  <2>1. got[t] \in Seq({0} \cup Handle) /\ got'[t] = Append(got[t], h)
    BY <1>6, <1>7
  <2>2. /\ Len(Append(got[t], h)) = Len(got[t]) + 1
        /\ Append(got[t], h)[Len(got[t]) + 1] = h
    BY <2>1
  <2>. QED
    BY <2>1, <2>2 DEF Last
<1>8. CASE /\ k \in exists
           /\ IF data[k] # 0 THEN UNCHANGED <<data, lastData>>
              ELSE data' = [data EXCEPT ![k] = lastData + 1] /\ lastData' = lastData + 1
           /\ opened' = Append(opened, data'[k])
           /\ got' = [got EXCEPT ![t] = Append(@, Len(opened) + 1)]
           /\ at' = [at EXCEPT ![t] = "clear"]
  <2>. DEFINE x == data'[k]
  <2>1. Handle' = Handle \cup {n} /\ n \notin Handle
    <3>1. Len(opened') = n
      BY <1>2, <1>8
    <3>. QED
      BY <1>2, <3>1 DEF Handle
  <2>2. /\ opened'[n] = x
        /\ \A h \in Handle : opened'[h] = opened[h]
    BY <1>2, <1>8
  <2>3. /\ \A d \in Dir : d # k => data'[d] = data[d] /\ data[d] # x
        /\ x # 0
    <3>1. CASE data[k] # 0
      BY <1>1, <1>8, <3>1 DEF OwnerInv
    <3>2. CASE data[k] = 0
      BY <1>1, <1>2, <1>8, <3>2
    <3>. QED
      BY <3>1, <3>2
  <2>4. \A h \in Handle : opened[h] # x
    <3>1. CASE data[k] # 0
      BY <1>1, <1>5, <1>8, <3>1 DEF OwnerInv
    <3>2. CASE data[k] = 0
      BY <1>1, <1>2, <1>8, <3>2
    <3>. QED
      BY <3>1, <3>2
  <2>5. Last(got'[t]) = n /\ t \in Pending'
    BY <1>6, <1>7, <1>8 DEF Pending
  <2>6. \A d \in Dir : \A h \in Handle : HandleFor(d, h)' <=> HandleFor(d, h)
    <3>1. \A d \in Dir : \A h \in Handle : ~Puts(t, d, h) /\ ~Puts(t, d, h)'
      BY <1>4, <2>1, <2>5 DEF Puts
    <3>. QED
      BY <1>1, <1>3, <3>1 DEF HandleFor
  <2>7. \A d \in Dir : HandleFor(d, n)' <=> d = k
    <3>1. \A d \in Dir : ~(d \in DOMAIN repos /\ repos[d] = n)
      BY <1>2, <2>1
    <3>2. \A d \in Dir : \A u \in Thread \ {t} : ~Puts(u, d, n)'
      <4>1. ASSUME NEW u \in Thread \ {t}, u \in Pending PROVE Last(got[u]) # n
        <5>1. got[u] # <<>> /\ got[u] \in Seq({0} \cup Handle)
          BY <1>6, <4>1 DEF TypeInv, Steady, Found, Pending
        <5>2. Last(got[u]) \in {0} \cup Handle
          BY <5>1 DEF Last
        <5>. QED
          BY <1>2, <2>1, <5>2
      <4>2. \A d \in Dir : \A u \in Thread \ {t} : ~Puts(u, d, n)
        BY <4>1 DEF Puts
      <4>. QED
        BY <1>3, <4>2
    <3>3. \A d \in Dir : Puts(t, d, n)' <=> d = k
      BY <1>1, <2>5 DEF Puts
    <3>. QED
      BY <1>1, <3>1, <3>2, <3>3 DEF HandleFor
  <2>. HIDE DEF x
  <2>8. \A d, e \in Dir : data'[d] = data'[e] /\ data'[d] # 0 => d = e
    BY <1>1, <2>3 DEF OwnerInv, x
  <2>9. \A h \in Handle' : \E d \in Dir : HandleFor(d, h)'
    BY <1>1, <2>1, <2>6, <2>7 DEF OwnerInv
  <2>10. ASSUME NEW d \in Dir, NEW e \in Dir, NEW h \in Handle', NEW j \in Handle',
                HandleFor(d, h)', HandleFor(e, j)', opened'[h] = opened'[j]
         PROVE  d = e
    <3>1. CASE h \in Handle /\ j \in Handle
      BY <2>2, <2>6, <2>10, <3>1 DEF OwnerInv
    <3>2. CASE h = n \/ j = n
      <4>1. h = n /\ j = n
        BY <2>1, <2>2, <2>4, <2>10, <3>2
      <4>. QED
        BY <2>7, <2>10, <4>1
    <3>. QED
      BY <2>1, <3>1, <3>2
  <2>11. ASSUME NEW d \in Dir, NEW e \in Dir, NEW h \in Handle',
                HandleFor(d, h)', data'[e] = opened'[h]
         PROVE  d = e
    <3>1. CASE h \in Handle
      <4>1. HandleFor(d, h) /\ data'[e] = opened[h] /\ opened[h] # x
        BY <2>2, <2>4, <2>6, <2>11, <3>1
      <4>2. e # k /\ data[e] = opened[h]
        BY <2>3, <4>1 DEF x
      <4>. QED
        BY <3>1, <4>1, <4>2 DEF OwnerInv
    <3>2. CASE h = n
      <4>1. d = k /\ data'[e] = x
        BY <2>2, <2>7, <2>11, <3>2
      <4>. QED
        BY <2>3, <4>1
    <3>. QED
      BY <2>1, <3>1, <3>2
  <2>. QED
    BY <2>8, <2>9, <2>10, <2>11 DEF OwnerInv
<1>9. CASE /\ got' = [got EXCEPT ![t] = Append(@, 0)]
           /\ UNCHANGED <<data, lastData, opened>>
  <2>1. Last(got'[t]) = 0
    BY <1>7, <1>9
  <2>2. \A d \in Dir : \A h \in Handle : HandleFor(d, h)' <=> HandleFor(d, h)
    <3>1. \A d \in Dir : \A h \in Handle : ~Puts(t, d, h) /\ ~Puts(t, d, h)'
      BY <1>2, <1>4, <2>1 DEF Puts
    <3>. QED
      BY <1>1, <1>3, <3>1 DEF HandleFor
  <2>. QED
    BY <1>1, <1>9, <2>2, OwnersStay
<1>. QED
  BY <1>8, <1>9 DEF Open

\* A user creates one database at most, and moves none.
LEMMA UserOwned ==
  ASSUME NoneMoved, TypeInv, OwnerInv, User
  PROVE  OwnerInv'
<1>1. UNCHANGED <<cache, local>>
  BY DEF User
<1>2. PICK f \in Folder, g \in Folder :
        Create(f) \/ Chmod(f) \/ InitRepo(f) \/ Delete(f) \/ Copy(f, g)
  BY DEF User, Move, NoneMoved
<1>3. data \in [Dir -> Data] /\ f \in Dir /\ g \in Dir
  BY DEF TypeInv, TypeOK, Dir
<1>4. \E e \in Dir : \A d \in Dir :
        data'[d] \in {0, data[d]} \/ (d = e /\ data'[d] = lastData + 1)
  <2>1. CASE Create(f) \/ Chmod(f) \/ InitRepo(f) \/ Delete(f)
    <3>1. \A d \in Dir : data'[d] \in {0, data[d]} \/ (d = f /\ data'[d] = lastData + 1)
      BY <1>3, <2>1 DEF Create, Chmod, InitRepo, Delete
    <3>. QED
      BY <1>3, <3>1
  <2>2. CASE Copy(f, g)
    <3>1. \A d \in Dir : data'[d] \in {0, data[d]} \/ (d = g /\ data'[d] = lastData + 1)
      BY <1>3, <2>2 DEF Copy
    <3>. QED
      BY <1>3, <3>1
  <2>. QED
    BY <1>2, <2>1, <2>2
<1>5. \A d \in Dir : \A h \in Handle : HandleFor(d, h)' <=> HandleFor(d, h)
  BY <1>1 DEF HandleFor, Puts, Pending, cache, local
<1>. QED
  BY <1>1, <1>4, <1>5, OwnersStay DEF cache

LEMMA OwnerStep ==
  ASSUME NoneMoved, TypeInv, TypeInv', OpeningInv, crossed = {}, crossed' = {}, OwnerInv,
         [Next]_vars
  PROVE  OwnerInv'
<1>1. CASE UNCHANGED vars
  <2>1. UNCHANGED <<disk, cache, local>>
    BY <1>1 DEF vars
  <2>. QED
    BY <2>1 DEF OwnerInv, HandleFor, Puts, Pending, Handle, disk, cache, local
<1>2. CASE User
  BY <1>2, UserOwned
<1>3. ASSUME NEW t \in Thread, Open(t)
      PROVE  OwnerInv'
  BY <1>3, OpenOwned
<1>4. ASSUME NEW t \in Thread,
             Plain(t) \/ Look(t) \/ Make(t) \/ Link(t)
      PROVE  OwnerInv'
  <2>1. data' = data /\ opened' = opened
    BY <1>4, DataKept
  <2>2. \A d \in Dir : \A h \in Handle : HandleFor(d, h)' <=> HandleFor(d, h)
    BY <1>4, HandlesKept
  <2>3. Handle' = Handle
    BY <2>1 DEF Handle
  <2>. QED
    BY <2>1, <2>2, <2>3 DEF OwnerInv
<1>. QED
  BY <1>1, <1>2, <1>3, <1>4 DEF Next, Plain

\* If no folder is renamed, the daemon has one open handle on a database at most
\* until two threads open a folder at a time or the table loses an entry, though
\* folders are copied and deleted.
THEOREM OneHandlePerDatabase ==
  ASSUME NoneMoved
  PROVE  Spec => []OneHandle
<1>1. Init => OpeningInv /\ KeptInv
  <2>1. SUFFICES ASSUME Init PROVE OpeningInv /\ OwnerInv
    BY DEF KeptInv
  <2>2. HandlesInv
    BY <2>1, HandlesInit
  <2>3. Handle = {}
    BY <2>1 DEF Init, Handle
  <2>4. OpeningInv
    BY <2>1, OpeningInit
  <2>. QED
    BY <2>2, <2>3, <2>4 DEF HandlesInv, DiskInv, OwnerInv
<1>2. OpeningInv /\ KeptInv => OneHandle
  <2>1. SUFFICES ASSUME OpeningInv, OwnerInv, crossed = {}, NEW h \in Handle, NEW k \in Handle,
                        opened[h] = opened[k]
                 PROVE  h = k
    BY DEF OneHandle, KeptInv
  <2>2. PICK d \in Dir : HandleFor(d, h) /\ HandleFor(d, k)
    BY <2>1 DEF OwnerInv
  <2>3. h # 0 /\ k # 0
    BY DEF Handle
  <2>4. ASSUME NEW t \in Thread, Puts(t, d, h) \/ Puts(t, d, k)
        PROVE  /\ ~(d \in DOMAIN repos /\ repos[d] \in {h, k})
               /\ \A u \in Thread : u \in Pending /\ key[u] = d => u = t
    BY <2>1, <2>3, <2>4 DEF Puts, Pending, Opens, OpeningInv, Opening, Cached
  <2>5. CASE \E t \in Thread : Puts(t, d, h) \/ Puts(t, d, k)
    BY <2>2, <2>4, <2>5 DEF HandleFor, Puts
  <2>6. CASE ~\E t \in Thread : Puts(t, d, h) \/ Puts(t, d, k)
    BY <2>2, <2>6 DEF HandleFor
  <2>. QED
    BY <2>5, <2>6
<1>3. TypeInv /\ OpeningInv /\ KeptInv /\ [Next]_vars =>
        TypeInv' /\ OpeningInv' /\ KeptInv'
  BY TypedStep, OpeningStep, OwnerStep DEF KeptInv
<1>. QED
  BY <1>1, <1>2, <1>3, TypedInit, PTL DEF Spec
=============================================================================
