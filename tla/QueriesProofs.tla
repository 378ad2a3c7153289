---------------------------- MODULE QueriesProofs ----------------------------
(***************************************************************************)
(* Theorems about Queries, for all repositories, command lines and numbers *)
(* of changes: the rows keep their types and belong to files and tags that *)
(* there are, a search finds what it was asked for, and a listing of the   *)
(* mounted view shows what belongs there; and about Parser and Requests,   *)
(* for all texts: every message is read back as it was written.            *)
(***************************************************************************)
EXTENDS Requests, FiniteSetTheorems, SequenceTheorems, WellFoundedInduction, TLAPS

-----------------------------------------------------------------------------
(***************************************************************************)
(* Counting rows: HAVING COUNT(...) = n is the way the SQL text says that  *)
(* all of n conditions hold.                                               *)
(***************************************************************************)
\* As many rows as conditions: each condition has its row.
LEMMA CountRows ==
  ASSUME NEW n \in Nat, NEW J \in SUBSET (1 .. n), NEW R, NEW g \in [J -> R],
         \A i, j \in J : g[i] = g[j] => i = j,
         \A r \in R : \E i \in J : g[i] = r
  PROVE  Cardinality(R) = n <=> J = 1 .. n
<1>1. IsFiniteSet(1 .. n) /\ Cardinality(1 .. n) = n
  BY FS_Interval
<1>2. IsFiniteSet(J)
  BY <1>1, FS_Subset
<1>3. g \in Bijection(J, R)
  BY DEF Bijection, Injection, Surjection, IsInjective
<1>4. Cardinality(R) = Cardinality(J)
  BY <1>2, <1>3, FS_Bijection DEF ExistsBijection
<1>5. Cardinality(J) = Cardinality(1 .. n) => J = 1 .. n
  BY <1>1, FS_Subset
<1>. QED  BY <1>1, <1>4, <1>5

\* generate_sql_search_tags and get_files_with_tags: when no tag is named twice,
\* the files with as many rows as tags are those that have all tags.
LEMMA HasAllTags ==
  ASSUME RowsOK, NEW d, NEW tags \in Seq(Tag), tags # <<>>, ~Twice(tags)
  PROVE  HasTags(d, tags) = Tagged(d, Range(tags))
<1>. DEFINE rows(f) == {r \in {r \in has : r[3] \in Range(tags)} : r[1] = d /\ r[2] = f}
            J(f) == {i \in 1 .. Len(tags) : <<d, f, tags[i]>> \in has}
            g(f) == [i \in J(f) |-> <<d, f, tags[i]>>]
<1>1. Range(tags) = {tags[i] : i \in 1 .. Len(tags)} /\ Len(tags) \in Nat /\ 1 \in 1 .. Len(tags)
  BY DEF Range
<1>2. ASSUME NEW f \in File
      PROVE  Cardinality(rows(f)) = Len(tags) <=> J(f) = 1 .. Len(tags)
  <2>1. g(f) \in [J(f) -> rows(f)]
    BY <1>1
  <2>2. \A i, j \in J(f) : g(f)[i] = g(f)[j] => i = j
    BY DEF Twice
  <2>3. \A r \in rows(f) : \E i \in J(f) : g(f)[i] = r
    <3>. SUFFICES ASSUME NEW r \in rows(f) PROVE \E i \in J(f) : g(f)[i] = r
      OBVIOUS
    <3>1. PICK i \in 1 .. Len(tags) : r[3] = tags[i]
      BY <1>1
    <3>2. r = <<d, f, tags[i]>> /\ r \in has
      BY <3>1 DEF RowsOK
    <3>. QED  BY <3>2
  <2>4. J(f) \in SUBSET (1 .. Len(tags))
    OBVIOUS
  <2>. HIDE DEF rows, J, g
  <2>. QED  BY <1>1, <2>1, <2>2, <2>3, <2>4, CountRows
<1>3. ASSUME NEW f \in File
      PROVE  J(f) = 1 .. Len(tags) <=> \A t \in Range(tags) : <<d, f, t>> \in has
  BY <1>1
<1>4. ASSUME NEW f \in File, \A t \in Range(tags) : <<d, f, t>> \in has
      PROVE  <<d, f>> \in known
  <2>1. <<d, f, tags[1]>> \in has
    BY <1>1, <1>4
  <2>. QED  BY <2>1 DEF RowsOK
<1>5. HasTags(d, tags) = {f \in File : Cardinality(rows(f)) = Len(tags)}
  BY DEF HasTags, Having
<1>. HIDE DEF rows, J, g
<1>. QED
  BY <1>2, <1>3, <1>4, <1>5 DEF Tagged

\* generate_sql_search_attrs: when no two filters are about one attribute, the
\* files with as many rows as filters are those for which all filters hold.
LEMMA HasAllAttrs ==
  ASSUME RowsOK, NEW d, NEW filters \in Seq(Filter), NEW f \in File,
         ~Twice([i \in DOMAIN filters |-> filters[i].attribute]),
         \A i \in DOMAIN filters : filters[i].value # Null
  PROVE  f \in HasAttrs(d, filters) <=> \A i \in DOMAIN filters : Holds(d, f, filters[i])
<1>. DEFINE Row(r, i) == r \in attr /\ r[1] = d /\ r[2] = f /\ Condition(r, filters[i])
            rows == {r \in {r \in attr : \E i \in DOMAIN filters : Condition(r, filters[i])} :
                       r[1] = d /\ r[2] = f}
            J == {i \in 1 .. Len(filters) : \E r \in attr : Row(r, i)}
            g == [i \in J |-> CHOOSE r \in attr : Row(r, i)]
<1>1. DOMAIN filters = 1 .. Len(filters) /\ Len(filters) \in Nat
  OBVIOUS
<1>2. \A i \in J : g[i] \in attr /\ Row(g[i], i)
  OBVIOUS
<1>3. \A r, s, i : Row(r, i) /\ Row(s, i) => r = s
  BY DEF Condition, RowsOK
<1>4. \A r, i, j : i \in DOMAIN filters /\ j \in DOMAIN filters /\ Row(r, i) /\ Row(r, j) => i = j
  <2>. DEFINE named == [i \in DOMAIN filters |-> filters[i].attribute]
  <2>1. DOMAIN named = DOMAIN filters /\ \A i \in DOMAIN filters : named[i] = filters[i].attribute
    OBVIOUS
  <2>2. ~Twice(named)
    OBVIOUS
  <2>. HIDE DEF named
  <2>3. \A i, j \in DOMAIN filters : filters[i].attribute = filters[j].attribute => i = j
    BY <2>1, <2>2 DEF Twice
  <2>. QED  BY <2>3 DEF Condition
<1>5. \A r : r \in rows <=> \E i \in DOMAIN filters : Row(r, i)
  OBVIOUS
<1>6. Cardinality(rows) = Len(filters) <=> J = 1 .. Len(filters)
  <2>1. g \in [J -> rows]
    BY <1>1, <1>2, <1>5
  <2>2. \A i, j \in J : g[i] = g[j] => i = j
    BY <1>1, <1>2, <1>4
  <2>3. \A r \in rows : \E i \in J : g[i] = r
    <3>. SUFFICES ASSUME NEW r \in rows PROVE \E i \in J : g[i] = r
      OBVIOUS
    <3>1. PICK i \in DOMAIN filters : Row(r, i)
      BY <1>5
    <3>2. i \in J
      BY <1>1, <3>1
    <3>3. g[i] = r
      BY <1>2, <1>3, <3>1, <3>2
    <3>. QED  BY <3>2, <3>3
  <2>4. J \in SUBSET (1 .. Len(filters))
    OBVIOUS
  <2>. HIDE DEF rows, J, g, Row
  <2>. QED  BY <1>1, <2>1, <2>2, <2>3, <2>4, CountRows
<1>7. \A i \in DOMAIN filters : Holds(d, f, filters[i]) <=> i \in J
  BY <1>1 DEF Holds, Condition
<1>8. f \in HasAttrs(d, filters) <=> Cardinality(rows) = Len(filters)
  BY DEF HasAttrs, Having
<1>9. J \subseteq 1 .. Len(filters)
  OBVIOUS
<1>. HIDE DEF rows, J, g, Row
<1>10. J = 1 .. Len(filters) <=> \A i \in DOMAIN filters : i \in J
  BY <1>1, <1>9
<1>. QED
  BY <1>6, <1>7, <1>8, <1>10

\* A command line whose SQL text says what it means.
Definite(c) ==
  /\ ~Twice(c.tags)
  /\ ~Twice([i \in DOMAIN c.filters |-> c.filters[i].attribute])
  /\ \A f \in Range(c.filters) : f.value # Null

LEMMA SelectedMatches ==
  ASSUME RowsOK, cmd \in Commands, Definite(cmd), NEW a, a.tags = cmd.tags, a.filters = cmd.filters,
         NEW d
  PROVE  Selected(d, a) = Matches(d)
<1>1. /\ cmd.tags \in Seq(Tag) /\ cmd.filters \in Seq(Filter)
      /\ cmd.tags # <<>> \/ cmd.filters # <<>>
  BY QueriesAssumption
<1>2. \A f \in File : f \in HasAttrs(d, cmd.filters) <=>
                        \A i \in DOMAIN cmd.filters : Holds(d, f, cmd.filters[i])
  BY <1>1, HasAllAttrs DEF Definite, Range
<1>3. HasAttrs(d, cmd.filters) \subseteq File
  BY DEF HasAttrs, Having
<1>4. CASE cmd.tags # <<>>
  <2>1. HasTags(d, cmd.tags) = Tagged(d, Range(cmd.tags))
    BY <1>1, <1>4, HasAllTags DEF Definite
  <2>2. Tagged(d, Range(cmd.tags)) \subseteq File
    BY DEF Tagged
  <2>3. CASE cmd.filters = <<>>
    BY <1>4, <2>1, <2>3 DEF Selected, Matches
  <2>4. CASE cmd.filters # <<>>
    BY <1>2, <1>3, <1>4, <2>1, <2>2, <2>4 DEF Selected, Matches
  <2>. QED  BY <2>3, <2>4
<1>5. CASE cmd.tags = <<>>
  <2>1. cmd.filters # <<>> /\ 1 \in DOMAIN cmd.filters
    BY <1>1, <1>5
  <2>2. Selected(d, a) = HasAttrs(d, cmd.filters)
    BY <1>5, <2>1 DEF Selected
  <2>3. Range(cmd.tags) = {}
    BY <1>5 DEF Range
  <2>4. \A f \in File : Holds(d, f, cmd.filters[1]) => <<d, f>> \in known
    BY DEF Holds, RowsOK
  <2>. QED
    BY <1>2, <1>3, <2>1, <2>2, <2>3, <2>4 DEF Matches, Tagged
<1>. QED  BY <1>4, <1>5

-----------------------------------------------------------------------------
(***************************************************************************)
(* Types.                                                                  *)
(***************************************************************************)
LEMMA RowsStep ==
  ASSUME RowsOK, Next
  PROVE  RowsOK'
<1>1. ASSUME UNCHANGED <<disk, db>> PROVE RowsOK'
  BY <1>1 DEF RowsOK, db
<1>2. ASSUME NEW d \in Dir, NEW f \in File, NEW t \in Tag, SetTag(d, f, t) PROVE RowsOK'
  BY <1>2 DEF SetTag, RowsOK
<1>3. ASSUME NEW d \in Dir, NEW f \in File, NEW t \in Tag, UnsetTag(d, f, t) PROVE RowsOK'
  BY <1>3 DEF UnsetTag, RowsOK
<1>4. ASSUME NEW d \in Dir, NEW f \in File, NEW a \in Attr, NEW v \in Value, SetAttr(d, f, a, v)
      PROVE  RowsOK'
  <2>1. attr' = {r \in attr : ~(r[1] = d /\ r[2] = f /\ r[3] = a)} \cup {<<d, f, a, v>>}
    BY <1>4 DEF SetAttr
  <2>2. attr' \subseteq Dir \X File \X Attr \X Value
    BY <2>1 DEF RowsOK
  <2>3. \A r, s \in attr' : r[1] = s[1] /\ r[2] = s[2] /\ r[3] = s[3] => r = s
    BY <2>1 DEF RowsOK
  <2>4. known' = known \cup {<<d, f>>} /\ UNCHANGED <<disk, tag, has>>
    BY <1>4 DEF SetAttr
  <2>5. \A r \in attr' : <<r[1], r[2]>> \in known'
    <3>1. \A r \in attr : <<r[1], r[2]>> \in known'
      BY <2>4 DEF RowsOK
    <3>2. <<(<<d, f, a, v>>)[1], (<<d, f, a, v>>)[2]>> \in known'
      BY <2>4
    <3>. QED  BY <2>1, <3>1, <3>2
  <2>. QED  BY <2>2, <2>3, <2>4, <2>5 DEF RowsOK
<1>5. ASSUME NEW d \in Dir, NEW f \in File, Delete(d, f) PROVE RowsOK'
  BY <1>5 DEF Delete, RowsOK, db
<1>6. ASSUME NEW d \in Dir, NEW f \in File, RemoveFile(d, f) PROVE RowsOK'
  BY <1>6 DEF RemoveFile, RowsOK
<1>7. ASSUME NEW t \in Tag, Mkdir(t) PROVE RowsOK'
  BY <1>7, QueriesAssumption DEF Mkdir, RowsOK
<1>8. CASE \/ \E c \in Commands : Find(c)
           \/ Receive \/ Report \/ Exit
           \/ \E d \in Dir : SearchRepo(d)
           \/ ListRoot \/ ListFiles \/ ListTags \/ Back
           \/ \E t \in Tag : Enter(t)
  BY <1>1, <1>8 DEF Find, Receive, Report, Exit, SearchRepo, ListRoot, ListFiles, ListTags,
                    Back, Enter, Move
<1>. QED
  BY <1>2, <1>3, <1>4, <1>5, <1>6, <1>7, <1>8 DEF Next

\* A change of the rows leaves the reader where it is.
Changes ==
  /\ UNCHANGED <<bad, reader, at, find, view>>
  /\ Goes
  /\ writes' = writes \/ (writes < MaxWrites /\ writes' = writes + 1)

Others ==
  \/ \E d \in Dir, f \in File :
       \/ \E t \in Tag : SetTag(d, f, t) \/ UnsetTag(d, f, t)
       \/ \E a \in Attr, v \in Value : SetAttr(d, f, a, v)
       \/ Delete(d, f) \/ RemoveFile(d, f)
  \/ \E t \in Tag : Mkdir(t)

LEMMA OthersChange ==
  ASSUME Others
  PROVE  Changes
<1>1. ASSUME Write \/ (Change /\ UNCHANGED writes) PROVE Changes
  BY <1>1 DEF Changes, Write, Change
<1>2. ASSUME NEW d \in Dir, NEW f \in File, NEW t \in Tag, SetTag(d, f, t) \/ UnsetTag(d, f, t)
      PROVE  Changes
  BY <1>1, <1>2 DEF SetTag, UnsetTag
<1>3. ASSUME NEW d \in Dir, NEW f \in File, NEW a \in Attr, NEW v \in Value, SetAttr(d, f, a, v)
      PROVE  Changes
  BY <1>1, <1>3 DEF SetAttr
<1>4. ASSUME NEW d \in Dir, NEW f \in File, Delete(d, f) \/ RemoveFile(d, f) PROVE Changes
  BY <1>1, <1>4 DEF Delete, RemoveFile
<1>5. ASSUME NEW t \in Tag, Mkdir(t) PROVE Changes
  BY <1>1, <1>5 DEF Mkdir
<1>. QED  BY <1>2, <1>3, <1>4, <1>5 DEF Others

LEMMA ReaderStep ==
  ASSUME TypeOK, Next
  PROVE  ReaderOK'
<1>. USE DEF TypeOK, ReaderOK
<1>1. Begins => always' \subseteq ever'
  BY DEF Begins
<1>2. Goes => always' \subseteq ever'
  BY DEF Goes
<1>3. CASE Others
  <2>1. Changes
    BY <1>3, OthersChange
  <2>2. writes' \in 0 .. MaxWrites
    BY <2>1, QueriesAssumption DEF Changes
  <2>. QED  BY <1>2, <2>1, <2>2 DEF Changes, find, view
<1>4. ASSUME NEW c \in Commands, Find(c) PROVE ReaderOK'
  BY <1>1, <1>4 DEF Find, view
<1>5. CASE Receive
  <2>1. \A a : Scope(a) \subseteq Dir
    BY QueriesAssumption DEF Scope
  <2>. QED  BY <1>5, <2>1 DEF Receive, view, history
<1>6. ASSUME NEW d \in Dir, SearchRepo(d) PROVE ReaderOK'
  BY <1>6 DEF SearchRepo, view, history
<1>7. CASE Report
  BY <1>7 DEF Report, view, history
<1>8. CASE Exit
  BY <1>1, <1>8 DEF Exit, view
<1>9. CASE ListRoot
  BY <1>1, <1>9 DEF ListRoot, find, RowsOK
<1>10. CASE ListFiles
  <2>1. HasTags(Shown, path) \subseteq File
    BY DEF HasTags, Having
  <2>. QED  BY <1>1, <1>10, <2>1 DEF ListFiles, find
<1>11. CASE ListTags
  BY <1>11 DEF ListTags, find, history, OtherTags
<1>12. ASSUME NEW p \in Seq(Tag), Move(p) PROVE ReaderOK'
  BY <1>1, <1>12 DEF Move, find
<1>13. CASE Back
  <2>1. <<>> \in Seq(Tag)
    OBVIOUS
  <2>. QED  BY <1>12, <1>13, <2>1 DEF Back
<1>14. ASSUME NEW t \in Tag, Enter(t) PROVE ReaderOK'
  <2>1. Append(path, t) \in Seq(Tag)
    OBVIOUS
  <2>. QED  BY <1>12, <1>14, <2>1 DEF Enter
<1>. QED
  BY <1>3, <1>4, <1>5, <1>6, <1>7, <1>8, <1>9, <1>10, <1>11, <1>13, <1>14 DEF Next, Others

\* Whatever changes during whatever query, rows belong to files and tags of
\* their database: no file of file_tag and attribute is missing in table file.
THEOREM TypeCorrect == Spec => []TypeOK
<1>1. Init => TypeOK
  <2>. SUFFICES ASSUME Init PROVE TypeOK
    OBVIOUS
  <2>1. PICK c \in Contents :
          /\ has = c.has /\ attr = c.attr
          /\ known = {<<r[1], r[2]>> : r \in c.has \cup c.attr}
          /\ tag = {<<r[1], r[3]>> : r \in c.has}
          /\ disk = c.disk \cup {<<r[1], r[2]>> : r \in c.has \cup c.attr}
    BY DEF Init
  <2>2. /\ has \subseteq Dir \X File \X Tag /\ c.disk \subseteq Dir \X File
        /\ attr \subseteq Dir \X File \X Attr \X Value
        /\ \A r, s \in attr : r[1] = s[1] /\ r[2] = s[2] /\ r[3] = s[3] => r = s
    BY <2>1, QueriesAssumption
  <2>3. known \subseteq Dir \X File /\ tag \subseteq Dir \X Tag
    BY <2>1, <2>2
  <2>4. /\ disk \subseteq Dir \X File
        /\ \A r \in has : <<r[1], r[2]>> \in known /\ <<r[1], r[3]>> \in tag
        /\ \A r \in attr : <<r[1], r[2]>> \in known
    BY <2>1, <2>2, <2>3
  <2>5. RowsOK
    BY <2>2, <2>3, <2>4 DEF RowsOK
  <2>6. ReaderOK
    <3>1. 0 \in 0 .. MaxWrites /\ <<>> \in Seq(Tag)
      BY QueriesAssumption
    <3>. QED  BY <3>1 DEF Init, ReaderOK
  <2>. QED  BY <2>5, <2>6 DEF TypeOK
<1>2. TypeOK /\ [Next]_vars => TypeOK'
  <2>. SUFFICES ASSUME TypeOK, [Next]_vars PROVE TypeOK'
    OBVIOUS
  <2>1. CASE UNCHANGED vars
    BY <2>1 DEF vars, db, find, view, history, TypeOK, RowsOK, ReaderOK
  <2>. QED  BY <2>1, RowsStep, ReaderStep DEF Next, TypeOK
<1>. QED  BY <1>1, <1>2, PTL DEF Spec

-----------------------------------------------------------------------------
(***************************************************************************)
(* Searches.                                                               *)
(***************************************************************************)
\* The histories enclose what is there to be found.
Bracketed == always \subseteq ToFind /\ ToFind \subseteq ever

Finding == {"sent", "search", "done"}
Listing == {"files", "listed"}

LEMMA SameToFind ==
  ASSUME UNCHANGED <<db, cmd, path>>,
         (at \in Finding /\ at' \in Finding) \/ (at \in Listing /\ at' \in Listing)
  PROVE  ToFind' = ToFind
<1>1. \A d, tags : Tagged(d, tags)' = Tagged(d, tags)
  BY DEF Tagged, db
<1>2. \A d, f, filter : Holds(d, f, filter)' <=> Holds(d, f, filter)
  BY DEF Holds, db
<1>3. \A d : Matches(d)' = Matches(d)
  BY <1>1, <1>2 DEF Matches
<1>4. Wished' = Wished
  BY DEF Wished
<1>5. Reasons' = Reasons
  BY <1>1 DEF Reasons, db
<1>. QED  BY <1>3, <1>4, <1>5 DEF ToFind, Finding, Listing

LEMMA BracketStep ==
  ASSUME Bracketed, Next
  PROVE  Bracketed'
<1>1. CASE Begins
  BY <1>1 DEF Begins, Bracketed
<1>2. CASE Goes
  BY <1>2 DEF Goes, Bracketed
<1>3. ASSUME UNCHANGED <<history, db, cmd, path>>,
             (at \in Finding /\ at' \in Finding) \/ (at \in Listing /\ at' \in Listing)
      PROVE  Bracketed'
  BY <1>3, SameToFind DEF Bracketed, history
<1>4. CASE Others
  BY <1>2, <1>4, OthersChange DEF Changes
<1>5. CASE Receive
  BY <1>3, <1>5 DEF Receive, Finding, view
<1>6. ASSUME NEW d \in Dir, SearchRepo(d) PROVE Bracketed'
  BY <1>3, <1>6 DEF SearchRepo, Finding, view
<1>7. CASE Report
  BY <1>3, <1>7 DEF Report, Finding, view
<1>8. CASE ListTags
  BY <1>3, <1>8 DEF ListTags, Listing, find
<1>. QED
  BY <1>1, <1>4, <1>5, <1>6, <1>7, <1>8
     DEF Next, Others, Find, Exit, ListRoot, ListFiles, Back, Enter, Move

\* No tag is named twice, no two filters are about one attribute, every filter
\* has a value, and no other process writes while a statement runs.
Plainly == Env \cap {"twice", "same", "presence", "busy"} = {}

\* What a search has found so far, and where the rest is still to be found.
SearchInv ==
  /\ Bracketed
  /\ at \in Finding => reader = "find" /\ cmd \in Commands
  /\ at \in Listing => reader = "view"
  /\ reader = "find" /\ at \in {"idle", "sent"} => found = {} /\ ~error
  /\ at = "search" =>
       /\ call.tags = cmd.tags /\ call.filters = cmd.filters /\ ~error
       /\ todo \subseteq Wished
       /\ found \subseteq ever /\ found \subseteq Dir \X File
       /\ \A p \in always : p \in found \/ p[1] \in todo
  /\ SearchFinds

LEMMA ScopeWished ==
  ASSUME cmd \in Commands, NEW a, a.dirs = FoldersOf(cmd), a.config = (cmd.repo = Null)
  PROVE  Scope(a) = Wished
BY QueriesAssumption DEF Scope, Wished, FoldersOf

LEMMA SearchStep ==
  ASSUME TypeOK, SearchInv, Plainly, MessagesKept, Next
  PROVE  SearchInv'
<1>1. Bracketed'
  BY BracketStep DEF SearchInv
<1>2. ASSUME at' \notin Finding, at' \in Listing => reader' = "view",
             reader' = "find" => found' = {} /\ ~error'
      PROVE  SearchInv'
  BY <1>1, <1>2 DEF SearchInv, SearchFinds, Finding
<1>3. \A p \in ToFind : at \in Finding =>
        \E d \in Wished : \E f \in Matches(d) : p = <<d, f>>
  BY DEF ToFind, Finding
<1>4. CASE Others
  <2>1. UNCHANGED <<bad, reader, at, cmd, call, todo, found, error>>
    BY <1>4, OthersChange DEF Changes, find
  <2>2. always' \subseteq always /\ ever \subseteq ever'
    BY <1>4, OthersChange DEF Changes, Goes
  <2>3. Wished' = Wished
    BY <2>1 DEF Wished
  <2>. QED  BY <1>1, <2>1, <2>2, <2>3 DEF SearchInv, SearchFinds
<1>5. ASSUME NEW c \in Commands, Find(c) PROVE SearchInv'
  <2>1. at' = "sent" /\ reader' = "find" /\ cmd' = c /\ found' = {} /\ ~error'
    BY <1>5 DEF Find, SearchInv
  <2>. QED  BY <1>1, <2>1 DEF SearchInv, SearchFinds, Finding, Listing
<1>6. CASE Receive
  <2>1. at = "sent" /\ cmd \in Commands /\ reader = "find" /\ found = {} /\ ~error
    BY <1>6 DEF Receive, SearchInv, Finding
  <2>2. /\ Received(cmd).ok
        /\ Received(cmd).call.dirs = FoldersOf(cmd)
        /\ Received(cmd).call.config = (cmd.repo = Null)
        /\ Received(cmd).call.tags = cmd.tags
        /\ Received(cmd).call.filters = cmd.filters
    <3>1. /\ Received(cmd).ok
          /\ Received(cmd).call = [dirs |-> FoldersOf(cmd), filters |-> cmd.filters,
                                   tags |-> cmd.tags, config |-> cmd.repo = Null]
      BY <2>1, Zenon DEF MessagesKept
    <3>. QED  BY <3>1
  <2>3. Scope(Received(cmd).call) = Wished
    BY <2>1, <2>2, ScopeWished
  <2>4. /\ call' = Received(cmd).call /\ todo' = Wished /\ at' = "search"
        /\ UNCHANGED <<reader, cmd, found, error, always, ever>>
    BY <1>6, <2>2, <2>3 DEF Receive, history
  <2>5. Wished' = Wished
    BY <2>4 DEF Wished
  <2>6. \A p \in always : p[1] \in Wished
    BY <1>3, <2>1 DEF SearchInv, Bracketed, Finding
  <2>. QED
    BY <1>1, <2>1, <2>2, <2>4, <2>5, <2>6 DEF SearchInv, SearchFinds, Finding, Listing
<1>7. ASSUME NEW d \in Dir, SearchRepo(d) PROVE SearchInv'
  <2>1. /\ at = "search" /\ d \in todo /\ todo' = todo \ {d}
        /\ UNCHANGED <<bad, reader, cmd, call, always, ever>>
    BY <1>7 DEF SearchRepo, history
  <2>2. reader = "find" /\ cmd \in Commands /\ d \in Wished /\ ~error
    BY <2>1 DEF SearchInv, Finding
  <2>3. Wished' = Wished
    BY <2>1 DEF Wished
  <2>4. CASE d \in bad /\ error' = TRUE /\ at' = "done"
    BY <1>1, <2>1, <2>2, <2>3, <2>4 DEF SearchInv, SearchFinds, Finding, Listing
  <2>5. CASE UNCHANGED <<at, error>> /\ found' = found \cup {<<d, f>> : f \in Selected(d, call)}
    <3>1. Definite(cmd)
      BY <2>2, QueriesAssumption DEF Plainly, Definite
    <3>2. Selected(d, call) = Matches(d)
      BY <2>1, <2>2, <3>1, SelectedMatches DEF SearchInv, TypeOK
    <3>3. found' = found \cup {<<d, f>> : f \in Matches(d)}
      BY <2>5, <3>2
    <3>4. {<<d, f>> : f \in Matches(d)} \subseteq ToFind
      BY <2>1, <2>2 DEF ToFind
    <3>5. \A f \in Matches(d) : f \in File
      BY DEF Matches, Tagged
    <3>6. found' \subseteq ever' /\ found' \subseteq Dir \X File
      BY <2>1, <3>3, <3>4, <3>5 DEF SearchInv, Bracketed
    <3>7. \A p \in always' : p \in found' \/ p[1] \in todo'
      <4>. SUFFICES ASSUME NEW p \in always, p \notin found PROVE p \in found' \/ p[1] \in todo'
        BY <2>1, <3>3
      <4>1. p[1] \in todo
        BY <2>1 DEF SearchInv
      <4>2. CASE p[1] # d
        BY <2>1, <4>1, <4>2
      <4>3. CASE p[1] = d
        <5>1. PICK e \in Wished : \E f \in Matches(e) : p = <<e, f>>
          BY <1>3, <2>1 DEF SearchInv, Bracketed, Finding
        <5>. QED  BY <3>3, <4>3, <5>1
      <4>. QED  BY <4>2, <4>3
    <3>8. todo' \subseteq Wished'
      BY <2>1, <2>3 DEF SearchInv
    <3>. QED
      BY <1>1, <2>1, <2>2, <2>5, <3>6, <3>7, <3>8 DEF SearchInv, SearchFinds, Finding, Listing
  <2>. QED
    BY <1>7, <2>4, <2>5 DEF SearchRepo, Plainly
<1>8. CASE Report
  <2>1. /\ at = "search" /\ todo = {} /\ at' = "done" /\ found' = Printed(found)
        /\ UNCHANGED <<reader, cmd, error, always, ever>>
    BY <1>8 DEF Report, history
  <2>2. found \in SUBSET (Dir \X File)
    BY <2>1 DEF SearchInv
  <2>3. found' = found
    BY <2>1, <2>2 DEF MessagesKept
  <2>4. always \subseteq found /\ found \subseteq ever /\ ~error
    BY <2>1 DEF SearchInv
  <2>. QED
    BY <1>1, <2>1, <2>3, <2>4 DEF SearchInv, SearchFinds, Finding, Listing
<1>9. CASE Exit
  BY <1>2, <1>9 DEF Exit, Finding, Listing
<1>10. CASE ListRoot \/ ListFiles
  BY <1>2, <1>10 DEF ListRoot, ListFiles, Finding, Listing
<1>11. CASE ListTags
  BY <1>2, <1>11 DEF ListTags, SearchInv, Finding, Listing
<1>12. CASE Back \/ \E t \in Tag : Enter(t)
  BY <1>2, <1>12 DEF Back, Enter, Move, SearchInv, Finding, Listing
<1>. QED
  BY <1>4, <1>5, <1>6, <1>7, <1>8, <1>9, <1>10, <1>11, <1>12 DEF Next, Others

\* ufafind prints what matches throughout the search, and only what matches at
\* some time during it, for every number of repositories and changes: the SQL
\* text counts to the same as the command line means (SelectedMatches), and
\* the repositories are searched one after the other.  What the messages in
\* between have to do is MessagesKept.
THEOREM SearchCorrect ==
  ASSUME Plainly, MessagesKept
  PROVE  Spec => []SearchFinds
<1>1. Init => SearchInv
  BY DEF Init, SearchInv, SearchFinds, Bracketed, ToFind, Finding, Listing
<1>2. TypeOK /\ SearchInv /\ [Next]_vars => SearchInv'
  <2>. SUFFICES ASSUME TypeOK, SearchInv, [Next]_vars PROVE SearchInv'
    OBVIOUS
  <2>1. CASE UNCHANGED vars
    <3>1. UNCHANGED <<bad, reader, at, cmd, call, todo, found, error, always, ever>>
      BY <2>1 DEF vars, find, history
    <3>2. Wished' = Wished
      BY <3>1 DEF Wished
    <3>3. ToFind' = ToFind
      BY <2>1, SameToFind DEF vars, find, view, ToFind, Finding, Listing
    <3>. QED  BY <3>1, <3>2, <3>3 DEF SearchInv, SearchFinds, Bracketed
  <2>. QED  BY <2>1, SearchStep
<1>3. SearchInv => SearchFinds
  BY DEF SearchInv
<1>. QED  BY <1>1, <1>2, <1>3, TypeCorrect, PTL DEF Spec

-----------------------------------------------------------------------------
(***************************************************************************)
(* The mounted view.                                                       *)
(***************************************************************************)
\* Paths are walked, not typed, no file has the name of a tag, and no other
\* process writes while a statement runs.
Walked == Env \cap {"typed", "samename", "busy"} = {}

\* The rows of one state: what a listing has an entry for.
LEMMA ReasonsAre ==
  ASSUME RowsOK, path \in Seq(Tag)
  PROVE  /\ path = <<>> => \A r : r \in Reasons <=> \E t \in Tag : r = <<t, t>> /\ <<Shown, t>> \in tag
         /\ path # <<>> =>
              \A r : r \in Reasons <=>
                \E f \in Tagged(Shown, Range(path)) :
                  \/ r = <<f, f>>
                  \/ \E t \in Tag \ Range(path) : r = <<t, f>> /\ <<Shown, f, t>> \in has
<1>1. ASSUME path = <<>>
      PROVE  \A r : r \in Reasons <=> \E t \in Tag : r = <<t, t>> /\ <<Shown, t>> \in tag
  <2>1. \A s \in tag : s = <<s[1], s[2]>> /\ s[2] \in Tag
    BY DEF RowsOK
  <2>2. Reasons = {<<s[2], s[2]>> : s \in {s \in tag : s[1] = Shown}}
    BY <1>1 DEF Reasons
  <2>3. ASSUME NEW r, r \in Reasons PROVE \E t \in Tag : r = <<t, t>> /\ <<Shown, t>> \in tag
    <3>1. PICK s \in tag : s[1] = Shown /\ r = <<s[2], s[2]>>
      BY <2>2, <2>3
    <3>. QED  BY <2>1, <3>1
  <2>4. ASSUME NEW t \in Tag, <<Shown, t>> \in tag PROVE <<t, t>> \in Reasons
    <3> DEFINE s == <<Shown, t>>
    <3>1. s \in tag /\ s[1] = Shown /\ s[2] = t
      BY <2>4
    <3>. HIDE DEF s
    <3>. QED  BY <2>2, <3>1
  <2>. QED  BY <2>3, <2>4
<1>2. ASSUME path # <<>>
      PROVE  \A r : r \in Reasons <=>
               \E f \in Tagged(Shown, Range(path)) :
                 \/ r = <<f, f>>
                 \/ \E t \in Tag \ Range(path) : r = <<t, f>> /\ <<Shown, f, t>> \in has
  <2>. DEFINE here == Tagged(Shown, Range(path))
              others == {s \in has : s[1] = Shown /\ s[2] \in here /\ s[3] \notin Range(path)}
  <2>1. \A s \in has : s = <<s[1], s[2], s[3]>> /\ s[3] \in Tag
    BY DEF RowsOK
  <2>2. Reasons = {<<f, f>> : f \in here} \cup {<<s[3], s[2]>> : s \in others}
    BY <1>2 DEF Reasons
  <2>3. \A r : r \in {<<s[3], s[2]>> : s \in others} <=>
                 \E f \in here : \E t \in Tag \ Range(path) : r = <<t, f>> /\ <<Shown, f, t>> \in has
    <3>. SUFFICES ASSUME NEW r
         PROVE  (\E s \in others : r = <<s[3], s[2]>>) <=>
                \E f \in here : \E t \in Tag \ Range(path) : r = <<t, f>> /\ <<Shown, f, t>> \in has
      OBVIOUS
    <3>. HIDE DEF here
    <3>1. ASSUME NEW s \in others, r = <<s[3], s[2]>>
          PROVE  \E f \in here : \E t \in Tag \ Range(path) : r = <<t, f>> /\ <<Shown, f, t>> \in has
      <4>1. <<Shown, s[2], s[3]>> \in has /\ s[3] \in Tag \ Range(path) /\ s[2] \in here
        BY <2>1
      <4>. QED  BY <3>1, <4>1
    <3>2. ASSUME NEW f \in here, NEW t \in Tag \ Range(path), r = <<t, f>>, <<Shown, f, t>> \in has
          PROVE  \E s \in others : r = <<s[3], s[2]>>
      <4>1. <<Shown, f, t>> \in others
        BY <3>2
      <4>2. r = <<(<<Shown, f, t>>)[3], (<<Shown, f, t>>)[2]>>
        BY <3>2
      <4>. QED  BY <4>1, <4>2
    <3>. QED  BY <3>1, <3>2
  <2>. HIDE DEF here, others
  <2>4. \A r : r \in Reasons <=>
          \/ \E f \in here : r = <<f, f>>
          \/ \E f \in here : \E t \in Tag \ Range(path) : r = <<t, f>> /\ <<Shown, f, t>> \in has
    BY <2>2, <2>3
  <2>. QED  BY <2>4 DEF here
<1>. QED  BY <1>1, <1>2

LEMMA PathOK ==
  ASSUME ReaderOK
  PROVE  path \in Seq(Tag) /\ Range(path) \subseteq Tag
BY DEF ReaderOK, Range

\* getattr finds what a listing in the same state shows.
LEMMA EntryOpens ==
  ASSUME TypeOK, "samename" \notin Env, NEW n \in Entries(Reasons)
  PROVE  /\ n \in Tag => Look(n) = "directory"
         /\ n \in File /\ <<Shown, n>> \in disk => Look(n) = "file"
<1>1. path \in Seq(Tag)
  BY PathOK DEF TypeOK
<1>2. n \in Tag => n # Indicator /\ <<Shown, n>> \notin disk
  BY QueriesAssumption DEF TypeOK, RowsOK
<1>3. n \in Tag => <<Shown, n>> \in tag
  <2>. SUFFICES ASSUME n \in Tag PROVE <<Shown, n>> \in tag
    OBVIOUS
  <2>1. PICK r \in Reasons : n = r[1]
    BY DEF Entries
  <2>2. CASE path = <<>>
    <3>1. PICK t \in Tag : r = <<t, t>> /\ <<Shown, t>> \in tag
      BY <1>1, <2>1, <2>2, ReasonsAre DEF TypeOK
    <3>. QED  BY <2>1, <3>1
  <2>3. CASE path # <<>>
    <3>1. PICK f \in Tagged(Shown, Range(path)) :
            \/ r = <<f, f>>
            \/ \E t \in Tag \ Range(path) : r = <<t, f>> /\ <<Shown, f, t>> \in has
      BY <1>1, <2>1, <2>3, ReasonsAre DEF TypeOK
    <3>2. n \notin File
      BY QueriesAssumption
    <3>3. \A t : <<Shown, f, t>> \in has => <<Shown, t>> \in tag
      BY DEF TypeOK, RowsOK
    <3>4. r # <<f, f>>
      <4>. SUFFICES ASSUME r = <<f, f>> PROVE FALSE
        OBVIOUS
      <4>. QED  BY <2>1, <3>2 DEF Tagged
    <3>5. PICK t \in Tag : r = <<t, f>> /\ <<Shown, f, t>> \in has
      BY <3>1, <3>4
    <3>. QED  BY <2>1, <3>3, <3>5
  <2>. QED  BY <2>2, <2>3
<1>. QED  BY <1>2, <1>3 DEF Look

\* An entry that still belongs to the directory is found, as what it was
\* listed as: getattr asks the disk first and table tag afterwards, and the
\* rows of every listed tag are there as long as one of its files has it.
THEOREM EntriesCorrect ==
  ASSUME "samename" \notin Env
  PROVE  Spec => []EntriesOpen
<1>1. TypeOK => EntriesOpen
  BY EntryOpens DEF EntriesOpen
<1>. QED  BY <1>1, TypeCorrect, PTL

\* What is known after the first SELECT: its files are those that everything
\* that stays in the listing is there for, and had the tags of the path.
FirstSelect ==
  /\ path # <<>>
  /\ \A r \in always : r[2] \in files
  /\ \A f \in files : <<f, f>> \in ever

ViewInv ==
  /\ Bracketed
  /\ ~Twice(path)
  /\ at = "files" => FirstSelect
  /\ at = "listed" => names \cap Range(path) = {}
  /\ ListingShows

LEMMA ViewStep ==
  ASSUME TypeOK, ViewInv, Walked, Next
  PROVE  ViewInv'
<1>. USE DEF ViewInv
<1>1. Bracketed'
  BY BracketStep
<1>2. path \in Seq(Tag) /\ Range(path) \subseteq Tag
  BY PathOK DEF TypeOK
<1>3. File \cap Tag = {} /\ Indicator \notin File \cup Tag
  BY QueriesAssumption DEF Walked
<1>4. ASSUME UNCHANGED path, at' \notin Listing PROVE ViewInv'
  BY <1>1, <1>4 DEF Twice, ListingShows, Listing
<1>5. CASE Others
  <2>1. UNCHANGED <<at, path, files, names>>
    BY <1>5, OthersChange DEF Changes, view
  <2>2. always' \subseteq always /\ always \subseteq ever /\ ever \subseteq ever'
    BY <1>5, OthersChange DEF Changes, Goes, TypeOK, ReaderOK
  <2>3. ASSUME at = "files" PROVE FirstSelect'
    BY <2>1, <2>2, <2>3 DEF FirstSelect
  <2>4. ListingShows'
    <3>. SUFFICES ASSUME at = "listed"
         PROVE  /\ Entries(always') \subseteq names
                /\ names \cap (File \ Tag) \subseteq Entries(ever')
                /\ always' = ever' => names \subseteq Entries(ever') \cup {Indicator}
      BY <2>1 DEF ListingShows
    <3>1. Entries(always') \subseteq Entries(always) /\ Entries(ever) \subseteq Entries(ever')
      BY <2>2 DEF Entries
    <3>2. always' = ever' => always = ever
      BY <2>2
    <3>. QED  BY <3>1, <3>2 DEF ListingShows
  <2>. QED  BY <1>1, <2>1, <2>3, <2>4 DEF Twice
<1>6. CASE (\E c \in Commands : Find(c)) \/ Exit
  BY <1>4, <1>6 DEF Find, Exit, view, Listing
<1>7. CASE Receive \/ Report \/ \E d \in Dir : SearchRepo(d)
  <2>1. at' \notin Listing /\ UNCHANGED path
    BY <1>7 DEF Receive, Report, SearchRepo, view, Listing
  <2>. QED  BY <1>4, <2>1
<1>8. CASE ListRoot
  <2>1. /\ path = <<>> /\ at' = "listed" /\ UNCHANGED path
        /\ names' = {r[2] : r \in {r \in tag : r[1] = Shown}} \cup {Indicator}
        /\ always' = ToFind' /\ ever' = ToFind' /\ UNCHANGED <<db, cmd>>
    BY <1>8 DEF ListRoot, Begins, find
  <2>2. RowsOK' /\ (path \in Seq(Tag))'
    BY RowsStep, ReaderStep DEF TypeOK, ReaderOK
  <2>3. ToFind' = Reasons'
    BY <2>1 DEF ToFind
  <2>4. \A r : r \in Reasons' <=> \E t \in Tag : r = <<t, t>> /\ <<Shown, t>> \in tag
    <3>1. Reasons' = Reasons
      BY <2>1 DEF Reasons, Tagged, db
    <3>. QED  BY <1>2, <2>1, <3>1, ReasonsAre DEF TypeOK
  <2>5. \A n : n \in names' <=> n = Indicator \/ (n \in Tag /\ <<Shown, n>> \in tag)
    <3>1. \A s \in tag : s = <<s[1], s[2]>> /\ s[2] \in Tag
      BY DEF TypeOK, RowsOK
    <3>. QED  BY <2>1, <3>1
  <2>6. \A n : n \in Entries(Reasons') <=> n \in Tag /\ <<Shown, n>> \in tag
    <3>1. Reasons' = {<<t, t>> : t \in {t \in Tag : <<Shown, t>> \in tag}}
      BY <2>4
    <3>2. ASSUME NEW R PROVE \A n : n \in Entries({<<t, t>> : t \in R}) <=> n \in R
      <4>. DEFINE pairs == {<<t, t>> : t \in R}
      <4>1. \A n \in R : <<n, n>> \in pairs /\ n = (<<n, n>>)[1]
        OBVIOUS
      <4>2. \A r \in pairs : r[1] \in R
        OBVIOUS
      <4>. HIDE DEF pairs
      <4>3. \A n : n \in Entries(pairs) <=> \E r \in pairs : n = r[1]
        BY DEF Entries
      <4>. QED  BY <4>1, <4>2, <4>3 DEF pairs
    <3>3. \A n : n \in Entries(Reasons') <=> n \in {t \in Tag : <<Shown, t>> \in tag}
      BY <3>1, <3>2
    <3>. QED  BY <3>3
  <2>7. ListingShows'
    BY <1>3, <2>1, <2>3, <2>5, <2>6 DEF ListingShows
  <2>8. (names \cap Range(path) = {})'
    BY <2>1 DEF Range
  <2>. QED  BY <1>1, <2>1, <2>7, <2>8 DEF Twice
<1>9. CASE ListFiles
  <2>1. /\ path # <<>> /\ at' = "files" /\ UNCHANGED <<path, db, cmd>>
        /\ files' = HasTags(Shown, path)
        /\ always' = ToFind' /\ ever' = ToFind'
    BY <1>9 DEF ListFiles, Begins, find, Walked
  <2>2. files' = Tagged(Shown, Range(path))
    BY <1>2, <2>1, HasAllTags DEF TypeOK
  <2>3. ToFind' = Reasons'
    BY <2>1 DEF ToFind
  <2>4. Reasons' = Reasons
    BY <2>1 DEF Reasons, Tagged, db
  <2>5. \A r \in Reasons : r[2] \in files'
    <3>. SUFFICES ASSUME NEW r \in Reasons PROVE r[2] \in Tagged(Shown, Range(path))
      BY <2>2
    <3>1. PICK f \in Tagged(Shown, Range(path)) : r = <<f, f>> \/ \E t \in Tag : r = <<t, f>>
      BY <1>2, <2>1, ReasonsAre DEF TypeOK
    <3>. QED  BY <3>1
  <2>6. \A f \in files' : <<f, f>> \in Reasons
    BY <1>2, <2>1, <2>2, ReasonsAre DEF TypeOK
  <2>. QED  BY <1>1, <2>1, <2>3, <2>4, <2>5, <2>6 DEF FirstSelect, ListingShows, Twice
<1>10. CASE ListTags
  <2>1. /\ at = "files" /\ at' = "listed" /\ UNCHANGED <<path, db, cmd, always, ever>>
        /\ names' = files \cup OtherTags(files, path) \cup {Indicator}
    BY <1>10 DEF ListTags, find, history, Walked
  <2>2. FirstSelect /\ ToFind = Reasons /\ files \subseteq File
    BY <2>1 DEF ToFind, TypeOK, ReaderOK
  <2>3. Entries(always) \subseteq names'
    <3>. SUFFICES ASSUME NEW r \in always PROVE r[1] \in names'
      BY DEF Entries
    <3>1. r \in Reasons /\ r[2] \in files
      BY <2>2 DEF Bracketed, FirstSelect
    <3>2. PICK f \in Tagged(Shown, Range(path)) :
            \/ r = <<f, f>>
            \/ \E t \in Tag \ Range(path) : r = <<t, f>> /\ <<Shown, f, t>> \in has
      BY <1>2, <2>2, <3>1, ReasonsAre DEF TypeOK, FirstSelect
    <3>3. CASE r = <<f, f>>
      BY <2>1, <3>1, <3>3
    <3>4. ASSUME NEW t \in Tag \ Range(path), r = <<t, f>>, <<Shown, f, t>> \in has
          PROVE  r[1] \in names'
      <4>1. f \in files /\ r[1] = t
        BY <3>1, <3>4
      <4>2. t \in OtherTags(files, path)
        BY <3>4, <4>1 DEF OtherTags
      <4>. QED  BY <2>1, <4>1, <4>2
    <3>. QED  BY <3>2, <3>3, <3>4
  <2>4. files \subseteq Entries(ever)
    <3>. SUFFICES ASSUME NEW f \in files PROVE \E r \in ever : f = r[1]
      BY DEF Entries
    <3>1. <<f, f>> \in ever /\ (<<f, f>>)[1] = f
      BY <2>2 DEF FirstSelect
    <3>. QED  BY <3>1
  <2>5. names' \cap (File \ Tag) \subseteq Entries(ever)
    BY <1>3, <2>1, <2>4 DEF OtherTags
  <2>6. ASSUME always = ever PROVE OtherTags(files, path) \subseteq Entries(ever)
    <3>. SUFFICES ASSUME NEW t \in OtherTags(files, path) PROVE \E r \in ever : t = r[1]
      BY DEF Entries
    <3>1. ever = Reasons
      BY <2>2, <2>6 DEF Bracketed
    <3>2. PICK f \in files : <<Shown, f, t>> \in has
      BY DEF OtherTags
    <3>3. t \in Tag \ Range(path)
      BY DEF OtherTags
    <3>4. <<f, f>> \in Reasons
      BY <2>2, <3>1 DEF FirstSelect
    <3>5. f \in Tagged(Shown, Range(path))
      <4>1. PICK e \in Tagged(Shown, Range(path)) :
              \/ <<f, f>> = <<e, e>>
              \/ \E s \in Tag \ Range(path) : <<f, f>> = <<s, e>> /\ <<Shown, e, s>> \in has
        BY <1>2, <2>2, <3>4, ReasonsAre DEF TypeOK, FirstSelect
      <4>. QED  BY <4>1
    <3>6. <<t, f>> \in Reasons
      BY <1>2, <2>2, <3>2, <3>3, <3>5, ReasonsAre DEF TypeOK, FirstSelect
    <3>7. (<<t, f>>)[1] = t
      OBVIOUS
    <3>. QED  BY <3>1, <3>6, <3>7
  <2>7. ListingShows'
    BY <2>1, <2>3, <2>4, <2>5, <2>6 DEF ListingShows
  <2>8. names' \cap Range(path) = {}
    BY <1>2, <1>3, <2>1, <2>2 DEF OtherTags
  <2>. QED  BY <1>1, <2>1, <2>7, <2>8 DEF Twice
<1>11. CASE Back
  <2>1. at' = "idle" /\ path' = <<>>
    BY <1>11 DEF Back, Move
  <2>2. ~Twice(<<>>)
    BY DEF Twice
  <2>. QED  BY <1>1, <2>1, <2>2 DEF ListingShows
<1>12. ASSUME NEW t \in Tag, Enter(t) PROVE ViewInv'
  <2>1. at = "listed" /\ t \in names /\ at' = "idle" /\ path' = Append(path, t)
    BY <1>12 DEF Enter, Move, Walked
  <2>2. t \notin Range(path)
    BY <2>1
  <2>3. ~Twice(Append(path, t))
    <3>1. /\ DOMAIN Append(path, t) = 1 .. Len(path) + 1 /\ DOMAIN path = 1 .. Len(path)
          /\ Len(path) \in Nat
          /\ Append(path, t)[Len(path) + 1] = t
          /\ \A i \in 1 .. Len(path) : Append(path, t)[i] = path[i]
      BY <1>2
    <3>2. \A i \in 1 .. Len(path) : path[i] # t
      BY <2>2, <3>1 DEF Range
    <3>3. \A i, j \in 1 .. Len(path) : i # j => path[i] # path[j]
      BY <3>1 DEF Twice
    <3>. SUFFICES ASSUME NEW i \in 1 .. Len(path) + 1, NEW j \in 1 .. Len(path) + 1, i # j
         PROVE  Append(path, t)[i] # Append(path, t)[j]
      BY <3>1 DEF Twice
    <3>4. CASE i \in 1 .. Len(path) /\ j \in 1 .. Len(path)
      BY <3>1, <3>3, <3>4
    <3>5. CASE i = Len(path) + 1
      BY <3>1, <3>2, <3>5
    <3>6. CASE j = Len(path) + 1
      BY <3>1, <3>2, <3>6
    <3>. QED  BY <3>1, <3>4, <3>5, <3>6
  <2>. QED  BY <1>1, <2>1, <2>3 DEF ListingShows
<1>. QED
  BY <1>5, <1>6, <1>7, <1>8, <1>9, <1>10, <1>11, <1>12 DEF Next, Others

\* readdir, which reads the files and then their other tags, shows what belongs
\* to the directory throughout, and paths that are walked never name a tag
\* twice - on which the counting of get_files_with_tags relies.
THEOREM ListingsCorrect ==
  ASSUME Walked
  PROVE  Spec => [](ListingShows /\ NoTagTwice)
<1>1. Init => ViewInv
  BY DEF Init, ViewInv, Bracketed, ToFind, ListingShows, Twice
<1>2. TypeOK /\ ViewInv /\ [Next]_vars => ViewInv'
  <2>. SUFFICES ASSUME TypeOK, ViewInv, [Next]_vars PROVE ViewInv'
    OBVIOUS
  <2>1. CASE UNCHANGED vars
    <3>1. UNCHANGED <<at, path, files, names, always, ever>>
      BY <2>1 DEF vars, view, history
    <3>2. ToFind' = ToFind
      BY <2>1, SameToFind DEF vars, find, view, ToFind, Finding, Listing
    <3>. QED
      BY <3>1, <3>2 DEF ViewInv, Bracketed, FirstSelect, ListingShows, Twice, Entries, Range
  <2>. QED  BY <2>1, ViewStep
<1>3. ViewInv => ListingShows /\ NoTagTwice
  BY DEF ViewInv, NoTagTwice
<1>. QED  BY <1>1, <1>2, <1>3, TypeCorrect, PTL DEF Spec

-----------------------------------------------------------------------------
\* Induction over numbers, about sets of them: every set of numbers has a least
\* one.
LEMMA Least ==
  ASSUME NEW S \in SUBSET Nat, S # {}
  PROVE  \E m \in S : \A k \in S : m <= k
<1> DEFINE R == OpToRel(<, Nat)
<1>1. IsWellFoundedOn(R, Nat)
  BY NatLessThanWellFounded
<1>2. \A x, y \in Nat : <<y, x>> \in R <=> y < x
  BY DEF OpToRel
<1>. HIDE DEF R
<1>3. PICK m \in S : \A y \in S : <<y, m>> \notin R
  BY <1>1, WFMin
<1>4. ASSUME NEW k \in S PROVE m <= k
  <2>1. k \in Nat /\ m \in Nat /\ <<k, m>> \notin R
    BY <1>3
  <2>2. ~(k < m)
    BY <1>2, <2>1
  <2>. QED  BY <2>1, <2>2
<1>. QED
  BY <1>4

\* A set of numbers with 0 and the successors of its members has all of them.
LEMMA Induction ==
  ASSUME NEW S, 0 \in S, \A n \in Nat : n \in S => n + 1 \in S
  PROVE  \A n \in Nat : n \in S
<1>. SUFFICES ASSUME Nat \ S # {} PROVE FALSE
  OBVIOUS
<1>1. PICK m \in Nat \ S : \A k \in Nat \ S : m <= k
  BY Least
<1>2. m - 1 \in Nat /\ m - 1 \in S
  BY <1>1
<1>. QED  BY <1>1, <1>2

-----------------------------------------------------------------------------
(***************************************************************************)
(* The parser.  Reader is defined by recursion over the depth of calls.    *)
(***************************************************************************)
\* There is a function as the definition says, whatever the tokens are.
LEMMA ReaderDefined ==
  ASSUME NEW toks
  PROVE  \A d \in Nat : Reader(toks)[d] =
           IF d = 0 THEN [c \in Calls |-> Failed] ELSE Returned(toks, Reader(toks)[d - 1])
<1> DEFINE Base == [c \in Calls |-> Failed]
           Def(n, g) == [d \in 0 .. n |-> IF d = 0 THEN Base ELSE Returned(toks, g[d - 1])]
           G(n) == CHOOSE g : g = Def(n, g)
           f == [d \in Nat |-> G(d)[d]]
<1>1. \A n \in Nat : \E g : g = Def(n, g)
  <2> DEFINE S == {m \in Nat : \E g : g = Def(m, g)}
  <2>1. \E g : g = Def(0, g)
    <3> DEFINE g == [d \in 0 .. 0 |-> Base]
    <3>1. \A d \in 0 .. 0 : d = 0
      OBVIOUS
    <3>2. Def(0, g) = [d \in 0 .. 0 |-> Base]
      BY <3>1
    <3>. QED  BY <3>2
  <2>2. ASSUME NEW n \in Nat, NEW g, g = Def(n, g) PROVE \E h : h = Def(n + 1, h)
    <3> DEFINE h == [d \in 0 .. n + 1 |-> IF d <= n THEN g[d] ELSE Returned(toks, g[n])]
    <3>1. ASSUME NEW d \in 0 .. n + 1
          PROVE  h[d] = IF d = 0 THEN Base ELSE Returned(toks, h[d - 1])
      <4>1. CASE d = 0
        BY <2>2, <4>1
      <4>2. CASE d \in 1 .. n
        BY <2>2, <4>2
      <4>3. CASE d = n + 1
        BY <4>3
      <4>. QED  BY <4>1, <4>2, <4>3
    <3>2. h = Def(n + 1, h)
      BY <3>1
    <3>. QED  BY <3>2
  <2>3. 0 \in S /\ \A n \in Nat : n \in S => n + 1 \in S
    BY <2>1, <2>2
  <2>. HIDE DEF S
  <2>4. \A n \in Nat : n \in S
    BY <2>3, Induction
  <2>. QED
    BY <2>4 DEF S
<1>2. \A n \in Nat : G(n) = Def(n, G(n))
  BY <1>1
<1>. HIDE DEF G
<1>3. ASSUME NEW n \in Nat, NEW d \in 0 .. n
      PROVE  G(n)[d] = IF d = 0 THEN Base ELSE Returned(toks, G(n)[d - 1])
  <2> DEFINE g == G(n)
  <2>1. g = Def(n, g)
    BY <1>2
  <2>. HIDE DEF g
  <2>2. g[d] = IF d = 0 THEN Base ELSE Returned(toks, g[d - 1])
    BY <2>1
  <2>. QED  BY <2>2 DEF g
<1>4. \A k, n \in Nat : k <= n => G(n)[k] = G(k)[k]
  <2> DEFINE S == {k \in Nat : \A n \in Nat : k <= n => G(n)[k] = G(k)[k]}
  <2>1. \A n \in Nat : G(n)[0] = G(0)[0]
    BY <1>3
  <2>2. ASSUME NEW k \in Nat, \A n \in Nat : k <= n => G(n)[k] = G(k)[k],
               NEW n \in Nat, k + 1 <= n
        PROVE  G(n)[k + 1] = G(k + 1)[k + 1]
    <3>1. G(n)[k + 1] = Returned(toks, G(n)[k]) /\ G(k + 1)[k + 1] = Returned(toks, G(k + 1)[k])
      BY <1>3, <2>2
    <3>2. G(n)[k] = G(k)[k] /\ G(k + 1)[k] = G(k)[k]
      BY <2>2
    <3>. QED  BY <3>1, <3>2
  <2>3. 0 \in S /\ \A k \in Nat : k \in S => k + 1 \in S
    BY <2>1, <2>2
  <2>. HIDE DEF S
  <2>4. \A k \in Nat : k \in S
    BY <2>3, Induction
  <2>. QED
    BY <2>4 DEF S
<1>5. ASSUME NEW d \in Nat
      PROVE  f[d] = IF d = 0 THEN Base ELSE Returned(toks, f[d - 1])
  BY <1>3, <1>4
<1>6. f = [d \in Nat |-> IF d = 0 THEN Base ELSE Returned(toks, f[d - 1])]
  BY <1>5
<1>7. Reader(toks) = [d \in Nat |-> IF d = 0 THEN Base ELSE Returned(toks, Reader(toks)[d - 1])]
  BY <1>6 DEF Reader
<1>. QED
  BY <1>7

\* What a call returns, from what the calls return that it makes.
LEMMA CallStep ==
  ASSUME NEW toks, NEW i \in Nat, NEW n \in Nat, NEW d \in Nat, d > 0
  PROVE  /\ Reader(toks)[d][<<"params", i, n>>] = ReadParams(toks, i, n, Reader(toks)[d - 1])
         /\ Reader(toks)[d][<<"items", i, n>>] = ReadItems(toks, i, n, Reader(toks)[d - 1])
         /\ Reader(toks)[d][<<"message", i, n>>] = ReadMessage(toks, i, Reader(toks)[d - 1])
<1> DEFINE calls == Reader(toks)[d - 1]
<1>1. Reader(toks)[d] = Returned(toks, calls)
  BY ReaderDefined
<1>. HIDE DEF calls
<1>2. \A c \in Calls :
        /\ c[1] = "params" => Returned(toks, calls)[c] = ReadParams(toks, c[2], c[3], calls)
        /\ c[1] = "items" => Returned(toks, calls)[c] = ReadItems(toks, c[2], c[3], calls)
        /\ c[1] = "message" => Returned(toks, calls)[c] = ReadMessage(toks, c[2], calls)
  BY DEF Returned
<1>3. \A f \in {"params", "items", "message"} :
        <<f, i, n>> \in Calls /\ <<f, i, n>>[1] = f /\ <<f, i, n>>[2] = i /\ <<f, i, n>>[3] = n
  BY DEF Calls
<1>4. /\ Returned(toks, calls)[<<"params", i, n>>] = ReadParams(toks, i, n, calls)
      /\ Returned(toks, calls)[<<"items", i, n>>] = ReadItems(toks, i, n, calls)
      /\ Returned(toks, calls)[<<"message", i, n>>] = ReadMessage(toks, i, calls)
  BY <1>2, <1>3
<1>. QED
  BY <1>1, <1>4 DEF calls

\* The same, of each of the functions.
LEMMA ParamsStep ==
  ASSUME NEW toks, NEW i \in Nat, NEW n \in Nat, NEW d \in Nat, d > 0
  PROVE  Reader(toks)[d][<<"params", i, n>>] = ReadParams(toks, i, n, Reader(toks)[d - 1])
BY CallStep

LEMMA ItemsStep ==
  ASSUME NEW toks, NEW i \in Nat, NEW n \in Nat, NEW d \in Nat, d > 0
  PROVE  Reader(toks)[d][<<"items", i, n>>] = ReadItems(toks, i, n, Reader(toks)[d - 1])
BY CallStep

LEMMA MessageStep ==
  ASSUME NEW toks, NEW i \in Nat, NEW n \in Nat, NEW d \in Nat, d > 0
  PROVE  Reader(toks)[d][<<"message", i, n>>] = ReadMessage(toks, i, Reader(toks)[d - 1])
BY CallStep

\* Function f, called with the cursor at i, reads n values and leaves the cursor at j.
Reads(toks, f, i, n, j, value) ==
  i <= j /\ \A d \in Nat : i + d > j => Reader(toks)[d][<<f, i, n>>] = Done(j, value)

\* The value that Put makes.
With(key, value, table) ==
  [k \in DOMAIN table \cup {key} |-> IF k \in DOMAIN table THEN table[k] ELSE value]

\* What the parser looks at.
LEMMA TokenParts ==
  ASSUME NEW x
  PROVE  /\ Key(x).type = "string" /\ Key(x).text = x /\ Key(x).size = 1
         /\ Str(x).type = "string" /\ Str(x).text = x
         /\ Prim(x).type = "primitive" /\ Prim(x).text = x
         /\ Array(x).type = "array" /\ Array(x).size = x
         /\ Object(x).type = "object" /\ Object(x).size = x
BY DEF Key, Str, Prim, Array, Object, Token

LEMMA DoneParts ==
  ASSUME NEW j, NEW value
  PROVE  Done(j, value).at = j /\ Done(j, value).value = value
BY DEF Done

\* A value goes in front of the values read behind it.
LEMMA PutRead ==
  ASSUME NEW key, NEW value, NEW j, NEW rest
  PROVE  Put(key, value, Done(j, rest)) = Done(j, With(key, value, rest))
BY DEF Put, Done, With

LEMMA AppendRead ==
  ASSUME NEW value, NEW j, NEW rest
  PROVE  Append1(value, Done(j, rest)) = Done(j, <<value>> \o rest)
<1> DEFINE items == <<value>> \o rest
<1>1. Append1(value, Done(j, rest)) = [Done(j, rest) EXCEPT !.value = items]
  BY DoneParts DEF Append1
<1>. HIDE DEF items
<1>2. [Done(j, rest) EXCEPT !.value = items] = Done(j, items)
  BY DEF Done
<1>. QED  BY <1>1, <1>2 DEF items

\* One lemma for each thing that is read: nothing more,
LEMMA NoParams ==
  ASSUME NEW toks, NEW i \in Nat
  PROVE  Reads(toks, "params", i, 0, i, <<>>)
<1>1. ASSUME NEW d \in Nat, i + d > i
      PROVE  Reader(toks)[d][<<"params", i, 0>>] = Done(i, <<>>)
  <2> DEFINE calls == Reader(toks)[d - 1]
  <2>0. d > 0
    BY <1>1
  <2>1. Reader(toks)[d][<<"params", i, 0>>] = ReadParams(toks, i, 0, calls)
    BY <2>0, ParamsStep
  <2>. HIDE DEF calls
  <2>2. ReadParams(toks, i, 0, calls) = Done(i, <<>>)
    BY DEF ReadParams
  <2>. QED  BY <2>1, <2>2
<1>2. i <= i
  OBVIOUS
<1>. QED  BY <1>1, <1>2 DEF Reads

LEMMA NoItems ==
  ASSUME NEW toks, NEW i \in Nat
  PROVE  Reads(toks, "items", i, 0, i, <<>>)
<1>1. ASSUME NEW d \in Nat, i + d > i
      PROVE  Reader(toks)[d][<<"items", i, 0>>] = Done(i, <<>>)
  <2> DEFINE calls == Reader(toks)[d - 1]
  <2>0. d > 0
    BY <1>1
  <2>1. Reader(toks)[d][<<"items", i, 0>>] = ReadItems(toks, i, 0, calls)
    BY <2>0, ItemsStep
  <2>. HIDE DEF calls
  <2>2. ReadItems(toks, i, 0, calls) = Done(i, <<>>)
    BY DEF ReadItems
  <2>. QED  BY <2>1, <2>2
<1>2. i <= i
  OBVIOUS
<1>. QED  BY <1>1, <1>2 DEF Reads

\* a pair of a key and a string, a number, an array, or an object,
LEMMA ParamString ==
  ASSUME NEW toks, NEW i \in Nat, NEW j \in Nat, NEW n \in Nat, n > 0, NEW k, NEW text, NEW rest,
         At(toks, i) = Key(k), At(toks, i + 1) = Str(text),
         Reads(toks, "params", i + 2, n - 1, j, rest)
  PROVE  Reads(toks, "params", i, n, j, With(k, text, rest))
<1>0. i <= j
  BY DEF Reads
<1>1. ASSUME NEW d \in Nat, i + d > j
      PROVE  Reader(toks)[d][<<"params", i, n>>] = Done(j, With(k, text, rest))
  <2> DEFINE calls == Reader(toks)[d - 1]
  <2>0. d > 0 /\ d - 1 \in Nat /\ i + 2 + (d - 1) > j
    BY <1>0, <1>1
  <2>1. calls[<<"params", i + 2, n - 1>>] = Done(j, rest)
    BY <2>0 DEF Reads
  <2>2. Reader(toks)[d][<<"params", i, n>>] = ReadParams(toks, i, n, calls)
    BY <2>0, ParamsStep
  <2>. HIDE DEF calls
  <2>3. ReadParams(toks, i, n, calls) = Put(k, text, Done(j, rest))
    BY <2>1 DEF ReadParams, Key, Str, Token, AfterString
  <2>. QED  BY <2>2, <2>3, PutRead
<1>. QED  BY <1>0, <1>1 DEF Reads

LEMMA ParamPrimitive ==
  ASSUME NEW toks, NEW i \in Nat, NEW j \in Nat, NEW n \in Nat, n > 0, NEW k, NEW text, NEW rest,
         At(toks, i) = Key(k), At(toks, i + 1) = Prim(text),
         Reads(toks, "params", i + 2, n - 1, j, rest)
  PROVE  Reads(toks, "params", i, n, j, With(k, Primitive(text), rest))
<1>0. i <= j
  BY DEF Reads
<1>1. ASSUME NEW d \in Nat, i + d > j
      PROVE  Reader(toks)[d][<<"params", i, n>>] = Done(j, With(k, Primitive(text), rest))
  <2> DEFINE calls == Reader(toks)[d - 1]
  <2>0. d > 0 /\ d - 1 \in Nat /\ i + 2 + (d - 1) > j
    BY <1>0, <1>1
  <2>1. calls[<<"params", i + 2, n - 1>>] = Done(j, rest)
    BY <2>0 DEF Reads
  <2>2. Reader(toks)[d][<<"params", i, n>>] = ReadParams(toks, i, n, calls)
    BY <2>0, ParamsStep
  <2>. HIDE DEF calls
  <2>3. ReadParams(toks, i, n, calls) = Put(k, Primitive(text), Done(j, rest))
    BY <2>1 DEF ReadParams, Key, Prim, Token, AfterPrimitive
  <2>. QED  BY <2>2, <2>3, PutRead
<1>. QED  BY <1>0, <1>1 DEF Reads

LEMMA ParamArray ==
  ASSUME NEW toks, NEW i \in Nat, NEW h \in Nat, NEW j \in Nat, NEW n \in Nat, n > 0, NEW m \in Nat,
         NEW k, NEW value, NEW rest,
         At(toks, i) = Key(k), At(toks, i + 1) = Array(m),
         Reads(toks, "items", i + 2, m, h, value),
         Reads(toks, "params", h, n - 1, j, rest)
  PROVE  Reads(toks, "params", i, n, j, With(k, value, rest))
<1>0. i <= j
  BY DEF Reads
<1>1. ASSUME NEW d \in Nat, i + d > j
      PROVE  Reader(toks)[d][<<"params", i, n>>] = Done(j, With(k, value, rest))
  <2> DEFINE calls == Reader(toks)[d - 1]
  <2>0. i + 2 <= h /\ h <= j /\ d > 0 /\ d - 1 \in Nat /\ i + 2 + (d - 1) > h /\ h + (d - 1) > j
    BY <1>1 DEF Reads
  <2>1. /\ calls[<<"items", i + 2, m>>] = Done(h, value)
        /\ calls[<<"params", h, n - 1>>] = Done(j, rest)
    BY <2>0 DEF Reads
  <2>2. Reader(toks)[d][<<"params", i, n>>] = ReadParams(toks, i, n, calls)
    BY <2>0, ParamsStep
  <2>. HIDE DEF calls
  <2>3. /\ n # 0 /\ At(toks, i).type = "string" /\ At(toks, i).text = k
        /\ At(toks, i + 1).type = "array" /\ At(toks, i + 1).size = m
    BY TokenParts
  <2>4. ReadParams(toks, i, n, calls) = Put(k, value, calls[<<"params", h, n - 1>>])
    BY <2>0, <2>1, <2>3, DoneParts DEF ReadParams, Succeeded
  <2>. QED  BY <2>1, <2>2, <2>4, PutRead
<1>. QED  BY <1>0, <1>1 DEF Reads

\* (The cursor skips the token behind the object.)
LEMMA ParamObject ==
  ASSUME NEW toks, NEW i \in Nat, NEW h \in Nat, NEW j \in Nat, NEW n \in Nat, n > 0, NEW m \in Nat,
         NEW k, NEW value, NEW rest,
         At(toks, i) = Key(k), At(toks, i + 1) = Object(m),
         Reads(toks, "params", i + 2, m, h, value),
         Reads(toks, "params", h + 1, n - 1, j, rest)
  PROVE  Reads(toks, "params", i, n, j, With(k, value, rest))
<1>0. i <= j
  BY DEF Reads
<1>1. ASSUME NEW d \in Nat, i + d > j
      PROVE  Reader(toks)[d][<<"params", i, n>>] = Done(j, With(k, value, rest))
  <2> DEFINE calls == Reader(toks)[d - 1]
  <2>0. i + 2 <= h /\ h + 1 <= j /\ d > 0 /\ d - 1 \in Nat /\ i + 2 + (d - 1) > h /\ h + 1 + (d - 1) > j
    BY <1>1 DEF Reads
  <2>1. /\ calls[<<"params", i + 2, m>>] = Done(h, value)
        /\ calls[<<"params", h + 1, n - 1>>] = Done(j, rest)
    BY <2>0 DEF Reads
  <2>2. Reader(toks)[d][<<"params", i, n>>] = ReadParams(toks, i, n, calls)
    BY <2>0, ParamsStep
  <2>. HIDE DEF calls
  <2>3. ReadObject(toks, i + 1, calls) = Done(h, value)
    <3>1. At(toks, i + 1).type = "object" /\ At(toks, i + 1).size = m /\ (i + 1) + 1 = i + 2
      BY TokenParts
    <3>. QED  BY <2>1, <3>1 DEF ReadObject
  <2>4. /\ n # 0 /\ At(toks, i).type = "string" /\ At(toks, i).text = k /\ At(toks, i).size = 1
        /\ At(toks, i + 1).type = "object"
    BY TokenParts
  <2>5. ReadParams(toks, i, n, calls) = Put(k, value, calls[<<"params", h + 1, n - 1>>])
    BY <2>0, <2>3, <2>4, DoneParts DEF ReadParams, Succeeded
  <2>. QED  BY <2>1, <2>2, <2>5, PutRead
<1>. QED  BY <1>0, <1>1 DEF Reads

\* an item of an array,
LEMMA ItemString ==
  ASSUME NEW toks, NEW i \in Nat, NEW j \in Nat, NEW n \in Nat, n > 0, NEW text, NEW rest,
         At(toks, i) = Str(text), Reads(toks, "items", i + 1, n - 1, j, rest)
  PROVE  Reads(toks, "items", i, n, j, <<text>> \o rest)
<1>0. i <= j
  BY DEF Reads
<1>1. ASSUME NEW d \in Nat, i + d > j
      PROVE  Reader(toks)[d][<<"items", i, n>>] = Done(j, <<text>> \o rest)
  <2> DEFINE calls == Reader(toks)[d - 1]
  <2>0. d > 0 /\ d - 1 \in Nat /\ i + 1 + (d - 1) > j
    BY <1>0, <1>1
  <2>1. calls[<<"items", i + 1, n - 1>>] = Done(j, rest)
    BY <2>0 DEF Reads
  <2>2. Reader(toks)[d][<<"items", i, n>>] = ReadItems(toks, i, n, calls)
    BY <2>0, ItemsStep
  <2>. HIDE DEF calls
  <2>3. ReadItems(toks, i, n, calls) = Append1(text, Done(j, rest))
    BY <2>1, TokenParts DEF ReadItems
  <2>. QED  BY <2>2, <2>3, AppendRead
<1>. QED  BY <1>0, <1>1 DEF Reads

LEMMA ItemObject ==
  ASSUME NEW toks, NEW i \in Nat, NEW h \in Nat, NEW j \in Nat, NEW n \in Nat, n > 0, NEW m \in Nat,
         NEW value, NEW rest,
         At(toks, i) = Object(m), Reads(toks, "params", i + 1, m, h, value),
         Reads(toks, "items", h, n - 1, j, rest)
  PROVE  Reads(toks, "items", i, n, j, <<value>> \o rest)
<1>0. i <= j
  BY DEF Reads
<1>1. ASSUME NEW d \in Nat, i + d > j
      PROVE  Reader(toks)[d][<<"items", i, n>>] = Done(j, <<value>> \o rest)
  <2> DEFINE calls == Reader(toks)[d - 1]
  <2>0. i + 1 <= h /\ h <= j /\ d > 0 /\ d - 1 \in Nat /\ i + 1 + (d - 1) > h /\ h + (d - 1) > j
    BY <1>1 DEF Reads
  <2>1. /\ calls[<<"params", i + 1, m>>] = Done(h, value)
        /\ calls[<<"items", h, n - 1>>] = Done(j, rest)
    BY <2>0 DEF Reads
  <2>2. Reader(toks)[d][<<"items", i, n>>] = ReadItems(toks, i, n, calls)
    BY <2>0, ItemsStep
  <2>. HIDE DEF calls
  <2>3. ReadObject(toks, i, calls) = Done(h, value)
    BY <2>1, TokenParts DEF ReadObject
  <2>4. ReadItems(toks, i, n, calls) = Append1(value, calls[<<"items", h, n - 1>>])
    BY <2>3, TokenParts, DoneParts DEF ReadItems
  <2>. QED  BY <2>1, <2>2, <2>4, AppendRead
<1>. QED  BY <1>0, <1>1 DEF Reads

\* a key of the message, with a string or an object, and its end.
LEMMA MessageText ==
  ASSUME NEW toks, NEW i \in Nat, NEW j \in Nat, i <= Len(toks), Len(toks) \in Nat,
         NEW k \in {"jsonrpc", "method", "id"}, NEW text, NEW rest,
         At(toks, i) = Key(k), At(toks, i + 1) = Str(text),
         Reads(toks, "message", i + 2, 0, j, rest)
  PROVE  Reads(toks, "message", i, 0, j, With(k, text, rest))
<1>0. i <= j
  BY DEF Reads
<1>1. ASSUME NEW d \in Nat, i + d > j
      PROVE  Reader(toks)[d][<<"message", i, 0>>] = Done(j, With(k, text, rest))
  <2> DEFINE calls == Reader(toks)[d - 1]
  <2>0. d > 0 /\ d - 1 \in Nat /\ i + 2 + (d - 1) > j
    BY <1>0, <1>1
  <2>1. calls[<<"message", i + 2, 0>>] = Done(j, rest)
    BY <2>0 DEF Reads
  <2>2. Reader(toks)[d][<<"message", i, 0>>] = ReadMessage(toks, i, calls)
    BY <2>0, MessageStep
  <2>. HIDE DEF calls
  <2>3. ReadMessage(toks, i, calls) = Put(k, text, Done(j, rest))
    BY <2>1, TokenParts DEF ReadMessage
  <2>. QED  BY <2>2, <2>3, PutRead
<1>. QED  BY <1>0, <1>1 DEF Reads

LEMMA MessageObject ==
  ASSUME NEW toks, NEW i \in Nat, NEW h \in Nat, NEW j \in Nat, i <= Len(toks), Len(toks) \in Nat,
         NEW k \in {"params", "result", "error"}, NEW m \in Nat, NEW value, NEW rest,
         At(toks, i) = Key(k), At(toks, i + 1) = Object(m),
         Reads(toks, "params", i + 2, m, h, value),
         Reads(toks, "message", h, 0, j, rest)
  PROVE  Reads(toks, "message", i, 0, j, With(k, value, rest))
<1>0. i <= j
  BY DEF Reads
<1>1. ASSUME NEW d \in Nat, i + d > j
      PROVE  Reader(toks)[d][<<"message", i, 0>>] = Done(j, With(k, value, rest))
  <2> DEFINE calls == Reader(toks)[d - 1]
  <2>0. i + 2 <= h /\ h <= j /\ d > 0 /\ d - 1 \in Nat /\ i + 2 + (d - 1) > h /\ h + (d - 1) > j
    BY <1>1 DEF Reads
  <2>1. /\ calls[<<"params", i + 2, m>>] = Done(h, value)
        /\ calls[<<"message", h, 0>>] = Done(j, rest)
    BY <2>0 DEF Reads
  <2>2. Reader(toks)[d][<<"message", i, 0>>] = ReadMessage(toks, i, calls)
    <3>1. d > 0 /\ 0 \in Nat
      BY <2>0
    <3>. QED  BY <3>1, MessageStep
  <2>. HIDE DEF calls
  <2>3. ReadObject(toks, i + 1, calls) = Done(h, value)
    <3>1. At(toks, i + 1).type = "object" /\ At(toks, i + 1).size = m /\ (i + 1) + 1 = i + 2
      BY TokenParts
    <3>. QED  BY <2>1, <3>1 DEF ReadObject
  <2>4. /\ ~(i > Len(toks)) /\ i <= Len(toks) /\ At(toks, i).text = k /\ At(toks, i).size = 1
        /\ k \notin {"jsonrpc", "method", "id"} /\ k \in {"params", "result", "error"}
    BY TokenParts
  <2>5. ReadMessage(toks, i, calls) = Put(k, value, calls[<<"message", h, 0>>])
    <3> DEFINE table == ReadObject(toks, i + 1, calls)
    <3>1. Succeeded(table) /\ table.value = value /\ table.at = h
      BY <2>0, <2>3, DoneParts DEF Succeeded
    <3>2. ReadMessage(toks, i, calls) =
            IF At(toks, i).size = 1 /\ Succeeded(table)
            THEN Put(At(toks, i).text, table.value, calls[<<"message", table.at, 0>>])
            ELSE Failed
      <4>. HIDE DEF table
      <4>. QED  BY <2>4 DEF ReadMessage, table
    <3>. HIDE DEF table
    <3>. QED  BY <2>4, <3>1, <3>2
  <2>. QED  BY <2>1, <2>2, <2>5, PutRead
<1>. QED  BY <1>0, <1>1 DEF Reads

LEMMA MessageEnd ==
  ASSUME NEW toks, NEW i \in Nat, Len(toks) \in Nat, i > Len(toks)
  PROVE  Reads(toks, "message", i, 0, i, <<>>)
<1>1. ASSUME NEW d \in Nat, i + d > i
      PROVE  Reader(toks)[d][<<"message", i, 0>>] = Done(i, <<>>)
  <2> DEFINE calls == Reader(toks)[d - 1]
  <2>0. d > 0
    BY <1>1
  <2>1. Reader(toks)[d][<<"message", i, 0>>] = ReadMessage(toks, i, calls)
    BY <2>0, MessageStep
  <2>. HIDE DEF calls
  <2>2. ReadMessage(toks, i, calls) = Done(i, <<>>)
    BY DEF ReadMessage
  <2>. QED  BY <2>1, <2>2
<1>2. i <= i
  OBVIOUS
<1>. QED  BY <1>1, <1>2 DEF Reads

\* What stands from i to h is an item of an array with the given value, or a pair
\* of an object.
Item(toks, i, h, value) ==
  \A n, j \in Nat : \A rest :
    n > 0 /\ Reads(toks, "items", h, n - 1, j, rest) => Reads(toks, "items", i, n, j, <<value>> \o rest)

Param(toks, i, h, k, value) ==
  \A n, j \in Nat : \A rest :
    n > 0 /\ Reads(toks, "params", h, n - 1, j, rest) => Reads(toks, "params", i, n, j, With(k, value, rest))

\* An array is read when each of its items is: item k begins at pos[k].
LEMMA ItemsRead ==
  ASSUME NEW toks, NEW V, NEW values \in Seq(V), NEW pos \in [1 .. Len(values) + 1 -> Nat],
         \A k \in 1 .. Len(values) : Item(toks, pos[k], pos[k + 1], values[k])
  PROVE  Reads(toks, "items", pos[1], Len(values), pos[Len(values) + 1], values)
<1> DEFINE L == Len(values)
           end == pos[L + 1]
           Left(m) == Reads(toks, "items", pos[L - m + 1], m, end, SubSeq(values, L - m + 1, L))
           S == {m \in Nat : m <= L => Left(m)}
<1>1. L \in Nat /\ end \in Nat
  OBVIOUS
<1>2. Left(0)
  <2>1. SubSeq(values, L + 1, L) = <<>>
    BY <1>1, SubSeqEmpty
  <2>2. L - 0 + 1 = L + 1
    BY <1>1
  <2>. QED  BY <1>1, <2>1, <2>2, NoItems
<1>3. ASSUME NEW m \in Nat, m + 1 <= L, Left(m) PROVE Left(m + 1)
  <2> DEFINE k == L - m
  <2>1. /\ k \in 1 .. L /\ L - m + 1 = k + 1 /\ L - (m + 1) + 1 = k
        /\ m + 1 \in Nat /\ m + 1 > 0 /\ m + 1 - 1 = m
    BY <1>1, <1>3
  <2>2. SubSeq(values, k, L) = <<values[k]>> \o SubSeq(values, k + 1, L)
    BY <1>1, <2>1, SubSeqRecursiveFirst
  <2>3. Reads(toks, "items", pos[k + 1], m, end, SubSeq(values, k + 1, L))
    BY <1>3, <2>1
  <2>4. Item(toks, pos[k], pos[k + 1], values[k])
    BY <2>1
  <2>. HIDE DEF k, end
  <2>5. Reads(toks, "items", pos[k], m + 1, end, <<values[k]>> \o SubSeq(values, k + 1, L))
    BY <1>1, <2>1, <2>3, <2>4 DEF Item
  <2>. QED  BY <2>1, <2>2, <2>5
<1>4. 0 \in S /\ \A m \in Nat : m \in S => m + 1 \in S
  <2>. HIDE DEF Left, L
  <2>. QED  BY <1>1, <1>2, <1>3
<1>5. L \in S
  <2>. HIDE DEF S, L
  <2>. QED  BY <1>1, <1>4, Induction
<1>6. Left(L)
  <2>. HIDE DEF Left
  <2>. QED  BY <1>1, <1>5
<1>7. SubSeq(values, 1, L) = values /\ L - L + 1 = 1
  BY <1>1, SubSeqFull
<1>. QED
  BY <1>6, <1>7

\* No two pairs have one name.
Distinct(pairs) == \A k, l \in DOMAIN pairs : pairs[k][1] = pairs[l][1] => k = l

\* An object is read when each of its pairs is, and its names are distinct.
LEMMA PairsRead ==
  ASSUME NEW toks, NEW V, NEW pairs \in Seq(V), NEW pos \in [1 .. Len(pairs) + 1 -> Nat],
         Distinct(pairs),
         \A k \in 1 .. Len(pairs) : Param(toks, pos[k], pos[k + 1], pairs[k][1], pairs[k][2])
  PROVE  Reads(toks, "params", pos[1], Len(pairs), pos[Len(pairs) + 1], Table(pairs))
<1> DEFINE L == Len(pairs)
           end == pos[L + 1]
           Some(a) == [x \in {pairs[k][1] : k \in a .. L} |->
                         pairs[CHOOSE k \in DOMAIN pairs : pairs[k][1] = x][2]]
           Left(m) == Reads(toks, "params", pos[L - m + 1], m, end, Some(L - m + 1))
           S == {m \in Nat : m <= L => Left(m)}
<1>1. L \in Nat /\ end \in Nat /\ DOMAIN pairs = 1 .. L
  OBVIOUS
<1>2. Left(0)
  <2>1. {pairs[k][1] : k \in (L + 1) .. L} = {}
    BY <1>1
  <2>2. Some(L + 1) = <<>>
    BY <2>1
  <2>3. L - 0 + 1 = L + 1
    BY <1>1
  <2>. HIDE DEF Some
  <2>. QED  BY <1>1, <2>2, <2>3, NoParams
<1>3. ASSUME NEW m \in Nat, m + 1 <= L, Left(m) PROVE Left(m + 1)
  <2> DEFINE k == L - m
  <2>1. /\ k \in 1 .. L /\ L - m + 1 = k + 1 /\ L - (m + 1) + 1 = k
        /\ m + 1 \in Nat /\ m + 1 > 0 /\ m + 1 - 1 = m
    BY <1>1, <1>3
  <2>. HIDE DEF k
  <2>2. Some(k) = With(pairs[k][1], pairs[k][2], Some(k + 1))
    <3>1. {pairs[l][1] : l \in k .. L} = {pairs[l][1] : l \in (k + 1) .. L} \cup {pairs[k][1]}
      <4> DEFINE I == (k + 1) .. L
      <4>1. k .. L = I \cup {k}
        BY <1>1, <2>1
      <4>. HIDE DEF I
      <4>2. {pairs[l][1] : l \in I \cup {k}} = {pairs[l][1] : l \in I} \cup {pairs[k][1]}
        OBVIOUS
      <4>. QED  BY <4>1, <4>2 DEF I
    <3>2. pairs[k][1] \notin {pairs[l][1] : l \in (k + 1) .. L}
      <4>. SUFFICES ASSUME NEW l \in (k + 1) .. L, pairs[k][1] = pairs[l][1] PROVE FALSE
        OBVIOUS
      <4>1. k \in DOMAIN pairs /\ l \in DOMAIN pairs /\ k # l
        BY <1>1, <2>1
      <4>. QED  BY <4>1 DEF Distinct
    <3>3. (CHOOSE l \in DOMAIN pairs : pairs[l][1] = pairs[k][1]) = k
      BY <1>1, <2>1 DEF Distinct
    <3> DEFINE N == {pairs[l][1] : l \in (k + 1) .. L}
               Text(x) == pairs[CHOOSE l \in DOMAIN pairs : pairs[l][1] = x][2]
    <3>4. /\ Some(k + 1) = [x \in N |-> Text(x)]
          /\ Some(k) = [x \in N \cup {pairs[k][1]} |-> Text(x)]
      BY <3>1
    <3>5. pairs[k][1] \notin N /\ Text(pairs[k][1]) = pairs[k][2]
      BY <3>2, <3>3
    <3>. HIDE DEF N, Text, Some
    <3>. QED  BY <3>4, <3>5 DEF With
  <2>3. Reads(toks, "params", pos[k + 1], m, end, Some(k + 1))
    BY <1>3, <2>1
  <2>4. Param(toks, pos[k], pos[k + 1], pairs[k][1], pairs[k][2])
    BY <2>1
  <2>. HIDE DEF end, Some
  <2>5. Reads(toks, "params", pos[k], m + 1, end, With(pairs[k][1], pairs[k][2], Some(k + 1)))
    BY <1>1, <2>1, <2>3, <2>4 DEF Param
  <2>. QED  BY <2>1, <2>2, <2>5
<1>4. 0 \in S /\ \A m \in Nat : m \in S => m + 1 \in S
  <2>. HIDE DEF Left, L
  <2>. QED  BY <1>1, <1>2, <1>3
<1>5. L \in S
  <2>. HIDE DEF S, L
  <2>. QED  BY <1>1, <1>4, Induction
<1>6. Left(L)
  <2>. HIDE DEF Left
  <2>. QED  BY <1>1, <1>5
<1>7. Some(1) = Table(pairs) /\ L - L + 1 = 1
  <2>1. {pairs[k][1] : k \in 1 .. L} = {pairs[k][1] : k \in DOMAIN pairs}
    BY <1>1
  <2>. QED  BY <1>1, <2>1 DEF Table
<1>. QED
  BY <1>6, <1>7

\* The tokens s at place i of toks.
Has(toks, i, s) == \A x \in 1 .. Len(s) : At(toks, i + x - 1) = s[x]

\* The texts every message has, and the tokens with texts in T.
Words ==
  {"", "jsonrpc", "2.0", "id", "id-xpto-123", "method", "params", "result", "error", "value",
   "code", "message", "search", "repo_dirs", "filter_attrs", "attribute", "matchmode", "tags",
   "include_repo_from_config"}

Tokens(T) == [type: {"string", "primitive", "array", "object"}, size: Nat, text: T]

\* Joining lists of tokens.
LEMMA Joined ==
  ASSUME NEW V, NEW s \in Seq(V), NEW t \in Seq(V)
  PROVE  /\ s \o t \in Seq(V) /\ Len(s \o t) = Len(s) + Len(t) /\ Len(s) \in Nat /\ Len(t) \in Nat
         /\ \A x \in 1 .. Len(s) : (s \o t)[x] = s[x]
         /\ \A x \in 1 .. Len(t) : (s \o t)[Len(s) + x] = t[x]
OBVIOUS

LEMMA Preceded ==
  ASSUME NEW V, NEW x \in V, NEW t \in Seq(V)
  PROVE  /\ <<x>> \o t \in Seq(V) /\ Len(<<x>> \o t) = 1 + Len(t) /\ (<<x>> \o t)[1] = x
         /\ \A j \in 1 .. Len(t) : (<<x>> \o t)[1 + j] = t[j]
<1>1. <<x>> \in Seq(V) /\ Len(<<x>>) = 1 /\ <<x>>[1] = x
  OBVIOUS
<1>. QED  BY <1>1, Joined

\* Of joined lists, the second one stands behind the first one.
LEMMA HasParts ==
  ASSUME NEW V, NEW s \in Seq(V), NEW t \in Seq(V), NEW toks, NEW i \in Nat, Has(toks, i, s \o t)
  PROVE  Has(toks, i, s) /\ Has(toks, i + Len(s), t)
<1>1. /\ Len(s \o t) = Len(s) + Len(t) /\ Len(s) \in Nat /\ Len(t) \in Nat
      /\ \A x \in 1 .. Len(s) : (s \o t)[x] = s[x]
      /\ \A x \in 1 .. Len(t) : (s \o t)[Len(s) + x] = t[x]
  BY Joined
<1>2. Has(toks, i, s)
  BY <1>1 DEF Has
<1>3. ASSUME NEW x \in 1 .. Len(t) PROVE At(toks, i + Len(s) + x - 1) = t[x]
  <2>1. Len(s) + x \in 1 .. Len(s \o t) /\ i + Len(s) + x - 1 = i + (Len(s) + x) - 1
    BY <1>1
  <2>. QED  BY <1>1, <2>1 DEF Has
<1>. QED  BY <1>2, <1>3 DEF Has

LEMMA HasAll ==
  ASSUME NEW V, NEW toks \in Seq(V)
  PROVE  Has(toks, 1, toks)
BY DEF Has, At

\* What the tokens of a list of texts are, of pairs, and of filters.
LEMMA StringsTokens ==
  ASSUME NEW T, Words \subseteq T, NEW texts \in Seq(T)
  PROVE  /\ Len(texts) \in Nat
         /\ Strings(texts) \in Seq(Tokens(T)) /\ Len(Strings(texts)) = Len(texts) + 1
         /\ Strings(texts)[1] = Array(Len(texts))
         /\ \A k \in 1 .. Len(texts) : Strings(texts)[k + 1] = Str(texts[k])
<1> DEFINE items == [i \in 1 .. Len(texts) |-> Str(texts[i])]
<1>1. Len(texts) \in Nat /\ \A k \in 1 .. Len(texts) : texts[k] \in T
  OBVIOUS
<1>2. \A k \in 1 .. Len(texts) : Str(texts[k]) \in Tokens(T)
  BY <1>1 DEF Str, Token, Tokens
<1>3. items \in Seq(Tokens(T)) /\ Len(items) = Len(texts)
  BY <1>1, <1>2
<1>4. Array(Len(texts)) \in Tokens(T)
  BY <1>1 DEF Array, Token, Tokens, Words
<1>5. \A k \in 1 .. Len(texts) : items[k] = Str(texts[k])
  OBVIOUS
<1>. HIDE DEF items
<1>6. <<Array(Len(texts))>> \in Seq(Tokens(T)) /\ Len(<<Array(Len(texts))>>) = 1
      /\ <<Array(Len(texts))>>[1] = Array(Len(texts))
  BY <1>4
<1>7. Strings(texts) = <<Array(Len(texts))>> \o items
  BY DEF Strings, items
<1>. QED
  BY <1>1, <1>3, <1>5, <1>6, <1>7, ConcatProperties

\* Places in lists with two and with seven tokens for each entry.
LEMMA Halves ==
  ASSUME NEW L \in Nat
  PROVE  /\ \A k \in 1 .. L :
              /\ 2 * k - 1 \in 1 .. 2 * L /\ (2 * k - 1) % 2 = 1 /\ ((2 * k - 1) + 1) \div 2 = k
              /\ 2 * k \in 1 .. 2 * L /\ (2 * k) % 2 # 1 /\ (2 * k) \div 2 = k
         /\ \A j \in 1 .. 2 * L : \E k \in 1 .. L : j = 2 * k - 1 \/ j = 2 * k
<1>1. ASSUME NEW j \in 1 .. 2 * L PROVE \E k \in 1 .. L : j = 2 * k - 1 \/ j = 2 * k
  <2>1. (j + 1) \div 2 \in 1 .. L /\ (j = 2 * ((j + 1) \div 2) - 1 \/ j = 2 * ((j + 1) \div 2))
    OBVIOUS
  <2>. QED  BY <2>1
<1>. QED  BY <1>1

LEMMA Sevenths ==
  ASSUME NEW L \in Nat
  PROVE  /\ \A k \in 1 .. L : \A c \in 1 .. 7 :
              /\ 7 * (k - 1) + c \in 1 .. 7 * L
              /\ (7 * (k - 1) + c - 1) \div 7 + 1 = k /\ ((7 * (k - 1) + c - 1) % 7) + 1 = c
         /\ \A j \in 1 .. 7 * L : (j - 1) \div 7 + 1 \in 1 .. L /\ ((j - 1) % 7) + 1 \in 1 .. 7
OBVIOUS

LEMMA FieldsTokens ==
  ASSUME NEW T, Words \subseteq T, NEW pairs \in Seq(T \X T)
  PROVE  /\ Len(pairs) \in Nat
         /\ Fields(pairs) \in Seq(Tokens(T)) /\ Len(Fields(pairs)) = 2 * Len(pairs) + 1
         /\ Fields(pairs)[1] = Object(Len(pairs))
         /\ \A k \in 1 .. Len(pairs) :
              Fields(pairs)[2 * k] = Key(pairs[k][1]) /\ Fields(pairs)[2 * k + 1] = Str(pairs[k][2])
<1> DEFINE L == Len(pairs)
           items == [j \in 1 .. 2 * L |->
                       IF j % 2 = 1 THEN Key(pairs[(j + 1) \div 2][1]) ELSE Str(pairs[j \div 2][2])]
<1>1. L \in Nat /\ \A k \in 1 .. L : pairs[k][1] \in T /\ pairs[k][2] \in T
  OBVIOUS
<1>2. \A x \in T : Key(x) \in Tokens(T) /\ Str(x) \in Tokens(T)
  BY DEF Key, Str, Token, Tokens
<1>3. ASSUME NEW k \in 1 .. L
      PROVE  items[2 * k - 1] = Key(pairs[k][1]) /\ items[2 * k] = Str(pairs[k][2])
  <2>1. /\ 2 * k - 1 \in 1 .. 2 * L /\ (2 * k - 1) % 2 = 1 /\ ((2 * k - 1) + 1) \div 2 = k
        /\ 2 * k \in 1 .. 2 * L /\ (2 * k) % 2 # 1 /\ (2 * k) \div 2 = k
    BY <1>1, Halves
  <2>. QED  BY <2>1
<1>4. ASSUME NEW j \in 1 .. 2 * L PROVE items[j] \in Tokens(T)
  <2>1. PICK k \in 1 .. L : j = 2 * k - 1 \/ j = 2 * k
    BY <1>1, Halves
  <2>. QED  BY <1>1, <1>2, <1>3, <2>1
<1>5. items \in Seq(Tokens(T)) /\ Len(items) = 2 * L
  BY <1>1, <1>4
<1>6. Object(L) \in Tokens(T)
  BY <1>1 DEF Object, Token, Tokens, Words
<1>. HIDE DEF items
<1>7. <<Object(L)>> \in Seq(Tokens(T)) /\ Len(<<Object(L)>>) = 1 /\ <<Object(L)>>[1] = Object(L)
  BY <1>6
<1>8. Fields(pairs) = <<Object(L)>> \o items
  BY DEF Fields, items
<1>9. /\ Fields(pairs) \in Seq(Tokens(T)) /\ Len(Fields(pairs)) = 2 * L + 1
      /\ Fields(pairs)[1] = Object(L)
      /\ \A j \in 1 .. 2 * L : Fields(pairs)[1 + j] = items[j]
  <2>. HIDE DEF L
  <2>. QED  BY <1>1, <1>5, <1>7, <1>8, Joined
<1>10. ASSUME NEW k \in 1 .. L
       PROVE  Fields(pairs)[2 * k] = Key(pairs[k][1]) /\ Fields(pairs)[2 * k + 1] = Str(pairs[k][2])
  <2>1. 2 * k - 1 \in 1 .. 2 * L /\ 2 * k \in 1 .. 2 * L /\ 1 + (2 * k - 1) = 2 * k /\ 1 + 2 * k = 2 * k + 1
    BY <1>1
  <2>. QED  BY <1>3, <1>9, <2>1
<1>. QED
  BY <1>9, <1>10

\* Filters of texts in T.
FilterTexts(F, T) ==
  \A f \in F : f.attribute \in T /\ f.value \in T /\ f.matchmode \in T

\* The tokens of filter k, in the tokens of an array of filters.
Sevens(tokens, filters) ==
  \A k \in 1 .. Len(filters) : \A c \in 1 .. 7 :
    tokens[7 * (k - 1) + c + 1] = FilterTokens(filters[k])[c]

\* The tokens of filter f at place i.
FilterAt(toks, i, f) == \A c \in 1 .. 7 : At(toks, i + c - 1) = FilterTokens(f)[c]

LEMMA FiltersTokens ==
  ASSUME NEW T, Words \subseteq T, NEW F, NEW filters \in Seq(F),
         FilterTexts(F, T)
  PROVE  /\ Len(filters) \in Nat
         /\ Filters(filters) \in Seq(Tokens(T)) /\ Len(Filters(filters)) = 7 * Len(filters) + 1
         /\ Filters(filters)[1] = Array(Len(filters))
         /\ Sevens(Filters(filters), filters)
<1> DEFINE L == Len(filters)
           items == [j \in 1 .. 7 * L |->
                       FilterTokens(filters[(j - 1) \div 7 + 1])[((j - 1) % 7) + 1]]
<1>1. L \in Nat /\ \A k \in 1 .. L : filters[k] \in F
  OBVIOUS
<1>2. ASSUME NEW k \in 1 .. L, NEW c \in 1 .. 7 PROVE FilterTokens(filters[k])[c] \in Tokens(T)
  <2>1. filters[k].attribute \in T /\ filters[k].value \in T /\ filters[k].matchmode \in T
    BY <1>1 DEF FilterTexts
  <2>2. \A x \in T : Key(x) \in Tokens(T) /\ Str(x) \in Tokens(T) /\ Prim(x) \in Tokens(T)
    BY DEF Key, Str, Prim, Token, Tokens
  <2>3. Object(3) \in Tokens(T)
    BY DEF Object, Token, Tokens, Words
  <2>4. Key("attribute") \in Tokens(T) /\ Key("value") \in Tokens(T) /\ Key("matchmode") \in Tokens(T)
    BY <2>2 DEF Words
  <2>. QED  BY <2>1, <2>2, <2>3, <2>4 DEF FilterTokens
<1>3. ASSUME NEW k \in 1 .. L, NEW c \in 1 .. 7
      PROVE  7 * (k - 1) + c \in 1 .. 7 * L /\ items[7 * (k - 1) + c] = FilterTokens(filters[k])[c]
  <2>1. /\ 7 * (k - 1) + c \in 1 .. 7 * L
        /\ (7 * (k - 1) + c - 1) \div 7 + 1 = k /\ ((7 * (k - 1) + c - 1) % 7) + 1 = c
    <3>. HIDE DEF items, L
    <3>. QED  BY <1>1, Sevenths
  <2> DEFINE j == 7 * (k - 1) + c
  <2>2. items[j] = FilterTokens(filters[(j - 1) \div 7 + 1])[((j - 1) % 7) + 1]
    BY <2>1
  <2>3. j \in 1 .. 7 * L /\ (j - 1) \div 7 + 1 = k /\ ((j - 1) % 7) + 1 = c
    BY <2>1
  <2>4. items[j] = FilterTokens(filters[k])[c]
    <3>. HIDE DEF items, j
    <3>. QED  BY <2>2, <2>3
  <2>. QED  BY <2>3, <2>4
<1>4. ASSUME NEW j \in 1 .. 7 * L PROVE items[j] \in Tokens(T)
  <2>1. (j - 1) \div 7 + 1 \in 1 .. L /\ ((j - 1) % 7) + 1 \in 1 .. 7
    BY <1>1, Sevenths
  <2>. QED  BY <1>2, <2>1
<1>5. items \in Seq(Tokens(T)) /\ Len(items) = 7 * L
  BY <1>1, <1>4
<1>6. Array(L) \in Tokens(T)
  BY <1>1 DEF Array, Token, Tokens, Words
<1>. HIDE DEF items
<1>7. <<Array(L)>> \in Seq(Tokens(T)) /\ Len(<<Array(L)>>) = 1 /\ <<Array(L)>>[1] = Array(L)
  BY <1>6
<1>8. Filters(filters) = <<Array(L)>> \o items
  BY DEF Filters, items
<1>9. /\ Filters(filters) \in Seq(Tokens(T)) /\ Len(Filters(filters)) = 7 * L + 1
      /\ Filters(filters)[1] = Array(L)
      /\ \A j \in 1 .. 7 * L : Filters(filters)[1 + j] = items[j]
  <2>. HIDE DEF L
  <2>1. /\ <<Array(L)>> \o items \in Seq(Tokens(T)) /\ Len(<<Array(L)>> \o items) = 1 + Len(items)
        /\ (<<Array(L)>> \o items)[1] = Array(L)
        /\ \A j \in 1 .. Len(items) : (<<Array(L)>> \o items)[1 + j] = items[j]
    BY <1>5, <1>6, Preceded
  <2>2. L \in Nat
    BY <1>1
  <2>. QED  BY <1>5, <1>8, <2>1, <2>2
<1>10. ASSUME NEW k \in 1 .. L, NEW c \in 1 .. 7
       PROVE  Filters(filters)[7 * (k - 1) + c + 1] = FilterTokens(filters[k])[c]
  <2>1. 7 * (k - 1) + c \in 1 .. 7 * L /\ 1 + (7 * (k - 1) + c) = 7 * (k - 1) + c + 1
    BY <1>1, Sevenths
  <2>. QED  BY <1>3, <1>9, <2>1
<1>. QED
  BY <1>9, <1>10 DEF Sevens

\* A list of texts behind a key is read.
LEMMA StringsRead ==
  ASSUME NEW toks, NEW i \in Nat, NEW T, Words \subseteq T, NEW texts \in Seq(T), NEW k,
         At(toks, i) = Key(k), Has(toks, i + 1, Strings(texts))
  PROVE  /\ Param(toks, i, i + 2 + Len(texts), k, texts)
         /\ At(toks, i + 1) = Array(Len(texts))
         /\ Reads(toks, "items", i + 2, Len(texts), i + 2 + Len(texts), texts)
<1>0. /\ i + 1 \in Nat /\ At(toks, i + 1) = Array(Len(texts))
      /\ \A x \in 1 .. Len(texts) : At(toks, i + 1 + x) = Str(texts[x])
  <2> DEFINE h == i + 1
             s == Strings(texts)
  <2>1. /\ Len(texts) \in Nat /\ Len(s) = Len(texts) + 1
        /\ s[1] = Array(Len(texts))
        /\ \A x \in 1 .. Len(texts) : s[x + 1] = Str(texts[x])
    BY StringsTokens, Zenon
  <2>2. h \in Nat /\ Has(toks, h, s)
    OBVIOUS
  <2>. HIDE DEF h, s
  <2>3. \A x \in 1 .. Len(texts) + 1 : At(toks, h + x - 1) = s[x]
    BY <2>1, <2>2 DEF Has
  <2>4. At(toks, h) = Array(Len(texts))
    <3>1. 1 \in 1 .. Len(texts) + 1 /\ h + 1 - 1 = h
      BY <2>1, <2>2
    <3>. QED  BY <2>1, <2>3, <3>1
  <2>5. ASSUME NEW x \in 1 .. Len(texts) PROVE At(toks, h + x) = Str(texts[x])
    <3>1. x + 1 \in 1 .. Len(texts) + 1 /\ h + (x + 1) - 1 = h + x
      BY <2>1, <2>2
    <3>. QED  BY <2>1, <2>3, <3>1
  <2>. QED  BY <2>2, <2>4, <2>5 DEF h
<1> DEFINE L == Len(texts)
           pos == [x \in 1 .. L + 1 |-> i + 1 + x]
<1>1. L \in Nat
  OBVIOUS
<1>3. ASSUME NEW x \in 1 .. L PROVE Item(toks, pos[x], pos[x + 1], texts[x])
  <2>3. i + 1 + x \in Nat /\ pos[x] = i + 1 + x /\ pos[x + 1] = (i + 1 + x) + 1
    BY <1>1
  <2>4. At(toks, i + 1 + x) = Str(texts[x])
    BY <1>0
  <2>. HIDE DEF pos
  <2>. QED  BY <2>3, <2>4, ItemString DEF Item
<1>4. pos \in [1 .. L + 1 -> Nat] /\ pos[1] = i + 2 /\ pos[L + 1] = i + 2 + L
  BY <1>1
<1>5. Reads(toks, "items", i + 2, L, i + 2 + L, texts)
  <2>. HIDE DEF pos
  <2>. QED  BY <1>3, <1>4, ItemsRead
<1>6. L \in Nat /\ i + 2 + L \in Nat /\ At(toks, i + 1) = Array(L)
  BY <1>0, <1>1
<1>7. Param(toks, i, i + 2 + L, k, texts)
  <2>. HIDE DEF L
  <2>. QED  BY <1>5, <1>6, ParamArray DEF Param
<1>. QED
  BY <1>5, <1>6, <1>7

\* The same of pairs.
LEMMA FieldsRead ==
  ASSUME NEW toks, NEW i \in Nat, NEW T, Words \subseteq T, NEW pairs \in Seq(T \X T),
         Distinct(pairs),
         Has(toks, i, Fields(pairs))
  PROVE  /\ At(toks, i) = Object(Len(pairs))
         /\ Reads(toks, "params", i + 1, Len(pairs), i + 1 + 2 * Len(pairs), Table(pairs))
<1>0. /\ At(toks, i) = Object(Len(pairs))
      /\ \A k \in 1 .. Len(pairs) :
           /\ At(toks, i - 1 + 2 * k) = Key(pairs[k][1])
           /\ At(toks, i - 1 + 2 * k + 1) = Str(pairs[k][2])
  <2> DEFINE s == Fields(pairs)
  <2>1. /\ Len(pairs) \in Nat /\ Len(s) = 2 * Len(pairs) + 1
        /\ s[1] = Object(Len(pairs))
        /\ \A k \in 1 .. Len(pairs) : s[2 * k] = Key(pairs[k][1]) /\ s[2 * k + 1] = Str(pairs[k][2])
    BY FieldsTokens, Zenon
  <2>2. Has(toks, i, s)
    OBVIOUS
  <2>. HIDE DEF s
  <2>3. \A x \in 1 .. 2 * Len(pairs) + 1 : At(toks, i + x - 1) = s[x]
    BY <2>1, <2>2 DEF Has
  <2>4. At(toks, i) = Object(Len(pairs))
    <3>1. 1 \in 1 .. 2 * Len(pairs) + 1 /\ i + 1 - 1 = i
      BY <2>1
    <3>. QED  BY <2>1, <2>3, <3>1
  <2>5. ASSUME NEW k \in 1 .. Len(pairs)
        PROVE  /\ At(toks, i - 1 + 2 * k) = Key(pairs[k][1])
               /\ At(toks, i - 1 + 2 * k + 1) = Str(pairs[k][2])
    <3>1. /\ 2 * k \in 1 .. 2 * Len(pairs) + 1 /\ i + 2 * k - 1 = i - 1 + 2 * k
          /\ 2 * k + 1 \in 1 .. 2 * Len(pairs) + 1 /\ i + (2 * k + 1) - 1 = i - 1 + 2 * k + 1
      BY <2>1
    <3>. QED  BY <2>1, <2>3, <3>1
  <2>. QED  BY <2>4, <2>5
<1> DEFINE L == Len(pairs)
           pos == [x \in 1 .. L + 1 |-> i - 1 + 2 * x]
<1>1. L \in Nat
  OBVIOUS
<1>3. ASSUME NEW x \in 1 .. L PROVE Param(toks, pos[x], pos[x + 1], pairs[x][1], pairs[x][2])
  <2>3. At(toks, i - 1 + 2 * x) = Key(pairs[x][1]) /\ At(toks, i - 1 + 2 * x + 1) = Str(pairs[x][2])
    BY <1>0
  <2>4. i - 1 + 2 * x \in Nat /\ pos[x] = i - 1 + 2 * x /\ pos[x + 1] = i - 1 + 2 * x + 2
    BY <1>1
  <2>. HIDE DEF pos
  <2>. QED  BY <2>3, <2>4, ParamString DEF Param
<1>4. pos \in [1 .. L + 1 -> Nat] /\ pos[1] = i + 1 /\ pos[L + 1] = i + 1 + 2 * L
  BY <1>1
<1>5. Reads(toks, "params", i + 1, L, i + 1 + 2 * L, Table(pairs))
  <2>. HIDE DEF pos
  <2>. QED  BY <1>3, <1>4, PairsRead
<1>. QED
  BY <1>0, <1>5

\* What a table has that got one more entry.
LEMMA WithParts ==
  ASSUME NEW k, NEW v, NEW t
  PROVE  /\ DOMAIN With(k, v, t) = DOMAIN t \cup {k}
         /\ \A x \in DOMAIN t : With(k, v, t)[x] = t[x]
         /\ k \notin DOMAIN t => With(k, v, t)[k] = v
BY DEF With

LEMMA EmptyTable == DOMAIN <<>> = {}
OBVIOUS

\* What is read of a filter.
FilterValue(f) ==
  [attribute |-> f.attribute, value |-> f.value, matchmode |-> Primitive(f.matchmode)]

\* of a filter,
LEMMA FilterRead ==
  ASSUME NEW toks, NEW i \in Nat, NEW f,
         FilterAt(toks, i, f)
  PROVE  Item(toks, i, i + 7, FilterValue(f))
<1>1. /\ At(toks, i) = Object(3)
      /\ At(toks, i + 1) = Key("attribute") /\ At(toks, i + 2) = Str(f.attribute)
      /\ At(toks, i + 3) = Key("value") /\ At(toks, i + 4) = Str(f.value)
      /\ At(toks, i + 5) = Key("matchmode") /\ At(toks, i + 6) = Prim(f.matchmode)
  <2>1. /\ FilterTokens(f)[1] = Object(3)
        /\ FilterTokens(f)[2] = Key("attribute") /\ FilterTokens(f)[3] = Str(f.attribute)
        /\ FilterTokens(f)[4] = Key("value") /\ FilterTokens(f)[5] = Str(f.value)
        /\ FilterTokens(f)[6] = Key("matchmode") /\ FilterTokens(f)[7] = Prim(f.matchmode)
    BY DEF FilterTokens
  <2>2. /\ i + 1 - 1 = i /\ i + 2 - 1 = i + 1 /\ i + 3 - 1 = i + 2 /\ i + 4 - 1 = i + 3
        /\ i + 5 - 1 = i + 4 /\ i + 6 - 1 = i + 5 /\ i + 7 - 1 = i + 6
    OBVIOUS
  <2>3. \A c \in {1, 2, 3, 4, 5, 6, 7} : At(toks, i + c - 1) = FilterTokens(f)[c]
    BY DEF FilterAt
  <2>. QED  BY <2>1, <2>2, <2>3
<1> DEFINE t1 == With("matchmode", Primitive(f.matchmode), <<>>)
           t2 == With("value", f.value, t1)
           t3 == With("attribute", f.attribute, t2)
<1>2. Reads(toks, "params", i + 7, 0, i + 7, <<>>)
  BY NoParams
<1>3. Reads(toks, "params", i + 5, 1, i + 7, t1)
  <2>1. (i + 5) + 2 = i + 7 /\ (i + 5) + 1 = i + 6 /\ 1 - 1 = 0
    OBVIOUS
  <2>. QED  BY <1>1, <1>2, <2>1, ParamPrimitive
<1>. HIDE DEF t1
<1>4. Reads(toks, "params", i + 3, 2, i + 7, t2)
  <2>1. (i + 3) + 2 = i + 5 /\ (i + 3) + 1 = i + 4 /\ 2 - 1 = 1
    OBVIOUS
  <2>. QED  BY <1>1, <1>3, <2>1, ParamString
<1>. HIDE DEF t2
<1>5. Reads(toks, "params", i + 1, 3, i + 7, t3)
  <2>1. (i + 1) + 2 = i + 3 /\ (i + 1) + 1 = i + 2 /\ 3 - 1 = 2
    OBVIOUS
  <2>. QED  BY <1>1, <1>4, <2>1, ParamString
<1>6. t3 = FilterValue(f)
  <2>1. DOMAIN t1 = {"matchmode"} /\ t1["matchmode"] = Primitive(f.matchmode)
    <3>1. t1 = [k \in {"matchmode"} |-> Primitive(f.matchmode)]
      BY EmptyTable DEF t1, With
    <3>. QED  BY <3>1
  <2>2. t2 = [k \in {"matchmode", "value"} |-> IF k = "matchmode" THEN t1[k] ELSE f.value]
    BY <2>1 DEF t2, With
  <2>3. /\ DOMAIN t2 = {"matchmode", "value"}
        /\ t2["matchmode"] = Primitive(f.matchmode) /\ t2["value"] = f.value
    BY <2>1, <2>2
  <2>4. t3 = [k \in {"attribute", "value", "matchmode"} |->
                IF k \in {"matchmode", "value"} THEN t2[k] ELSE f.attribute]
    BY <2>3 DEF t3, With
  <2>5. FilterValue(f) = [k \in {"attribute", "value", "matchmode"} |->
                            IF k \in {"matchmode", "value"} THEN t2[k] ELSE f.attribute]
    BY <2>3 DEF FilterValue
  <2>. QED  BY <2>4, <2>5
<1>. HIDE DEF t3
<1>7. ASSUME NEW n \in Nat, NEW j \in Nat, NEW rest, n > 0, Reads(toks, "items", i + 7, n - 1, j, rest)
      PROVE  Reads(toks, "items", i, n, j, <<FilterValue(f)>> \o rest)
  <2>1. i + 7 \in Nat /\ 3 \in Nat
    OBVIOUS
  <2>. QED  BY <1>1, <1>5, <1>6, <1>7, <2>1, ItemObject
<1>. QED
  BY <1>7 DEF Item

\* and of a list of filters.
LEMMA FiltersHad ==
  ASSUME NEW toks, NEW i \in Nat, NEW T, Words \subseteq T, NEW F, NEW filters \in Seq(F),
         FilterTexts(F, T), Has(toks, i, Filters(filters))
  PROVE  /\ At(toks, i) = Array(Len(filters))
         /\ \A k \in 1 .. Len(filters) : FilterAt(toks, i - 6 + 7 * k, filters[k])
<1>1. /\ Len(filters) \in Nat /\ Len(Filters(filters)) = 7 * Len(filters) + 1
      /\ Filters(filters)[1] = Array(Len(filters)) /\ Sevens(Filters(filters), filters)
  BY FiltersTokens, Zenon
<1>2. \A x \in 1 .. 7 * Len(filters) + 1 : At(toks, i + x - 1) = Filters(filters)[x]
  BY <1>1 DEF Has
<1>3. At(toks, i) = Array(Len(filters))
  <2>1. 1 \in 1 .. 7 * Len(filters) + 1 /\ i + 1 - 1 = i
    BY <1>1
  <2>. QED  BY <1>1, <1>2, <2>1
<1>4. ASSUME NEW k \in 1 .. Len(filters), NEW c \in 1 .. 7
      PROVE  At(toks, i - 6 + 7 * k + c - 1) = FilterTokens(filters[k])[c]
  <2> DEFINE x == 7 * (k - 1) + c + 1
  <2>1. x \in 1 .. 7 * Len(filters) + 1 /\ i + x - 1 = i - 6 + 7 * k + c - 1
    BY <1>1
  <2>2. Filters(filters)[x] = FilterTokens(filters[k])[c]
    BY <1>1 DEF Sevens
  <2>. HIDE DEF x
  <2>3. At(toks, i + x - 1) = Filters(filters)[x]
    BY <1>2, <2>1
  <2>. QED  BY <2>1, <2>2, <2>3
<1>. QED  BY <1>3, <1>4 DEF FilterAt

LEMMA FiltersRead ==
  ASSUME NEW toks, NEW i \in Nat, NEW T, Words \subseteq T, NEW F, NEW filters \in Seq(F), NEW k,
         FilterTexts(F, T),
         At(toks, i) = Key(k), Has(toks, i + 1, Filters(filters))
  PROVE  Param(toks, i, i + 2 + 7 * Len(filters), k, [x \in DOMAIN filters |-> FilterValue(filters[x])])
<1>a. i + 1 \in Nat
  OBVIOUS
<1>b. At(toks, i + 1) = Array(Len(filters))
  BY <1>a, FiltersHad, Zenon
<1>0. \A x \in 1 .. Len(filters) : FilterAt(toks, (i + 1) - 6 + 7 * x, filters[x])
  BY <1>a, FiltersHad, Zenon
<1> DEFINE L == Len(filters)
           pos == [x \in 1 .. L + 1 |-> i - 5 + 7 * x]
           values == [x \in 1 .. L |-> FilterValue(filters[x])]
<1>1. L \in Nat
  OBVIOUS
<1>3. ASSUME NEW x \in 1 .. L PROVE Item(toks, pos[x], pos[x + 1], values[x])
  <2>1. i - 5 + 7 * x \in Nat /\ pos[x] = i - 5 + 7 * x /\ pos[x + 1] = i - 5 + 7 * x + 7
    BY <1>1
  <2>2. FilterAt(toks, i - 5 + 7 * x, filters[x])
    <3>1. (i + 1) - 6 + 7 * x = i - 5 + 7 * x
      BY <1>1
    <3>. QED  BY <1>0, <3>1
  <2>. HIDE DEF pos
  <2>3. Item(toks, pos[x], pos[x + 1], FilterValue(filters[x]))
    BY <2>1, <2>2, FilterRead
  <2>. QED  BY <2>3
<1>4. pos \in [1 .. L + 1 -> Nat] /\ pos[1] = i + 2 /\ pos[L + 1] = i + 2 + 7 * L
  BY <1>1
<1> DEFINE V == {FilterValue(filters[x]) : x \in 1 .. L}
<1>5. values \in Seq(V) /\ Len(values) = L
  BY <1>1
<1>6. Reads(toks, "items", i + 2, L, i + 2 + 7 * L, values)
  <2>. HIDE DEF pos, values, L, V
  <2>. QED  BY <1>3, <1>4, <1>5, ItemsRead
<1>7. values = [x \in DOMAIN filters |-> FilterValue(filters[x])]
  BY <1>1
<1>8. L \in Nat /\ i + 2 + 7 * L \in Nat /\ At(toks, i + 1) = Array(L)
  BY <1>b, <1>1
<1>9. Param(toks, i, i + 2 + 7 * L, k, values)
  <2>. HIDE DEF L, values
  <2>. QED  BY <1>6, <1>8, ParamArray DEF Param
<1>. QED
  BY <1>7, <1>9

-----------------------------------------------------------------------------
\* How the messages begin and end.
LEMMA WordsTokens ==
  ASSUME NEW T, Words \subseteq T
  PROVE  /\ \A x \in T : Key(x) \in Tokens(T) /\ Str(x) \in Tokens(T) /\ Prim(x) \in Tokens(T)
         /\ \A n \in Nat : Object(n) \in Tokens(T) /\ Array(n) \in Tokens(T)
         /\ \A x \in Words : x \in T
<1>1. "" \in T
  BY DEF Words
<1>. QED
  BY <1>1 DEF Key, Str, Prim, Object, Array, Token, Tokens

LEMMA HeaderTokens ==
  ASSUME NEW T, Words \subseteq T, NEW method \in T
  PROVE  /\ Header(method) \in Seq(Tokens(T)) /\ Len(Header(method)) = 6
         /\ Header(method)[1] = Key("jsonrpc") /\ Header(method)[2] = Str("2.0")
         /\ Header(method)[3] = Key("id") /\ Header(method)[4] = Str("id-xpto-123")
         /\ Header(method)[5] = Key("method") /\ Header(method)[6] = Str(method)
<1>1. /\ Key("jsonrpc") \in Tokens(T) /\ Key("id") \in Tokens(T) /\ Key("method") \in Tokens(T)
      /\ Str("2.0") \in Tokens(T) /\ Str("id-xpto-123") \in Tokens(T) /\ Str(method) \in Tokens(T)
  BY WordsTokens DEF Words
<1>. QED  BY <1>1 DEF Header

\* The version and the identifier of a message, and the method.
LEMMA NamesRead ==
  ASSUME NEW toks, NEW i \in Nat, NEW j \in Nat, NEW rest, Len(toks) \in Nat, i + 2 <= Len(toks),
         At(toks, i) = Key("jsonrpc"), At(toks, i + 1) = Str("2.0"),
         At(toks, i + 2) = Key("id"), At(toks, i + 3) = Str("id-xpto-123"),
         Reads(toks, "message", i + 4, 0, j, rest)
  PROVE  Reads(toks, "message", i, 0, j, With("jsonrpc", "2.0", With("id", "id-xpto-123", rest)))
<1>0. "jsonrpc" \in {"jsonrpc", "method", "id"} /\ "id" \in {"jsonrpc", "method", "id"}
  OBVIOUS
<1>1. Reads(toks, "message", i + 2, 0, j, With("id", "id-xpto-123", rest))
  <2>1. (i + 2) + 1 = i + 3 /\ (i + 2) + 2 = i + 4 /\ i + 2 \in Nat
    OBVIOUS
  <2>. QED  BY <1>0, <2>1, MessageText
<1>2. i <= Len(toks)
  OBVIOUS
<1>. QED  BY <1>0, <1>1, <1>2, MessageText

LEMMA HeaderRead ==
  ASSUME NEW toks, NEW i \in Nat, NEW j \in Nat, NEW rest, Len(toks) \in Nat, i + 5 <= Len(toks),
         NEW T, Words \subseteq T, NEW method \in T, Has(toks, i, Header(method)),
         Reads(toks, "message", i + 6, 0, j, rest)
  PROVE  Reads(toks, "message", i, 0, j,
           With("jsonrpc", "2.0", With("id", "id-xpto-123", With("method", method, rest))))
<1>1. /\ Len(Header(method)) = 6
      /\ Header(method)[1] = Key("jsonrpc") /\ Header(method)[2] = Str("2.0")
      /\ Header(method)[3] = Key("id") /\ Header(method)[4] = Str("id-xpto-123")
      /\ Header(method)[5] = Key("method") /\ Header(method)[6] = Str(method)
  BY HeaderTokens
<1>2. \A x \in {1, 2, 3, 4, 5, 6} : At(toks, i + x - 1) = Header(method)[x]
  <2>1. 1 .. Len(Header(method)) = {1, 2, 3, 4, 5, 6}
    BY <1>1
  <2>. QED  BY <2>1, Zenon DEF Has
<1>3. /\ At(toks, i) = Key("jsonrpc") /\ At(toks, i + 1) = Str("2.0")
      /\ At(toks, i + 2) = Key("id") /\ At(toks, i + 3) = Str("id-xpto-123")
      /\ At(toks, i + 4) = Key("method") /\ At(toks, i + 5) = Str(method)
  <2>1. /\ i + 1 - 1 = i /\ i + 2 - 1 = i + 1 /\ i + 3 - 1 = i + 2 /\ i + 4 - 1 = i + 3
        /\ i + 5 - 1 = i + 4 /\ i + 6 - 1 = i + 5
    OBVIOUS
  <2>. QED  BY <1>1, <1>2, <2>1
<1>4. Reads(toks, "message", i + 4, 0, j, With("method", method, rest))
  <2>1. /\ (i + 4) + 1 = i + 5 /\ (i + 4) + 2 = i + 6 /\ i + 4 \in Nat /\ i + 4 <= Len(toks)
        /\ "method" \in {"jsonrpc", "method", "id"}
    OBVIOUS
  <2>. QED  BY <1>3, <2>1, MessageText
<1>5. i + 2 <= Len(toks)
  OBVIOUS
<1>. QED  BY <1>3, <1>4, <1>5, NamesRead

\* A message is understood when its keys are read up to its end: the parser may
\* nest as many calls as there are tokens.
LEMMA ParseRead ==
  ASSUME NEW toks, Len(toks) \in Nat, Len(toks) <= MaxTokens, NEW m \in Nat, At(toks, 1) = Object(m),
         NEW j \in Nat, NEW table, Reads(toks, "message", 2, 0, j, table), j <= Len(toks) + 2
  PROVE  Understood(toks, table)
<1> DEFINE r == Reader(toks)[Len(toks) + 2][<<"message", 2, 0>>]
<1>1. Len(toks) + 2 \in Nat /\ 2 + (Len(toks) + 2) > j /\ j > 0
  BY DEF Reads
<1>2. r = Done(j, table)
  <2> DEFINE d == Len(toks) + 2
  <2>1. d \in Nat /\ 2 + d > j
    BY <1>1
  <2>. HIDE DEF d
  <2>2. Reader(toks)[d][<<"message", 2, 0>>] = Done(j, table)
    BY <2>1 DEF Reads
  <2>. QED  BY <2>2 DEF d
<1>. HIDE DEF r
<1>3. Succeeded(r) /\ r.value = table
  BY <1>1, <1>2, DoneParts DEF Succeeded
<1>4. At(toks, 1).type = "object"
  BY TokenParts
<1>5. Parse(toks) = [ok |-> Succeeded(r), value |-> Rpc(r.value)]
  BY <1>4 DEF Parse, r
<1>6. Parse(toks).ok /\ Parse(toks).value = Rpc(table)
  <2>1. Parse(toks).ok = Succeeded(r) /\ Parse(toks).value = Rpc(r.value)
    BY <1>5
  <2>. QED  BY <1>3, <2>1, Zenon
<1>. QED  BY <1>6 DEF Understood

\* A function, which is given by its values.
Fun(f) == f = [x \in DOMAIN f |-> f[x]]

\* Tables of one, two, three and four entries.
LEMMA OneEntry ==
  ASSUME NEW k, NEW v
  PROVE  /\ DOMAIN With(k, v, <<>>) = {k} /\ With(k, v, <<>>)[k] = v
         /\ With(k, v, <<>>) = [x \in {k} |-> v]
<1>1. With(k, v, <<>>) = [x \in {k} |-> v]
  BY EmptyTable DEF With
<1>. QED  BY <1>1

LEMMA Entry ==
  ASSUME NEW k, NEW v, NEW table, k \notin DOMAIN table
  PROVE  /\ DOMAIN With(k, v, table) = DOMAIN table \cup {k} /\ With(k, v, table)[k] = v
         /\ \A x \in DOMAIN table : With(k, v, table)[x] = table[x]
         /\ Fun(With(k, v, table))
BY DEF With, Fun

\* A table of two, three or four entries is a record.
LEMMA Table1 ==
  ASSUME NEW v PROVE With("value", v, <<>>) = [value |-> v]
BY OneEntry

LEMMA Entries2 ==
  ASSUME NEW a, NEW b, a # b, NEW va, NEW vb
  PROVE  /\ \A x : x \in DOMAIN With(a, va, With(b, vb, <<>>)) <=> x = a \/ x = b
         /\ Fun(With(a, va, With(b, vb, <<>>)))
         /\ With(a, va, With(b, vb, <<>>))[a] = va /\ With(a, va, With(b, vb, <<>>))[b] = vb
<1> DEFINE t == With(b, vb, <<>>)
<1>1. DOMAIN t = {b} /\ t[b] = vb
  BY OneEntry
<1>. HIDE DEF t
<1>2. a \notin DOMAIN t
  BY <1>1
<1>3. /\ DOMAIN With(a, va, t) = DOMAIN t \cup {a} /\ With(a, va, t)[a] = va
      /\ \A x \in DOMAIN t : With(a, va, t)[x] = t[x]
      /\ Fun(With(a, va, t))
  BY <1>2, Entry, Zenon
<1>4. (\A x : x \in DOMAIN With(a, va, t) <=> x = a \/ x = b) /\ With(a, va, t)[b] = vb
  BY <1>1, <1>3
<1>. QED  BY <1>3, <1>4 DEF t

LEMMA Entries3 ==
  ASSUME NEW a, NEW b, NEW c, a # b, a # c, b # c, NEW va, NEW vb, NEW vc, NEW t,
         t = With(a, va, With(b, vb, With(c, vc, <<>>)))
  PROVE  /\ \A x : x \in DOMAIN t <=> x = a \/ x = b \/ x = c
         /\ t[a] = va /\ t[b] = vb /\ t[c] = vc
         /\ Fun(t)
<1> DEFINE u == With(b, vb, With(c, vc, <<>>))
<1>1. (\A x : x \in DOMAIN u <=> x = b \/ x = c) /\ u[b] = vb /\ u[c] = vc
  BY Entries2
<1>. HIDE DEF u
<1>2. a \notin DOMAIN u
  BY <1>1
<1>3. /\ DOMAIN With(a, va, u) = DOMAIN u \cup {a} /\ With(a, va, u)[a] = va
      /\ \A x \in DOMAIN u : With(a, va, u)[x] = u[x]
      /\ Fun(With(a, va, u))
  BY <1>2, Entry
<1>4. t = With(a, va, u)
  BY DEF u
<1>5. /\ DOMAIN t = DOMAIN u \cup {a} /\ t[a] = va
      /\ \A x \in DOMAIN u : t[x] = u[x]
      /\ Fun(t)
  BY <1>3, <1>4
<1>6. \A x : x \in DOMAIN t <=> x = a \/ x = b \/ x = c
  BY <1>1, <1>5
<1>. QED  BY <1>1, <1>5, <1>6

LEMMA Entries4 ==
  ASSUME NEW a, NEW b, NEW c, NEW d, a # b, a # c, a # d, b # c, b # d, c # d,
         NEW va, NEW vb, NEW vc, NEW vd, NEW t,
         t = With(a, va, With(b, vb, With(c, vc, With(d, vd, <<>>))))
  PROVE  /\ \A x : x \in DOMAIN t <=> x = a \/ x = b \/ x = c \/ x = d
         /\ t[a] = va /\ t[b] = vb /\ t[c] = vc /\ t[d] = vd
         /\ Fun(t)
<1> DEFINE u == With(b, vb, With(c, vc, With(d, vd, <<>>)))
<1>1. (\A x : x \in DOMAIN u <=> x = b \/ x = c \/ x = d) /\ u[b] = vb /\ u[c] = vc /\ u[d] = vd
  <2>1. u = With(b, vb, With(c, vc, With(d, vd, <<>>)))
    OBVIOUS
  <2>. HIDE DEF u
  <2>. QED  BY <2>1, Entries3
<1>2. t = With(a, va, u)
  BY DEF u
<1>. HIDE DEF u
<1>3. a \notin DOMAIN u
  BY <1>1
<1>4. /\ DOMAIN With(a, va, u) = DOMAIN u \cup {a} /\ With(a, va, u)[a] = va
      /\ \A x \in DOMAIN u : With(a, va, u)[x] = u[x]
      /\ Fun(With(a, va, u))
  BY <1>3, Entry
<1>5. /\ DOMAIN t = DOMAIN u \cup {a} /\ t[a] = va
      /\ \A x \in DOMAIN u : t[x] = u[x]
      /\ Fun(t)
  BY <1>2, <1>4
<1>6. \A x : x \in DOMAIN t <=> x = a \/ x = b \/ x = c \/ x = d
  BY <1>1, <1>5
<1>. QED  BY <1>1, <1>5, <1>6

LEMMA Tables ==
  ASSUME NEW x, NEW y, NEW z, NEW v
  PROVE  /\ With("params", x, With("jsonrpc", "2.0", With("id", "id-xpto-123", With("method", y, <<>>)))) =
              [jsonrpc |-> "2.0", id |-> "id-xpto-123", method |-> y, params |-> x]
         /\ With("jsonrpc", "2.0", With("id", "id-xpto-123", With("method", y, With("params", x, <<>>)))) =
              [jsonrpc |-> "2.0", id |-> "id-xpto-123", method |-> y, params |-> x]
         /\ With("jsonrpc", "2.0", With("id", "id-xpto-123", With("result", x, <<>>))) =
              [jsonrpc |-> "2.0", id |-> "id-xpto-123", result |-> x]
         /\ With("jsonrpc", "2.0", With("id", "id-xpto-123", With("error", x, <<>>))) =
              [jsonrpc |-> "2.0", id |-> "id-xpto-123", error |-> x]
         /\ With("code", x, With("message", y, <<>>)) = [code |-> x, message |-> y]
         /\ With("repo_dirs", x, With("filter_attrs", y, With("tags", z,
              With("include_repo_from_config", v, <<>>)))) =
              [repo_dirs |-> x, filter_attrs |-> y, tags |-> z, include_repo_from_config |-> v]
<1>1. With("params", x, With("jsonrpc", "2.0", With("id", "id-xpto-123", With("method", y, <<>>)))) =
        [jsonrpc |-> "2.0", id |-> "id-xpto-123", method |-> y, params |-> x]
  <2> DEFINE t == With("params", x, With("jsonrpc", "2.0", With("id", "id-xpto-123", With("method", y, <<>>))))
             r == [jsonrpc |-> "2.0", id |-> "id-xpto-123", method |-> y, params |-> x]
  <2>1. t = With("params", x, With("jsonrpc", "2.0", With("id", "id-xpto-123", With("method", y, <<>>))))
    OBVIOUS
  <2>. HIDE DEF t
  <2>2. /\ t["params"] = x /\ t["jsonrpc"] = "2.0" /\ t["id"] = "id-xpto-123" /\ t["method"] = y
        /\ Fun(t)
        /\ \A e : e \in DOMAIN t <=> e = "params" \/ e = "jsonrpc" \/ e = "id" \/ e = "method"
    BY <2>1, Entries4
  <2>3. r = [k \in {"params", "jsonrpc", "id", "method"} |-> t[k]]
    BY <2>2 DEF Fun
  <2>4. t = [k \in DOMAIN t |-> t[k]]
    BY <2>2 DEF Fun
  <2>. QED  BY <2>2, <2>3, <2>4 DEF t
<1>2. With("jsonrpc", "2.0", With("id", "id-xpto-123", With("method", y, With("params", x, <<>>)))) =
        [jsonrpc |-> "2.0", id |-> "id-xpto-123", method |-> y, params |-> x]
  <2> DEFINE t == With("jsonrpc", "2.0", With("id", "id-xpto-123", With("method", y, With("params", x, <<>>))))
             r == [jsonrpc |-> "2.0", id |-> "id-xpto-123", method |-> y, params |-> x]
  <2>1. t = With("jsonrpc", "2.0", With("id", "id-xpto-123", With("method", y, With("params", x, <<>>))))
    OBVIOUS
  <2>. HIDE DEF t
  <2>2. /\ t["params"] = x /\ t["jsonrpc"] = "2.0" /\ t["id"] = "id-xpto-123" /\ t["method"] = y
        /\ Fun(t)
        /\ \A e : e \in DOMAIN t <=> e = "jsonrpc" \/ e = "id" \/ e = "method" \/ e = "params"
    BY <2>1, Entries4
  <2>3. r = [k \in {"jsonrpc", "id", "method", "params"} |-> t[k]]
    BY <2>2 DEF Fun
  <2>4. t = [k \in DOMAIN t |-> t[k]]
    BY <2>2 DEF Fun
  <2>. QED  BY <2>2, <2>3, <2>4 DEF t
<1>3. ASSUME NEW k \in {"result", "error"}
      PROVE  With("jsonrpc", "2.0", With("id", "id-xpto-123", With(k, x, <<>>))) =
               [e \in {"jsonrpc", "id", k} |->
                  IF e = "jsonrpc" THEN "2.0" ELSE IF e = "id" THEN "id-xpto-123" ELSE x]
  <2> DEFINE t == With("jsonrpc", "2.0", With("id", "id-xpto-123", With(k, x, <<>>)))
  <2>1. t = With("jsonrpc", "2.0", With("id", "id-xpto-123", With(k, x, <<>>)))
    OBVIOUS
  <2>. HIDE DEF t
  <2>2. /\ t["jsonrpc"] = "2.0" /\ t["id"] = "id-xpto-123" /\ t[k] = x
        /\ Fun(t)
        /\ \A e : e \in DOMAIN t <=> e = "jsonrpc" \/ e = "id" \/ e = k
    BY <2>1, Entries3
  <2>3. t = [e \in {"jsonrpc", "id", k} |->
               IF e = "jsonrpc" THEN "2.0" ELSE IF e = "id" THEN "id-xpto-123" ELSE x]
    BY <2>2 DEF Fun
  <2>. QED  BY <2>3 DEF t
<1>4. /\ With("jsonrpc", "2.0", With("id", "id-xpto-123", With("result", x, <<>>))) =
           [jsonrpc |-> "2.0", id |-> "id-xpto-123", result |-> x]
      /\ With("jsonrpc", "2.0", With("id", "id-xpto-123", With("error", x, <<>>))) =
           [jsonrpc |-> "2.0", id |-> "id-xpto-123", error |-> x]
  BY <1>3
<1>5. With("code", x, With("message", y, <<>>)) = [code |-> x, message |-> y]
  <2> DEFINE t == With("code", x, With("message", y, <<>>))
  <2>2. t["code"] = x /\ t["message"] = y /\ Fun(t)
        /\ \A e : e \in DOMAIN t <=> e = "code" \/ e = "message"
    BY Entries2
  <2>. HIDE DEF t
  <2>3. [code |-> x, message |-> y] = [k \in {"code", "message"} |-> t[k]]
    BY <2>2 DEF Fun
  <2>4. t = [k \in DOMAIN t |-> t[k]]
    BY <2>2 DEF Fun
  <2>. QED  BY <2>2, <2>3, <2>4 DEF t
<1>6. With("repo_dirs", x, With("filter_attrs", y, With("tags", z,
        With("include_repo_from_config", v, <<>>)))) =
        [repo_dirs |-> x, filter_attrs |-> y, tags |-> z, include_repo_from_config |-> v]
  <2> DEFINE t == With("repo_dirs", x, With("filter_attrs", y, With("tags", z,
                    With("include_repo_from_config", v, <<>>))))
             r == [repo_dirs |-> x, filter_attrs |-> y, tags |-> z, include_repo_from_config |-> v]
  <2>1. t = With("repo_dirs", x, With("filter_attrs", y, With("tags", z,
              With("include_repo_from_config", v, <<>>))))
    OBVIOUS
  <2>. HIDE DEF t
  <2>2. /\ t["repo_dirs"] = x /\ t["filter_attrs"] = y /\ t["tags"] = z
        /\ t["include_repo_from_config"] = v
        /\ Fun(t)
        /\ \A e : e \in DOMAIN t <=>
             e = "repo_dirs" \/ e = "filter_attrs" \/ e = "tags" \/ e = "include_repo_from_config"
    BY <2>1, Entries4
  <2>3. r = [k \in {"repo_dirs", "filter_attrs", "tags", "include_repo_from_config"} |-> t[k]]
    BY <2>2 DEF Fun
  <2>4. t = [k \in DOMAIN t |-> t[k]]
    BY <2>2 DEF Fun
  <2>. QED  BY <2>2, <2>3, <2>4 DEF t
<1>. QED
  BY <1>1, <1>2, <1>4, <1>5, <1>6

-----------------------------------------------------------------------------
\* Where u stands, s stands, and t at place i.
Splits(u, s, i, t) == \A toks : Has(toks, 1, u) => Has(toks, 1, s) /\ Has(toks, i, t)

\* Joined lists, and where the parts stand.
LEMMA Parts ==
  ASSUME NEW V, NEW s \in Seq(V), NEW t \in Seq(V)
  PROVE  s \o t \in Seq(V) /\ Len(s \o t) = Len(s) + Len(t) /\ Splits(s \o t, s, 1 + Len(s), t)
<1>1. s \o t \in Seq(V) /\ Len(s \o t) = Len(s) + Len(t)
  BY Joined
<1>2. Splits(s \o t, s, 1 + Len(s), t)
  BY HasParts DEF Splits
<1>. QED  BY <1>1, <1>2

(***************************************************************************)
(* Each form of message is understood, with any texts in it and of any     *)
(* length up to MaxTokens.                                                 *)
(***************************************************************************)
\* settag and the calls like it, with any parameters whose names are distinct.
LEMMA ParamsFirstUnderstood ==
  ASSUME NEW T, Words \subseteq T, NEW method \in T, NEW pairs \in Seq(T \X T),
         Distinct(pairs),
         2 * Len(pairs) + 9 <= MaxTokens
  PROVE  Understood(ParamsFirst(method, pairs), CallMeaning(method, pairs))
<1> DEFINE L == Len(pairs)
           toks == ParamsFirst(method, pairs)
           s1 == <<Object(4), Key("params")>>
           s2 == s1 \o Fields(pairs)
           V == Tokens(T)
<1>1. L \in Nat /\ Fields(pairs) \in Seq(V) /\ Len(Fields(pairs)) = 2 * L + 1
  BY FieldsTokens, Zenon
<1>2. Header(method) \in Seq(V) /\ Len(Header(method)) = 6
  BY HeaderTokens
<1>3. s1 \in Seq(V) /\ Len(s1) = 2
  <2>1. Object(4) \in V /\ Key("params") \in V
    BY WordsTokens DEF Words
  <2>. HIDE DEF V
  <2>. QED  BY <2>1
<1>4. toks = s2 \o Header(method)
  BY DEF ParamsFirst
<1>. HIDE DEF toks, V, L
<1>5. s2 \in Seq(V) /\ Len(s2) = 2 * L + 3 /\ Splits(s2, s1, 3, Fields(pairs))
  <2>1. s2 = s1 \o Fields(pairs) /\ 1 + 2 = 3 /\ 2 + (2 * L + 1) = 2 * L + 3
    BY <1>1
  <2>. HIDE DEF s1, s2
  <2>2. /\ s1 \o Fields(pairs) \in Seq(V) /\ Len(s1 \o Fields(pairs)) = Len(s1) + Len(Fields(pairs))
        /\ Splits(s1 \o Fields(pairs), s1, 1 + Len(s1), Fields(pairs))
    BY <1>1, <1>3, Parts
  <2>. QED  BY <1>1, <1>3, <2>1, <2>2
<1>. HIDE DEF s1, s2
<1>6. toks \in Seq(V) /\ Len(toks) = 2 * L + 9 /\ Splits(toks, s2, 2 * L + 4, Header(method))
  <2>1. /\ s2 \o Header(method) \in Seq(V) /\ Len(s2 \o Header(method)) = Len(s2) + Len(Header(method))
        /\ Splits(s2 \o Header(method), s2, 1 + Len(s2), Header(method))
    BY <1>2, <1>5, Parts
  <2>2. 1 + (2 * L + 3) = 2 * L + 4 /\ (2 * L + 3) + 6 = 2 * L + 9
    BY <1>1
  <2>. QED  BY <1>2, <1>4, <1>5, <2>1, <2>2
<1>7. Has(toks, 1, toks)
  BY <1>6, HasAll
<1>8. Has(toks, 1, s1) /\ Has(toks, 3, Fields(pairs)) /\ Has(toks, 2 * L + 4, Header(method))
  BY <1>5, <1>6, <1>7 DEF Splits
<1>9. At(toks, 1) = Object(4) /\ At(toks, 2) = Key("params")
  <2>1. 1 \in 1 .. Len(s1) /\ 2 \in 1 .. Len(s1) /\ 1 + 1 - 1 = 1 /\ 1 + 2 - 1 = 2
        /\ s1[1] = Object(4) /\ s1[2] = Key("params")
    BY <1>3 DEF s1
  <2>. QED  BY <1>8, <2>1 DEF Has
<1>10. At(toks, 3) = Object(L) /\ Reads(toks, "params", 4, L, 2 * L + 4, Table(pairs))
  <2>1. At(toks, 3) = Object(L) /\ Reads(toks, "params", 3 + 1, L, 3 + 1 + 2 * L, Table(pairs))
    BY <1>8, FieldsRead, Zenon DEF L
  <2>2. 3 + 1 = 4 /\ 3 + 1 + 2 * L = 2 * L + 4
    BY <1>1
  <2>. QED  BY <2>1, <2>2
<1>11. Reads(toks, "message", 2 * L + 10, 0, 2 * L + 10, <<>>)
  BY <1>1, <1>6, MessageEnd
<1> DEFINE rest == With("jsonrpc", "2.0", With("id", "id-xpto-123", With("method", method, <<>>)))
<1>12. Reads(toks, "message", 2 * L + 4, 0, 2 * L + 10, rest)
  <2>1. 2 * L + 4 \in Nat /\ 2 * L + 10 \in Nat /\ (2 * L + 4) + 6 = 2 * L + 10 /\ Len(toks) \in Nat
        /\ (2 * L + 4) + 5 <= Len(toks)
    BY <1>1, <1>6
  <2>. QED  BY <1>8, <1>11, <2>1, HeaderRead
<1>. HIDE DEF rest
<1>13. Reads(toks, "message", 2, 0, 2 * L + 10, With("params", Table(pairs), rest))
  <2>1. 2 * L + 4 \in Nat /\ 2 * L + 10 \in Nat /\ 2 <= Len(toks) /\ Len(toks) \in Nat
        /\ "params" \in {"params", "result", "error"} /\ 2 + 1 = 3 /\ 2 + 2 = 4
    BY <1>1, <1>6
  <2>. QED  BY <1>1, <1>9, <1>10, <1>12, <2>1, MessageObject
<1>14. With("params", Table(pairs), rest) = CallMeaning(method, pairs)
  BY Tables DEF rest, CallMeaning
<1>15. Understood(toks, With("params", Table(pairs), rest))
  <2>1. Len(toks) \in Nat /\ Len(toks) <= MaxTokens /\ 2 * L + 10 <= Len(toks) + 2 /\ 2 * L + 10 \in Nat
        /\ 4 \in Nat
    BY <1>1, <1>6 DEF L
  <2>. QED  BY <1>9, <1>13, <2>1, ParseRead
<1>. QED
  BY <1>14, <1>15 DEF toks

\* inserttag and the calls that print their parameters behind the method.
LEMMA ParamsLastUnderstood ==
  ASSUME NEW T, Words \subseteq T, NEW method \in T, NEW pairs \in Seq(T \X T),
         Distinct(pairs),
         2 * Len(pairs) + 9 <= MaxTokens
  PROVE  Understood(ParamsLast(method, pairs), CallMeaning(method, pairs))
<1> DEFINE L == Len(pairs)
           toks == ParamsLast(method, pairs)
           s1 == <<Object(4)>>
           s2 == s1 \o Header(method)
           k == <<Key("params")>>
           s3 == s2 \o k
           V == Tokens(T)
<1>1. L \in Nat /\ Fields(pairs) \in Seq(V) /\ Len(Fields(pairs)) = 2 * L + 1
  BY FieldsTokens, Zenon
<1>2. Header(method) \in Seq(V) /\ Len(Header(method)) = 6
  BY HeaderTokens
<1>3. /\ s1 \in Seq(V) /\ Len(s1) = 1
      /\ k \in Seq(V) /\ Len(k) = 1 /\ k[1] = Key("params")
  <2>1. Object(4) \in V /\ Key("params") \in V
    BY WordsTokens DEF Words
  <2>. HIDE DEF V
  <2>. QED  BY <2>1
<1>4. toks = s3 \o Fields(pairs) /\ s3 = s2 \o k /\ s2 = s1 \o Header(method)
      /\ s1 = <<Object(4)>>
  BY DEF ParamsLast
<1>. HIDE DEF toks, V, L, s1, s2, s3, k
<1>5. s2 \in Seq(V) /\ Len(s2) = 7 /\ Splits(s2, s1, 2, Header(method))
  <2>1. 7 = Len(s1) + Len(Header(method)) /\ 2 = 1 + Len(s1)
    BY <1>2, <1>3
  <2>2. /\ s1 \o Header(method) \in Seq(V) /\ Len(s1 \o Header(method)) = Len(s1) + Len(Header(method))
        /\ Splits(s1 \o Header(method), s1, 1 + Len(s1), Header(method))
    BY <1>2, <1>3, Parts
  <2>. QED  BY <1>2, <1>3, <1>4, <2>1, <2>2
<1>6. s3 \in Seq(V) /\ Len(s3) = 8 /\ Splits(s3, s2, 8, k)
  <2>1. 8 = Len(s2) + Len(k) /\ 8 = 1 + Len(s2)
    BY <1>3, <1>5
  <2>2. /\ s2 \o k \in Seq(V) /\ Len(s2 \o k) = Len(s2) + Len(k)
        /\ Splits(s2 \o k, s2, 1 + Len(s2), k)
    BY <1>3, <1>5, Parts
  <2>. QED  BY <1>3, <1>4, <1>5, <2>1, <2>2
<1>7. toks \in Seq(V) /\ Len(toks) = 2 * L + 9 /\ Splits(toks, s3, 9, Fields(pairs))
  <2>1. 2 * L + 9 = Len(s3) + Len(Fields(pairs)) /\ 9 = 1 + Len(s3)
    BY <1>1, <1>6
  <2>2. /\ s3 \o Fields(pairs) \in Seq(V) /\ Len(s3 \o Fields(pairs)) = Len(s3) + Len(Fields(pairs))
        /\ Splits(s3 \o Fields(pairs), s3, 1 + Len(s3), Fields(pairs))
    BY <1>1, <1>6, Parts
  <2>. QED  BY <1>1, <1>4, <1>6, <2>1, <2>2
<1>8. /\ Has(toks, 1, s1) /\ Has(toks, 2, Header(method)) /\ Has(toks, 8, k)
      /\ Has(toks, 9, Fields(pairs))
  <2>1. Has(toks, 1, toks)
    BY <1>7, HasAll
  <2>. QED  BY <1>5, <1>6, <1>7, <2>1 DEF Splits
<1>9. At(toks, 1) = Object(4) /\ At(toks, 8) = Key("params")
  <2>1. /\ 1 \in 1 .. Len(s1) /\ 1 \in 1 .. Len(k) /\ 1 + 1 - 1 = 1 /\ 8 + 1 - 1 = 8
        /\ s1[1] = Object(4) /\ k[1] = Key("params")
    BY <1>3, <1>4
  <2>. QED  BY <1>8, <2>1 DEF Has
<1>10. At(toks, 9) = Object(L) /\ Reads(toks, "params", 10, L, 2 * L + 10, Table(pairs))
  <2>1. At(toks, 9) = Object(L) /\ Reads(toks, "params", 9 + 1, L, 9 + 1 + 2 * L, Table(pairs))
    BY <1>8, FieldsRead, Zenon DEF L
  <2>2. 9 + 1 = 10 /\ 9 + 1 + 2 * L = 2 * L + 10
    BY <1>1
  <2>. QED  BY <2>1, <2>2
<1>11. Reads(toks, "message", 2 * L + 10, 0, 2 * L + 10, <<>>)
  BY <1>1, <1>7, MessageEnd
<1> DEFINE rest == With("params", Table(pairs), <<>>)
           all == With("jsonrpc", "2.0", With("id", "id-xpto-123", With("method", method, rest)))
<1>12. Reads(toks, "message", 8, 0, 2 * L + 10, rest)
  <2>1. /\ 2 * L + 10 \in Nat /\ 8 <= Len(toks) /\ Len(toks) \in Nat
        /\ "params" \in {"params", "result", "error"} /\ 8 + 1 = 9 /\ 8 + 2 = 10
    BY <1>1, <1>7
  <2>. QED  BY <1>1, <1>9, <1>10, <1>11, <2>1, MessageObject
<1>. HIDE DEF rest
<1>13. Reads(toks, "message", 2, 0, 2 * L + 10, all)
  <2>1. 2 * L + 10 \in Nat /\ 2 + 6 = 8 /\ Len(toks) \in Nat /\ 2 + 5 <= Len(toks)
    BY <1>1, <1>7
  <2>. QED  BY <1>8, <1>12, <2>1, HeaderRead
<1>14. all = CallMeaning(method, pairs)
  BY Tables DEF rest, CallMeaning
<1>. HIDE DEF all
<1>15. Understood(toks, all)
  <2>1. Len(toks) \in Nat /\ Len(toks) <= MaxTokens /\ 2 * L + 10 <= Len(toks) + 2 /\ 2 * L + 10 \in Nat
        /\ 4 \in Nat
    BY <1>1, <1>7 DEF L
  <2>. QED  BY <1>9, <1>13, <2>1, ParseRead
<1>. QED
  BY <1>14, <1>15 DEF toks

\* What stands where in an answer.
LEMMA ResponseHad ==
  ASSUME NEW T, Words \subseteq T, NEW value \in Seq(Tokens(T))
  PROVE  /\ Len(Response(value)) = 8 + Len(value) /\ Len(value) \in Nat
         /\ At(Response(value), 1) = Object(3)
         /\ At(Response(value), 2) = Key("jsonrpc") /\ At(Response(value), 3) = Str("2.0")
         /\ At(Response(value), 4) = Key("id") /\ At(Response(value), 5) = Str("id-xpto-123")
         /\ At(Response(value), 6) = Key("result") /\ At(Response(value), 7) = Object(1)
         /\ At(Response(value), 8) = Key("value")
         /\ Has(Response(value), 9, value)
<1> DEFINE V == Tokens(T)
           toks == Response(value)
           s == <<Object(3), Key("jsonrpc"), Str("2.0"), Key("id"), Str("id-xpto-123"), Key("result"),
                  Object(1), Key("value")>>
<1>1. s \in Seq(V) /\ Len(s) = 8
  <2>1. /\ Object(3) \in V /\ Object(1) \in V /\ Key("jsonrpc") \in V /\ Str("2.0") \in V
        /\ Key("id") \in V /\ Str("id-xpto-123") \in V /\ Key("result") \in V /\ Key("value") \in V
    BY WordsTokens DEF Words
  <2>. HIDE DEF V
  <2>. QED  BY <2>1
<1>2. toks = s \o value /\ Len(value) \in Nat
  BY DEF Response
<1>3. toks \in Seq(V) /\ Len(toks) = 8 + Len(value) /\ Splits(toks, s, 9, value)
  <2>. HIDE DEF toks, V, s
  <2>1. 9 = 1 + Len(s) /\ 8 + Len(value) = Len(s) + Len(value) /\ value \in Seq(V)
    BY <1>1 DEF V
  <2>2. /\ s \o value \in Seq(V) /\ Len(s \o value) = Len(s) + Len(value)
        /\ Splits(s \o value, s, 1 + Len(s), value)
    BY <1>1, <2>1, Parts
  <2>. QED  BY <1>1, <1>2, <2>1, <2>2
<1>4. Has(toks, 1, s) /\ Has(toks, 9, value)
  <2>. HIDE DEF toks, V, s
  <2>1. Has(toks, 1, toks)
    BY <1>3, HasAll
  <2>. QED  BY <1>3, <2>1 DEF Splits
<1>5. \A x \in {1, 2, 3, 4, 5, 6, 7, 8} : At(toks, x) = s[x]
  <2>. HIDE DEF toks, V, s
  <2>1. \A x \in {1, 2, 3, 4, 5, 6, 7, 8} : x \in 1 .. Len(s) /\ 1 + x - 1 = x
    BY <1>1
  <2>. QED  BY <1>4, <2>1 DEF Has
<1>6. /\ s[1] = Object(3) /\ s[2] = Key("jsonrpc") /\ s[3] = Str("2.0") /\ s[4] = Key("id")
      /\ s[5] = Str("id-xpto-123") /\ s[6] = Key("result") /\ s[7] = Object(1) /\ s[8] = Key("value")
  OBVIOUS
<1>. HIDE DEF toks, s
<1>7. /\ Len(toks) = 8 + Len(value) /\ Len(value) \in Nat /\ Has(toks, 9, value)
      /\ At(toks, 1) = Object(3) /\ At(toks, 2) = Key("jsonrpc") /\ At(toks, 3) = Str("2.0")
      /\ At(toks, 4) = Key("id") /\ At(toks, 5) = Str("id-xpto-123")
      /\ At(toks, 6) = Key("result") /\ At(toks, 7) = Object(1) /\ At(toks, 8) = Key("value")
  BY <1>2, <1>3, <1>4, <1>5, <1>6
<1>. QED
  BY <1>7, Zenon DEF toks

\* An answer is understood when its value is read.
LEMMA ResultUnderstood ==
  ASSUME NEW T, Words \subseteq T, NEW value \in Seq(Tokens(T)), 8 + Len(value) <= MaxTokens,
         NEW j \in Nat, j > 8 + Len(value), j <= 10 + Len(value), NEW v,
         Reads(Response(value), "params", 8, 1, j, With("value", v, <<>>))
  PROVE  Understood(Response(value), ResultMeaning(v))
<1> DEFINE toks == Response(value)
           table == With("value", v, <<>>)
           rest == With("result", table, <<>>)
<1>1. /\ Len(toks) = 8 + Len(value) /\ Len(value) \in Nat
      /\ At(toks, 1) = Object(3) /\ At(toks, 2) = Key("jsonrpc") /\ At(toks, 3) = Str("2.0")
      /\ At(toks, 4) = Key("id") /\ At(toks, 5) = Str("id-xpto-123")
      /\ At(toks, 6) = Key("result") /\ At(toks, 7) = Object(1)
  BY ResponseHad, Zenon
<1>2. Reads(toks, "params", 8, 1, j, table)
  OBVIOUS
<1>. HIDE DEF toks, table
<1>3. Reads(toks, "message", j, 0, j, <<>>)
  BY <1>1, MessageEnd
<1>4. Reads(toks, "message", 6, 0, j, rest)
  <2>1. /\ 6 <= Len(toks) /\ Len(toks) \in Nat
        /\ "result" \in {"params", "result", "error"} /\ 6 + 1 = 7 /\ 6 + 2 = 8
    BY <1>1
  <2>. QED  BY <1>1, <1>2, <1>3, <2>1, MessageObject
<1>. HIDE DEF rest
<1> DEFINE all == With("jsonrpc", "2.0", With("id", "id-xpto-123", rest))
<1>5. Reads(toks, "message", 2, 0, j, all)
  <2>1. 2 + 2 <= Len(toks) /\ Len(toks) \in Nat /\ 2 + 1 = 3 /\ 2 + 2 = 4 /\ 2 + 3 = 5 /\ 2 + 4 = 6
    BY <1>1
  <2>. QED  BY <1>1, <1>4, <2>1, NamesRead
<1>6. all = ResultMeaning(v)
  <2>1. table = [value |-> v]
    BY Table1 DEF table
  <2>2. all = [jsonrpc |-> "2.0", id |-> "id-xpto-123", result |-> table]
    BY Tables DEF rest
  <2>. QED  BY <2>1, <2>2 DEF ResultMeaning
<1>. HIDE DEF all
<1>7. Understood(toks, all)
  <2>1. Len(toks) \in Nat /\ Len(toks) <= MaxTokens /\ j <= Len(toks) + 2 /\ 3 \in Nat
    BY <1>1
  <2>. QED  BY <1>1, <1>5, <2>1, ParseRead
<1>. QED
  BY <1>6, <1>7 DEF toks

\* A list of paths or tags,
LEMMA ListResponseUnderstood ==
  ASSUME NEW T, Words \subseteq T, NEW texts \in Seq(T), Len(texts) + 9 <= MaxTokens
  PROVE  Understood(ListResponse(texts), ResultMeaning(texts))
<1> DEFINE L == Len(texts)
           value == Strings(texts)
           toks == Response(value)
           j == 10 + L
<1>1. L \in Nat /\ value \in Seq(Tokens(T)) /\ Len(value) = L + 1
  BY StringsTokens, Zenon
<1>2. At(toks, 8) = Key("value") /\ Has(toks, 9, value)
  <2>. HIDE DEF L, value
  <2>. QED  BY <1>1, ResponseHad
<1>3. Param(toks, 8, j, "value", texts)
  <2>. HIDE DEF toks
  <2>1. 8 \in Nat /\ 8 + 1 = 9 /\ 8 + 2 + L = j
    BY <1>1
  <2>2. Param(toks, 8, 8 + 2 + Len(texts), "value", texts)
    BY <1>2, <2>1, StringsRead
  <2>. QED  BY <2>1, <2>2
<1>4. Reads(toks, "params", 8, 1, j, With("value", texts, <<>>))
  <2>. HIDE DEF toks, L
  <2>1. j \in Nat /\ 1 \in Nat /\ 1 > 0 /\ 1 - 1 = 0
    BY <1>1
  <2>. HIDE DEF j
  <2>2. Reads(toks, "params", j, 0, j, <<>>)
    BY <2>1, NoParams
  <2>. QED  BY <1>3, <2>1, <2>2 DEF Param
<1>5. Understood(toks, ResultMeaning(texts))
  <2>1. /\ 8 + Len(value) <= MaxTokens /\ j \in Nat /\ j > 8 + Len(value) /\ j <= 10 + Len(value)
    BY <1>1
  <2>. HIDE DEF value, L, j
  <2>. QED  BY <1>1, <1>4, <2>1, ResultUnderstood
<1>. QED
  BY <1>5 DEF ListResponse

\* a table of attributes (the cursor skips a token behind it),
LEMMA AttrsResponseUnderstood ==
  ASSUME NEW T, Words \subseteq T, NEW pairs \in Seq(T \X T),
         Distinct(pairs),
         2 * Len(pairs) + 9 <= MaxTokens
  PROVE  Understood(AttrsResponse(pairs), ResultMeaning(Table(pairs)))
<1> DEFINE L == Len(pairs)
           value == Fields(pairs)
           toks == Response(value)
           j == 11 + 2 * L
           table == Table(pairs)
<1>1. L \in Nat /\ value \in Seq(Tokens(T)) /\ Len(value) = 2 * L + 1
  BY FieldsTokens, Zenon
<1>2. At(toks, 8) = Key("value") /\ Has(toks, 9, value)
  <2>. HIDE DEF L, value
  <2>. QED  BY <1>1, ResponseHad
<1>3. At(toks, 9) = Object(L) /\ Reads(toks, "params", 10, L, 10 + 2 * L, table)
  <2>. HIDE DEF toks
  <2>1. 9 \in Nat /\ 9 + 1 = 10
    OBVIOUS
  <2>2. At(toks, 9) = Object(L) /\ Reads(toks, "params", 9 + 1, L, 9 + 1 + 2 * L, table)
    BY <1>2, <2>1, FieldsRead, Zenon
  <2>. QED  BY <2>1, <2>2
<1>4. Reads(toks, "params", 8, 1, j, With("value", table, <<>>))
  <2>. HIDE DEF toks, L, table
  <2>1. /\ j \in Nat /\ 10 + 2 * L \in Nat /\ (10 + 2 * L) + 1 = j /\ 1 \in Nat /\ 1 > 0 /\ 1 - 1 = 0
        /\ 8 + 1 = 9 /\ 8 + 2 = 10
    BY <1>1
  <2>. HIDE DEF j
  <2>2. Reads(toks, "params", j, 0, j, <<>>)
    BY <2>1, NoParams
  <2>. QED  BY <1>1, <1>2, <1>3, <2>1, <2>2, ParamObject
<1>5. Understood(toks, ResultMeaning(table))
  <2>1. /\ 8 + Len(value) <= MaxTokens /\ j \in Nat /\ j > 8 + Len(value) /\ j <= 10 + Len(value)
    BY <1>1
  <2>. HIDE DEF value, L, j, table
  <2>. QED  BY <1>1, <1>4, <2>1, ResultUnderstood
<1>. QED
  BY <1>5 DEF AttrsResponse

\* a number or a truth value,
LEMMA PrimitiveResponseUnderstood ==
  ASSUME NEW T, Words \subseteq T, NEW x \in T, 9 <= MaxTokens
  PROVE  Understood(Response(<<Prim(x)>>), ResultMeaning(Primitive(x)))
<1> DEFINE value == <<Prim(x)>>
           toks == Response(value)
<1>1. value \in Seq(Tokens(T)) /\ Len(value) = 1 /\ value[1] = Prim(x)
  <2>1. Prim(x) \in Tokens(T)
    BY WordsTokens
  <2>. QED  BY <2>1
<1>. HIDE DEF value
<1>2. At(toks, 8) = Key("value") /\ Has(toks, 9, value)
  BY <1>1, ResponseHad
<1>. HIDE DEF toks
<1>3. At(toks, 9) = Prim(x)
  <2>1. 1 \in 1 .. Len(value) /\ 9 + 1 - 1 = 9
    BY <1>1
  <2>. QED  BY <1>1, <1>2, <2>1 DEF Has
<1>4. Reads(toks, "params", 8, 1, 10, With("value", Primitive(x), <<>>))
  <2>1. Reads(toks, "params", 10, 0, 10, <<>>)
    BY NoParams
  <2>2. 8 + 1 = 9 /\ 8 + 2 = 10 /\ 1 - 1 = 0 /\ 1 > 0 /\ 8 \in Nat /\ 10 \in Nat /\ 1 \in Nat
    OBVIOUS
  <2>. QED  BY <1>2, <1>3, <2>1, <2>2, ParamPrimitive
<1>5. Understood(toks, ResultMeaning(Primitive(x)))
  <2>1. 8 + Len(value) <= MaxTokens /\ 10 \in Nat /\ 10 > 8 + Len(value) /\ 10 <= 10 + Len(value)
    BY <1>1
  <2>. QED  BY <1>1, <1>4, <2>1, ResultUnderstood DEF toks
<1>. QED
  BY <1>5 DEF toks, value

\* and an error.
LEMMA ErrorUnderstood ==
  ASSUME NEW code, NEW message, 11 <= MaxTokens
  PROVE  Understood(ErrorResponse(code, message), ErrorMeaning(code, message))
<1> DEFINE toks == ErrorResponse(code, message)
<1>1. /\ Len(toks) = 11
      /\ At(toks, 1) = Object(3) /\ At(toks, 2) = Key("jsonrpc") /\ At(toks, 3) = Str("2.0")
      /\ At(toks, 4) = Key("id") /\ At(toks, 5) = Str("id-xpto-123")
      /\ At(toks, 6) = Key("error") /\ At(toks, 7) = Object(2)
      /\ At(toks, 8) = Key("code") /\ At(toks, 9) = Prim(code)
      /\ At(toks, 10) = Key("message") /\ At(toks, 11) = Str(message)
  BY DEF ErrorResponse, At
<1>. HIDE DEF toks
<1> DEFINE t1 == With("message", message, <<>>)
           t2 == With("code", Primitive(code), t1)
           t3 == With("error", t2, <<>>)
           all == With("jsonrpc", "2.0", With("id", "id-xpto-123", t3))
<1>2. Reads(toks, "params", 10, 1, 12, t1)
  <2>1. Reads(toks, "params", 12, 0, 12, <<>>)
    BY NoParams
  <2>2. 10 + 1 = 11 /\ 10 + 2 = 12 /\ 1 - 1 = 0 /\ 1 > 0 /\ 10 \in Nat /\ 12 \in Nat /\ 1 \in Nat
    OBVIOUS
  <2>. QED  BY <1>1, <2>1, <2>2, ParamString
<1>. HIDE DEF t1
<1>3. Reads(toks, "params", 8, 2, 12, t2)
  <2>2. 8 + 1 = 9 /\ 8 + 2 = 10 /\ 2 - 1 = 1 /\ 2 > 0 /\ 8 \in Nat /\ 12 \in Nat /\ 2 \in Nat
    OBVIOUS
  <2>. QED  BY <1>1, <1>2, <2>2, ParamPrimitive
<1>. HIDE DEF t2
<1>4. Reads(toks, "message", 6, 0, 12, t3)
  <2>1. Reads(toks, "message", 12, 0, 12, <<>>)
    <3>1. Len(toks) \in Nat /\ 12 \in Nat /\ 12 > Len(toks)
      BY <1>1
    <3>. QED  BY <3>1, MessageEnd
  <2>2. /\ 6 <= Len(toks) /\ Len(toks) \in Nat /\ 2 \in Nat /\ 6 \in Nat /\ 12 \in Nat
        /\ "error" \in {"params", "result", "error"} /\ 6 + 1 = 7 /\ 6 + 2 = 8
    BY <1>1
  <2>. QED  BY <1>1, <1>3, <2>1, <2>2, MessageObject
<1>. HIDE DEF t3
<1>5. Reads(toks, "message", 2, 0, 12, all)
  <2>1. /\ 2 + 2 <= Len(toks) /\ Len(toks) \in Nat /\ 2 + 1 = 3 /\ 2 + 2 = 4 /\ 2 + 3 = 5 /\ 2 + 4 = 6
        /\ 2 \in Nat /\ 12 \in Nat
    BY <1>1
  <2>. QED  BY <1>1, <1>4, <2>1, NamesRead
<1>6. all = ErrorMeaning(code, message)
  <2>1. t2 = [code |-> Primitive(code), message |-> message]
    BY Tables DEF t1, t2
  <2>2. all = [jsonrpc |-> "2.0", id |-> "id-xpto-123", error |-> t2]
    BY Tables DEF t3
  <2>. QED  BY <2>1, <2>2 DEF ErrorMeaning
<1>. HIDE DEF all
<1>7. Understood(toks, all)
  <2>1. Len(toks) \in Nat /\ Len(toks) <= MaxTokens /\ 12 <= Len(toks) + 2 /\ 3 \in Nat /\ 12 \in Nat
    BY <1>1
  <2>. QED  BY <1>1, <1>5, <2>1, ParseRead
<1>. QED
  BY <1>6, <1>7 DEF toks

\* What stands where in a search with D folders: the filters at q, the tags at r
\* and the last parameter at u.
LEMMA SearchHad ==
  ASSUME NEW T, Words \subseteq T, NEW dirs \in Seq(T), NEW F, NEW filters \in Seq(F),
         FilterTexts(F, T), NEW tags \in Seq(T), NEW config \in T,
         NEW D, D = Len(dirs), NEW q, q = 6 + D, NEW r, r = 2 + q + 7 * Len(filters),
         NEW u, u = 2 + r + Len(tags),
         NEW toks, toks = SearchMessage(dirs, filters, tags, config)
  PROVE  /\ q \in Nat /\ r \in Nat /\ u \in Nat /\ Len(toks) = u + 7
         /\ At(toks, 1) = Object(4) /\ At(toks, 2) = Key("params") /\ At(toks, 3) = Object(4)
         /\ At(toks, 4) = Key("repo_dirs") /\ Has(toks, 5, Strings(dirs))
         /\ At(toks, q) = Key("filter_attrs") /\ Has(toks, q + 1, Filters(filters))
         /\ At(toks, r) = Key("tags") /\ Has(toks, r + 1, Strings(tags))
         /\ At(toks, u) = Key("include_repo_from_config") /\ At(toks, u + 1) = Prim(config)
         /\ Has(toks, u + 2, Header("search"))
<1> DEFINE V == Tokens(T)
           s1 == <<Object(4), Key("params"), Object(4), Key("repo_dirs")>>
           s2 == s1 \o Strings(dirs)
           k2 == <<Key("filter_attrs")>>
           s3 == s2 \o k2
           s4 == s3 \o Filters(filters)
           k4 == <<Key("tags")>>
           s5 == s4 \o k4
           s6 == s5 \o Strings(tags)
           k6 == <<Key("include_repo_from_config"), Prim(config)>>
           s7 == s6 \o k6
           F1 == Len(filters)
           T1 == Len(tags)
<1>1. D \in Nat /\ F1 \in Nat /\ T1 \in Nat
  OBVIOUS
<1>2. Strings(dirs) \in Seq(V) /\ Len(Strings(dirs)) = D + 1
  BY StringsTokens, Zenon
<1>3. Filters(filters) \in Seq(V) /\ Len(Filters(filters)) = 7 * F1 + 1
  BY FiltersTokens, Zenon
<1>4. Strings(tags) \in Seq(V) /\ Len(Strings(tags)) = T1 + 1
  BY StringsTokens, Zenon
<1>5. Header("search") \in Seq(V) /\ Len(Header("search")) = 6
  <2>1. "search" \in T
    BY DEF Words
  <2>. QED  BY <2>1, HeaderTokens
<1>6. /\ s1 \in Seq(V) /\ Len(s1) = 4 /\ k2 \in Seq(V) /\ Len(k2) = 1 /\ k4 \in Seq(V) /\ Len(k4) = 1
      /\ k6 \in Seq(V) /\ Len(k6) = 2
      /\ s1[1] = Object(4) /\ s1[2] = Key("params") /\ s1[3] = Object(4) /\ s1[4] = Key("repo_dirs")
      /\ k2[1] = Key("filter_attrs") /\ k4[1] = Key("tags")
      /\ k6[1] = Key("include_repo_from_config") /\ k6[2] = Prim(config)
  <2>1. /\ Object(4) \in V /\ Key("params") \in V /\ Key("repo_dirs") \in V /\ Key("filter_attrs") \in V
        /\ Key("tags") \in V /\ Key("include_repo_from_config") \in V /\ Prim(config) \in V
    BY WordsTokens DEF Words
  <2>. HIDE DEF V
  <2>. QED  BY <2>1
<1>7. toks = s7 \o Header("search")
  BY DEF SearchMessage
<1>. HIDE DEF F1, T1, V, s1, k2, k4, k6
<1>8. s2 \in Seq(V) /\ Len(s2) = 5 + D /\ Splits(s2, s1, 5, Strings(dirs))
  <2>1. /\ s1 \o Strings(dirs) \in Seq(V) /\ Len(s1 \o Strings(dirs)) = Len(s1) + Len(Strings(dirs))
        /\ Splits(s1 \o Strings(dirs), s1, 1 + Len(s1), Strings(dirs))
    BY <1>2, <1>6, Parts
  <2>2. 1 + 4 = 5 /\ 4 + (D + 1) = 5 + D
    BY <1>1
  <2>. QED  BY <1>2, <1>6, <2>1, <2>2
<1>. HIDE DEF s2
<1>9. s3 \in Seq(V) /\ Len(s3) = q /\ Splits(s3, s2, q, k2)
  <2>1. /\ s2 \o k2 \in Seq(V) /\ Len(s2 \o k2) = Len(s2) + Len(k2)
        /\ Splits(s2 \o k2, s2, 1 + Len(s2), k2)
    BY <1>6, <1>8, Parts
  <2>2. 1 + (5 + D) = q /\ (5 + D) + 1 = q
    BY <1>1
  <2>. QED  BY <1>6, <1>8, <2>1, <2>2
<1>. HIDE DEF s3
<1>10. s4 \in Seq(V) /\ Len(s4) = 1 + q + 7 * F1 /\ Splits(s4, s3, q + 1, Filters(filters))
  <2>1. /\ s3 \o Filters(filters) \in Seq(V) /\ Len(s3 \o Filters(filters)) = Len(s3) + Len(Filters(filters))
        /\ Splits(s3 \o Filters(filters), s3, 1 + Len(s3), Filters(filters))
    BY <1>3, <1>9, Parts
  <2>2. 1 + q = q + 1 /\ q + (7 * F1 + 1) = 1 + q + 7 * F1
    BY <1>1
  <2>. QED  BY <1>3, <1>9, <2>1, <2>2
<1>. HIDE DEF s4
<1>11. s5 \in Seq(V) /\ Len(s5) = r /\ Splits(s5, s4, r, k4)
  <2>1. /\ s4 \o k4 \in Seq(V) /\ Len(s4 \o k4) = Len(s4) + Len(k4)
        /\ Splits(s4 \o k4, s4, 1 + Len(s4), k4)
    BY <1>6, <1>10, Parts
  <2>2. 1 + (1 + q + 7 * F1) = r /\ (1 + q + 7 * F1) + 1 = r
    BY <1>1 DEF F1
  <2>. QED  BY <1>6, <1>10, <2>1, <2>2
<1>. HIDE DEF s5
<1>12. s6 \in Seq(V) /\ Len(s6) = 1 + r + T1 /\ Splits(s6, s5, r + 1, Strings(tags))
  <2>1. /\ s5 \o Strings(tags) \in Seq(V) /\ Len(s5 \o Strings(tags)) = Len(s5) + Len(Strings(tags))
        /\ Splits(s5 \o Strings(tags), s5, 1 + Len(s5), Strings(tags))
    BY <1>4, <1>11, Parts
  <2>2. 1 + r = r + 1 /\ r + (T1 + 1) = 1 + r + T1
    BY <1>1 DEF F1
  <2>. QED  BY <1>4, <1>11, <2>1, <2>2
<1>. HIDE DEF s6
<1>13. s7 \in Seq(V) /\ Len(s7) = u + 1 /\ Splits(s7, s6, u, k6)
  <2>1. /\ s6 \o k6 \in Seq(V) /\ Len(s6 \o k6) = Len(s6) + Len(k6)
        /\ Splits(s6 \o k6, s6, 1 + Len(s6), k6)
    BY <1>6, <1>12, Parts
  <2>2. 1 + (1 + r + T1) = u /\ (1 + r + T1) + 2 = u + 1
    BY <1>1 DEF F1, T1
  <2>. QED  BY <1>6, <1>12, <2>1, <2>2
<1>. HIDE DEF s7
<1>14. toks \in Seq(V) /\ Len(toks) = u + 7 /\ Splits(toks, s7, u + 2, Header("search"))
  <2>1. /\ s7 \o Header("search") \in Seq(V)
        /\ Len(s7 \o Header("search")) = Len(s7) + Len(Header("search"))
        /\ Splits(s7 \o Header("search"), s7, 1 + Len(s7), Header("search"))
    BY <1>5, <1>13, Parts
  <2>2. 1 + (u + 1) = u + 2 /\ (u + 1) + 6 = u + 7
    BY <1>1 DEF F1, T1
  <2>. QED  BY <1>5, <1>7, <1>13, <2>1, <2>2
<1>15. /\ Has(toks, 1, s1) /\ Has(toks, 5, Strings(dirs)) /\ Has(toks, q, k2)
       /\ Has(toks, q + 1, Filters(filters)) /\ Has(toks, r, k4) /\ Has(toks, r + 1, Strings(tags))
       /\ Has(toks, u, k6) /\ Has(toks, u + 2, Header("search"))
  <2>1. Has(toks, 1, toks)
    BY <1>14, HasAll
  <2>2. Has(toks, 1, s7) /\ Has(toks, u + 2, Header("search"))
    BY <1>14, <2>1 DEF Splits
  <2>3. Has(toks, 1, s6) /\ Has(toks, u, k6)
    BY <1>13, <2>2 DEF Splits
  <2>4. Has(toks, 1, s5) /\ Has(toks, r + 1, Strings(tags))
    BY <1>12, <2>3 DEF Splits
  <2>5. Has(toks, 1, s4) /\ Has(toks, r, k4)
    BY <1>11, <2>4 DEF Splits
  <2>6. Has(toks, 1, s3) /\ Has(toks, q + 1, Filters(filters))
    BY <1>10, <2>5 DEF Splits
  <2>7. Has(toks, 1, s2) /\ Has(toks, q, k2)
    BY <1>9, <2>6 DEF Splits
  <2>8. Has(toks, 1, s1) /\ Has(toks, 5, Strings(dirs))
    BY <1>8, <2>7 DEF Splits
  <2>. QED  BY <2>2, <2>3, <2>4, <2>5, <2>6, <2>7, <2>8
<1>16. q \in Nat /\ r \in Nat /\ u \in Nat
  BY <1>1 DEF F1, T1
<1>17. /\ At(toks, 1) = Object(4) /\ At(toks, 2) = Key("params") /\ At(toks, 3) = Object(4)
       /\ At(toks, 4) = Key("repo_dirs")
  <2>1. \A x \in {1, 2, 3, 4} : x \in 1 .. Len(s1) /\ 1 + x - 1 = x
    BY <1>6
  <2>2. \A x \in {1, 2, 3, 4} : At(toks, x) = s1[x]
    BY <1>15, <2>1 DEF Has
  <2>. QED  BY <1>6, <2>2
<1>18. At(toks, q) = Key("filter_attrs")
  <2>1. 1 \in 1 .. Len(k2) /\ q + 1 - 1 = q
    BY <1>6, <1>16
  <2>. QED  BY <1>6, <1>15, <2>1 DEF Has
<1>19. At(toks, r) = Key("tags")
  <2>1. 1 \in 1 .. Len(k4) /\ r + 1 - 1 = r
    BY <1>6, <1>16
  <2>. QED  BY <1>6, <1>15, <2>1 DEF Has
<1>20. At(toks, u) = Key("include_repo_from_config") /\ At(toks, u + 1) = Prim(config)
  <2>1. 1 \in 1 .. Len(k6) /\ u + 1 - 1 = u /\ 2 \in 1 .. Len(k6) /\ u + 2 - 1 = u + 1
    BY <1>6, <1>16
  <2>. QED  BY <1>6, <1>15, <2>1 DEF Has
<1>. QED
  BY <1>14, <1>15, <1>16, <1>17, <1>18, <1>19, <1>20

\* A search, with any folders, filters and tags.
LEMMA SearchUnderstood ==
  ASSUME NEW T, Words \subseteq T, NEW dirs \in Seq(T), NEW F, NEW filters \in Seq(F),
         FilterTexts(F, T), NEW tags \in Seq(T), NEW config \in T,
         Len(dirs) + 7 * Len(filters) + Len(tags) + 17 <= MaxTokens
  PROVE  Understood(SearchMessage(dirs, filters, tags, config), SearchMeaning(dirs, filters, tags, config))
<1> DEFINE D == Len(dirs)
           F1 == Len(filters)
           T1 == Len(tags)
           q == 6 + D
           r == 2 + q + 7 * F1
           u == 2 + r + T1
           toks == SearchMessage(dirs, filters, tags, config)
           values == [x \in DOMAIN filters |-> FilterValue(filters[x])]
<1>1. /\ q \in Nat /\ r \in Nat /\ u \in Nat /\ Len(toks) = u + 7
      /\ At(toks, 1) = Object(4) /\ At(toks, 2) = Key("params") /\ At(toks, 3) = Object(4)
      /\ At(toks, 4) = Key("repo_dirs") /\ Has(toks, 5, Strings(dirs))
      /\ At(toks, q) = Key("filter_attrs") /\ Has(toks, q + 1, Filters(filters))
      /\ At(toks, r) = Key("tags") /\ Has(toks, r + 1, Strings(tags))
      /\ At(toks, u) = Key("include_repo_from_config") /\ At(toks, u + 1) = Prim(config)
      /\ Has(toks, u + 2, Header("search"))
  BY SearchHad, Zenon
<1>2. u + 7 <= MaxTokens /\ D \in Nat /\ F1 \in Nat /\ T1 \in Nat
  OBVIOUS
<1>. HIDE DEF toks
<1>3. Param(toks, 4, q, "repo_dirs", dirs)
  <2>1. 4 \in Nat /\ 4 + 1 = 5 /\ 4 + 2 + Len(dirs) = q
    BY <1>2
  <2>. HIDE DEF q
  <2>2. Param(toks, 4, 4 + 2 + Len(dirs), "repo_dirs", dirs)
    BY <1>1, <2>1, StringsRead
  <2>. QED  BY <2>1, <2>2
<1>4. Param(toks, q, r, "filter_attrs", values)
  <2>1. q + 2 + 7 * Len(filters) = r
    BY <1>2
  <2>. HIDE DEF q, r, values
  <2>2. Param(toks, q, q + 2 + 7 * Len(filters), "filter_attrs",
              [x \in DOMAIN filters |-> FilterValue(filters[x])])
    BY <1>1, <2>1, FiltersRead
  <2>. QED  BY <2>1, <2>2 DEF values
<1>5. Param(toks, r, u, "tags", tags)
  <2>1. r + 2 + Len(tags) = u
    BY <1>2
  <2>. HIDE DEF r, u
  <2>2. Param(toks, r, r + 2 + Len(tags), "tags", tags)
    BY <1>1, <2>1, StringsRead
  <2>. QED  BY <2>1, <2>2
<1>. HIDE DEF q, r, u, values
<1> DEFINE t1 == With("include_repo_from_config", Primitive(config), <<>>)
           t2 == With("tags", tags, t1)
           t3 == With("filter_attrs", values, t2)
           t4 == With("repo_dirs", dirs, t3)
<1>6. Reads(toks, "params", u, 1, u + 2, t1)
  <2>1. u + 2 \in Nat /\ 1 - 1 = 0 /\ 1 \in Nat /\ 1 > 0
    BY <1>1
  <2>2. Reads(toks, "params", u + 2, 0, u + 2, <<>>)
    BY <2>1, NoParams
  <2>. QED  BY <1>1, <2>1, <2>2, ParamPrimitive
<1>. HIDE DEF t1
<1>7. Reads(toks, "params", r, 2, u + 2, t2)
  <2>1. u + 2 \in Nat /\ 2 - 1 = 1 /\ 2 \in Nat /\ 2 > 0
    BY <1>1
  <2>. QED  BY <1>5, <1>6, <2>1 DEF Param
<1>. HIDE DEF t2
<1>8. Reads(toks, "params", q, 3, u + 2, t3)
  <2>1. u + 2 \in Nat /\ 3 - 1 = 2 /\ 3 \in Nat /\ 3 > 0
    BY <1>1
  <2>. QED  BY <1>4, <1>7, <2>1 DEF Param
<1>. HIDE DEF t3
<1>9. Reads(toks, "params", 4, 4, u + 2, t4)
  <2>1. u + 2 \in Nat /\ 4 - 1 = 3 /\ 4 \in Nat /\ 4 > 0
    BY <1>1
  <2>. QED  BY <1>3, <1>8, <2>1 DEF Param
<1>. HIDE DEF t4
<1> DEFINE rest == With("jsonrpc", "2.0", With("id", "id-xpto-123", With("method", "search", <<>>)))
           all == With("params", t4, rest)
<1>10. Reads(toks, "message", u + 2, 0, u + 8, rest)
  <2>1. /\ u + 2 \in Nat /\ u + 8 \in Nat /\ (u + 2) + 6 = u + 8 /\ Len(toks) \in Nat
        /\ (u + 2) + 5 <= Len(toks) /\ u + 8 > Len(toks)
    BY <1>1
  <2>2. Reads(toks, "message", u + 8, 0, u + 8, <<>>)
    BY <2>1, MessageEnd
  <2>3. "search" \in T
    BY DEF Words
  <2>. QED  BY <1>1, <2>1, <2>2, <2>3, HeaderRead
<1>. HIDE DEF rest
<1>11. Reads(toks, "message", 2, 0, u + 8, all)
  <2>1. /\ u + 2 \in Nat /\ u + 8 \in Nat /\ 2 <= Len(toks) /\ Len(toks) \in Nat /\ 4 \in Nat /\ 2 \in Nat
        /\ "params" \in {"params", "result", "error"} /\ 2 + 1 = 3 /\ 2 + 2 = 4
    BY <1>1
  <2>. QED  BY <1>1, <1>9, <1>10, <2>1, MessageObject
<1>12. all = SearchMeaning(dirs, filters, tags, config)
  <2>1. t4 = [repo_dirs |-> dirs, filter_attrs |-> values, tags |-> tags,
              include_repo_from_config |-> Primitive(config)]
    BY Tables DEF t1, t2, t3, t4
  <2>2. all = [jsonrpc |-> "2.0", id |-> "id-xpto-123", method |-> "search", params |-> t4]
    BY Tables DEF rest
  <2>. QED  BY <2>1, <2>2 DEF SearchMeaning, values, FilterValue
<1>. HIDE DEF all
<1>13. Understood(toks, all)
  <2>1. Len(toks) \in Nat /\ Len(toks) <= MaxTokens /\ u + 8 <= Len(toks) + 2 /\ u + 8 \in Nat /\ 4 \in Nat
    BY <1>1, <1>2 DEF u
  <2>. QED  BY <1>1, <1>11, <2>1, ParseRead
<1>. QED
  BY <1>12, <1>13 DEF toks

-----------------------------------------------------------------------------
(***************************************************************************)
(* The messages of a search, and of the other calls.                       *)
(***************************************************************************)
\* The texts in them.
Texts ==
  Words \cup {"0", "1", "true", "false", "x", "y", "text", "call", "-32603", Null, NullText, Home}
    \cup Dir \cup Tag \cup Attr \cup Value \cup Wildcard \cup (Dir \X File)

\* The messages of Queries are those of Requests.
Wired ==
  /\ \A c \in Commands : Received(c) = ReceivedCall(c)
  /\ \A S \in SUBSET (Dir \X File) : Printed(S) = PrintedPaths(S)

\* No message is longer than the parser allows.
Fits ==
  /\ IsFiniteSet(Dir) /\ IsFiniteSet(File)
  /\ \A c \in Commands : 7 * Len(c.filters) + Len(c.tags) + 18 <= MaxTokens
  /\ Cardinality(Dir \X File) + 13 <= MaxTokens

\* A list of a finite set has its members, and no others.
LEMMA Listed ==
  ASSUME NEW S, IsFiniteSet(S)
  PROVE  /\ SetToSeq(S) \in Seq(S) /\ Len(SetToSeq(S)) = Cardinality(S)
         /\ Range(SetToSeq(S)) = S
<1> DEFINE n == Cardinality(S)
           s == SetToSeq(S)
<1>1. n \in Nat /\ ExistsBijection(1 .. n, S)
  BY FS_CardinalityType
<1>2. PICK b : b \in Bijection(1 .. n, S)
  BY <1>1 DEF ExistsBijection
<1>3. b \in [1 .. n -> S] /\ IsInjective(b)
  BY <1>2 DEF Bijection, Injection, IsInjective
<1>4. s \in [1 .. n -> S] /\ IsInjective(s)
  BY <1>3 DEF SetToSeq
<1>. HIDE DEF s
<1>5. s \in Seq(S) /\ Len(s) = n
  BY <1>1, <1>4
<1>6. Range(s) = S
  <2> DEFINE R == Range(s)
  <2>1. R = {s[i] : i \in 1 .. n} /\ R \subseteq S
    BY <1>4 DEF Range
  <2>2. s \in Bijection(1 .. n, R)
    <3>1. s \in [1 .. n -> R]
      BY <1>4, <2>1
    <3>. QED  BY <1>4, <2>1, <3>1 DEF Bijection, Injection, Surjection, IsInjective
  <2>3. IsFiniteSet(1 .. n) /\ Cardinality(1 .. n) = n
    BY <1>1, FS_Interval
  <2>4. Cardinality(R) = n
    <3>. HIDE DEF R
    <3>. QED  BY <2>2, <2>3, FS_Bijection DEF ExistsBijection
  <2>5. R = S
    <3>. HIDE DEF R
    <3>. QED  BY <2>1, <2>4, FS_Subset
  <2>. QED  BY <2>5
<1>. QED
  BY <1>5, <1>6 DEF s

\* What users type.
LEMMA CommandParts ==
  ASSUME NEW c \in Commands
  PROVE  /\ c.repo \in Dir \cup {Home, Null} /\ c.cwd \in Dir \cup {Home}
         /\ c.tags \in Seq(Tag) /\ c.filters \in Seq(Filter)
         /\ "presence" \notin Env => \A i \in DOMAIN c.filters : c.filters[i].value # Null
  BY QueriesAssumption DEF Range

\* What a message lists of a command line fits its texts.
LEMMA MessageParts ==
  ASSUME NEW c \in Commands, Fits
  PROVE  /\ Dirs(c) \in Seq(Texts) /\ Len(Dirs(c)) <= 1 /\ Range(Dirs(c)) = FoldersOf(c)
         /\ Given(c) \in Seq({Sprintf(f) : f \in Filter}) /\ Len(Given(c)) = Len(c.filters)
         /\ FilterTexts({Sprintf(f) : f \in Filter}, Texts)
         /\ c.tags \in Seq(Texts) /\ FromConfig(c) \in Texts
<1>1. IsFiniteSet(FoldersOf(c)) /\ Cardinality(FoldersOf(c)) <= 1 /\ FoldersOf(c) \subseteq Texts
  <2>1. FoldersOf(c) = {} \/ \E d \in Texts : FoldersOf(c) = {d}
    BY CommandParts DEF FoldersOf, Texts
  <2>2. IsFiniteSet({}) /\ Cardinality({}) = 0
    BY FS_EmptySet
  <2>3. \A d : IsFiniteSet({d}) /\ Cardinality({d}) = 1
    BY FS_Singleton
  <2>4. CASE FoldersOf(c) = {}
    BY <2>2, <2>4
  <2>5. CASE \E d \in Texts : FoldersOf(c) = {d}
    <3>1. PICK d \in Texts : FoldersOf(c) = {d}
      BY <2>5
    <3>2. IsFiniteSet({d}) /\ Cardinality({d}) = 1 /\ {d} \subseteq Texts
      BY <2>3
    <3>. QED  BY <3>1, <3>2
  <2>. QED  BY <2>1, <2>4, <2>5
<1>2. /\ Dirs(c) \in Seq(FoldersOf(c)) /\ Len(Dirs(c)) = Cardinality(FoldersOf(c))
      /\ Range(Dirs(c)) = FoldersOf(c)
  BY <1>1, Listed DEF Dirs
<1>3. Dirs(c) \in Seq(Texts) /\ Len(Dirs(c)) <= 1
  BY <1>1, <1>2
<1>4. Given(c) \in Seq({Sprintf(f) : f \in Filter}) /\ Len(Given(c)) = Len(c.filters)
  <2>1. c.filters \in Seq(Filter)
    BY CommandParts
  <2>. QED  BY <2>1 DEF Given
<1>5. FilterTexts({Sprintf(f) : f \in Filter}, Texts)
  <2>. SUFFICES ASSUME NEW f \in Filter
                PROVE  /\ Sprintf(f).attribute \in Texts /\ Sprintf(f).value \in Texts
                       /\ Sprintf(f).matchmode \in Texts
    BY DEF FilterTexts
  <2>1. f.attribute \in Attr /\ f.value \in Value \cup Wildcard \cup {Null} /\ f.matchmode \in {"0", "1"}
    BY DEF Filter
  <2>2. /\ Sprintf(f).attribute = f.attribute /\ Sprintf(f).matchmode = f.matchmode
        /\ Sprintf(f).value \in {f.value, NullText}
    BY DEF Sprintf, Filter
  <2>. QED  BY <2>1, <2>2 DEF Texts
<1>6. c.tags \in Seq(Texts) /\ FromConfig(c) \in Texts
  <2>1. Tag \subseteq Texts /\ "true" \in Texts /\ "false" \in Texts
    BY DEF Texts
  <2>. QED  BY <2>1, CommandParts DEF FromConfig
<1>. QED  BY <1>2, <1>3, <1>4, <1>5, <1>6

\* The daemon understands every search that ufafind sends.
LEMMA CommandUnderstood ==
  ASSUME NEW c \in Commands, Fits
  PROVE  Understood(Message(c), Meaning(c))
<1> DEFINE F == {Sprintf(f) : f \in Filter}
<1>1. /\ Dirs(c) \in Seq(Texts) /\ Len(Dirs(c)) <= 1
      /\ Given(c) \in Seq(F) /\ Len(Given(c)) = Len(c.filters)
      /\ FilterTexts(F, Texts)
      /\ c.tags \in Seq(Texts) /\ FromConfig(c) \in Texts
  BY MessageParts, Zenon
<1>. HIDE DEF F
<1>2. Len(Dirs(c)) + 7 * Len(Given(c)) + Len(c.tags) + 17 <= MaxTokens
  <2>1. 7 * Len(c.filters) + Len(c.tags) + 18 <= MaxTokens
    BY DEF Fits
  <2>2. Len(c.filters) \in Nat /\ Len(c.tags) \in Nat /\ Len(Dirs(c)) \in Nat
    BY CommandParts, <1>1
  <2>3. \A k, m, n \in Nat : k <= 1 /\ 7 * m + n + 18 <= MaxTokens => k + 7 * m + n + 17 <= MaxTokens
    BY ParserAssumption
  <2>4. Len(Dirs(c)) <= 1 /\ Len(Given(c)) = Len(c.filters)
    BY <1>1
  <2>. QED  BY <2>1, <2>2, <2>3, <2>4, Zenon
<1>3. Words \subseteq Texts
  BY DEF Texts
<1>. QED  BY <1>1, <1>2, <1>3, SearchUnderstood DEF Message, Meaning

\* handle_search takes from it what the command line said.
LEMMA SearchArrives ==
  ASSUME NEW c \in Commands, Fits, "presence" \notin Env
  PROVE  /\ ReceivedCall(c).ok
         /\ ReceivedCall(c).call = [dirs |-> FoldersOf(c), filters |-> c.filters, tags |-> c.tags,
                                    config |-> c.repo = Null]
<1> DEFINE r == Parse(Message(c))
           p == Meaning(c).params
<1>1. r.ok /\ r.value = Rpc(Meaning(c))
  BY CommandUnderstood, Zenon DEF Understood
<1>2. r.value["params"] = p
  <2>1. Rpc(Meaning(c))["params"] = p
    BY DEF Rpc, RpcKeys, Meaning, SearchMeaning
  <2>. HIDE DEF r, p
  <2>. QED  BY <1>1, <2>1
<1>3. ReceivedCall(c).ok /\ ReceivedCall(c).call = Arguments(p)
  <2>1. ReceivedCall(c) = [ok |-> r.ok, call |-> IF r.ok THEN Arguments(r.value["params"]) ELSE NoCall]
    BY DEF ReceivedCall
  <2>. HIDE DEF r, p
  <2>2. /\ ReceivedCall(c).ok = r.ok
        /\ ReceivedCall(c).call = IF r.ok THEN Arguments(r.value["params"]) ELSE NoCall
    BY <2>1
  <2>3. ReceivedCall(c).call = Arguments(p)
    BY <1>1, <1>2, <2>2
  <2>. QED  BY <1>1, <2>2, <2>3, Zenon
<1> DEFINE given == Given(c)
           values == [i \in DOMAIN given |->
                        [attribute |-> given[i].attribute, value |-> given[i].value,
                         matchmode |-> Primitive(given[i].matchmode)]]
<1>4. p = [repo_dirs |-> Dirs(c), filter_attrs |-> values, tags |-> c.tags,
           include_repo_from_config |-> Primitive(FromConfig(c))]
  BY DEF Meaning, SearchMeaning
<1>. HIDE DEF p
<1>5. given = c.filters
  <2>1. \A i \in DOMAIN c.filters : Sprintf(c.filters[i]) = c.filters[i]
    <3>. SUFFICES ASSUME NEW i \in DOMAIN c.filters PROVE Sprintf(c.filters[i]) = c.filters[i]
      OBVIOUS
    <3> DEFINE f == c.filters[i]
    <3>1. f \in Filter /\ f.value # Null
      BY CommandParts
    <3>. HIDE DEF f
    <3>2. Sprintf(f) = f
      BY <3>1 DEF Sprintf, Filter
    <3>. QED  BY <3>2 DEF f
  <2>2. c.filters = [i \in DOMAIN c.filters |-> c.filters[i]]
    BY CommandParts
  <2>. QED  BY <2>1, <2>2 DEF Given
<1>6. [i \in DOMAIN values |->
        [attribute |-> values[i]["attribute"], value |-> values[i]["value"],
         matchmode |-> values[i]["matchmode"].primitive]] = c.filters
  <2>1. DOMAIN values = DOMAIN c.filters
    BY <1>5
  <2>2. ASSUME NEW i \in DOMAIN c.filters
        PROVE  [attribute |-> values[i]["attribute"], value |-> values[i]["value"],
                matchmode |-> values[i]["matchmode"].primitive] = c.filters[i]
    <3> DEFINE f == c.filters[i]
    <3>1. f \in Filter
      BY CommandParts
    <3>2. values[i] = [attribute |-> f.attribute, value |-> f.value, matchmode |-> Primitive(f.matchmode)]
      BY <1>5
    <3>. HIDE DEF f, values
    <3>3. /\ values[i]["attribute"] = f.attribute /\ values[i]["value"] = f.value
          /\ values[i]["matchmode"].primitive = f.matchmode
      BY <3>2 DEF Primitive
    <3>4. [attribute |-> f.attribute, value |-> f.value, matchmode |-> f.matchmode] = f
      BY <3>1 DEF Filter
    <3>. QED  BY <3>3, <3>4 DEF f
  <2>3. c.filters = [i \in DOMAIN c.filters |-> c.filters[i]]
    BY CommandParts
  <2>. HIDE DEF values
  <2>. QED  BY <2>1, <2>2, <2>3
<1>7. Range(Dirs(c)) = FoldersOf(c)
  BY MessageParts, Zenon
<1>8. (Primitive(FromConfig(c)).primitive = "true") = (c.repo = Null)
  BY DEF Primitive, FromConfig
<1>. HIDE DEF values
<1>9. /\ p["repo_dirs"] = Dirs(c) /\ p["filter_attrs"] = values /\ p["tags"] = c.tags
      /\ p["include_repo_from_config"] = Primitive(FromConfig(c))
  BY <1>4
<1>10. Arguments(p) = [dirs |-> FoldersOf(c), filters |-> c.filters, tags |-> c.tags,
                       config |-> c.repo = Null]
  BY <1>6, <1>7, <1>8, <1>9 DEF Arguments
<1>. QED  BY <1>3, <1>10, Zenon

\* The tool understands the answer with the paths found, and reads them.
LEMMA PathsUnderstood ==
  ASSUME NEW S \in SUBSET (Dir \X File), Fits
  PROVE  Understood(ListResponse(SetToSeq(S)), ResultMeaning(SetToSeq(S))) /\ Range(SetToSeq(S)) = S
<1>1. IsFiniteSet(Dir \X File) /\ IsFiniteSet(S) /\ Cardinality(S) <= Cardinality(Dir \X File)
  <2>1. IsFiniteSet(Dir \X File)
    BY FS_Product DEF Fits
  <2>. QED  BY <2>1, FS_Subset
<1>2. SetToSeq(S) \in Seq(S) /\ Len(SetToSeq(S)) = Cardinality(S) /\ Range(SetToSeq(S)) = S
  BY <1>1, Listed
<1>3. Words \subseteq Texts /\ S \subseteq Texts
  BY DEF Texts
<1>4. SetToSeq(S) \in Seq(Texts)
  BY <1>2, <1>3
<1>5. Len(SetToSeq(S)) + 9 <= MaxTokens
  <2>1. Cardinality(S) \in Nat /\ Cardinality(Dir \X File) \in Nat
    BY <1>1, FS_CardinalityType
  <2>2. Cardinality(Dir \X File) + 13 <= MaxTokens
    BY DEF Fits
  <2>. QED  BY <1>1, <1>2, <2>1, <2>2, ParserAssumption
<1>. QED  BY <1>2, <1>3, <1>4, <1>5, ListResponseUnderstood

LEMMA PathsArrive ==
  ASSUME NEW S \in SUBSET (Dir \X File), Fits
  PROVE  PrintedPaths(S) = S
<1> DEFINE s == SetToSeq(S)
           r == Parse(ListResponse(s))
<1>1. Understood(ListResponse(s), ResultMeaning(s)) /\ Range(s) = S
  BY PathsUnderstood
<1>. HIDE DEF s
<1>2. r.value = Rpc(ResultMeaning(s))
  BY <1>1, Zenon DEF Understood
<1>3. Rpc(ResultMeaning(s))["result"]["value"] = s
  BY DEF Rpc, RpcKeys, ResultMeaning
<1>4. PrintedPaths(S) = Range(r.value["result"]["value"])
  BY DEF PrintedPaths, s
<1>. HIDE DEF r
<1>. QED  BY <1>1, <1>2, <1>3, <1>4

\* So messages keep what they say, which is all that SearchCorrect supposes.
LEMMA MessagesAreKept ==
  ASSUME Wired, Fits, "presence" \notin Env
  PROVE  MessagesKept
<1>1. ASSUME NEW c \in Commands
      PROVE  /\ Received(c).ok
             /\ Received(c).call = [dirs |-> FoldersOf(c), filters |-> c.filters, tags |-> c.tags,
                                    config |-> c.repo = Null]
  <2>1. Received(c) = ReceivedCall(c)
    BY DEF Wired
  <2>2. /\ ReceivedCall(c).ok
        /\ ReceivedCall(c).call = [dirs |-> FoldersOf(c), filters |-> c.filters, tags |-> c.tags,
                                   config |-> c.repo = Null]
    BY SearchArrives
  <2>. QED  BY <2>1, <2>2, Zenon
<1>2. ASSUME NEW S \in SUBSET (Dir \X File) PROVE Printed(S) = S
  BY PathsArrive DEF Wired
<1>. QED  BY <1>1, <1>2, Zenon DEF MessagesKept

\* The instances that TLC checks are among them.
LEMMA FormsUnderstood ==
  ASSUME Fits, NEW m \in Messages
  PROVE  Understood(m.toks, m.meaning)
<1> DEFINE lists == {<<>>, <<"x">>, <<"x", "y">>}
           Pairs(n) == [i \in DOMAIN n |-> <<n[i], "text">>]
<1>0. /\ Words \subseteq Texts /\ 13 <= MaxTokens
      /\ \A x \in {"0", "true", "x", "y", "text", "call"} : x \in Texts
  <2>1. Cardinality(Dir \X File) \in Nat /\ Cardinality(Dir \X File) + 13 <= MaxTokens
    BY FS_Product, FS_CardinalityType DEF Fits
  <2>2. 13 <= MaxTokens
    BY <2>1, ParserAssumption
  <2>. QED  BY <2>2 DEF Texts
<1>1. ASSUME NEW n \in lists
      PROVE  /\ n \in Seq(Texts) /\ Len(n) <= 2 /\ Len(n) \in Nat
             /\ Pairs(n) \in Seq(Texts \X Texts) /\ Len(Pairs(n)) = Len(n)
             /\ Distinct(Pairs(n))
  <2>1. n \in Seq({"x", "y", "text"}) /\ Len(n) <= 2 /\ Len(n) \in Nat /\ DOMAIN n = 1 .. Len(n)
        /\ \A x, y \in DOMAIN n : n[x] = n[y] => x = y
    <3>1. CASE n = <<>>
      BY <3>1
    <3>2. CASE n = <<"x">>
      BY <3>2
    <3>3. CASE n = <<"x", "y">>
      <4>1. n \in Seq({"x", "y", "text"}) /\ Len(n) = 2 /\ n[1] = "x" /\ n[2] = "y"
        BY <3>3
      <4>. QED  BY <4>1
    <3>. QED  BY <3>1, <3>2, <3>3
  <2>2. n \in Seq(Texts) /\ \A x \in DOMAIN n : n[x] \in Texts
    BY <1>0, <2>1
  <2> DEFINE pairs == Pairs(n)
  <2>3. pairs = [i \in 1 .. Len(n) |-> <<n[i], "text">>]
    BY <2>1
  <2>. HIDE DEF pairs
  <2>4. pairs \in Seq(Texts \X Texts) /\ Len(pairs) = Len(n) /\ DOMAIN pairs = DOMAIN n
    BY <1>0, <2>1, <2>2, <2>3
  <2>5. Distinct(pairs)
    BY <2>1, <2>3, <2>4 DEF Distinct
  <2>. QED  BY <2>1, <2>2, <2>4, <2>5 DEF pairs
<1>2. \A toks, meaning : m = Form(toks, meaning) => m.toks = toks /\ m.meaning = meaning
  BY DEF Form
<1>3. ASSUME NEW c \in Commands, m = Form(Message(c), Meaning(c)) PROVE Understood(m.toks, m.meaning)
  BY <1>2, <1>3, CommandUnderstood
<1>4. ASSUME NEW n \in lists,
             \/ m = Form(ParamsFirst("call", Pairs(n)), CallMeaning("call", Pairs(n)))
             \/ m = Form(ParamsLast("call", Pairs(n)), CallMeaning("call", Pairs(n)))
             \/ m = Form(ListResponse(n), ResultMeaning(n))
             \/ m = Form(AttrsResponse(Pairs(n)), ResultMeaning(Table(Pairs(n))))
      PROVE  Understood(m.toks, m.meaning)
  <2> DEFINE pairs == Pairs(n)
  <2>1. /\ n \in Seq(Texts) /\ Len(n) <= 2 /\ Len(n) \in Nat
        /\ pairs \in Seq(Texts \X Texts) /\ Len(pairs) = Len(n)
        /\ Distinct(pairs)
    BY <1>1
  <2>2. \/ m = Form(ParamsFirst("call", pairs), CallMeaning("call", pairs))
        \/ m = Form(ParamsLast("call", pairs), CallMeaning("call", pairs))
        \/ m = Form(ListResponse(n), ResultMeaning(n))
        \/ m = Form(AttrsResponse(pairs), ResultMeaning(Table(pairs)))
    BY <1>4
  <2>. HIDE DEF pairs
  <2>3. 2 * Len(pairs) + 9 <= MaxTokens /\ Len(n) + 9 <= MaxTokens
    BY <1>0, <2>1, ParserAssumption
  <2>4. /\ Understood(ParamsFirst("call", pairs), CallMeaning("call", pairs))
        /\ Understood(ParamsLast("call", pairs), CallMeaning("call", pairs))
    <3>1. "call" \in Texts
      BY <1>0
    <3>. QED  BY <1>0, <2>1, <2>3, <3>1, ParamsFirstUnderstood, ParamsLastUnderstood
  <2>5. Understood(ListResponse(n), ResultMeaning(n))
    BY <1>0, <2>1, <2>3, ListResponseUnderstood
  <2>6. Understood(AttrsResponse(pairs), ResultMeaning(Table(pairs)))
    BY <1>0, <2>1, <2>3, AttrsResponseUnderstood
  <2>. QED  BY <1>2, <2>2, <2>4, <2>5, <2>6
<1>5. ASSUME NEW x \in {"true", "0"}, m = Form(Response(<<Prim(x)>>), ResultMeaning(Primitive(x)))
      PROVE  Understood(m.toks, m.meaning)
  <2>1. x \in Texts /\ 9 <= MaxTokens
    BY <1>0, ParserAssumption
  <2>2. Understood(Response(<<Prim(x)>>), ResultMeaning(Primitive(x)))
    BY <1>0, <2>1, PrimitiveResponseUnderstood
  <2>. QED  BY <1>2, <1>5, <2>2
<1>6. ASSUME m = Form(ErrorResponse("-32603", "text"), ErrorMeaning("-32603", "text"))
      PROVE  Understood(m.toks, m.meaning)
  <2>1. 11 <= MaxTokens
    BY <1>0, ParserAssumption
  <2>2. Understood(ErrorResponse("-32603", "text"), ErrorMeaning("-32603", "text"))
    BY <2>1, ErrorUnderstood
  <2>. QED  BY <1>2, <1>6, <2>2
<1>. QED
  BY <1>3, <1>4, <1>5, <1>6 DEF Messages

\* The paths found are files of the folders, until the tool has read them.
FoundOK == at # "done" => found \subseteq Dir \X File

LEMMA FoundStep ==
  ASSUME TypeOK, FoundOK, [Next]_vars
  PROVE  FoundOK'
<1>1. CASE UNCHANGED vars
  BY <1>1 DEF FoundOK, vars, find
<1>2. ASSUME UNCHANGED <<at, found>> PROVE FoundOK'
  BY <1>2 DEF FoundOK
<1>3. CASE Others
  <2>1. Changes
    BY <1>3, OthersChange
  <2>. QED  BY <1>2, <2>1 DEF Changes, find
<1>4. CASE \E c \in Commands : Find(c)
  BY <1>4 DEF Find, FoundOK
<1>5. CASE Receive
  BY <1>5 DEF Receive, FoundOK
<1>6. CASE Report
  BY <1>6 DEF Report, FoundOK
<1>7. CASE Exit
  BY <1>7 DEF Exit, FoundOK
<1>8. ASSUME NEW d \in Dir, SearchRepo(d) PROVE FoundOK'
  <2>1. {<<d, f>> : f \in Selected(d, call)} \subseteq Dir \X File
    <3>1. Selected(d, call) \subseteq File
      BY DEF Selected, HasTags, HasAttrs, Having
    <3>. QED  BY <3>1
  <2>. QED  BY <1>8, <2>1 DEF SearchRepo, FoundOK
<1>9. CASE ListRoot \/ ListFiles \/ ListTags \/ Back
  BY <1>9 DEF ListRoot, ListFiles, ListTags, Back, Move, FoundOK, find
<1>10. ASSUME NEW t \in Tag, Enter(t) PROVE FoundOK'
  BY <1>10 DEF Enter, Move, FoundOK, find
<1>. QED
  BY <1>1, <1>3, <1>4, <1>5, <1>6, <1>7, <1>8, <1>9, <1>10 DEF Next, Others

\* MessagesUnderstood: every message that tools and daemon exchange is read back
\* as it was written, for all folders, tags, filters and paths, and what a search
\* says arrives, provided that messages have no more than MaxTokens tokens (the
\* parser refuses longer ones) and that every filter has a value (%s makes a
\* text of a value that is not given).
THEOREM MessagesCorrect ==
  ASSUME Wired, Fits, "presence" \notin Env
  PROVE  Spec => []MessagesUnderstood
<1>1. Init => FoundOK
  BY DEF Init, FoundOK
<1>2. TypeOK /\ FoundOK /\ [Next]_vars => FoundOK'
  BY FoundStep
<1>3. FoundOK => MessagesUnderstood
  <2>. SUFFICES ASSUME FoundOK PROVE MessagesUnderstood
    OBVIOUS
  <2>1. MessagesKept /\ \A m \in Messages : Understood(m.toks, m.meaning)
    BY MessagesAreKept, FormsUnderstood
  <2>2. at = "search" => Understood(ListResponse(SetToSeq(found)), ResultMeaning(SetToSeq(found)))
    <3>1. at = "search" => found \in SUBSET (Dir \X File)
      BY DEF FoundOK
    <3>. QED  BY <3>1, PathsUnderstood
  <2>. QED  BY <2>1, <2>2 DEF MessagesUnderstood
<1>. QED
  BY <1>1, <1>2, <1>3, TypeCorrect, PTL DEF Spec

\* SearchFinds: from the command line over both messages to the paths that are
\* printed, with nothing supposed about the messages but their length.
THEOREM SearchAndMessagesCorrect ==
  ASSUME Plainly, Wired, Fits
  PROVE  Spec => []SearchFinds
<1>1. MessagesKept
  BY MessagesAreKept DEF Plainly
<1>. QED
  BY <1>1, SearchCorrect
=============================================================================
