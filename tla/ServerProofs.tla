---------------------------- MODULE ServerProofs ----------------------------
(***************************************************************************)
(* Theorems about Server, for any number of tools and calls, any sizes of  *)
(* messages and buffers, and any number of deaths of the daemon.           *)
(***************************************************************************)
EXTENDS Server, WellFoundedInduction, TLAPS

LEMMA LeastExists ==
  ASSUME NEW T \in SUBSET Nat, T # {}
  PROVE  \E k \in T : \A j \in T : k <= j
<1>1. PICK k \in T : \A j \in T : ~(<<j, k>> \in OpToRel(<, Nat))
  BY NatLessThanWellFounded, WFMin
<1>2. \A j \in T : ~(j < k)
  BY <1>1 DEF OpToRel
<1>. QED
  BY <1>2

\* The text of a run of cells is a part at its beginning.
LEMMA TextIsPrefix ==
  ASSUME NEW S, NEW s \in Seq(S)
  PROVE  \E k \in 0 .. Len(s) : Text(s) = SubSeq(s, 1, k)
<1> DEFINE nuls == {i \in 1 .. Len(s) : s[i].i = 0}
<1>1. CASE nuls = {}
  <2>1. Text(s) = s /\ s = SubSeq(s, 1, Len(s)) /\ Len(s) \in 0 .. Len(s)
    BY <1>1 DEF Text
  <2>. QED
    BY <2>1
<1>2. CASE nuls # {}
  <2> DEFINE k == CHOOSE i \in nuls : \A j \in nuls : i <= j
  <2>1. k \in nuls
    <3>1. nuls \in SUBSET Nat
      OBVIOUS
    <3>2. \E i \in nuls : \A j \in nuls : i <= j
      <4> HIDE DEF nuls
      <4>. QED
        BY <1>2, <3>1, LeastExists
    <3>. QED
      BY <3>2
  <2>2. k - 1 \in 0 .. Len(s)
    BY <2>1
  <2>3. Text(s) = SubSeq(s, 1, k - 1)
    BY <1>2 DEF Text
  <2>. QED
    BY <2>2, <2>3
<1>. QED
  BY <1>1, <1>2

LEMMA TextProps ==
  ASSUME NEW S, NEW s \in Seq(S)
  PROVE  /\ Text(s) \in Seq(S)
         /\ Text(s) # <<>> => s # <<>> /\ Text(s)[1] = s[1]
<1>1. PICK k \in 0 .. Len(s) : Text(s) = SubSeq(s, 1, k)
  BY TextIsPrefix
<1>2. \A i \in 1 .. Len(s) : s[i] \in S
  OBVIOUS
<1>. QED
  BY <1>1, <1>2

LEMMA TakenProps ==
  ASSUME NEW S, NEW s \in Seq(S), NEW k \in Nat \ {0}
  PROVE  /\ Taken(s, k) \in Seq(S) /\ Rest(s, k) \in Seq(S)
         /\ s # <<>> => Taken(s, k) # <<>> /\ Taken(s, k)[1] = s[1]
         /\ Len(s) <= k => Rest(s, k) = <<>>
         /\ Smaller(k, Len(s)) \in 0 .. Len(s)
         /\ Len(Rest(s, k)) = Len(s) - Smaller(k, Len(s))
         /\ \A i \in 1 .. Len(Rest(s, k)) :
              /\ Smaller(k, Len(s)) \in Nat
              /\ i + Smaller(k, Len(s)) \in 1 .. Len(s)
              /\ Rest(s, k)[i] = s[i + Smaller(k, Len(s))]
         /\ s # <<>> => Smaller(k, Len(s)) \in Nat \ {0}
<1>1. Smaller(k, Len(s)) \in 0 .. Len(s) /\ Smaller(k, Len(s)) <= k
  BY DEF Smaller
<1>2. \A i \in 1 .. Len(s) : s[i] \in S
  OBVIOUS
<1>3. s # <<>> => Smaller(k, Len(s)) \in Nat \ {0}
  BY DEF Smaller
<1>4. Len(s) <= k => Smaller(k, Len(s)) = Len(s)
  BY DEF Smaller
<1>5. Taken(s, k) \in Seq(S) /\ (s # <<>> => Taken(s, k) # <<>> /\ Taken(s, k)[1] = s[1])
  BY <1>1, <1>2, <1>3 DEF Taken
<1>6. ASSUME NEW m \in 0 .. Len(s)
      PROVE  /\ SubSeq(s, m + 1, Len(s)) \in Seq(S)
             /\ Len(SubSeq(s, m + 1, Len(s))) = Len(s) - m
             /\ \A i \in 1 .. Len(s) - m : SubSeq(s, m + 1, Len(s))[i] = s[i + m]
  BY <1>2
<1>7. /\ Rest(s, k) \in Seq(S)
      /\ Len(Rest(s, k)) = Len(s) - Smaller(k, Len(s))
      /\ \A i \in 1 .. Len(s) - Smaller(k, Len(s)) : Rest(s, k)[i] = s[i + Smaller(k, Len(s))]
  BY <1>1, <1>6 DEF Rest
<1>8. Len(s) <= k => Rest(s, k) = <<>>
  BY <1>4, <1>7
<1>9. Len(s) \in Nat /\ Smaller(k, Len(s)) \in Nat
  BY <1>1
<1>. QED
  BY <1>1, <1>3, <1>5, <1>7, <1>8, <1>9

-----------------------------------------------------------------------------
LEMMA TypeInit == Init => TypeOK
<1>. SUFFICES ASSUME Init PROVE TypeOK
  OBVIOUS
<1>1. ToolsOK
  BY DEF Init, ToolsOK
<1>2. StreamsOK
  BY DEF Init, StreamsOK
<1>3. ThreadsOK
  BY DEF Init, ThreadsOK
<1>4. performed \in [Client -> Seq([n: Nat, o: Outcomes])]
  BY DEF Init
<1>. QED
  BY <1>1, <1>2, <1>3, <1>4, ServerAssumption DEF Init, TypeOK

\* What a type says about changes of other variables.
LEMMA ToolsStay ==
  ASSUME TypeOK, UNCHANGED toolVars
  PROVE  ToolsOK'
BY DEF TypeOK, ToolsOK, toolVars

LEMMA StreamsStay ==
  ASSUME TypeOK, UNCHANGED <<conn, toServer, toClient>>
  PROVE  StreamsOK'
BY DEF TypeOK, StreamsOK

LEMMA ThreadsStay ==
  ASSUME TypeOK, UNCHANGED <<threadVars, cfd>>
  PROVE  ThreadsOK'
BY DEF TypeOK, ThreadsOK, threadVars

LEMMA TypeDies ==
  ASSUME TypeOK, Dies, UNCHANGED <<toolVars, toClient>>, deaths' \in 0 .. MaxDeaths,
         performed' \in [Client -> Seq([n: Nat, o: Outcomes])], late' = late
  PROVE  TypeOK'
<1>1. ToolsOK'
  BY ToolsStay
<1>2. StreamsOK'
  BY DEF Dies, TypeOK, StreamsOK
<1>3. ThreadsOK'
  BY DEF Dies, TypeOK, ThreadsOK
<1>4. alive' \in BOOLEAN /\ backlog' \in Seq(Client) /\ cfd' \in Client \cup {NoFd}
  <2>1. alive' = FALSE /\ backlog' = <<>> /\ cfd' = NoFd
    BY DEF Dies
  <2>2. <<>> \in Seq(Client)
    OBVIOUS
  <2>. QED
    BY <2>1, <2>2
<1>. QED
  BY <1>1, <1>2, <1>3, <1>4 DEF TypeOK

LEMMA JobsTyped == Jobs \subseteq Seq(Method)
<1>1. ASSUME NEW m \in Method PROVE <<m>> \in Seq(Method)
  BY <1>1
<1>2. ASSUME NEW m \in Method, NEW k \in 1 .. MaxCalls
      PROVE  [i \in 1 .. k |-> m] \in Seq(Method)
  BY <1>2, ServerAssumption
<1>3. ASSUME NEW j \in Jobs PROVE j \in Seq(Method)
  <2>1. \/ \E m \in Method : j = <<m>>
        \/ \E m \in Method, k \in 1 .. MaxCalls : j = [i \in 1 .. k |-> m]
    BY <1>3 DEF Jobs
  <2>. QED
    BY <1>1, <1>2, <2>1
<1>. QED
  BY <1>3

LEMMA CellsTyped ==
  ASSUME NEW n \in Nat, NEW len \in Nat
  PROVE  /\ Cells(n, len) \in Seq(Cell)
         /\ \A o \in Outcomes : AnswerCells(n, o, len) \in Seq(AnswerCell)
<1>1. Cells(n, len) \in Seq(Cell)
  BY DEF Cells, Cell
<1>2. ASSUME NEW o \in Outcomes PROVE AnswerCells(n, o, len) \in Seq(AnswerCell)
  BY DEF AnswerCells, AnswerCell
<1>. QED
  BY <1>1, <1>2

LEMMA TypeTools ==
  ASSUME TypeOK, NEW c \in Client, Start(c) \/ Call(c) \/ Receive(c) \/ Exit(c) \/ Quit(c)
  PROVE  TypeOK'
<1>0. ThreadsOK' /\ alive' \in BOOLEAN /\ cfd' \in Client \cup {NoFd} /\ deaths' \in 0 .. MaxDeaths
      /\ performed' \in [Client -> Seq([n: Nat, o: Outcomes])] /\ late' \subseteq Client
  <2>1. UNCHANGED <<threadVars, cfd, alive, deaths, performed, late>>
    BY DEF Start, Call, Receive, Exit, Quit
  <2>. QED
    BY <2>1, ThreadsStay DEF TypeOK
<1>1. CASE Start(c)
  <2>1. /\ \/ job' \in {[job EXCEPT ![c] = j] : j \in Jobs}
           \/ job' = job
        /\ conn' = conn \/ conn' = [conn EXCEPT ![c] = "up"]
        /\ backlog' = backlog \/ backlog' = Append(backlog, c)
        /\ tool' = [tool EXCEPT ![c] = "ready"] \/ tool' = [tool EXCEPT ![c] = "ended"]
        /\ status' = status \/ status' = [status EXCEPT ![c] = "unavailable"]
        /\ UNCHANGED <<reqs, returned, result, toServer, toClient>>
    BY <1>1 DEF Start
  <2>2. job' \in [Client -> Seq(Method)]
    <3>1. CASE job' = job
      BY <3>1 DEF TypeOK, ToolsOK
    <3>2. ASSUME NEW j \in Jobs, job' = [job EXCEPT ![c] = j]
          PROVE  job' \in [Client -> Seq(Method)]
      <4>1. j \in Seq(Method)
        BY JobsTyped
      <4>. QED
        BY <3>2, <4>1 DEF TypeOK, ToolsOK
    <3>. QED
      BY <2>1, <3>1, <3>2
  <2>3. ToolsOK'
    <3>1. tool' \in [Client -> {"off", "ready", "wait", "ended", "killed"}]
      BY <2>1 DEF TypeOK, ToolsOK
    <3>2. status' \in [Client -> {"none", "ok", "failure", "unavailable"}]
      BY <2>1 DEF TypeOK, ToolsOK
    <3>3. \A d \in Client : tool'[d] = "wait" => job'[d] = job[d] /\ tool[d] = "wait"
      BY <2>1 DEF TypeOK, ToolsOK
    <3>. QED
      BY <2>1, <2>2, <3>1, <3>2, <3>3 DEF TypeOK, ToolsOK
  <2>4. StreamsOK'
    BY <2>1 DEF TypeOK, StreamsOK
  <2>5. backlog' \in Seq(Client)
    <3>1. backlog \in Seq(Client)
      BY DEF TypeOK
    <3>2. Append(backlog, c) \in Seq(Client)
      BY <3>1
    <3>. QED
      BY <2>1, <3>1, <3>2
  <2>. QED
    BY <1>0, <2>3, <2>4, <2>5 DEF TypeOK
<1>2. CASE Call(c)
  <2>1. /\ tool' = [tool EXCEPT ![c] = "killed"] \/ tool' = [tool EXCEPT ![c] = "wait"]
        /\ UNCHANGED <<job, returned, result, status, conn, toClient, backlog>>
        /\ job[c] # <<>>
    BY <1>2 DEF Call
  <2>2. reqs' \in [Client -> Seq(Request)] /\ toServer' \in [Client -> Seq(Cell)]
    <3>1. CASE UNCHANGED <<reqs, toServer>>
      BY <3>1 DEF TypeOK, ToolsOK, StreamsOK
    <3>2. ASSUME NEW r \in Request,
                 reqs' = [reqs EXCEPT ![c] = Append(@, r)],
                 toServer' = [toServer EXCEPT ![c] = @ \o Cells(Len(reqs[c]) + 1, r.len)]
          PROVE  reqs' \in [Client -> Seq(Request)] /\ toServer' \in [Client -> Seq(Cell)]
      <4>1. Len(reqs[c]) + 1 \in Nat
        BY DEF TypeOK, ToolsOK
      <4>2. r.len \in Nat
        BY ServerAssumption DEF Request
      <4>3. Cells(Len(reqs[c]) + 1, r.len) \in Seq(Cell)
        BY <4>1, <4>2, CellsTyped
      <4>. QED
        BY <3>2, <4>3 DEF TypeOK, ToolsOK, StreamsOK
    <3>. QED
      BY <1>2, <3>1, <3>2 DEF Call
  <2>3. ToolsOK'
    <3>1. tool' \in [Client -> {"off", "ready", "wait", "ended", "killed"}]
      BY <2>1 DEF TypeOK, ToolsOK
    <3>2. \A d \in Client \ {c} : reqs'[d] = reqs[d] /\ tool'[d] = tool[d]
      BY <1>2 DEF Call, TypeOK, ToolsOK
    <3>3. tool'[c] = "wait" => reqs'[c] # <<>>
      <4>1. CASE tool' = [tool EXCEPT ![c] = "killed"]
        BY <4>1 DEF TypeOK, ToolsOK
      <4>2. ASSUME NEW r \in Request, reqs' = [reqs EXCEPT ![c] = Append(@, r)]
            PROVE  reqs'[c] # <<>>
        <5>1. reqs'[c] = Append(reqs[c], r) /\ reqs[c] \in Seq(Request)
          BY <4>2 DEF TypeOK, ToolsOK
        <5>. QED
          BY <5>1
      <4>. QED
        BY <1>2, <4>1, <4>2 DEF Call
    <3>. QED
      BY <2>1, <2>2, <3>1, <3>2, <3>3 DEF TypeOK, ToolsOK
  <2>4. StreamsOK'
    BY <2>1, <2>2 DEF TypeOK, StreamsOK
  <2>. QED
    BY <1>0, <2>1, <2>3, <2>4 DEF TypeOK
<1>3. CASE Receive(c)
  <2>1. /\ tool' = [tool EXCEPT ![c] = "ready"]
        /\ returned' = [returned EXCEPT ![c] = @ + 1]
        /\ toClient' = [toClient EXCEPT ![c] = Rest(@, MaxResponse)]
        /\ UNCHANGED <<reqs, status, conn, toServer, backlog>>
    BY <1>3 DEF Receive
  <2>2. PICK res \in {"failure", "success"} :
          /\ result' = [result EXCEPT ![c] = res]
          /\ job' = [job EXCEPT ![c] = IF res = "success" THEN Tail(@) ELSE <<>>]
    BY <1>3 DEF Receive, Results
  <2>3. job' \in [Client -> Seq(Method)]
    <3>1. Tail(job[c]) \in Seq(Method)
      BY <1>3 DEF Receive, TypeOK, ToolsOK
    <3>. QED
      BY <2>2, <3>1 DEF TypeOK, ToolsOK
  <2>4. Rest(toClient[c], MaxResponse) \in Seq(AnswerCell)
    BY TakenProps, ServerAssumption DEF TypeOK, StreamsOK
  <2>5. StreamsOK'
    BY <2>1, <2>4 DEF TypeOK, StreamsOK
  <2>6. ToolsOK'
    BY <2>1, <2>2, <2>3 DEF TypeOK, ToolsOK
  <2>. QED
    BY <1>0, <2>1, <2>5, <2>6 DEF TypeOK
<1>4. CASE Exit(c) \/ Quit(c)
  <2>1. /\ \E x \in {"ended", "killed"} : tool' = [tool EXCEPT ![c] = x]
        /\ \E x \in {"ok", "failure"} : status' = status \/ status' = [status EXCEPT ![c] = x]
        /\ conn' = [conn EXCEPT ![c] = IF @ = "up" THEN "closed" ELSE @]
        /\ toClient' = [toClient EXCEPT ![c] = <<>>]
        /\ UNCHANGED <<job, reqs, returned, result, toServer, backlog>>
    BY <1>4 DEF Exit, Quit
  <2>2. ToolsOK'
    <3>1. tool' \in [Client -> {"off", "ready", "wait", "ended", "killed"}]
      BY <2>1 DEF TypeOK, ToolsOK
    <3>2. status' \in [Client -> {"none", "ok", "failure", "unavailable"}]
      BY <2>1 DEF TypeOK, ToolsOK
    <3>3. \A d \in Client : tool'[d] = "wait" => job'[d] = job[d] /\ tool[d] = "wait"
      BY <2>1 DEF TypeOK, ToolsOK
    <3>. QED
      BY <2>1, <3>1, <3>2, <3>3 DEF TypeOK, ToolsOK
  <2>3. StreamsOK'
    BY <2>1 DEF TypeOK, StreamsOK
  <2>. QED
    BY <1>0, <2>1, <2>2, <2>3 DEF TypeOK
<1>. QED
  BY <1>1, <1>2, <1>3, <1>4

LEMMA JoinTyped ==
  ASSUME NEW D, NEW S, NEW f \in [D -> Seq(S)], NEW d \in D, NEW x \in Seq(S)
  PROVE  [f EXCEPT ![d] = @ \o x] \in [D -> Seq(S)]
<1>1. f[d] \o x \in Seq(S)
  <2>1. f[d] \in Seq(S)
    OBVIOUS
  <2>. QED
    BY <2>1
<1>. QED
  BY <1>1

LEMMA AppendTyped ==
  ASSUME NEW D, NEW S, NEW f \in [D -> Seq(S)], NEW d \in D, NEW x \in S
  PROVE  Append(f[d], x) \in Seq(S)
<1>1. f[d] \in Seq(S)
  OBVIOUS
<1>. QED
  BY <1>1

LEMMA FirstCell ==
  ASSUME NEW b \in Seq(Cell), b # <<>>
  PROVE  b[1] \in Cell /\ b[1].n \in Nat /\ b[1].i \in Nat
<1>1. b[1] \in Cell
  OBVIOUS
<1>. QED
  BY <1>1 DEF Cell

\* The text a thread has after a read, and the read when nothing goes wrong.
ReadText(t) == buf[t] \o Text(Taken(toServer[fd[t]], Chunk))

ReadPart(t) ==
  /\ toServer' = [toServer EXCEPT ![fd[t]] = Rest(@, Chunk)]
  /\ \/ /\ Text(Taken(toServer[fd[t]], Chunk)) = <<>>
        /\ UNCHANGED <<thread, buf>>
     \/ /\ Text(Taken(toServer[fd[t]], Chunk)) # <<>>
        /\ \E p \in Parsed(fd[t], ReadText(t)) :
             /\ buf' = [buf EXCEPT ![t] = IF p = "invalid" THEN <<>> ELSE ReadText(t)]
             /\ thread' = [thread EXCEPT ![t] = IF p = "ok" THEN "request" ELSE "read"]
  /\ UNCHANGED <<conn, alive, backlog, cfd, fd, outcome, deaths>>

LEMMA TypeDaemon ==
  ASSUME TypeOK, Crash \/ Restart \/ Accept \/ \E t \in Client : Work(t)
  PROVE  TypeOK'
<1>0. performed \in [Client -> Seq([n: Nat, o: Outcomes])] /\ deaths \in 0 .. MaxDeaths
      /\ (deaths < MaxDeaths => deaths + 1 \in 0 .. MaxDeaths) /\ late \subseteq Client
  <2>0. late \subseteq Client
    BY DEF TypeOK
  <2>1. performed \in [Client -> Seq([n: Nat, o: Outcomes])] /\ deaths \in 0 .. MaxDeaths
    BY DEF TypeOK
  <2>2. MaxDeaths \in Nat
    BY ServerAssumption
  <2>3. ASSUME NEW d \in 0 .. MaxDeaths, d < MaxDeaths PROVE d + 1 \in 0 .. MaxDeaths
    BY <2>2, <2>3
  <2>. QED
    BY <2>0, <2>1, <2>3
<1>1. CASE Crash
  BY <1>0, <1>1, TypeDies DEF Crash
<1>2. CASE Restart
  <2>1. UNCHANGED <<toolVars, conn, toServer, toClient, threadVars, cfd, backlog, performed,
                    late, deaths>>
        /\ alive' = TRUE
    BY <1>2 DEF Restart
  <2>2. alive' \in BOOLEAN
    BY <2>1
  <2>. QED
    BY <2>1, <2>2, ToolsStay, StreamsStay, ThreadsStay DEF TypeOK
<1>3. CASE Accept
  <2>1. /\ UNCHANGED <<toolVars, conn, toServer, toClient, alive, fd, buf, outcome, performed, deaths>>
        /\ cfd' = Head(backlog) /\ backlog' = Tail(backlog)
        /\ thread' = thread \/ thread' = [thread EXCEPT ![Head(backlog)] = "new"]
        /\ backlog # <<>> /\ late' \subseteq Client
    BY <1>0, <1>3 DEF Accept
  <2>2. Head(backlog) \in Client /\ backlog' \in Seq(Client)
    BY <2>1 DEF TypeOK
  <2>3. ThreadsOK'
    <3>1. thread' \in [Client -> {"none", "new", "read", "request", "answer", "done"}]
      BY <2>1, <2>2 DEF TypeOK, ThreadsOK
    <3>2. \A t \in Client : thread'[t] = thread[t] \/ thread'[t] = "new"
      BY <2>1, <2>2 DEF TypeOK, ThreadsOK
    <3>3. cfd' \in Client
      BY <2>1, <2>2
    <3>. QED
      BY <2>1, <3>1, <3>2, <3>3 DEF TypeOK, ThreadsOK
  <2>. QED
    BY <2>1, <2>2, <2>3, ToolsStay, StreamsStay DEF TypeOK
<1>4. ASSUME NEW t \in Client, Begin(t) PROVE TypeOK'
  <2>1. /\ UNCHANGED <<toolVars, conn, toServer, toClient, alive, backlog, cfd, buf, outcome,
                       performed, late, deaths>>
        /\ thread[t] = "new" /\ fd' = [fd EXCEPT ![t] = cfd]
        /\ thread' = [thread EXCEPT ![t] = "read"]
    BY <1>4 DEF Begin
  <2>2. ThreadsOK'
    BY <2>1 DEF TypeOK, ThreadsOK
  <2>. QED
    BY <2>1, <2>2, ToolsStay, StreamsStay DEF TypeOK
<1>5. ASSUME NEW t \in Client, Read(t) PROVE TypeOK'
  <2>1. CASE Dies /\ deaths < MaxDeaths /\ deaths' = deaths + 1
    <3>1. UNCHANGED <<toolVars, toClient, performed, late>>
      BY <1>5 DEF Read
    <3>. QED
      BY <1>0, <2>1, <3>1, TypeDies
  <2>2. CASE ReadPart(t)
    <3>1. thread[t] = "read" /\ fd[t] \in Client
      BY <1>5 DEF Read, TypeOK, ThreadsOK
    <3>2. Rest(toServer[fd[t]], Chunk) \in Seq(Cell) /\ Taken(toServer[fd[t]], Chunk) \in Seq(Cell)
      BY <3>1, TakenProps, ServerAssumption DEF TypeOK, StreamsOK
    <3>3. Text(Taken(toServer[fd[t]], Chunk)) \in Seq(Cell)
      BY <3>2, TextProps
    <3>4. ReadText(t) \in Seq(Cell)
      BY <3>3 DEF TypeOK, ThreadsOK, ReadText
    <3>5. Text(Taken(toServer[fd[t]], Chunk)) # <<>> => ReadText(t) # <<>>
      BY <3>3 DEF TypeOK, ThreadsOK, ReadText
    <3>6. /\ UNCHANGED <<toolVars, toClient, performed, conn, alive, backlog, cfd, fd, outcome,
                         late, deaths>>
          /\ toServer' = [toServer EXCEPT ![fd[t]] = Rest(@, Chunk)]
      BY <1>5, <2>2 DEF Read, ReadPart
    <3>7. StreamsOK'
      BY <3>1, <3>2, <3>6 DEF TypeOK, StreamsOK
    <3>8. CASE UNCHANGED <<thread, buf>>
      BY <3>6, <3>7, <3>8, ToolsStay, ThreadsStay DEF TypeOK, threadVars
    <3>9. ASSUME NEW p, Text(Taken(toServer[fd[t]], Chunk)) # <<>>,
                 buf' = [buf EXCEPT ![t] = IF p = "invalid" THEN <<>> ELSE ReadText(t)],
                 thread' = [thread EXCEPT ![t] = IF p = "ok" THEN "request" ELSE "read"]
          PROVE  TypeOK'
      <4>1. buf' \in [Client -> Seq(Cell)]
        BY <3>4, <3>9 DEF TypeOK, ThreadsOK
      <4>2. ThreadsOK'
        BY <3>1, <3>5, <3>6, <3>9, <4>1 DEF TypeOK, ThreadsOK
      <4>. QED
        BY <3>6, <3>7, <4>2, ToolsStay DEF TypeOK
    <3>. QED
      BY <2>2, <3>8, <3>9 DEF ReadPart
  <2>. QED
    BY <1>5, <2>1, <2>2 DEF Read, ReadPart, ReadText
<1>6. ASSUME NEW t \in Client, NEW ms, Handle(t, ms) PROVE TypeOK'
  <2>1. thread[t] = "request" /\ fd[t] \in Client /\ buf[t] # <<>> /\ buf[t][1].n \in Nat
    <3>1. thread[t] = "request" /\ fd[t] \in Client /\ buf[t] # <<>> /\ buf[t] \in Seq(Cell)
      BY <1>6 DEF Handle, TypeOK, ThreadsOK
    <3>. QED
      BY <3>1, FirstCell
  <2>2. UNCHANGED <<toolVars, toClient, late>>
    BY <1>6 DEF Handle
  <2>3. CASE Dies /\ deaths < MaxDeaths /\ deaths' = deaths + 1 /\ UNCHANGED performed
    BY <1>0, <2>2, <2>3, TypeDies
  <2>4. ASSUME NEW o \in Outcomes,
               outcome' = [outcome EXCEPT ![t] = o], thread' = [thread EXCEPT ![t] = "answer"],
               \/ UNCHANGED performed
               \/ performed' = [performed EXCEPT ![fd[t]] = Append(@, [n |-> buf[t][1].n, o |-> o])],
               UNCHANGED <<conn, toServer, alive, backlog, cfd, fd, buf, deaths>>
        PROVE  TypeOK'
    <3>1. ThreadsOK'
      BY <2>1, <2>4 DEF TypeOK, ThreadsOK
    <3>2. performed' \in [Client -> Seq([n: Nat, o: Outcomes])]
      <4>1. [n |-> buf[t][1].n, o |-> o] \in [n: Nat, o: Outcomes]
        BY <2>1
      <4>2. Append(performed[fd[t]], [n |-> buf[t][1].n, o |-> o]) \in Seq([n: Nat, o: Outcomes])
        BY <1>0, <2>1, <4>1, AppendTyped
      <4>3. CASE performed' = [performed EXCEPT ![fd[t]] = Append(@, [n |-> buf[t][1].n, o |-> o])]
        BY <1>0, <4>2, <4>3
      <4>4. CASE UNCHANGED performed
        BY <1>0, <4>4
      <4>. QED
        BY <2>4, <4>3, <4>4
    <3>. QED
      BY <2>2, <2>4, <3>1, <3>2, ToolsStay, StreamsStay DEF TypeOK
  <2>5. CASE /\ thread' = [thread EXCEPT ![t] = "read"] /\ buf' = [buf EXCEPT ![t] = Cleared(@)]
             /\ UNCHANGED <<conn, toServer, alive, backlog, cfd, fd, outcome, performed, deaths>>
    <3>1. ThreadsOK'
      BY <2>1, <2>5 DEF TypeOK, ThreadsOK, Cleared
    <3>. QED
      BY <2>2, <2>5, <3>1, ToolsStay, StreamsStay DEF TypeOK
  <2>6. "done" \in Outcomes /\ "fail" \in Outcomes /\ "silent" \in Outcomes
    BY DEF Outcomes
  <2>7. \A o \in {"done", "fail"} \cup (Env \cap {"silent"}) : o \in Outcomes
    BY <2>6
  <2>. QED
    BY <1>6, <2>3, <2>4, <2>5, <2>6, <2>7 DEF Handle
<1>7. ASSUME NEW t \in Client, Answer(t) PROVE TypeOK'
  <2>1. /\ thread[t] = "answer" /\ fd[t] \in Client /\ buf[t][1].n \in Nat
        /\ outcome[t] \in Outcomes
    <3>1. /\ thread[t] = "answer" /\ fd[t] \in Client /\ buf[t] # <<>> /\ buf[t] \in Seq(Cell)
          /\ outcome[t] \in Outcomes
      BY <1>7 DEF Answer, TypeOK, ThreadsOK
    <3>. QED
      BY <3>1, FirstCell
  <2>2. UNCHANGED <<toolVars, performed, late>>
    BY <1>7 DEF Answer
  <2>3. CASE Dies /\ UNCHANGED <<toClient, deaths>>
    BY <1>0, <2>2, <2>3, TypeDies
  <2>4. ASSUME NEW len \in ListLen \cup {1},
               toClient' = [toClient EXCEPT ![fd[t]] = @ \o AnswerCells(buf[t][1].n, outcome[t], len)],
               thread' = [thread EXCEPT ![t] = "read"], buf' = [buf EXCEPT ![t] = Cleared(@)],
               outcome' = [outcome EXCEPT ![t] = "none"],
               UNCHANGED <<conn, toServer, alive, backlog, cfd, fd, deaths>>
        PROVE  TypeOK'
    <3>1. ThreadsOK'
      BY <2>1, <2>4 DEF TypeOK, ThreadsOK, Cleared
    <3>2. AnswerCells(buf[t][1].n, outcome[t], len) \in Seq(AnswerCell)
      BY <2>1, CellsTyped, ServerAssumption
    <3>3. toClient' \in [Client -> Seq(AnswerCell)]
      <4>1. toClient \in [Client -> Seq(AnswerCell)]
        BY DEF TypeOK, StreamsOK
      <4> DEFINE cells == AnswerCells(buf[t][1].n, outcome[t], len)
      <4>2. [toClient EXCEPT ![fd[t]] = @ \o cells] \in [Client -> Seq(AnswerCell)]
        <5> HIDE DEF cells
        <5>1. fd[t] \in Client
          BY <2>1
        <5>2. cells \in Seq(AnswerCell)
          BY <3>2 DEF cells
        <5>. QED
          BY <4>1, <5>1, <5>2, JoinTyped
      <4>. QED
        BY <2>4, <4>2
    <3>4. StreamsOK'
      BY <2>4, <3>3 DEF TypeOK, StreamsOK
    <3>. QED
      BY <2>2, <2>4, <3>1, <3>4, ToolsStay DEF TypeOK
  <2>. QED
    BY <1>7, <2>3, <2>4 DEF Answer
<1>8. ASSUME NEW t \in Client, HangUp(t) PROVE TypeOK'
  <2>1. /\ thread' = [thread EXCEPT ![t] = "done"] /\ fd' = [fd EXCEPT ![t] = NoFd]
        /\ buf' = [buf EXCEPT ![t] = <<>>]
        /\ UNCHANGED <<toolVars, conn, toServer, toClient, alive, backlog, cfd, outcome, performed,
                       late, deaths>>
    BY <1>8 DEF HangUp
  <2>2. ThreadsOK'
    BY <2>1 DEF TypeOK, ThreadsOK
  <2>. QED
    BY <2>1, <2>2, ToolsStay, StreamsStay DEF TypeOK
<1>. QED
  BY <1>1, <1>2, <1>3, <1>4, <1>5, <1>6, <1>7, <1>8 DEF Work, HandleChange, HandleQuery

LEMMA TypeStep == TypeOK /\ [Next]_vars => TypeOK'
<1>. SUFFICES ASSUME TypeOK, [Next]_vars PROVE TypeOK'
  OBVIOUS
<1>1. CASE UNCHANGED vars
  BY <1>1, ToolsStay, StreamsStay, ThreadsStay DEF vars, TypeOK
<1>. QED
  BY <1>1, TypeTools, TypeDaemon DEF Next

-----------------------------------------------------------------------------
(***************************************************************************)
(* Threads: every accepted connection has the thread that was made for it, *)
(* until the accept loop overtakes a thread.                               *)
(***************************************************************************)

Busy == {"read", "request", "answer"}
Elems(b) == {b[i] : i \in 1 .. Len(b)}
Distinct(b) == \A i, j \in 1 .. Len(b) : b[i] = b[j] => i = j

OwnThread(c) ==
  /\ thread[c] = "new" => cfd = c
  /\ thread[c] \in Busy => fd[c] = c
  /\ thread[c] \notin Busy => buf[c] = <<>>
  /\ c \in Elems(backlog) => thread[c] = "none" /\ tool[c] # "off" /\ conn[c] # "down"
  /\ tool[c] = "off" => conn[c] = "none" /\ thread[c] = "none"
  /\ conn[c] = "down" => toServer[c] = <<>> /\ thread[c] \in {"none", "done"}
  /\ conn[c] = "up" => \/ c \in Elems(backlog)
                       \/ thread[c] \in Busy \cup {"new"}
                       \/ "threads" \in Env

OwnThreads == Distinct(backlog) /\ \A c \in Client : OwnThread(c)

(***************************************************************************)
(* Messages: where the last call of a tool is.                             *)
(***************************************************************************)

Truthful == Env \cap {"silent", "stale"} = {}

NoHead(s) == \A i \in 1 .. Len(s) : s[i].i # 1
OneHead(s, n) ==
  \E h \in 1 .. Len(s) : /\ s[h].n = n
                         /\ \A i \in 1 .. Len(s) : s[i].i = 1 => i = h

Calls(c) == Len(reqs[c])
Done(k) == [i \in 1 .. k |-> [n |-> i, o |-> "done"]]

\* The operation of the last call came out as o.  A request without parameters
\* fails before anything is done.
Effect(c, o) ==
  \/ performed[c] = Append(Done(Calls(c) - 1), [n |-> Calls(c), o |-> o])
  \/ o = "fail" /\ performed[c] = Done(Calls(c) - 1)

\* The server holds nothing that it might take for a request.
Quiet(c) ==
  /\ NoHead(toServer[c]) /\ buf[c] = <<>> /\ thread[c] \notin {"request", "answer"}

Sent(c) ==
  /\ OneHead(toServer[c], Calls(c))
  /\ buf[c] = <<>> /\ thread[c] \notin {"request", "answer"}
  /\ toClient[c] = <<>> /\ performed[c] = Done(Calls(c) - 1)

Arrived(c) ==
  /\ NoHead(toServer[c])
  /\ buf[c] # <<>> /\ buf[c][1].n = Calls(c) /\ thread[c] \in {"read", "request"}
  /\ toClient[c] = <<>> /\ performed[c] = Done(Calls(c) - 1)

Handled(c) ==
  /\ NoHead(toServer[c])
  /\ buf[c] # <<>> /\ buf[c][1].n = Calls(c) /\ thread[c] = "answer"
  /\ toClient[c] = <<>> /\ outcome[c] \in {"done", "fail"} /\ Effect(c, outcome[c])

Answered(c) ==
  /\ Quiet(c)
  /\ \E o \in {"done", "fail"}, len \in ListLen \cup {1} :
       /\ Effect(c, o)
       /\ toClient[c] = AnswerCells(Calls(c), o, len)
       /\ len = 1 \/ reqs[c][Calls(c)].method \in ListMethods

Lost(c) ==
  /\ Quiet(c)
  /\ toClient[c] = <<>> /\ \E o \in {"done", "fail"} : Effect(c, o)

Asking(c) ==
  /\ Calls(c) = returned[c] + 1
  /\ Sent(c) \/ Arrived(c) \/ Handled(c) \/ Answered(c) \/ Lost(c)

AllDone(c) == performed[c] = Done(Calls(c))

Idle(c) ==
  /\ Calls(c) = returned[c] /\ Quiet(c)
  /\ AllDone(c) \/ (Calls(c) # 0 /\ \E o \in {"done", "fail"} : Effect(c, o))

JobOK(c) ==
  /\ tool[c] = "off" => reqs[c] = <<>> /\ job[c] = <<>> /\ result[c] = "nothing"
                        /\ toClient[c] = <<>>
  /\ Len(job[c]) > 1 => \A i \in 1 .. Len(job[c]) : job[c][i] \notin ListMethods
  /\ tool[c] = "wait" => reqs[c][Calls(c)].method = job[c][1]
  /\ tool[c] = "ready" /\ job[c] # <<>> => toClient[c] = <<>> /\ AllDone(c)
  /\ tool[c] = "ready" /\ result[c] = "success" => AllDone(c)
  /\ status[c] = "ok" => tool[c] = "ended" /\ AllDone(c)

CallOK(c) ==
  /\ tool[c] = "wait" => Asking(c)
  /\ tool[c] \in {"off", "ready", "ended"} => Idle(c)
  /\ tool[c] = "killed" => Asking(c) \/ Idle(c)

CallsOK == \A c \in Client : JobOK(c) /\ CallOK(c)

\* What happens to the tool and the connection d.
Untouched(d) ==
  /\ tool'[d] = tool[d] /\ job'[d] = job[d] /\ reqs'[d] = reqs[d]
  /\ returned'[d] = returned[d] /\ result'[d] = result[d] /\ status'[d] = status[d]
  /\ conn'[d] = conn[d] /\ toServer'[d] = toServer[d] /\ toClient'[d] = toClient[d]
  /\ thread'[d] = thread[d] /\ fd'[d] = fd[d] /\ buf'[d] = buf[d]
  /\ outcome'[d] = outcome[d] /\ performed'[d] = performed[d]

\* The steps of a thread that serves the connection it was made for, seen from
\* this connection.
Begun(t) ==
  /\ thread[t] = "new" /\ thread'[t] = "read" /\ fd'[t] = t
  /\ buf'[t] = buf[t] /\ outcome'[t] = outcome[t] /\ toServer'[t] = toServer[t]
  /\ toClient'[t] = toClient[t] /\ performed'[t] = performed[t]

Chunked(t) == Text(Taken(toServer[t], Chunk))

WasRead(t) ==
  /\ thread[t] = "read" /\ toServer[t] # <<>> /\ toServer'[t] = Rest(toServer[t], Chunk)
  /\ \/ Chunked(t) = <<>> /\ thread'[t] = thread[t] /\ buf'[t] = buf[t]
     \/ /\ Chunked(t) # <<>>
        /\ \E p \in Parsed(t, buf[t] \o Chunked(t)) :
             /\ buf'[t] = IF p = "invalid" THEN <<>> ELSE buf[t] \o Chunked(t)
             /\ thread'[t] = IF p = "ok" THEN "request" ELSE "read"
  /\ fd'[t] = fd[t] /\ outcome'[t] = outcome[t]
  /\ toClient'[t] = toClient[t] /\ performed'[t] = performed[t]

WasHandled(t) ==
  /\ thread[t] = "request" /\ toServer'[t] = toServer[t] /\ toClient'[t] = toClient[t]
  /\ fd'[t] = fd[t]
  /\ \/ /\ outcome'[t] = "fail" /\ thread'[t] = "answer" /\ buf'[t] = buf[t]
        /\ performed'[t] = performed[t]
     \/ /\ outcome'[t] \in {"done", "fail"} \cup (Env \cap {"silent"})
        /\ thread'[t] = "answer" /\ buf'[t] = buf[t]
        /\ performed'[t] = Append(performed[t], [n |-> buf[t][1].n, o |-> outcome'[t]])
     \/ /\ outcome'[t] = outcome[t] /\ thread'[t] = "read" /\ buf'[t] = <<>>
        /\ performed'[t] = performed[t]

WasAnswered(t) ==
  /\ thread[t] = "answer" /\ thread'[t] = "read" /\ buf'[t] = <<>> /\ fd'[t] = fd[t]
  /\ conn[t] = "up" /\ toServer'[t] = toServer[t] /\ performed'[t] = performed[t]
  /\ \E len \in IF reqs[t][buf[t][1].n].method \in ListMethods THEN ListLen ELSE {1} :
       toClient'[t] = toClient[t] \o AnswerCells(buf[t][1].n, outcome[t], len)

WasClosed(t) ==
  /\ thread[t] = "read" /\ thread'[t] = "done" /\ buf'[t] = <<>>
  /\ conn[t] = "closed" /\ toServer[t] = <<>> /\ toServer'[t] = toServer[t]
  /\ toClient'[t] = toClient[t] /\ performed'[t] = performed[t]

Served(t) == Begun(t) \/ WasRead(t) \/ WasHandled(t) \/ WasAnswered(t) \/ WasClosed(t)

Died == Dies /\ UNCHANGED <<toolVars, toClient, performed>>

LEMMA BeginIsLocal ==
  ASSUME TypeOK, OwnThreads, NEW t \in Client, Begin(t)
  PROVE  /\ UNCHANGED <<toolVars, conn, backlog, cfd>>
         /\ Begun(t) /\ \A d \in Client \ {t} : Untouched(d)
<1>1. UNCHANGED <<toolVars, conn, backlog, cfd>>
  BY DEF Begin
<1>2. cfd = t /\ fd \in [Client -> Client \cup {NoFd}] /\ thread \in [Client -> {"none", "new", "read", "request", "answer", "done"}]
  BY DEF Begin, OwnThreads, OwnThread, TypeOK, ThreadsOK
<1>3. Begun(t)
  BY <1>2 DEF Begin, Begun
<1>. QED
  BY <1>1, <1>2, <1>3 DEF Begin, toolVars, Untouched

LEMMA ReadIsLocal ==
  ASSUME TypeOK, OwnThreads, NEW t \in Client, Read(t)
  PROVE  \/ Died
         \/ /\ UNCHANGED <<toolVars, conn, backlog, cfd>>
            /\ WasRead(t) /\ \A d \in Client \ {t} : Untouched(d)
<1>1. fd[t] = t /\ toServer \in [Client -> Seq(Cell)] /\ buf \in [Client -> Seq(Cell)]
      /\ thread \in [Client -> {"none", "new", "read", "request", "answer", "done"}]
  BY DEF Read, OwnThreads, OwnThread, Busy, TypeOK, ThreadsOK, StreamsOK
<1>2. CASE Died
  BY <1>2
<1>3. CASE ReadPart(t)
  <2>1. /\ UNCHANGED <<toolVars, toClient, performed, conn, alive, backlog, cfd, fd, outcome, deaths>>
        /\ thread[t] = "read" /\ toServer[t] # <<>>
        /\ toServer' = [toServer EXCEPT ![t] = Rest(@, Chunk)]
    BY <1>1, <1>3 DEF Read, ReadPart
  <2>2. \/ /\ Chunked(t) = <<>>
           /\ UNCHANGED <<thread, buf>>
        \/ /\ Chunked(t) # <<>>
           /\ \E p \in Parsed(t, buf[t] \o Chunked(t)) :
                /\ buf' = [buf EXCEPT ![t] = IF p = "invalid" THEN <<>> ELSE buf[t] \o Chunked(t)]
                /\ thread' = [thread EXCEPT ![t] = IF p = "ok" THEN "request" ELSE "read"]
    BY <1>1, <1>3 DEF ReadPart, ReadText, Chunked
  <2>3. WasRead(t)
    <3>1. CASE Chunked(t) = <<>> /\ UNCHANGED <<thread, buf>>
      BY <1>1, <2>1, <3>1 DEF WasRead
    <3>2. ASSUME NEW p \in Parsed(t, buf[t] \o Chunked(t)), Chunked(t) # <<>>,
                 buf' = [buf EXCEPT ![t] = IF p = "invalid" THEN <<>> ELSE buf[t] \o Chunked(t)],
                 thread' = [thread EXCEPT ![t] = IF p = "ok" THEN "request" ELSE "read"]
          PROVE  WasRead(t)
      <4>1. /\ buf'[t] = IF p = "invalid" THEN <<>> ELSE buf[t] \o Chunked(t)
            /\ thread'[t] = IF p = "ok" THEN "request" ELSE "read"
        BY <1>1, <3>2
      <4>. QED
        BY <1>1, <2>1, <3>2, <4>1 DEF WasRead
    <3>. QED
      BY <2>2, <3>1, <3>2
  <2>4. \A d \in Client \ {t} : thread'[d] = thread[d] /\ buf'[d] = buf[d]
    BY <1>1, <2>2
  <2>5. \A d \in Client \ {t} : Untouched(d)
    BY <1>1, <2>1, <2>4 DEF toolVars, Untouched
  <2>. QED
    BY <2>1, <2>3, <2>5
<1>. QED
  BY <1>2, <1>3 DEF Read, ReadPart, ReadText, Died

LEMMA HandleIsLocal ==
  ASSUME TypeOK, OwnThreads, NEW t \in Client, NEW ms, Handle(t, ms)
  PROVE  \/ Died
         \/ /\ UNCHANGED <<toolVars, conn, backlog, cfd>>
            /\ WasHandled(t) /\ \A d \in Client \ {t} : Untouched(d)
<1>1. /\ fd[t] = t /\ thread[t] = "request" /\ UNCHANGED <<toolVars, toClient>>
      /\ outcome \in [Client -> Outcomes \cup {"none"}] /\ buf \in [Client -> Seq(Cell)]
      /\ thread \in [Client -> {"none", "new", "read", "request", "answer", "done"}]
      /\ performed \in [Client -> Seq([n: Nat, o: Outcomes])]
  BY DEF Handle, OwnThreads, OwnThread, Busy, TypeOK, ThreadsOK
<1>2. CASE Died
  BY <1>2
<1>3. CASE /\ outcome' = [outcome EXCEPT ![t] = "fail"]
           /\ thread' = [thread EXCEPT ![t] = "answer"]
           /\ UNCHANGED <<conn, toServer, alive, backlog, cfd, fd, buf, performed, deaths>>
  <2>1. WasHandled(t)
    BY <1>1, <1>3 DEF WasHandled
  <2>. QED
    BY <1>1, <1>3, <2>1 DEF toolVars, Untouched
<1>4. ASSUME NEW o \in {"done", "fail"} \cup (Env \cap {"silent"}),
             outcome' = [outcome EXCEPT ![t] = o],
             performed' = [performed EXCEPT ![t] = Append(@, [n |-> buf[t][1].n, o |-> o])],
             thread' = [thread EXCEPT ![t] = "answer"],
             UNCHANGED <<conn, toServer, alive, backlog, cfd, fd, buf, deaths>>
      PROVE  /\ UNCHANGED <<toolVars, conn, backlog, cfd>>
             /\ WasHandled(t) /\ \A d \in Client \ {t} : Untouched(d)
  <2>1. outcome'[t] = o /\ performed'[t] = Append(performed[t], [n |-> buf[t][1].n, o |-> o])
        /\ thread'[t] = "answer"
    BY <1>1, <1>4
  <2>2. WasHandled(t)
    BY <1>1, <1>4, <2>1 DEF WasHandled
  <2>. QED
    BY <1>1, <1>4, <2>2 DEF toolVars, Untouched
<1>5. CASE /\ thread' = [thread EXCEPT ![t] = "read"]
           /\ buf' = [buf EXCEPT ![t] = Cleared(@)]
           /\ UNCHANGED <<conn, toServer, alive, backlog, cfd, fd, outcome, performed, deaths>>
  <2>1. WasHandled(t)
    BY <1>1, <1>5 DEF WasHandled, Cleared
  <2>. QED
    BY <1>1, <1>5, <2>1 DEF toolVars, Untouched
<1>. QED
  BY <1>1, <1>2, <1>3, <1>4, <1>5 DEF Handle, Died

LEMMA AnswerIsLocal ==
  ASSUME TypeOK, OwnThreads, NEW t \in Client, Answer(t)
  PROVE  \/ Died
         \/ /\ UNCHANGED <<toolVars, conn, backlog, cfd>>
            /\ WasAnswered(t) /\ \A d \in Client \ {t} : Untouched(d)
<1>1. /\ fd[t] = t /\ thread[t] = "answer" /\ UNCHANGED <<toolVars, performed>>
      /\ outcome \in [Client -> Outcomes \cup {"none"}] /\ buf \in [Client -> Seq(Cell)]
      /\ thread \in [Client -> {"none", "new", "read", "request", "answer", "done"}]
      /\ toClient \in [Client -> Seq(AnswerCell)]
  BY DEF Answer, OwnThreads, OwnThread, Busy, TypeOK, ThreadsOK, StreamsOK
<1>2. CASE Died
  BY <1>2
<1>3. ASSUME NEW len \in IF reqs[t][buf[t][1].n].method \in ListMethods THEN ListLen ELSE {1},
             conn[t] = "up",
             toClient' = [toClient EXCEPT ![t] = @ \o AnswerCells(buf[t][1].n, outcome[t], len)],
             thread' = [thread EXCEPT ![t] = "read"],
             buf' = [buf EXCEPT ![t] = Cleared(@)],
             outcome' = [outcome EXCEPT ![t] = "none"],
             UNCHANGED <<conn, toServer, alive, backlog, cfd, fd, deaths>>
      PROVE  /\ UNCHANGED <<toolVars, conn, backlog, cfd>>
             /\ WasAnswered(t) /\ \A d \in Client \ {t} : Untouched(d)
  <2>1. toClient'[t] = toClient[t] \o AnswerCells(buf[t][1].n, outcome[t], len)
        /\ thread'[t] = "read" /\ buf'[t] = <<>>
    BY <1>1, <1>3 DEF Cleared
  <2>2. WasAnswered(t)
    BY <1>1, <1>3, <2>1 DEF WasAnswered
  <2>. QED
    BY <1>1, <1>3, <2>2 DEF toolVars, Untouched
<1>. QED
  BY <1>1, <1>2, <1>3 DEF Answer, Died

LEMMA HangUpIsLocal ==
  ASSUME TypeOK, OwnThreads, NEW t \in Client, HangUp(t)
  PROVE  /\ UNCHANGED <<toolVars, conn, backlog, cfd>>
         /\ WasClosed(t) /\ \A d \in Client \ {t} : Untouched(d)
<1>1. /\ fd[t] = t /\ thread[t] = "read" /\ UNCHANGED <<toolVars, conn, backlog, cfd>>
      /\ fd \in [Client -> Client \cup {NoFd}] /\ buf \in [Client -> Seq(Cell)]
      /\ thread \in [Client -> {"none", "new", "read", "request", "answer", "done"}]
  BY DEF HangUp, OwnThreads, OwnThread, Busy, TypeOK, ThreadsOK
<1>2. WasClosed(t)
  BY <1>1 DEF HangUp, WasClosed
<1>. QED
  BY <1>1, <1>2 DEF HangUp, toolVars, Untouched

LEMMA WorkIsLocal ==
  ASSUME TypeOK, OwnThreads, NEW t \in Client, Work(t)
  PROVE  \/ Died
         \/ /\ UNCHANGED <<toolVars, conn, backlog, cfd>>
            /\ Served(t) /\ \A d \in Client \ {t} : Untouched(d)
BY BeginIsLocal, ReadIsLocal, HandleIsLocal, AnswerIsLocal, HangUpIsLocal
   DEF Work, HandleChange, HandleQuery, Served

-----------------------------------------------------------------------------
\* Sequences without duplicates.
LEMMA ElemsAppend ==
  ASSUME NEW S, NEW b \in Seq(S), NEW x \in S
  PROVE  /\ Elems(Append(b, x)) = Elems(b) \cup {x}
         /\ Distinct(b) /\ x \notin Elems(b) => Distinct(Append(b, x))
<1>1. /\ Len(Append(b, x)) = Len(b) + 1 /\ Len(b) \in Nat
      /\ \A i \in 1 .. Len(b) : Append(b, x)[i] = b[i]
      /\ Append(b, x)[Len(b) + 1] = x
  OBVIOUS
<1>2. Elems(Append(b, x)) = Elems(b) \cup {x}
  <2>1. 1 .. Len(b) + 1 = (1 .. Len(b)) \cup {Len(b) + 1}
    BY <1>1
  <2>. QED
    BY <1>1, <2>1 DEF Elems
<1>3. ASSUME Distinct(b), x \notin Elems(b) PROVE Distinct(Append(b, x))
  <2>1. ASSUME NEW i \in 1 .. Len(b) + 1, NEW j \in 1 .. Len(b) + 1,
               Append(b, x)[i] = Append(b, x)[j]
        PROVE  i = j
    <3>1. \A k \in 1 .. Len(b) : b[k] # x
      BY <1>3 DEF Elems
    <3>2. CASE i \in 1 .. Len(b) /\ j \in 1 .. Len(b)
      BY <1>1, <1>3, <2>1, <3>2 DEF Distinct
    <3>3. CASE i = Len(b) + 1 /\ j \in 1 .. Len(b)
      BY <1>1, <2>1, <3>1, <3>3
    <3>4. CASE i \in 1 .. Len(b) /\ j = Len(b) + 1
      BY <1>1, <2>1, <3>1, <3>4
    <3>. QED
      BY <1>1, <3>2, <3>3, <3>4
  <2>. QED
    BY <1>1, <2>1 DEF Distinct
<1>. QED
  BY <1>2, <1>3

LEMMA ElemsTail ==
  ASSUME NEW S, NEW b \in Seq(S), b # <<>>, Distinct(b)
  PROVE  /\ Elems(Tail(b)) = Elems(b) \ {Head(b)} /\ Head(b) \in Elems(b)
         /\ Distinct(Tail(b))
<1>1. /\ Len(b) \in Nat \ {0} /\ Len(Tail(b)) = Len(b) - 1 /\ Head(b) = b[1]
      /\ \A i \in 1 .. Len(b) - 1 : Tail(b)[i] = b[i + 1]
  OBVIOUS
<1>2. Head(b) \in Elems(b)
  BY <1>1 DEF Elems
<1>3. ASSUME NEW x \in Elems(Tail(b)) PROVE x \in Elems(b) \ {Head(b)}
  <2>1. PICK i \in 1 .. Len(b) - 1 : x = b[i + 1]
    BY <1>1 DEF Elems
  <2>2. i + 1 \in 1 .. Len(b) /\ 1 \in 1 .. Len(b) /\ i + 1 # 1
    BY <1>1
  <2>. QED
    BY <1>1, <2>1, <2>2 DEF Elems, Distinct
<1>4. ASSUME NEW x \in Elems(b), x # Head(b) PROVE x \in Elems(Tail(b))
  <2>1. PICK i \in 1 .. Len(b) : x = b[i]
    BY DEF Elems
  <2>2. i # 1
    BY <1>1, <1>4, <2>1
  <2>3. i - 1 \in 1 .. Len(b) - 1 /\ i = (i - 1) + 1
    BY <1>1, <2>2
  <2>4. Tail(b)[i - 1] = x
    BY <1>1, <2>1, <2>3
  <2>. QED
    BY <1>1, <2>3, <2>4 DEF Elems
<1>5. ASSUME NEW i \in 1 .. Len(b) - 1, NEW j \in 1 .. Len(b) - 1, b[i + 1] = b[j + 1]
      PROVE  i = j
  <2>1. i + 1 \in 1 .. Len(b) /\ j + 1 \in 1 .. Len(b)
    BY <1>1
  <2>2. i + 1 = j + 1
    BY <1>5, <2>1 DEF Distinct
  <2>. QED
    BY <2>2
<1>6. Distinct(Tail(b))
  BY <1>1, <1>5 DEF Distinct
<1>. QED
  BY <1>2, <1>3, <1>4, <1>6

-----------------------------------------------------------------------------
LEMMA ThreadsInit == Init => OwnThreads
<1>. SUFFICES ASSUME Init PROVE OwnThreads
  OBVIOUS
<1>1. Elems(backlog) = {} /\ Distinct(backlog)
  BY DEF Init, Elems, Distinct
<1>2. ASSUME NEW c \in Client PROVE OwnThread(c)
  BY <1>1 DEF Init, OwnThread, Busy
<1>. QED
  BY <1>1, <1>2 DEF OwnThreads

\* What happens to others does not matter to a connection.
LEMMA ThreadUntouched ==
  ASSUME NEW d \in Client, OwnThread(d), Untouched(d),
         d \in Elems(backlog)' <=> d \in Elems(backlog),
         thread[d] = "new" => cfd' = cfd
  PROVE  OwnThread(d)'
BY DEF OwnThread, Untouched, Busy

LEMMA ThreadsDied ==
  ASSUME TypeOK, OwnThreads, Dies, UNCHANGED toolVars
  PROVE  OwnThreads'
<1>1. Elems(backlog)' = {} /\ Distinct(backlog)'
  BY DEF Dies, Elems, Distinct
<1>2. ASSUME NEW c \in Client PROVE OwnThread(c)'
  <2>1. /\ thread'[c] \in {"none", "done"} /\ buf'[c] = <<>> /\ toServer'[c] = <<>>
        /\ thread[c] = "none" => thread'[c] = "none"
        /\ conn'[c] # "up" /\ (conn[c] = "none" => conn'[c] = "none") /\ tool' = tool
    BY DEF Dies, toolVars
  <2>. QED
    BY <1>1, <2>1 DEF OwnThreads, OwnThread, Busy
<1>. QED
  BY <1>1, <1>2 DEF OwnThreads

LEMMA ThreadsTools ==
  ASSUME TypeOK, OwnThreads, NEW c \in Client,
         Start(c) \/ Call(c) \/ Receive(c) \/ Exit(c) \/ Quit(c)
  PROVE  OwnThreads'
<1>1. UNCHANGED <<thread, fd, buf, outcome, cfd>>
  BY DEF Start, Call, Receive, Exit, Quit, threadVars
<1>2. CASE Start(c) /\ alive
  <2>1. /\ tool[c] = "off" /\ tool' = [tool EXCEPT ![c] = "ready"]
        /\ conn' = [conn EXCEPT ![c] = "up"] /\ backlog' = Append(backlog, c)
        /\ UNCHANGED <<toServer>>
    BY <1>2 DEF Start
  <2>2. c \notin Elems(backlog) /\ thread[c] = "none" /\ buf[c] = <<>>
    BY <2>1 DEF OwnThreads, OwnThread, Busy
  <2>3. Elems(backlog)' = Elems(backlog) \cup {c} /\ Distinct(backlog)'
    <3>1. backlog \in Seq(Client) /\ Distinct(backlog)
      BY DEF TypeOK, OwnThreads
    <3>2. Elems(Append(backlog, c)) = Elems(backlog) \cup {c} /\ Distinct(Append(backlog, c))
      BY <2>2, <3>1, ElemsAppend
    <3>. QED
      BY <2>1, <3>2
  <2>4. tool'[c] = "ready" /\ conn'[c] = "up"
    BY <2>1 DEF TypeOK, ToolsOK, StreamsOK
  <2>5. OwnThread(c)'
    BY <1>1, <2>2, <2>3, <2>4 DEF OwnThread, Busy
  <2>6. ASSUME NEW d \in Client \ {c} PROVE OwnThread(d)'
    <3>1. tool'[d] = tool[d] /\ conn'[d] = conn[d] /\ toServer'[d] = toServer[d]
      BY <2>1 DEF TypeOK, ToolsOK, StreamsOK
    <3>. QED
      BY <1>1, <2>3, <3>1 DEF OwnThreads, OwnThread, Busy
  <2>. QED
    BY <2>3, <2>5, <2>6 DEF OwnThreads
<1>3. CASE ~(Start(c) /\ alive)
  <2>1. /\ backlog' = backlog
        /\ \A d \in Client : tool'[d] = "off" => tool[d] = "off"
        /\ \A d \in Client : tool[d] = "off" => conn'[d] = conn[d]
        /\ \A d \in Client : conn'[d] = conn[d] \/ conn'[d] = "closed"
        /\ \A d \in Client : conn[d] = "down" => toServer'[d] = toServer[d]
    <3>1. CASE Start(c)
      BY <1>3, <3>1 DEF Start, TypeOK, ToolsOK
    <3>2. CASE Call(c)
      <4>1. UNCHANGED <<conn, backlog>>
        BY <3>2 DEF Call
      <4>2. \A d \in Client : tool'[d] = "off" => tool[d] = "off"
        BY <3>2 DEF Call, TypeOK, ToolsOK
      <4>3. \A d \in Client : conn[d] = "down" => toServer'[d] = toServer[d]
        BY <3>2 DEF Call, TypeOK, StreamsOK
      <4>. QED
        BY <4>1, <4>2, <4>3
    <3>3. CASE Receive(c)
      BY <3>3 DEF Receive, TypeOK, ToolsOK
    <3>4. CASE Exit(c) \/ Quit(c)
      BY <3>4 DEF Exit, Quit, TypeOK, ToolsOK, StreamsOK
    <3>. QED
      BY <3>1, <3>2, <3>3, <3>4
  <2>2. ASSUME NEW d \in Client PROVE OwnThread(d)'
    BY <1>1, <2>1 DEF OwnThreads, OwnThread, Busy
  <2>. QED
    BY <2>1, <2>2 DEF OwnThreads
<1>. QED
  BY <1>2, <1>3

LEMMA ThreadsAccept ==
  ASSUME TypeOK, OwnThreads, Accept, late' = {}
  PROVE  OwnThreads'
<1>0. PICK h : h = Head(backlog)
  OBVIOUS
<1>1. /\ \A t \in Client : thread[t] # "new"
      /\ backlog # <<>> /\ cfd' = h /\ backlog' = Tail(backlog)
      /\ thread' = [thread EXCEPT ![h] = "new"] \/ ("threads" \in Env /\ thread' = thread)
      /\ UNCHANGED <<toolVars, conn, toServer, fd, buf>>
  BY <1>0 DEF Accept
<1>2. /\ Elems(backlog)' = Elems(backlog) \ {h} /\ h \in Elems(backlog) /\ Distinct(backlog)'
      /\ h \in Client
  <2>1. backlog \in Seq(Client) /\ Distinct(backlog)
    BY DEF TypeOK, OwnThreads
  <2>2. /\ Elems(Tail(backlog)) = Elems(backlog) \ {h} /\ h \in Elems(backlog)
        /\ Distinct(Tail(backlog))
    BY <1>0, <1>1, <2>1, ElemsTail
  <2>3. h \in Client
    BY <1>0, <1>1, <2>1
  <2>. QED
    BY <1>1, <2>2, <2>3
<1>3. thread \in [Client -> {"none", "new", "read", "request", "answer", "done"}] /\ tool' = tool
  BY <1>1 DEF TypeOK, ThreadsOK, toolVars
<1>4. OwnThread(h)'
  <2>1. thread[h] = "none" /\ tool[h] # "off" /\ OwnThread(h)
    BY <1>2 DEF OwnThreads, OwnThread
  <2>2. thread'[h] = "new" \/ ("threads" \in Env /\ thread'[h] = "none")
    BY <1>1, <1>2, <1>3, <2>1
  <2>. QED
    BY <1>1, <1>2, <1>3, <2>1, <2>2 DEF OwnThread, Busy
<1>5. ASSUME NEW d \in Client \ {h} PROVE OwnThread(d)'
  <2>1. thread'[d] = thread[d] /\ thread[d] # "new" /\ OwnThread(d)
    BY <1>1, <1>2, <1>3 DEF OwnThreads
  <2>. QED
    BY <1>1, <1>2, <1>3, <2>1 DEF OwnThread, Busy
<1>. QED
  BY <1>2, <1>4, <1>5 DEF OwnThreads

LEMMA ThreadsServed ==
  ASSUME TypeOK, OwnThreads, NEW t \in Client, UNCHANGED <<toolVars, conn, backlog, cfd>>,
         Served(t), \A d \in Client \ {t} : Untouched(d)
  PROVE  OwnThreads'
<1>1. ASSUME NEW d \in Client \ {t} PROVE OwnThread(d)'
  BY ThreadUntouched DEF OwnThreads, Elems
<1>2. tool' = tool /\ conn' = conn /\ Elems(backlog)' = Elems(backlog) /\ OwnThread(t)
  BY DEF toolVars, Elems, OwnThreads
<1>3. thread[t] \in Busy \cup {"new"} /\ t \notin Elems(backlog) /\ tool[t] # "off" /\ conn[t] # "down"
  BY <1>2 DEF OwnThread, Busy, Served, Begun, WasRead, WasHandled, WasAnswered, WasClosed
<1>4. ASSUME Begun(t) PROVE OwnThread(t)'
  BY <1>2, <1>3, <1>4 DEF OwnThread, Busy, Begun
<1>5. ASSUME WasRead(t) PROVE OwnThread(t)'
  <2>1. thread[t] = "read" /\ thread'[t] \in Busy /\ fd'[t] = fd[t]
    BY <1>5 DEF WasRead, Busy
  <2>. QED
    BY <1>2, <1>3, <2>1 DEF OwnThread, Busy
<1>6. ASSUME WasHandled(t) PROVE OwnThread(t)'
  <2>1. thread[t] = "request" /\ thread'[t] \in Busy /\ fd'[t] = fd[t]
    BY <1>6 DEF WasHandled, Busy
  <2>. QED
    BY <1>2, <1>3, <2>1 DEF OwnThread, Busy
<1>7. ASSUME WasAnswered(t) PROVE OwnThread(t)'
  <2>1. thread[t] = "answer" /\ thread'[t] \in Busy /\ fd'[t] = fd[t]
    BY <1>7 DEF WasAnswered, Busy
  <2>. QED
    BY <1>2, <1>3, <2>1 DEF OwnThread, Busy
<1>8. ASSUME WasClosed(t) PROVE OwnThread(t)'
  BY <1>2, <1>3, <1>8 DEF OwnThread, Busy, WasClosed
<1>9. OwnThread(t)'
  BY <1>4, <1>5, <1>6, <1>7, <1>8 DEF Served
<1>. QED
  BY <1>1, <1>2, <1>9 DEF OwnThreads, Distinct

\* The accept loop never catches up with a thread it has overtaken.
LEMMA LateStays == TypeOK /\ [Next]_vars => late \subseteq late'
<1>. SUFFICES ASSUME TypeOK, [Next]_vars PROVE late \subseteq late'
  OBVIOUS
<1>1. CASE UNCHANGED vars
  BY <1>1 DEF vars
<1>2. ASSUME NEW c \in Client, Start(c) \/ Call(c) \/ Receive(c) \/ Exit(c) \/ Quit(c)
      PROVE  late' = late
  BY <1>2 DEF Start, Call, Receive, Exit, Quit
<1>3. ASSUME NEW t \in Client, Work(t) PROVE late' = late
  BY <1>3 DEF Work, Begin, Read, HandleChange, HandleQuery, Handle, Answer, HangUp
<1>4. CASE Crash \/ Restart \/ Accept
  BY <1>4 DEF Crash, Restart, Accept
<1>. QED
  BY <1>1, <1>2, <1>3, <1>4 DEF Next

LEMMA ThreadsStep == TypeOK /\ OwnThreads /\ late' = {} /\ [Next]_vars => OwnThreads'
<1>. SUFFICES ASSUME TypeOK, OwnThreads, late' = {}, [Next]_vars PROVE OwnThreads'
  OBVIOUS
<1>1. CASE UNCHANGED vars
  BY <1>1 DEF vars, toolVars, threadVars, OwnThreads, OwnThread, Elems, Distinct
<1>2. CASE Crash
  BY <1>2, ThreadsDied DEF Crash
<1>3. CASE Restart
  BY <1>3 DEF Restart, toolVars, threadVars, OwnThreads, OwnThread, Elems, Distinct
<1>4. ASSUME NEW t \in Client, Work(t) PROVE OwnThreads'
  BY <1>4, WorkIsLocal, ThreadsDied, ThreadsServed DEF Died
<1>. QED
  BY <1>1, <1>2, <1>3, <1>4, ThreadsTools, ThreadsAccept DEF Next

\* The state of the server is of the right type.
THEOREM TypeCorrect == Spec => []TypeOK
<1>. QED
  BY TypeInit, TypeStep, PTL DEF Spec

LEMMA ThreadsCorrect == Spec => [](late = {} => OwnThreads)
<1>1. TypeOK /\ [Next]_vars => (late' = {} => late = {})
  BY LateStays
<1>2. (late = {} => OwnThreads) /\ TypeOK /\ [Next]_vars => (late = {} => OwnThreads)'
  BY <1>1, ThreadsStep
<1>. QED
  BY <1>2, ThreadsInit, TypeCorrect, PTL DEF Spec

-----------------------------------------------------------------------------
(***************************************************************************)
(* Which thread serves a connection, also after the accept loop overtook   *)
(* the threads of others.                                                  *)
(***************************************************************************)

Placed(c) ==
  /\ thread[c] = "new" => cfd = c \/ c \in late
  /\ thread[c] \in Busy => fd[c] = c \/ c \in late
  /\ c \in Elems(backlog) => thread[c] = "none" /\ tool[c] # "off"
  /\ tool[c] = "off" => conn[c] = "none" /\ thread[c] = "none"
  /\ conn[c] = "up" => \/ c \in Elems(backlog)
                       \/ thread[c] \in Busy \cup {"new"}
                       \/ c \in late \/ "threads" \in Env

Places == Distinct(backlog) /\ \A c \in Client : Placed(c)

LEMMA PlacesInit == Init => Places
<1>. SUFFICES ASSUME Init PROVE Places
  OBVIOUS
<1>1. Elems(backlog) = {} /\ Distinct(backlog)
  BY DEF Init, Elems, Distinct
<1>. QED
  BY <1>1 DEF Init, Places, Placed, Busy

LEMMA PlacesDied ==
  ASSUME TypeOK, Places, Dies, UNCHANGED <<toolVars, late>>
  PROVE  Places'
<1>1. Elems(backlog)' = {} /\ Distinct(backlog)'
  BY DEF Dies, Elems, Distinct
<1>2. ASSUME NEW c \in Client PROVE Placed(c)'
  <2>1. /\ thread'[c] \in {"none", "done"} /\ (thread[c] = "none" => thread'[c] = "none")
        /\ conn'[c] # "up" /\ (conn[c] = "none" => conn'[c] = "none") /\ tool' = tool
    BY DEF Dies, toolVars
  <2>. QED
    BY <1>1, <2>1 DEF Places, Placed, Busy
<1>. QED
  BY <1>1, <1>2 DEF Places

LEMMA PlacesTools ==
  ASSUME TypeOK, Places, NEW c \in Client,
         Start(c) \/ Call(c) \/ Receive(c) \/ Exit(c) \/ Quit(c)
  PROVE  Places'
<1>1. UNCHANGED <<thread, fd, cfd, late>>
  BY DEF Start, Call, Receive, Exit, Quit, threadVars
<1>2. CASE Start(c) /\ alive
  <2>1. /\ tool[c] = "off" /\ tool' = [tool EXCEPT ![c] = "ready"]
        /\ conn' = [conn EXCEPT ![c] = "up"] /\ backlog' = Append(backlog, c)
    BY <1>2 DEF Start
  <2>2. c \notin Elems(backlog) /\ thread[c] = "none"
    BY <2>1 DEF Places, Placed
  <2>3. Elems(backlog)' = Elems(backlog) \cup {c} /\ Distinct(backlog)'
    <3>1. backlog \in Seq(Client) /\ Distinct(backlog)
      BY DEF TypeOK, Places
    <3>2. Elems(Append(backlog, c)) = Elems(backlog) \cup {c} /\ Distinct(Append(backlog, c))
      BY <2>2, <3>1, ElemsAppend
    <3>. QED
      BY <2>1, <3>2
  <2>4. tool'[c] = "ready" /\ conn'[c] = "up"
    BY <2>1 DEF TypeOK, ToolsOK, StreamsOK
  <2>5. Placed(c)'
    BY <1>1, <2>2, <2>3, <2>4 DEF Placed, Busy
  <2>6. ASSUME NEW d \in Client \ {c} PROVE Placed(d)'
    <3>1. tool'[d] = tool[d] /\ conn'[d] = conn[d]
      BY <2>1 DEF TypeOK, ToolsOK, StreamsOK
    <3>. QED
      BY <1>1, <2>3, <3>1 DEF Places, Placed, Busy
  <2>. QED
    BY <2>3, <2>5, <2>6 DEF Places
<1>3. CASE ~(Start(c) /\ alive)
  <2>1. /\ backlog' = backlog
        /\ \A d \in Client : tool'[d] = "off" => tool[d] = "off"
        /\ \A d \in Client : tool[d] = "off" => conn'[d] = conn[d]
        /\ \A d \in Client : conn'[d] = conn[d] \/ conn'[d] = "closed"
    <3>1. CASE Start(c)
      BY <1>3, <3>1 DEF Start, TypeOK, ToolsOK
    <3>2. CASE Call(c)
      BY <3>2 DEF Call, TypeOK, ToolsOK
    <3>3. CASE Receive(c)
      BY <3>3 DEF Receive, TypeOK, ToolsOK
    <3>4. CASE Exit(c) \/ Quit(c)
      BY <3>4 DEF Exit, Quit, TypeOK, ToolsOK, StreamsOK
    <3>. QED
      BY <3>1, <3>2, <3>3, <3>4
  <2>2. ASSUME NEW d \in Client PROVE Placed(d)'
    BY <1>1, <2>1 DEF Places, Placed, Busy
  <2>. QED
    BY <2>1, <2>2 DEF Places
<1>. QED
  BY <1>2, <1>3

LEMMA PlacesAccept ==
  ASSUME TypeOK, Places, Accept
  PROVE  Places'
<1>0. PICK h : h = Head(backlog)
  OBVIOUS
<1>1. /\ backlog # <<>> /\ cfd' = h /\ backlog' = Tail(backlog)
      /\ late' = late \cup {t \in Client : thread[t] = "new"}
      /\ thread' = [thread EXCEPT ![h] = "new"] \/ ("threads" \in Env /\ thread' = thread)
      /\ UNCHANGED <<conn, fd>> /\ tool' = tool
  BY <1>0 DEF Accept, toolVars
<1>2. /\ Elems(backlog)' = Elems(backlog) \ {h} /\ h \in Elems(backlog) /\ Distinct(backlog)'
      /\ h \in Client
  <2>1. backlog \in Seq(Client) /\ Distinct(backlog)
    BY DEF TypeOK, Places
  <2>2. /\ Elems(Tail(backlog)) = Elems(backlog) \ {h} /\ h \in Elems(backlog)
        /\ Distinct(Tail(backlog))
    BY <1>0, <1>1, <2>1, ElemsTail
  <2>3. h \in Client
    BY <1>0, <1>1, <2>1
  <2>. QED
    BY <1>1, <2>2, <2>3
<1>3. thread \in [Client -> {"none", "new", "read", "request", "answer", "done"}]
  BY DEF TypeOK, ThreadsOK
<1>4. Placed(h)'
  <2>1. thread[h] = "none" /\ tool[h] # "off" /\ Placed(h)
    BY <1>2 DEF Places, Placed
  <2>2. thread'[h] = "new" \/ ("threads" \in Env /\ thread'[h] = "none")
    BY <1>1, <1>2, <1>3, <2>1
  <2>. QED
    BY <1>1, <1>2, <1>3, <2>1, <2>2 DEF Placed, Busy
<1>5. ASSUME NEW d \in Client \ {h} PROVE Placed(d)'
  <2>1. thread'[d] = thread[d] /\ Placed(d) /\ (thread[d] = "new" => d \in late')
        /\ (d \in late => d \in late')
    BY <1>1, <1>2, <1>3 DEF Places
  <2>. QED
    BY <1>1, <1>2, <1>3, <2>1 DEF Placed, Busy
<1>. QED
  BY <1>2, <1>4, <1>5 DEF Places

\* A thread goes on with its connection, or ends when the tool has closed it.
LEMMA PlacesThread ==
  ASSUME TypeOK, Places, NEW t \in Client, UNCHANGED <<tool, conn, backlog, cfd, late>>,
         \A d \in Client \ {t} : thread'[d] = thread[d] /\ fd'[d] = fd[d],
         \/ thread[t] = "new" /\ thread'[t] = "read" /\ fd'[t] = cfd
         \/ thread[t] \in Busy /\ thread'[t] \in Busy /\ fd'[t] = fd[t]
         \/ thread[t] = "read" /\ thread'[t] = "done" /\ conn[fd[t]] = "closed"
  PROVE  Places'
<1>1. Elems(backlog)' = Elems(backlog) /\ Distinct(backlog)'
  BY DEF Elems, Places, Distinct
<1>2. ASSUME NEW d \in Client \ {t} PROVE Placed(d)'
  BY <1>1 DEF Places, Placed, Busy
<1>3. t \notin Elems(backlog) /\ tool[t] # "off" /\ Placed(t)
  BY DEF Places, Placed, Busy
<1>4. Placed(t)'
  BY <1>1, <1>3 DEF Placed, Busy
<1>. QED
  BY <1>1, <1>2, <1>4 DEF Places

LEMMA PlacesWork ==
  ASSUME TypeOK, Places, NEW t \in Client, Work(t)
  PROVE  Places'
<1>0. /\ thread \in [Client -> {"none", "new", "read", "request", "answer", "done"}]
      /\ fd \in [Client -> Client \cup {NoFd}]
  BY DEF TypeOK, ThreadsOK
<1>1. CASE Dies /\ UNCHANGED <<toolVars, late>>
  BY <1>1, PlacesDied
<1>2. CASE Begin(t)
  <2>1. /\ UNCHANGED <<tool, conn, backlog, cfd, late>> /\ thread[t] = "new"
        /\ fd' = [fd EXCEPT ![t] = cfd] /\ thread' = [thread EXCEPT ![t] = "read"]
    BY <1>2 DEF Begin, toolVars
  <2>. QED
    BY <1>0, <2>1, PlacesThread
<1>3. ASSUME ~Dies, Read(t) PROVE Places'
  <2>1. /\ UNCHANGED <<tool, conn, backlog, cfd, fd, late>> /\ thread[t] = "read"
        /\ \/ thread' = thread
           \/ \E x \in {"read", "request"} : thread' = [thread EXCEPT ![t] = x]
    BY <1>3 DEF Read, toolVars
  <2>2. /\ \A d \in Client \ {t} : thread'[d] = thread[d] /\ fd'[d] = fd[d]
        /\ thread[t] \in Busy /\ thread'[t] \in Busy /\ fd'[t] = fd[t]
    BY <1>0, <2>1 DEF Busy
  <2>. QED
    BY <2>1, <2>2, PlacesThread
<1>4. ASSUME NEW ms, ~Dies, Handle(t, ms) PROVE Places'
  <2>1. /\ UNCHANGED <<tool, conn, backlog, cfd, fd, late>> /\ thread[t] = "request"
        /\ \E x \in {"read", "answer"} : thread' = [thread EXCEPT ![t] = x]
    BY <1>4 DEF Handle, toolVars
  <2>2. /\ \A d \in Client \ {t} : thread'[d] = thread[d] /\ fd'[d] = fd[d]
        /\ thread[t] \in Busy /\ thread'[t] \in Busy /\ fd'[t] = fd[t]
    BY <1>0, <2>1 DEF Busy
  <2>. QED
    BY <2>1, <2>2, PlacesThread
<1>5. ASSUME ~Dies, Answer(t) PROVE Places'
  <2>1. /\ UNCHANGED <<tool, conn, backlog, cfd, fd, late>> /\ thread[t] = "answer"
        /\ thread' = [thread EXCEPT ![t] = "read"]
    BY <1>5 DEF Answer, toolVars
  <2>2. /\ \A d \in Client \ {t} : thread'[d] = thread[d] /\ fd'[d] = fd[d]
        /\ thread[t] \in Busy /\ thread'[t] \in Busy /\ fd'[t] = fd[t]
    BY <1>0, <2>1 DEF Busy
  <2>. QED
    BY <2>1, <2>2, PlacesThread
<1>6. CASE HangUp(t)
  <2>1. /\ UNCHANGED <<tool, conn, backlog, cfd, late>> /\ thread[t] = "read"
        /\ thread' = [thread EXCEPT ![t] = "done"] /\ fd' = [fd EXCEPT ![t] = NoFd]
        /\ conn[fd[t]] = "closed"
    BY <1>6 DEF HangUp, toolVars
  <2>. QED
    BY <1>0, <2>1, PlacesThread
<1>7. UNCHANGED <<toolVars, late>>
  BY DEF Work, Begin, Read, HandleChange, HandleQuery, Handle, Answer, HangUp
<1>. QED
  BY <1>1, <1>2, <1>3, <1>4, <1>5, <1>6, <1>7 DEF Work, HandleChange, HandleQuery

LEMMA PlacesStep == TypeOK /\ Places /\ [Next]_vars => Places'
<1>. SUFFICES ASSUME TypeOK, Places, [Next]_vars PROVE Places'
  OBVIOUS
<1>1. CASE UNCHANGED vars
  BY <1>1 DEF vars, toolVars, threadVars, Places, Placed, Elems, Distinct
<1>2. CASE Crash
  BY <1>2, PlacesDied DEF Crash
<1>3. CASE Restart
  BY <1>3 DEF Restart, toolVars, threadVars, Places, Placed, Elems, Distinct
<1>. QED
  BY <1>1, <1>2, <1>3, PlacesTools, PlacesAccept, PlacesWork DEF Next

\* The accept loop (jsonrpc_server.c) hands every connection to a thread, and
\* to one only, when threads can be created, but for the connections whose
\* thread it overtakes: those lose their thread to another connection, and no
\* others do.
EveryThreadCreated == "threads" \notin Env

THEOREM ThreadsServe == ASSUME EveryThreadCreated PROVE Spec => []ServedOnce
<1>1. Spec => []Places
  BY PlacesInit, PlacesStep, TypeCorrect, PTL DEF Spec
<1>2. Places /\ TypeOK => ServedOnce
  <2>. SUFFICES ASSUME Places, TypeOK PROVE ServedOnce
    OBVIOUS
  <2>1. ASSUME NEW t \in Working, t \notin late PROVE t \in Client /\ Serves(t) = t
    BY <2>1 DEF Working, Serves, Places, Placed, Busy, TypeOK, ThreadsOK
  <2>2. ASSUME NEW c \in Client, conn[c] = "up", c \notin Waiting, c \notin late
        PROVE  \E t \in Working : Serves(t) = c
    <3>1. c \in Working
      BY <2>2 DEF EveryThreadCreated, Places, Placed, Busy, Waiting, Elems, Working
    <3>. QED
      BY <2>1, <2>2, <3>1
  <2>. QED
    BY <2>1, <2>2 DEF ServedOnce
<1>. QED
  BY <1>1, <1>2, TypeCorrect, PTL

-----------------------------------------------------------------------------
(***************************************************************************)
(* Messages in the streams.                                                *)
(***************************************************************************)

LEMMA HeadlessRead ==
  ASSUME NEW s \in Seq(Cell), NoHead(s), NEW k \in Nat \ {0}
  PROVE  /\ NoHead(Rest(s, k))
         /\ Text(Taken(s, k)) # <<>> => Text(Taken(s, k))[1].i # 1
<1>1. ASSUME NEW i \in 1 .. Len(Rest(s, k)) PROVE Rest(s, k)[i].i # 1
  BY TakenProps DEF NoHead
<1>2. ASSUME Text(Taken(s, k)) # <<>> PROVE Text(Taken(s, k))[1].i # 1
  <2>1. Taken(s, k) \in Seq(Cell)
    BY TakenProps
  <2>2. Text(Taken(s, k))[1] = Taken(s, k)[1] /\ Taken(s, k) # <<>>
    BY <1>2, <2>1, TextProps
  <2>3. s # <<>>
    <3>1. ASSUME s = <<>> PROVE FALSE
      <4>1. Taken(s, k) = <<>>
        BY <3>1 DEF Taken, Smaller
      <4>. QED
        BY <2>2, <4>1
    <3>. QED
      BY <3>1
  <2>4. Taken(s, k)[1] = s[1] /\ 1 \in 1 .. Len(s)
    BY <2>3, TakenProps
  <2>. QED
    BY <2>2, <2>4 DEF NoHead
<1>. QED
  BY <1>1, <1>2 DEF NoHead

LEMMA HeadRead ==
  ASSUME NEW s \in Seq(Cell), NEW n \in Nat, OneHead(s, n), NEW k \in Nat \ {0}
  PROVE  /\ NoHead(Rest(s, k)) \/ OneHead(Rest(s, k), n)
         /\ Text(Taken(s, k)) # <<>> /\ Text(Taken(s, k))[1].i = 1
              => Text(Taken(s, k))[1].n = n /\ NoHead(Rest(s, k))
<1>1. PICK h \in 1 .. Len(s) : s[h].n = n /\ \A i \in 1 .. Len(s) : s[i].i = 1 => i = h
  BY DEF OneHead
<1>2. PICK m \in Nat : /\ m = Smaller(k, Len(s)) /\ m # 0 /\ m <= Len(s)
                       /\ Len(Rest(s, k)) = Len(s) - m
                       /\ \A i \in 1 .. Len(s) - m : Rest(s, k)[i] = s[i + m]
  <2>1. s # <<>>
    BY <1>1
  <2>2. Smaller(k, Len(s)) \in Nat \ {0} /\ Smaller(k, Len(s)) <= Len(s)
    <3>1. Smaller(k, Len(s)) \in Nat \ {0}
      BY <2>1, TakenProps
    <3>2. Smaller(k, Len(s)) \in 0 .. Len(s)
      BY TakenProps
    <3>3. Len(s) \in Nat
      OBVIOUS
    <3>. QED
      BY <3>1, <3>2, <3>3
  <2>3. Len(Rest(s, k)) = Len(s) - Smaller(k, Len(s))
    BY TakenProps
  <2>4. \A i \in 1 .. Len(Rest(s, k)) : Rest(s, k)[i] = s[i + Smaller(k, Len(s))]
    BY TakenProps
  <2>5. PICK m : m = Smaller(k, Len(s))
    OBVIOUS
  <2>. QED
    BY <2>2, <2>3, <2>4, <2>5
<1>3. ASSUME h <= m PROVE NoHead(Rest(s, k))
  <2>1. ASSUME NEW i \in 1 .. Len(s) - m PROVE Rest(s, k)[i].i # 1
    <3>1. i + m \in 1 .. Len(s) /\ i + m # h
      BY <1>2, <1>3
    <3>. QED
      BY <1>1, <1>2, <3>1
  <2>. QED
    BY <1>2, <2>1 DEF NoHead
<1>4. ASSUME h > m PROVE OneHead(Rest(s, k), n)
  <2>1. h - m \in 1 .. Len(s) - m /\ (h - m) + m = h
    BY <1>2, <1>4
  <2>2. Rest(s, k)[h - m] = s[h]
    BY <1>2, <2>1
  <2>3. ASSUME NEW i \in 1 .. Len(s) - m, Rest(s, k)[i].i = 1 PROVE i = h - m
    <3>1. i + m \in 1 .. Len(s) /\ s[i + m].i = 1
      BY <1>2, <2>3
    <3>2. i + m = h
      BY <1>1, <3>1
    <3>. QED
      BY <1>2, <3>2
  <2>. QED
    BY <1>1, <1>2, <2>1, <2>2, <2>3 DEF OneHead
<1>5. ASSUME Text(Taken(s, k)) # <<>>, Text(Taken(s, k))[1].i = 1
      PROVE  Text(Taken(s, k))[1].n = n /\ NoHead(Rest(s, k))
  <2>1. Taken(s, k) \in Seq(Cell)
    BY TakenProps
  <2>2. Text(Taken(s, k))[1] = Taken(s, k)[1]
    BY <1>5, <2>1, TextProps
  <2>3. Taken(s, k)[1] = s[1] /\ 1 \in 1 .. Len(s)
    <3>1. s # <<>>
      BY <1>1
    <3>. QED
      BY <3>1, TakenProps
  <2>4. h = 1
    BY <1>1, <1>5, <2>2, <2>3
  <2>. QED
    BY <1>1, <1>2, <1>3, <2>2, <2>3, <2>4
<1>. QED
  BY <1>1, <1>2, <1>3, <1>4, <1>5

LEMMA HeadWritten ==
  ASSUME NEW s \in Seq(Cell), NoHead(s), NEW n \in Nat, NEW len \in Nat \ {0}
  PROVE  OneHead(s \o Cells(n, len), n)
<1> DEFINE r == Cells(n, len)
           b == s \o r
<1>1. r \in Seq(Cell) /\ Len(r) = len + 1 /\ r[1].n = n /\ r[1].i = 1
      /\ \A i \in 1 .. len + 1 : r[i].i = 1 => i = 1
  BY CellsTyped DEF Cells
<1>2. /\ Len(s) \in Nat /\ Len(b) = Len(s) + len + 1
      /\ \A i \in 1 .. Len(s) : b[i] = s[i]
      /\ \A i \in 1 .. len + 1 : b[Len(s) + i] = r[i]
  <2> HIDE DEF r
  <2>. QED
    BY <1>1
<1>3. Len(s) + 1 \in 1 .. Len(b) /\ b[Len(s) + 1] = r[1]
  BY <1>2
<1>4. ASSUME NEW i \in 1 .. Len(b), b[i].i = 1 PROVE i = Len(s) + 1
  <2>1. i \notin 1 .. Len(s)
    BY <1>2, <1>4 DEF NoHead
  <2>2. i - Len(s) \in 1 .. len + 1 /\ Len(s) + (i - Len(s)) = i
    BY <1>2, <2>1
  <2>3. r[i - Len(s)].i = 1
    BY <1>2, <1>4, <2>2
  <2>4. i - Len(s) = 1
    BY <1>1, <2>2, <2>3
  <2>. QED
    BY <1>2, <2>4
<1> HIDE DEF b
<1>5. OneHead(b, n)
  BY <1>1, <1>3, <1>4 DEF OneHead
<1>. QED
  BY <1>5 DEF b

\* What a tool reads of an answer.
LEMMA AnswerRead ==
  ASSUME NEW n \in Nat, NEW o \in Outcomes, NEW len \in Nat \ {0}, NEW k \in Nat \ {0}
  PROVE  /\ AnswerCells(n, o, len) # <<>>
         /\ LET t == Text(Taken(AnswerCells(n, o, len), k)) IN
              t # <<>> => t[1].n = n /\ t[1].o = o /\ t[1].i = 1
         /\ k > 2 /\ len = 1 => Rest(AnswerCells(n, o, len), k) = <<>>
<1> DEFINE s == AnswerCells(n, o, len)
<1>1. s \in Seq(AnswerCell) /\ Len(s) = len + 1 /\ s[1].n = n /\ s[1].o = o /\ s[1].i = 1
  <2>1. s \in Seq(AnswerCell)
    BY CellsTyped
  <2>2. Len(s) = len + 1 /\ 1 \in 1 .. len + 1 /\ ~(1 > len)
    BY DEF AnswerCells
  <2>3. s[1] = [n |-> n, i |-> 1, o |-> o, len |-> len]
    BY <2>2 DEF AnswerCells
  <2>. QED
    BY <2>1, <2>2, <2>3
<1> HIDE DEF s
<1>2. s # <<>>
  BY <1>1
<1>3. Taken(s, k) \in Seq(AnswerCell) /\ Taken(s, k)[1] = s[1]
  BY <1>1, <1>2, TakenProps
<1>4. Text(Taken(s, k)) # <<>> => Text(Taken(s, k))[1] = s[1]
  BY <1>3, TextProps
<1>5. k > 2 /\ len = 1 => Rest(s, k) = <<>>
  <2>1. k > 2 /\ len = 1 => Len(s) <= k
    BY <1>1
  <2>2. Len(s) <= k => Rest(s, k) = <<>>
    BY <1>1, TakenProps
  <2>. QED
    BY <2>1, <2>2
<1>. QED
  BY <1>1, <1>2, <1>4, <1>5 DEF s

LEMMA DoneProps ==
  /\ Done(0) = <<>>
  /\ \A k \in Nat \ {0} : Append(Done(k - 1), [n |-> k, o |-> "done"]) = Done(k)
  /\ \A k \in Nat : /\ Done(k) \in Seq([n: Nat, o: Outcomes]) /\ Len(Done(k)) = k
                    /\ \A i \in 1 .. k : Done(k)[i] = [n |-> i, o |-> "done"]
<1>1. Done(0) = <<>>
  BY DEF Done
<1>2. ASSUME NEW k \in Nat
      PROVE  /\ Done(k) \in Seq([n: Nat, o: Outcomes]) /\ Len(Done(k)) = k
             /\ \A i \in 1 .. k : Done(k)[i] = [n |-> i, o |-> "done"]
  BY DEF Done, Outcomes
<1>3. ASSUME NEW k \in Nat \ {0}
      PROVE  Append(Done(k - 1), [n |-> k, o |-> "done"]) = Done(k)
  <2>1. k - 1 \in Nat /\ (k - 1) + 1 = k
    OBVIOUS
  <2>2. /\ Done(k - 1) \in Seq([n: Nat, o: Outcomes]) /\ Len(Done(k - 1)) = k - 1
        /\ \A i \in 1 .. k - 1 : Done(k - 1)[i] = [n |-> i, o |-> "done"]
    BY <1>2, <2>1
  <2>3. /\ Done(k) \in Seq([n: Nat, o: Outcomes]) /\ Len(Done(k)) = k
        /\ \A i \in 1 .. k : Done(k)[i] = [n |-> i, o |-> "done"]
    BY <1>2
  <2> HIDE DEF Done
  <2>4. [n |-> k, o |-> "done"] \in [n: Nat, o: Outcomes]
    BY DEF Outcomes
  <2>5. /\ Append(Done(k - 1), [n |-> k, o |-> "done"]) \in Seq([n: Nat, o: Outcomes])
        /\ Len(Append(Done(k - 1), [n |-> k, o |-> "done"])) = k
        /\ \A i \in 1 .. k - 1 : Append(Done(k - 1), [n |-> k, o |-> "done"])[i] = Done(k - 1)[i]
        /\ Append(Done(k - 1), [n |-> k, o |-> "done"])[k] = [n |-> k, o |-> "done"]
    BY <2>1, <2>2, <2>4
  <2>6. \A i \in 1 .. k : Append(Done(k - 1), [n |-> k, o |-> "done"])[i] = Done(k)[i]
    <3>1. \A i \in 1 .. k : i \in 1 .. k - 1 \/ i = k
      OBVIOUS
    <3>. QED
      BY <2>2, <2>3, <2>5, <3>1
  <2>. QED
    BY <2>3, <2>5, <2>6
<1>. QED
  BY <1>1, <1>2, <1>3

-----------------------------------------------------------------------------
LEMMA LocalTypes ==
  ASSUME TypeOK, NEW c \in Client
  PROVE  /\ reqs[c] \in Seq(Request) /\ Calls(c) \in Nat /\ returned[c] \in Nat
         /\ toServer[c] \in Seq(Cell) /\ toClient[c] \in Seq(AnswerCell)
         /\ buf[c] \in Seq(Cell) /\ job[c] \in Seq(Method)
         /\ performed[c] \in Seq([n: Nat, o: Outcomes])
<1>1. reqs[c] \in Seq(Request) /\ returned[c] \in Nat /\ job[c] \in Seq(Method)
  BY DEF TypeOK, ToolsOK
<1>2. toServer[c] \in Seq(Cell) /\ toClient[c] \in Seq(AnswerCell)
  BY DEF TypeOK, StreamsOK
<1>3. buf[c] \in Seq(Cell)
  BY DEF TypeOK, ThreadsOK
<1>4. performed[c] \in Seq([n: Nat, o: Outcomes])
  BY DEF TypeOK
<1>5. Calls(c) \in Nat
  BY <1>1 DEF Calls
<1>. QED
  BY <1>1, <1>2, <1>3, <1>4, <1>5

LEMMA CallsInit == Init => CallsOK
<1>. SUFFICES ASSUME Init, NEW c \in Client PROVE JobOK(c) /\ CallOK(c)
  BY DEF CallsOK
<1>1. /\ tool[c] = "off" /\ job[c] = <<>> /\ reqs[c] = <<>> /\ returned[c] = 0
      /\ result[c] = "nothing" /\ status[c] = "none" /\ toServer[c] = <<>>
      /\ toClient[c] = <<>> /\ thread[c] = "none" /\ buf[c] = <<>> /\ performed[c] = <<>>
  BY DEF Init
<1>2. Calls(c) = 0 /\ AllDone(c) /\ NoHead(toServer[c])
  BY <1>1, DoneProps DEF Calls, AllDone, NoHead
<1>3. Idle(c)
  BY <1>1, <1>2 DEF Idle, Quiet
<1>. QED
  BY <1>1, <1>3 DEF JobOK, CallOK

\* What happens to others does not matter to a call.
LEMMA PhaseUntouched ==
  ASSUME NEW d \in Client, Untouched(d)
  PROVE  /\ Sent(d)' = Sent(d) /\ Arrived(d)' = Arrived(d) /\ Handled(d)' = Handled(d)
         /\ Quiet(d)' = Quiet(d) /\ Answered(d)' = Answered(d) /\ Lost(d)' = Lost(d)
<1>1. Calls(d)' = Calls(d) /\ \A o : Effect(d, o)' = Effect(d, o)
  BY DEF Untouched, Calls, Effect
<1>2. Sent(d)' = Sent(d) /\ Arrived(d)' = Arrived(d)
  BY <1>1 DEF Untouched, Sent, Arrived
<1>3. Quiet(d)' = Quiet(d)
  BY DEF Untouched, Quiet
<1>4. Handled(d)' = Handled(d)
  <2>1. Effect(d, outcome[d])' = Effect(d, outcome[d])
    BY DEF Untouched, Effect, Calls
  <2>. QED
    BY <1>1, <2>1 DEF Untouched, Handled
<1>5. Answered(d)' = Answered(d) /\ Lost(d)' = Lost(d)
  BY <1>1, <1>3 DEF Untouched, Answered, Lost
<1>. QED
  BY <1>2, <1>3, <1>4, <1>5

LEMMA CallsUntouched ==
  ASSUME NEW d \in Client, Untouched(d), JobOK(d), CallOK(d)
  PROVE  (JobOK(d) /\ CallOK(d))'
<1>1. Calls(d)' = Calls(d) /\ AllDone(d)' = AllDone(d) /\ \A o : Effect(d, o)' = Effect(d, o)
  BY DEF Untouched, Calls, AllDone, Effect
<1>2. Asking(d)' = Asking(d) /\ Idle(d)' = Idle(d)
  BY <1>1, PhaseUntouched DEF Untouched, Asking, Idle
<1>3. JobOK(d)'
  BY <1>1 DEF Untouched, JobOK
<1>4. CallOK(d)'
  BY <1>2 DEF Untouched, CallOK
<1>. QED
  BY <1>3, <1>4

LEMMA ReadResult ==
  ASSUME TypeOK, NEW t \in Client, WasRead(t)
  PROVE  \/ buf'[t] = buf[t] /\ thread'[t] = "read"
         \/ buf'[t] = <<>> /\ thread'[t] = "read"
         \/ /\ buf'[t] # <<>> /\ thread'[t] \in {"read", "request"}
            /\ \/ buf[t] # <<>> /\ buf'[t][1] = buf[t][1]
               \/ /\ buf[t] = <<>> /\ Chunked(t) # <<>>
                  /\ buf'[t][1] = Chunked(t)[1] /\ Chunked(t)[1].i = 1
<1>1. CASE Chunked(t) = <<>>
  BY <1>1 DEF WasRead
<1>2. ASSUME NEW p \in Parsed(t, buf[t] \o Chunked(t)), Chunked(t) # <<>>,
             buf'[t] = IF p = "invalid" THEN <<>> ELSE buf[t] \o Chunked(t),
             thread'[t] = IF p = "ok" THEN "request" ELSE "read",
             p # "invalid"
      PROVE  /\ buf'[t] # <<>> /\ thread'[t] \in {"read", "request"}
             /\ \/ buf[t] # <<>> /\ buf'[t][1] = buf[t][1]
                \/ /\ buf[t] = <<>> /\ Chunked(t) # <<>>
                   /\ buf'[t][1] = Chunked(t)[1] /\ Chunked(t)[1].i = 1
  <2>1. buf'[t] = buf[t] \o Chunked(t) /\ thread'[t] \in {"read", "request"}
    BY <1>2
  <2>2. buf[t] \in Seq(Cell) /\ Chunked(t) \in Seq(Cell)
    BY LocalTypes, TakenProps, TextProps, ServerAssumption DEF Chunked
  <2>3. (buf[t] \o Chunked(t))[1].i = 1
    BY <1>2 DEF Parsed
  <2>4. buf[t] \o Chunked(t) # <<>>
    BY <1>2, <2>2
  <2>5. buf[t] # <<>> => (buf[t] \o Chunked(t))[1] = buf[t][1]
    BY <2>2
  <2>6. buf[t] = <<>> => buf[t] \o Chunked(t) = Chunked(t)
    BY <2>2
  <2>. QED
    BY <1>2, <2>1, <2>3, <2>4, <2>5, <2>6
<1>3. ASSUME NEW p \in Parsed(t, buf[t] \o Chunked(t)),
             buf'[t] = IF p = "invalid" THEN <<>> ELSE buf[t] \o Chunked(t),
             thread'[t] = IF p = "ok" THEN "request" ELSE "read",
             p = "invalid"
      PROVE  buf'[t] = <<>> /\ thread'[t] = "read"
  BY <1>3
<1>. QED
  BY <1>1, <1>2, <1>3 DEF WasRead

\* A thread's step leaves a call in one of its phases.
LEMMA PhaseServed ==
  ASSUME Truthful, TypeOK, NEW t \in Client, UNCHANGED toolVars, Served(t)
  PROVE  /\ Asking(t) => Asking(t)'
         /\ Quiet(t) => /\ Quiet(t)' /\ performed'[t] = performed[t]
                        /\ toClient'[t] = toClient[t]
<1>1. /\ Calls(t)' = Calls(t) /\ reqs' = reqs /\ Calls(t) \in Nat /\ returned' = returned
      /\ buf[t] \in Seq(Cell) /\ toServer[t] \in Seq(Cell) /\ Chunk \in Nat \ {0}
  BY LocalTypes, ServerAssumption DEF toolVars, Calls
<1>2. performed'[t] = performed[t] => \A o : Effect(t, o)' = Effect(t, o)
  BY <1>1 DEF Effect
<1>3. CASE Begun(t)
  <2>1. /\ thread[t] = "new" /\ thread'[t] = "read" /\ buf'[t] = buf[t]
        /\ toServer'[t] = toServer[t] /\ toClient'[t] = toClient[t]
        /\ performed'[t] = performed[t]
    BY <1>3 DEF Begun
  <2>2. Quiet(t) => Quiet(t)'
    BY <2>1 DEF Quiet
  <2>3. Sent(t) => Sent(t)'
    BY <1>1, <2>1 DEF Sent
  <2>4. ~Arrived(t) /\ ~Handled(t)
    BY <2>1 DEF Arrived, Handled
  <2>5. (Answered(t) => Answered(t)') /\ (Lost(t) => Lost(t)')
    BY <1>1, <1>2, <2>1, <2>2 DEF Answered, Lost
  <2>. QED
    BY <1>1, <2>1, <2>2, <2>3, <2>4, <2>5 DEF Asking
<1>4. CASE WasRead(t)
  <2>1. /\ thread[t] = "read" /\ toServer'[t] = Rest(toServer[t], Chunk)
        /\ toClient'[t] = toClient[t] /\ performed'[t] = performed[t]
    BY <1>4 DEF WasRead
  <2>2. \/ buf'[t] = buf[t] /\ thread'[t] = "read"
        \/ buf'[t] = <<>> /\ thread'[t] = "read"
        \/ /\ buf'[t] # <<>> /\ thread'[t] \in {"read", "request"}
           /\ \/ buf[t] # <<>> /\ buf'[t][1] = buf[t][1]
              \/ /\ buf[t] = <<>> /\ Chunked(t) # <<>>
                 /\ buf'[t][1] = Chunked(t)[1] /\ Chunked(t)[1].i = 1
    BY <1>4, ReadResult
  <2>3. NoHead(toServer[t]) => /\ NoHead(toServer[t])'
                               /\ Chunked(t) # <<>> => Chunked(t)[1].i # 1
    BY <1>1, <2>1, HeadlessRead DEF Chunked
  <2>4. Quiet(t) => Quiet(t)'
    BY <2>1, <2>2, <2>3 DEF Quiet
  <2>5. (Answered(t) => Answered(t)') /\ (Lost(t) => Lost(t)')
    BY <1>1, <1>2, <2>1, <2>4 DEF Answered, Lost
  <2>6. performed[t] = Done(Calls(t) - 1) => Effect(t, "fail")'
    BY <1>2, <2>1 DEF Effect
  <2>7. Arrived(t) => Arrived(t)' \/ Lost(t)'
    <3>1. ASSUME Arrived(t), buf'[t] # <<>> PROVE Arrived(t)'
      BY <1>1, <2>1, <2>2, <2>3, <3>1 DEF Arrived
    <3>2. ASSUME Arrived(t), buf'[t] = <<>> PROVE Lost(t)'
      <4>1. Quiet(t)'
        BY <2>1, <2>2, <2>3, <3>2 DEF Arrived, Quiet
      <4>. QED
        BY <2>1, <2>6, <3>2, <4>1 DEF Arrived, Lost
    <3>. QED
      BY <3>1, <3>2
  <2>8. ~Handled(t)
    BY <2>1 DEF Handled
  <2>9. Sent(t) => Sent(t)' \/ Arrived(t)' \/ Lost(t)'
    <3>. SUFFICES ASSUME Sent(t) PROVE Sent(t)' \/ Arrived(t)' \/ Lost(t)'
      OBVIOUS
    <3>1. /\ NoHead(toServer'[t]) \/ OneHead(toServer'[t], Calls(t))
          /\ Chunked(t) # <<>> /\ Chunked(t)[1].i = 1
               => Chunked(t)[1].n = Calls(t) /\ NoHead(toServer'[t])
      BY <1>1, <2>1, HeadRead DEF Sent, Chunked
    <3>2. /\ buf[t] = <<>> /\ toClient'[t] = <<>> /\ performed'[t] = Done(Calls(t) - 1)
          /\ Effect(t, "fail")'
      BY <2>1, <2>6 DEF Sent
    <3>3. CASE buf'[t] = <<>>
      <4>1. thread'[t] = "read"
        BY <2>2, <3>2, <3>3
      <4>2. CASE NoHead(toServer'[t])
        <5>1. Quiet(t)'
          BY <3>3, <4>1, <4>2 DEF Quiet
        <5>. QED
          BY <3>2, <5>1 DEF Lost
      <4>3. CASE OneHead(toServer'[t], Calls(t))
        BY <1>1, <3>2, <3>3, <4>1, <4>3 DEF Sent
      <4>. QED
        BY <3>1, <4>2, <4>3
    <3>4. CASE buf'[t] # <<>>
      <4>1. /\ thread'[t] \in {"read", "request"} /\ Chunked(t) # <<>>
            /\ buf'[t][1] = Chunked(t)[1] /\ Chunked(t)[1].i = 1
        BY <2>2, <3>2, <3>4
      <4>. QED
        BY <1>1, <3>1, <3>2, <3>4, <4>1 DEF Arrived
    <3>. QED
      BY <3>3, <3>4
  <2>. QED
    BY <1>1, <2>1, <2>4, <2>5, <2>7, <2>8, <2>9 DEF Asking
<1>5. CASE WasHandled(t)
  <2>1. /\ thread[t] = "request" /\ toServer'[t] = toServer[t] /\ toClient'[t] = toClient[t]
    BY <1>5 DEF WasHandled
  <2>2. ~Sent(t) /\ ~Quiet(t) /\ ~Handled(t) /\ ~Answered(t) /\ ~Lost(t)
    BY <2>1 DEF Sent, Quiet, Handled, Answered, Lost
  <2>3. ASSUME Arrived(t) PROVE Handled(t)' \/ Lost(t)'
    <3>1. /\ NoHead(toServer[t])' /\ buf[t] # <<>> /\ buf[t][1].n = Calls(t)
          /\ toClient'[t] = <<>> /\ performed[t] = Done(Calls(t) - 1)
      BY <2>1, <2>3 DEF Arrived
    <3>2. CASE thread'[t] = "answer"
      <4>1. outcome'[t] \in {"done", "fail"} /\ buf'[t] = buf[t]
        BY <1>5, <3>2 DEF WasHandled, Truthful
      <4>2. \/ outcome'[t] = "fail" /\ performed'[t] = performed[t]
            \/ performed'[t] = Append(performed[t], [n |-> Calls(t), o |-> outcome'[t]])
        BY <1>5, <3>1, <3>2 DEF WasHandled
      <4>3. Effect(t, outcome[t])'
        BY <1>1, <3>1, <4>2 DEF Effect
      <4>. QED
        BY <1>1, <3>1, <3>2, <4>1, <4>3 DEF Handled
    <3>3. CASE thread'[t] # "answer"
      <4>1. thread'[t] = "read" /\ buf'[t] = <<>> /\ performed'[t] = performed[t]
        BY <1>5, <3>3 DEF WasHandled
      <4>2. Quiet(t)' /\ Effect(t, "fail")'
        BY <1>1, <3>1, <4>1 DEF Quiet, Effect
      <4>. QED
        BY <3>1, <4>2 DEF Lost
    <3>. QED
      BY <3>2, <3>3
  <2>. QED
    BY <1>1, <2>2, <2>3 DEF Asking
<1>6. CASE WasAnswered(t)
  <2>1. /\ thread[t] = "answer" /\ thread'[t] = "read" /\ buf'[t] = <<>>
        /\ toServer'[t] = toServer[t] /\ performed'[t] = performed[t]
    BY <1>6 DEF WasAnswered
  <2>2. ~Sent(t) /\ ~Quiet(t) /\ ~Arrived(t) /\ ~Answered(t) /\ ~Lost(t)
    BY <2>1 DEF Sent, Quiet, Arrived, Answered, Lost
  <2>3. ASSUME Handled(t) PROVE Answered(t)'
    <3>1. /\ NoHead(toServer[t]) /\ buf[t][1].n = Calls(t) /\ toClient[t] = <<>>
          /\ outcome[t] \in {"done", "fail"} /\ Effect(t, outcome[t])
      BY <2>3 DEF Handled
    <3>2. PICK len \in IF reqs[t][Calls(t)].method \in ListMethods THEN ListLen ELSE {1} :
            toClient'[t] = <<>> \o AnswerCells(Calls(t), outcome[t], len)
      BY <1>6, <3>1 DEF WasAnswered
    <3>3. PICK o \in {"done", "fail"} : o = outcome[t]
      BY <3>1
    <3>4. len \in Nat /\ o \in Outcomes
      <4>1. len \in ListLen \cup {1}
        BY <3>2
      <4>2. ListLen \subseteq Nat
        BY ServerAssumption
      <4>3. len \in Nat
        BY <4>1, <4>2
      <4>4. o \in Outcomes
        BY <3>3 DEF Outcomes
      <4>. QED
        BY <4>3, <4>4
    <3>5. AnswerCells(Calls(t), o, len) \in Seq(AnswerCell)
      BY <1>1, <3>4, CellsTyped
    <3>6. toClient'[t] = AnswerCells(Calls(t), o, len)
      BY <3>2, <3>3, <3>5
    <3>7. Effect(t, o)'
      BY <1>2, <2>1, <3>1, <3>3
    <3>8. Quiet(t)'
      BY <2>1, <3>1 DEF Quiet
    <3>9. len \in ListLen \cup {1} /\ (len = 1 \/ reqs'[t][Calls(t)].method \in ListMethods)
      BY <1>1, <3>2
    <3>. QED
      BY <1>1, <3>3, <3>6, <3>7, <3>8, <3>9 DEF Answered
  <2>. QED
    BY <1>1, <2>2, <2>3 DEF Asking
<1>7. CASE WasClosed(t)
  <2>1. /\ thread[t] = "read" /\ thread'[t] = "done" /\ buf'[t] = <<>>
        /\ toServer[t] = <<>> /\ toServer'[t] = <<>>
        /\ toClient'[t] = toClient[t] /\ performed'[t] = performed[t]
    BY <1>7 DEF WasClosed
  <2>2. Quiet(t)'
    BY <2>1 DEF Quiet, NoHead
  <2>3. ~Sent(t) /\ ~Handled(t)
    BY <2>1 DEF Sent, OneHead, Handled
  <2>4. (Answered(t) => Answered(t)') /\ (Lost(t) => Lost(t)')
    BY <1>1, <1>2, <2>1, <2>2 DEF Answered, Lost
  <2>5. Arrived(t) => Lost(t)'
    BY <1>1, <1>2, <2>1, <2>2 DEF Arrived, Lost, Effect
  <2>. QED
    BY <1>1, <2>1, <2>2, <2>3, <2>4, <2>5 DEF Asking
<1>. QED
  BY <1>3, <1>4, <1>5, <1>6, <1>7 DEF Served

-----------------------------------------------------------------------------
LEMMA ToolIsLocal ==
  ASSUME TypeOK, NEW c \in Client, Start(c) \/ Call(c) \/ Receive(c) \/ Exit(c) \/ Quit(c)
  PROVE  \A d \in Client \ {c} : Untouched(d)
<1>. SUFFICES ASSUME NEW d \in Client \ {c} PROVE Untouched(d)
  OBVIOUS
<1>1. CASE Start(c)
  <2>1. /\ tool' = [tool EXCEPT ![c] = "ready"] \/ tool' = [tool EXCEPT ![c] = "ended"]
        /\ job' = job \/ \E j \in Jobs : job' = [job EXCEPT ![c] = j]
        /\ conn' = conn \/ conn' = [conn EXCEPT ![c] = "up"]
        /\ status' = status \/ status' = [status EXCEPT ![c] = "unavailable"]
    BY <1>1 DEF Start
  <2>2. tool'[d] = tool[d] /\ job'[d] = job[d]
    BY <2>1 DEF TypeOK, ToolsOK
  <2>3. conn'[d] = conn[d] /\ status'[d] = status[d]
    BY <2>1 DEF TypeOK, ToolsOK, StreamsOK
  <2>4. UNCHANGED <<reqs, returned, result, toServer, toClient, threadVars, performed>>
    BY <1>1 DEF Start
  <2>. QED
    BY <2>2, <2>3, <2>4 DEF threadVars, Untouched
<1>2. CASE Call(c)
  BY <1>2 DEF Call, threadVars, Untouched, TypeOK, ToolsOK, StreamsOK
<1>3. CASE Receive(c)
  <2>1. PICK res : /\ result' = [result EXCEPT ![c] = res]
                   /\ job' = [job EXCEPT ![c] = IF res = "success" THEN Tail(@) ELSE <<>>]
    BY <1>3 DEF Receive
  <2>2. result'[d] = result[d] /\ job'[d] = job[d]
    BY <2>1 DEF TypeOK, ToolsOK
  <2>. QED
    BY <1>3, <2>2 DEF Receive, threadVars, Untouched, TypeOK, ToolsOK, StreamsOK
<1>4. CASE Exit(c)
  BY <1>4 DEF Exit, threadVars, Untouched, TypeOK, ToolsOK, StreamsOK
<1>5. CASE Quit(c)
  BY <1>5 DEF Quit, threadVars, Untouched, TypeOK, ToolsOK, StreamsOK
<1>. QED
  BY <1>1, <1>2, <1>3, <1>4, <1>5

LEMMA StartOK ==
  ASSUME TypeOK, NEW c \in Client, JobOK(c), CallOK(c), Start(c)
  PROVE  (JobOK(c) /\ CallOK(c))'
<1>1. /\ tool[c] = "off" /\ Idle(c) /\ reqs[c] = <<>> /\ job[c] = <<>>
      /\ result[c] = "nothing" /\ toClient[c] = <<>> /\ status[c] # "ok"
  BY DEF Start, JobOK, CallOK
<1>2. /\ UNCHANGED <<reqs, returned, result, toServer, toClient, thread, fd, buf, outcome, performed>>
      /\ Calls(c) = 0 /\ Calls(c)' = 0
  BY <1>1 DEF Start, threadVars, Calls
<1>3. AllDone(c)
  BY <1>1, <1>2 DEF Idle
<1>4. AllDone(c)' /\ Idle(c)'
  BY <1>1, <1>2, <1>3 DEF AllDone, Idle, Quiet
<1>5. CASE alive
  <2>1. /\ tool' = [tool EXCEPT ![c] = "ready"] /\ status' = status
        /\ job' \in {[job EXCEPT ![c] = j] : j \in Jobs}
    BY <1>5 DEF Start
  <2>2. tool'[c] = "ready" /\ job'[c] \in Jobs
    BY <2>1 DEF TypeOK, ToolsOK
  <2>3. Len(job'[c]) > 1 => \A i \in 1 .. Len(job'[c]) : job'[c][i] \notin ListMethods
    <3>1. ASSUME NEW m, job'[c] = <<m>> PROVE ~(Len(job'[c]) > 1)
      BY <3>1
    <3>2. ASSUME NEW k \in 1 .. MaxCalls, NEW m \in {"settag", "unsettag"},
                 job'[c] = [i \in 1 .. k |-> m]
          PROVE  \A i \in 1 .. Len(job'[c]) : job'[c][i] \notin ListMethods
      <4>1. k \in Nat
        BY ServerAssumption
      <4>2. Len(job'[c]) = k /\ \A i \in 1 .. k : job'[c][i] = m
        BY <3>2, <4>1
      <4>. QED
        BY <4>2 DEF ListMethods
    <3>3. TagCommand.set = "settag" /\ TagCommand.unset = "unsettag"
      BY DEF TagCommand
    <3>4. \/ \E m : job'[c] = <<m>>
          \/ \E k \in 1 .. MaxCalls, m \in {"settag", "unsettag"} : job'[c] = [i \in 1 .. k |-> m]
      <4>1. \A j \in Jobs :
              \/ \E m : j = <<m>>
              \/ \E k \in 1 .. MaxCalls, m \in Method \cap {TagCommand.set, TagCommand.unset} :
                   j = [i \in 1 .. k |-> m]
        BY DEF Jobs
      <4>2. \A x : x \in Method \cap {TagCommand.set, TagCommand.unset}
                     => x \in {"settag", "unsettag"}
        BY <3>3
      <4>3. PICK j \in Jobs : j = job'[c]
        BY <2>2
      <4>4. \/ \E m : j = <<m>>
            \/ \E k \in 1 .. MaxCalls, m \in Method \cap {TagCommand.set, TagCommand.unset} :
                 j = [i \in 1 .. k |-> m]
        BY <4>1
      <4>5. ASSUME NEW k \in 1 .. MaxCalls, NEW m \in Method \cap {TagCommand.set, TagCommand.unset},
                   j = [i \in 1 .. k |-> m]
            PROVE  m \in {"settag", "unsettag"} /\ job'[c] = [i \in 1 .. k |-> m]
        BY <4>2, <4>3, <4>5
      <4>6. CASE \E m : j = <<m>>
        BY <4>3, <4>6
      <4>7. CASE \E k \in 1 .. MaxCalls, m \in Method \cap {TagCommand.set, TagCommand.unset} :
                   j = [i \in 1 .. k |-> m]
        <5>1. PICK k \in 1 .. MaxCalls, m \in Method \cap {TagCommand.set, TagCommand.unset} :
                j = [i \in 1 .. k |-> m]
          BY <4>7
        <5>2. m \in {"settag", "unsettag"} /\ job'[c] = [i \in 1 .. k |-> m]
          BY <4>5, <5>1
        <5>. QED
          BY <5>2
      <4>. QED
        BY <4>4, <4>6, <4>7
    <3>. QED
      BY <3>1, <3>2, <3>4
  <2>. QED
    BY <1>1, <1>2, <1>4, <2>1, <2>2, <2>3 DEF JobOK, CallOK
<1>6. CASE ~alive
  <2>1. /\ tool' = [tool EXCEPT ![c] = "ended"] /\ job' = job
        /\ status' = [status EXCEPT ![c] = "unavailable"]
    BY <1>6 DEF Start
  <2>2. tool'[c] = "ended" /\ status'[c] = "unavailable" /\ Len(job'[c]) = 0
    BY <1>1, <2>1 DEF TypeOK, ToolsOK
  <2>. QED
    BY <1>4, <2>2 DEF JobOK, CallOK
<1>. QED
  BY <1>5, <1>6

LEMMA CallStepOK ==
  ASSUME TypeOK, NEW c \in Client, JobOK(c), CallOK(c), Call(c)
  PROVE  (JobOK(c) /\ CallOK(c))'
<1>1. /\ tool[c] = "ready" /\ job[c] # <<>> /\ Idle(c) /\ AllDone(c) /\ toClient[c] = <<>>
      /\ status[c] # "ok"
  BY DEF Call, JobOK, CallOK
<1>2. UNCHANGED <<job, returned, result, status, toClient, thread, fd, buf, outcome, performed>>
  BY DEF Call, threadVars
<1>3. CASE tool' = [tool EXCEPT ![c] = "killed"] /\ UNCHANGED <<reqs, toServer>>
  <2>1. tool'[c] = "killed"
    BY <1>3 DEF TypeOK, ToolsOK
  <2>2. Idle(c)'
    BY <1>1, <1>2, <1>3 DEF Idle, Quiet, Calls, AllDone
  <2>3. JobOK(c)'
    BY <1>1, <1>2, <1>3, <2>1 DEF JobOK
  <2>. QED
    BY <2>1, <2>2, <2>3 DEF CallOK
<1>4. ASSUME NEW r \in Request, r.method = Head(job[c]),
             reqs' = [reqs EXCEPT ![c] = Append(@, r)],
             toServer' = [toServer EXCEPT ![c] = @ \o Cells(Len(reqs[c]) + 1, r.len)],
             tool' = [tool EXCEPT ![c] = "wait"]
      PROVE  (JobOK(c) /\ CallOK(c))'
  <2>1. /\ reqs[c] \in Seq(Request) /\ Calls(c) \in Nat /\ toServer[c] \in Seq(Cell)
        /\ job[c] \in Seq(Method)
    BY LocalTypes
  <2>2. /\ reqs'[c] = Append(reqs[c], r) /\ tool'[c] = "wait"
        /\ toServer'[c] = toServer[c] \o Cells(Calls(c) + 1, r.len)
    BY <1>4 DEF TypeOK, ToolsOK, StreamsOK, Calls
  <2>3. Calls(c)' = Calls(c) + 1 /\ reqs'[c][Calls(c) + 1] = r
    BY <2>1, <2>2 DEF Calls
  <2>4. r.len \in Nat \ {0}
    BY ServerAssumption DEF Request
  <2>5. OneHead(toServer'[c], Calls(c) + 1)
    BY <1>1, <2>1, <2>2, <2>4, HeadWritten DEF Idle, Quiet
  <2>6. Sent(c)'
    <3>1. (Calls(c) + 1) - 1 = Calls(c)
      BY <2>1
    <3>. QED
      BY <1>1, <1>2, <2>3, <2>5, <3>1 DEF Sent, Idle, Quiet, AllDone
  <2>7. Asking(c)'
    BY <1>1, <1>2, <2>3, <2>6 DEF Asking, Idle
  <2>8. reqs'[c][Calls(c) + 1].method = job'[c][1]
    <3>1. Head(job[c]) = job[c][1]
      OBVIOUS
    <3>. QED
      BY <1>2, <1>4, <2>3, <3>1
  <2>9. JobOK(c)'
    BY <1>1, <1>2, <2>2, <2>3, <2>8 DEF JobOK
  <2>. QED
    BY <2>2, <2>7, <2>9 DEF CallOK
<1>. QED
  BY <1>3, <1>4 DEF Call

\* What a call makes of what it finds to read.
LEMMA ResultIsTrue ==
  ASSUME Truthful, TypeOK, OwnThreads, NEW c \in Client, tool[c] = "wait", JobOK(c), Asking(c),
         toClient[c] # <<>> \/ conn[c] = "down",
         NEW res \in Results(c, Text(Taken(toClient[c], MaxResponse)))
  PROVE  /\ Quiet(c)
         /\ \E o \in {"done", "fail"} : Effect(c, o) /\ (res = "success" => o = "done")
         /\ res = "success" /\ reqs[c][Calls(c)].method \notin ListMethods
              => Rest(toClient[c], MaxResponse) = <<>>
<1> DEFINE t == Text(Taken(toClient[c], MaxResponse))
<1>1. MaxResponse \in Nat \ {0} /\ MaxResponse > 2 /\ "stale" \notin Env
  BY ServerAssumption DEF Truthful
<1>2. CASE toClient[c] = <<>>
  <2>1. conn[c] = "down" /\ toServer[c] = <<>> /\ thread[c] \in {"none", "done"} /\ buf[c] = <<>>
    BY <1>2 DEF OwnThreads, OwnThread, Busy
  <2>2. Quiet(c)
    BY <2>1 DEF Quiet, NoHead
  <2>3. ~Arrived(c) /\ ~Handled(c) /\ (Sent(c) => Effect(c, "fail"))
    BY <2>1 DEF Arrived, Handled, Sent, Effect
  <2>4. \E o \in {"done", "fail"} : Effect(c, o)
    BY <2>3 DEF Asking, Answered, Lost
  <2>5. t = <<>>
    <3>1. Taken(<<>>, MaxResponse) = <<>>
      BY <1>1 DEF Taken, Smaller
    <3>2. Text(<<>>) = <<>>
      BY DEF Text
    <3>. QED
      BY <1>2, <3>1, <3>2
  <2>6. res = "failure"
    BY <1>1, <2>5 DEF Results
  <2>. QED
    BY <2>2, <2>4, <2>6
<1>3. CASE toClient[c] # <<>>
  <2>1. Answered(c)
    BY <1>3 DEF Asking, Sent, Arrived, Handled, Lost
  <2>2. PICK o \in {"done", "fail"}, len \in ListLen \cup {1} :
          /\ Effect(c, o) /\ toClient[c] = AnswerCells(Calls(c), o, len)
          /\ len = 1 \/ reqs[c][Calls(c)].method \in ListMethods
    BY <2>1 DEF Answered
  <2>3. len \in Nat \ {0} /\ o \in Outcomes /\ Calls(c) \in Nat
    <3>1. ListLen \subseteq Nat \ {0} /\ Calls(c) \in Nat
      BY LocalTypes, ServerAssumption
    <3>. QED
      BY <3>1 DEF Outcomes
  <2>4. /\ t # <<>> => t[1].n = Calls(c) /\ t[1].o = o
        /\ len = 1 => Rest(toClient[c], MaxResponse) = <<>>
    BY <1>1, <2>2, <2>3, AnswerRead
  <2>5. ASSUME res = "success" PROVE o = "done"
    <3> HIDE DEF t
    <3>1. res \in Results(c, t)
      BY DEF t
    <3>2. t # <<>>
      BY <1>1, <2>5, <3>1 DEF Results
    <3>3. t[1].n = Len(reqs[c]) /\ t[1].o = o
      BY <2>4, <3>2 DEF Calls
    <3>4. Succeeds(reqs[c][Len(reqs[c])].method, o)
      BY <2>5, <3>1, <3>2, <3>3 DEF Results
    <3>. QED
      BY <3>4 DEF Succeeds, ByError, ByValue
  <2>. QED
    BY <2>1, <2>2, <2>4, <2>5 DEF Answered
<1>. QED
  BY <1>2, <1>3

LEMMA ReceiveOK ==
  ASSUME Truthful, TypeOK, OwnThreads, NEW c \in Client, JobOK(c), CallOK(c), Receive(c)
  PROVE  (JobOK(c) /\ CallOK(c))'
<1>1. /\ tool[c] = "wait" /\ Asking(c) /\ (toClient[c] # <<>> \/ conn[c] = "down")
      /\ status[c] # "ok" /\ job[c] # <<>> /\ reqs[c] # <<>>
  BY DEF Receive, JobOK, CallOK, TypeOK, ToolsOK
<1>2. /\ UNCHANGED <<reqs, status, toServer, thread, fd, buf, outcome, performed>>
      /\ tool'[c] = "ready" /\ returned'[c] = returned[c] + 1
      /\ toClient'[c] = Rest(toClient[c], MaxResponse)
  BY DEF Receive, threadVars, TypeOK, ToolsOK, StreamsOK
<1>3. PICK res \in Results(c, Text(Taken(toClient[c], MaxResponse))) :
        result'[c] = res /\ job'[c] = IF res = "success" THEN Tail(job[c]) ELSE <<>>
  BY DEF Receive, TypeOK, ToolsOK
<1>4. PICK o \in {"done", "fail"} : Effect(c, o) /\ (res = "success" => o = "done")
  BY <1>1, ResultIsTrue
<1>5. Quiet(c) /\ (res = "success" /\ reqs[c][Calls(c)].method \notin ListMethods
                     => toClient'[c] = <<>>)
  BY <1>1, <1>2, ResultIsTrue
<1>6. /\ Calls(c) \in Nat /\ Calls(c) # 0 /\ Calls(c)' = Calls(c) /\ Calls(c) = returned[c] + 1
      /\ job[c] \in Seq(Method) /\ reqs[c] \in Seq(Request)
  BY <1>1, <1>2, LocalTypes DEF Calls, Asking
<1>7. res = "success" => AllDone(c)
  <2>1. o = "done" => performed[c] = Append(Done(Calls(c) - 1), [n |-> Calls(c), o |-> "done"])
    BY <1>4 DEF Effect
  <2>2. Append(Done(Calls(c) - 1), [n |-> Calls(c), o |-> "done"]) = Done(Calls(c))
    BY <1>6, DoneProps
  <2>. QED
    BY <1>4, <2>1, <2>2 DEF AllDone
<1>8. Effect(c, o)' /\ AllDone(c)' = AllDone(c) /\ Quiet(c)'
  BY <1>2, <1>4, <1>5, <1>6 DEF Effect, AllDone, Quiet
<1>9. Idle(c)'
  BY <1>2, <1>6, <1>8 DEF Idle
<1>10. job'[c] # <<>> => res = "success" /\ toClient'[c] = <<>>
  <2>. SUFFICES ASSUME job'[c] # <<>> PROVE res = "success" /\ toClient'[c] = <<>>
    OBVIOUS
  <2>1. res = "success" /\ Tail(job[c]) # <<>>
    BY <1>3
  <2>2. Len(job[c]) > 1 /\ 1 \in 1 .. Len(job[c])
    BY <1>1, <1>6, <2>1
  <2>3. reqs[c][Calls(c)].method = job[c][1]
    BY <1>1 DEF JobOK
  <2>4. job[c][1] \notin ListMethods
    BY <2>2 DEF JobOK
  <2>. QED
    BY <1>5, <2>1, <2>3, <2>4
<1>11. Len(job'[c]) > 1 => \A i \in 1 .. Len(job'[c]) : job'[c][i] \notin ListMethods
  <2>1. CASE job'[c] = Tail(job[c])
    <3>. SUFFICES ASSUME Len(Tail(job[c])) > 1, NEW i \in 1 .. Len(Tail(job[c]))
                  PROVE  Tail(job[c])[i] \notin ListMethods
      BY <2>1
    <3>1. /\ Len(Tail(job[c])) = Len(job[c]) - 1 /\ Tail(job[c])[i] = job[c][i + 1]
          /\ Len(job[c]) \in Nat
      BY <1>1, <1>6
    <3>2. Len(job[c]) > 1 /\ i + 1 \in 1 .. Len(job[c])
      BY <3>1
    <3>. QED
      BY <3>1, <3>2 DEF JobOK
  <2>2. CASE job'[c] = <<>>
    BY <2>2
  <2>. QED
    BY <1>3, <2>1, <2>2
<1>. QED
  BY <1>1, <1>2, <1>3, <1>7, <1>8, <1>9, <1>10, <1>11 DEF JobOK, CallOK

LEMMA ExitOK ==
  ASSUME TypeOK, NEW c \in Client, JobOK(c), CallOK(c), Exit(c) \/ Quit(c)
  PROVE  (JobOK(c) /\ CallOK(c))'
<1>1. /\ UNCHANGED <<job, reqs, returned, result, toServer, thread, fd, buf, outcome, performed>>
      /\ toClient'[c] = <<>>
  BY DEF Exit, Quit, threadVars, TypeOK, StreamsOK
<1>2. /\ Calls(c)' = Calls(c) /\ AllDone(c)' = AllDone(c) /\ Quiet(c)' = Quiet(c)
      /\ \A o : Effect(c, o)' = Effect(c, o)
  BY <1>1 DEF Calls, AllDone, Quiet, Effect
<1>3. Idle(c)' = Idle(c)
  BY <1>1, <1>2 DEF Idle
<1>4. CASE Exit(c)
  <2>1. /\ tool[c] = "ready" /\ tool'[c] = "ended" /\ job[c] = <<>>
        /\ status'[c] = IF result[c] = "success" THEN "ok" ELSE "failure"
    BY <1>4 DEF Exit, TypeOK, ToolsOK
  <2>. QED
    BY <1>1, <1>2, <1>3, <2>1 DEF JobOK, CallOK
<1>5. CASE Quit(c)
  <2>1. tool[c] \in {"ready", "wait"} /\ tool'[c] = "killed" /\ status' = status
    BY <1>5 DEF Quit, TypeOK, ToolsOK
  <2>2. Asking(c) => Asking(c)'
    <3>1. (Sent(c) => Sent(c)') /\ (Arrived(c) => Arrived(c)')
      BY <1>1, <1>2 DEF Sent, Arrived
    <3>2. Handled(c) => Handled(c)'
      BY <1>1, <1>2 DEF Handled, Effect
    <3>3. Answered(c) \/ Lost(c) => Lost(c)'
      BY <1>1, <1>2 DEF Answered, Lost
    <3>. QED
      BY <1>1, <1>2, <3>1, <3>2, <3>3 DEF Asking
  <2>3. Asking(c) \/ Idle(c)
    BY <2>1 DEF CallOK
  <2>4. JobOK(c)'
    BY <1>1, <2>1 DEF JobOK
  <2>. QED
    BY <1>3, <2>1, <2>2, <2>3, <2>4 DEF CallOK
<1>. QED
  BY <1>4, <1>5

LEMMA CallsDied ==
  ASSUME TypeOK, Died, NEW c \in Client, JobOK(c), CallOK(c)
  PROVE  (JobOK(c) /\ CallOK(c))'
<1>1. /\ UNCHANGED <<tool, job, reqs, returned, result, status, toClient, performed>>
      /\ toServer'[c] = <<>> /\ buf'[c] = <<>> /\ thread'[c] \in {"none", "done"}
  BY DEF Died, Dies, toolVars
<1>2. /\ Calls(c)' = Calls(c) /\ AllDone(c)' = AllDone(c) /\ Quiet(c)'
      /\ \A o : Effect(c, o)' = Effect(c, o)
  BY <1>1 DEF Calls, AllDone, Quiet, Effect, NoHead
<1>3. Idle(c) => Idle(c)'
  BY <1>1, <1>2 DEF Idle
<1>4. Asking(c) => Asking(c)'
  <2>1. Sent(c) \/ Arrived(c) => toClient[c] = <<>> /\ Effect(c, "fail")
    BY DEF Sent, Arrived, Effect
  <2>2. Sent(c) \/ Arrived(c) \/ Handled(c) \/ Lost(c) => Lost(c)'
    BY <1>1, <1>2, <2>1 DEF Handled, Lost
  <2>3. Answered(c) => Answered(c)'
    BY <1>1, <1>2 DEF Answered
  <2>. QED
    BY <1>1, <1>2, <2>2, <2>3 DEF Asking
<1>5. JobOK(c)'
  BY <1>1, <1>2 DEF JobOK
<1>. QED
  BY <1>1, <1>3, <1>4, <1>5 DEF CallOK

LEMMA CallsAccept ==
  ASSUME TypeOK, OwnThreads, Accept, NEW c \in Client, JobOK(c), CallOK(c)
  PROVE  (JobOK(c) /\ CallOK(c))'
<1>1. UNCHANGED <<tool, job, reqs, returned, result, status, toClient, performed, toServer, buf,
                  outcome>>
  BY DEF Accept, toolVars
<1>2. thread'[c] = thread[c] \/ (thread[c] = "none" /\ thread'[c] = "new")
  <2>1. PICK h : h = Head(backlog)
    OBVIOUS
  <2>2. thread' = [thread EXCEPT ![h] = "new"] \/ thread' = thread
    BY <2>1 DEF Accept
  <2>3. h \in Elems(backlog)
    <3>1. backlog \in Seq(Client) /\ backlog # <<>> /\ Distinct(backlog)
      BY DEF Accept, TypeOK, OwnThreads
    <3>. QED
      BY <2>1, <3>1, ElemsTail
  <2>. QED
    BY <2>2, <2>3 DEF OwnThreads, OwnThread, TypeOK, ThreadsOK
<1>3. /\ Calls(c)' = Calls(c) /\ AllDone(c)' = AllDone(c) /\ (Quiet(c) => Quiet(c)')
      /\ \A o : Effect(c, o)' = Effect(c, o)
  BY <1>1, <1>2 DEF Calls, AllDone, Quiet, Effect
<1>4. Idle(c) => Idle(c)'
  BY <1>1, <1>3 DEF Idle
<1>5. Asking(c) => Asking(c)'
  <2>1. (Sent(c) => Sent(c)') /\ (Arrived(c) => Arrived(c)')
    BY <1>1, <1>2, <1>3 DEF Sent, Arrived
  <2>2. Handled(c) => Handled(c)'
    BY <1>1, <1>2, <1>3 DEF Handled, Effect
  <2>3. (Answered(c) => Answered(c)') /\ (Lost(c) => Lost(c)')
    BY <1>1, <1>3 DEF Answered, Lost
  <2>. QED
    BY <1>1, <1>3, <2>1, <2>2, <2>3 DEF Asking
<1>6. JobOK(c)'
  BY <1>1, <1>3 DEF JobOK
<1>. QED
  BY <1>1, <1>4, <1>5, <1>6 DEF CallOK

LEMMA CallsServed ==
  ASSUME Truthful, TypeOK, NEW t \in Client, UNCHANGED toolVars, Served(t), JobOK(t), CallOK(t)
  PROVE  (JobOK(t) /\ CallOK(t))'
<1>1. UNCHANGED <<tool, job, reqs, returned, result, status>>
  BY DEF toolVars
<1>2. /\ Asking(t) => Asking(t)'
      /\ Quiet(t) => Quiet(t)' /\ performed'[t] = performed[t] /\ toClient'[t] = toClient[t]
  BY PhaseServed
<1>3. Idle(t) => Idle(t)' /\ AllDone(t)' = AllDone(t)
  BY <1>1, <1>2 DEF Idle, Calls, AllDone, Effect
<1>4. JobOK(t)'
  <2>1. tool[t] \in {"off", "ready", "ended"}
          => AllDone(t)' = AllDone(t) /\ toClient'[t] = toClient[t]
    BY <1>2, <1>3 DEF CallOK, Idle
  <2>2. tool[t] \in {"off", "ready", "ended"} => JobOK(t)'
    BY <1>1, <2>1 DEF JobOK
  <2>3. tool[t] \in {"wait", "killed"} => JobOK(t)'
    BY <1>1 DEF JobOK, Calls
  <2>. QED
    BY <2>2, <2>3 DEF TypeOK, ToolsOK
<1>. QED
  BY <1>1, <1>2, <1>3, <1>4 DEF CallOK

LEMMA CallsStep == Truthful /\ TypeOK /\ OwnThreads /\ CallsOK /\ [Next]_vars => CallsOK'
<1>. SUFFICES ASSUME Truthful, TypeOK, OwnThreads, CallsOK, [Next]_vars PROVE CallsOK'
  OBVIOUS
<1>1. \A d \in Client : Untouched(d) => (JobOK(d) /\ CallOK(d))'
  BY CallsUntouched DEF CallsOK
<1>2. CASE UNCHANGED vars \/ Restart
  <2>1. \A d \in Client : Untouched(d)
    BY <1>2 DEF vars, toolVars, threadVars, Restart, Untouched
  <2>. QED
    BY <1>1, <2>1 DEF CallsOK
<1>3. ASSUME NEW c \in Client, Start(c) \/ Call(c) \/ Receive(c) \/ Exit(c) \/ Quit(c)
      PROVE  CallsOK'
  <2>1. (JobOK(c) /\ CallOK(c))'
    BY <1>3, StartOK, CallStepOK, ReceiveOK, ExitOK DEF CallsOK
  <2>. QED
    BY <1>1, <1>3, <2>1, ToolIsLocal DEF CallsOK
<1>4. CASE Died
  BY <1>4, CallsDied DEF CallsOK
<1>5. CASE Accept
  BY <1>5, CallsAccept DEF CallsOK
<1>6. ASSUME NEW t \in Client, Work(t) PROVE CallsOK'
  <2>1. CASE UNCHANGED toolVars /\ Served(t) /\ \A d \in Client \ {t} : Untouched(d)
    BY <1>1, <2>1, CallsServed DEF CallsOK
  <2>. QED
    BY <1>4, <1>6, <2>1, WorkIsLocal
<1>7. CASE Crash
  BY <1>4, <1>7 DEF Crash, Died
<1>. QED
  BY <1>2, <1>3, <1>5, <1>6, <1>7 DEF Next

LEMMA CallsCorrect == ASSUME Truthful PROVE Spec => [](late = {} => CallsOK)
<1>1. TypeOK /\ [Next]_vars => (late' = {} => late = {})
  BY LateStays
<1>2. /\ (late = {} => CallsOK) /\ (late = {} => OwnThreads) /\ TypeOK /\ [Next]_vars
      => (late = {} => CallsOK)'
  BY <1>1, CallsStep
<1>. QED
  BY <1>2, CallsInit, ThreadsCorrect, TypeCorrect, PTL DEF Spec

\* In one conversation there is at most one answer, and it is that to the last
\* call: request_socket (jsonrpc_api.c) reads no answer to an earlier one,
\* although nothing compares an answer's identifier with the request's, until
\* the accept loop overtakes a thread.
THEOREM AnswersMatch == ASSUME Truthful PROVE Spec => []OwnAnswer
<1>1. (late = {} => CallsOK) /\ TypeOK => OwnAnswer
  <2>. SUFFICES ASSUME CallsOK, TypeOK, NEW c \in Client, tool[c] = "wait",
                       NEW i \in 1 .. Len(toClient[c])
                PROVE  toClient[c][i].n = Calls(c)
    BY DEF OwnAnswer, Calls
  <2>1. Asking(c)
    BY DEF CallsOK, CallOK
  <2>2. toClient[c] # <<>>
    OBVIOUS
  <2>3. PICK o \in {"done", "fail"}, len \in ListLen \cup {1} :
          toClient[c] = AnswerCells(Calls(c), o, len)
    BY <2>1, <2>2 DEF Asking, Sent, Arrived, Handled, Answered, Lost
  <2>4. len \in Nat
    <3>1. ListLen \subseteq Nat
      BY ServerAssumption
    <3>. QED
      BY <3>1
  <2>. QED
    BY <2>3, <2>4 DEF AnswerCells
<1>. QED
  BY <1>1, CallsCorrect, TypeCorrect, PTL

\* The exit status of a tool (ufatag.c, ufaattr.c, ufafind.c) is true: success
\* means that the daemon has done all that was asked for, once and in order,
\* until the accept loop overtakes a thread.
THEOREM StatusIsTrue == ASSUME Truthful PROVE Spec => []Truth
<1>1. (late = {} => CallsOK) => Truth
  BY DEF CallsOK, JobOK, AllDone, Done, Calls, Truth
<1>. QED
  BY <1>1, CallsCorrect, PTL

-----------------------------------------------------------------------------
(***************************************************************************)
(* Calls as Rpc has them.                                                  *)
(***************************************************************************)

\* The state of the last call, by the phase it is in.
PendingFacts ==
  \A c \in Client :
    /\ Calls(c) = returned[c] => Pending(c) = "none"
    /\ \A k \in Nat \ {0} :
         /\ Calls(c) = k /\ returned[c] # k /\ performed[c] = Done(k - 1)
              => Pending(c) = "asked"
         /\ \A o \in Outcomes :
              /\ Calls(c) = k /\ returned[c] # k
              /\ performed[c] = Append(Done(k - 1), [n |-> k, o |-> o])
              => Pending(c) = o

LEMMA DoneElements ==
  ASSUME NEW k \in Nat \ {0}
  PROVE  /\ Done(k - 1) \in Seq([n: Nat, o: Outcomes]) /\ Len(Done(k - 1)) = k - 1
         /\ \A i \in 1 .. k - 1 : Done(k - 1)[i].n = i
<1>1. PICK j \in Nat : j = k - 1
  OBVIOUS
<1>2. Done(j) \in Seq([n: Nat, o: Outcomes]) /\ Len(Done(j)) = j
  BY DoneProps
<1>3. ASSUME NEW i \in 1 .. j PROVE Done(j)[i].n = i
  <2>1. Done(j)[i] = [n |-> i, o |-> "done"]
    BY DoneProps
  <2>. QED
    BY <2>1
<1>. QED
  BY <1>1, <1>2, <1>3

LEMMA PendingKnown == PendingFacts
<1>. SUFFICES ASSUME NEW c \in Client
              PROVE  /\ Calls(c) = returned[c] => Pending(c) = "none"
                     /\ \A k \in Nat \ {0} :
                          /\ Calls(c) = k /\ returned[c] # k /\ performed[c] = Done(k - 1)
                               => Pending(c) = "asked"
                          /\ \A o \in Outcomes :
                               /\ Calls(c) = k /\ returned[c] # k
                               /\ performed[c] = Append(Done(k - 1), [n |-> k, o |-> o])
                               => Pending(c) = o
  BY DEF PendingFacts
<1>1. Calls(c) = returned[c] => Pending(c) = "none"
  BY DEF Pending, Calls
<1>2. ASSUME NEW k \in Nat \ {0}, Calls(c) = k, returned[c] # k, performed[c] = Done(k - 1)
      PROVE  Pending(c) = "asked"
  <2>1. k - 1 \in Nat
    OBVIOUS
  <2>2. Len(performed[c]) = k - 1 /\ \A i \in 1 .. k - 1 : performed[c][i].n = i
    BY <1>2, <2>1, DoneElements
  <2>3. \A i \in 1 .. Len(performed[c]) : performed[c][i].n # Len(reqs[c])
    BY <1>2, <2>2 DEF Calls
  <2>4. LastOutcome(c) = {}
    BY <2>3 DEF LastOutcome
  <2>. QED
    BY <1>2, <2>4 DEF Pending, Calls
<1>3. ASSUME NEW k \in Nat \ {0}, NEW o \in Outcomes, Calls(c) = k, returned[c] # k,
             performed[c] = Append(Done(k - 1), [n |-> k, o |-> o])
      PROVE  Pending(c) = o
  <2>1. k - 1 \in Nat /\ (k - 1) + 1 = k
    OBVIOUS
  <2>2. /\ Done(k - 1) \in Seq([n: Nat, o: Outcomes]) /\ Len(Done(k - 1)) = k - 1
        /\ \A i \in 1 .. k - 1 : Done(k - 1)[i].n = i
    BY <2>1, DoneElements
  <2>3. [n |-> k, o |-> o] \in [n: Nat, o: Outcomes]
    OBVIOUS
  <2>4. /\ Len(performed[c]) = k /\ performed[c][k] = [n |-> k, o |-> o]
        /\ \A i \in 1 .. k - 1 : performed[c][i] = Done(k - 1)[i]
    BY <1>3, <2>1, <2>2, <2>3
  <2>5. /\ performed[c][k].n = k /\ performed[c][k].o = o
        /\ \A i \in 1 .. k : performed[c][i].n = k => i = k
    <3>1. \A i \in 1 .. k : i \in 1 .. k - 1 \/ i = k
      OBVIOUS
    <3>. QED
      BY <2>2, <2>4, <3>1
  <2>6. {j \in 1 .. Len(performed[c]) : performed[c][j].n = Len(reqs[c])} = {k}
    BY <1>3, <2>4, <2>5 DEF Calls
  <2>7. LastOutcome(c) = {o}
    BY <2>5, <2>6 DEF LastOutcome
  <2>. QED
    BY <1>3, <2>7 DEF Pending, Calls
<1>. QED
  BY <1>1, <1>2, <1>3

LEMMA PendingKnownNext == PendingFacts'
BY PendingKnown, PTL

\* What Rpc sees of a client.
Same(c) ==
  Pending(c)' = Pending(c) /\ result'[c] = result[c] /\ Len(performed[c])' = Len(performed[c])

LEMMA UntouchedSame ==
  ASSUME NEW d \in Client, Untouched(d)
  PROVE  Same(d)
BY DEF Untouched, Same, Pending, LastOutcome

LEMMA AllSame ==
  ASSUME TypeOK, TypeOK', \A c \in Client : Same(c)
  PROVE  UNCHANGED R!vars
<1>1. result' = result
  BY DEF TypeOK, ToolsOK, Same
<1>. QED
  BY <1>1 DEF R!vars, Same

\* A step of one client is one of Rpc.
LEMMA OneStep ==
  ASSUME TypeOK, TypeOK', NEW c \in Client, \A d \in Client \ {c} : Same(d),
         \/ Same(c)
         \/ /\ Pending(c) = "none" /\ Pending(c)' = "asked"
            /\ result'[c] = result[c] /\ Len(performed[c])' = Len(performed[c])
         \/ /\ Pending(c) = "asked" /\ Pending(c)' \in Outcomes
            /\ result'[c] = result[c] /\ Len(performed[c])' = Len(performed[c]) + 1
         \/ /\ Pending(c) # "none" /\ Pending(c)' = "none"
            /\ result'[c] = "failure" \/ (Pending(c) = "done" /\ result'[c] = "success")
            /\ Len(performed[c])' = Len(performed[c])
  PROVE  [R!Next]_(R!vars)
<1> DEFINE pending == [d \in Client |-> Pending(d)]
           count == [d \in Client |-> Len(performed[d])]
<1>1. CASE Same(c)
  <2>1. UNCHANGED R!vars
    BY <1>1, AllSame
  <2>. QED
    BY <2>1
<1>2. /\ pending' = [pending EXCEPT ![c] = Pending(c)']
      /\ count' = [count EXCEPT ![c] = Len(performed[c])']
      /\ result' = [result EXCEPT ![c] = result'[c]]
  <2>1. pending' = [pending EXCEPT ![c] = Pending(c)']
    BY DEF Same
  <2>2. count' = [count EXCEPT ![c] = Len(performed[c])']
    BY DEF Same
  <2>3. result' = [result EXCEPT ![c] = result'[c]]
    BY DEF Same, TypeOK, ToolsOK
  <2>. QED
    BY <2>1, <2>2, <2>3
<1>3. pending[c] = Pending(c) /\ count[c] = Len(performed[c])
  OBVIOUS
<1>4. result'[c] = result[c] => result' = result
  BY DEF Same, TypeOK, ToolsOK
<1>5. Len(performed[c])' = Len(performed[c]) => count' = count
  BY DEF Same
<1>6. CASE /\ Pending(c) = "none" /\ Pending(c)' = "asked"
           /\ result'[c] = result[c] /\ Len(performed[c])' = Len(performed[c])
  <2>1. R!Ask(c)
    BY <1>2, <1>3, <1>4, <1>5, <1>6 DEF R!Ask
  <2>. QED
    BY <2>1 DEF R!Next
<1>7. CASE /\ Pending(c) = "asked" /\ Pending(c)' \in Outcomes
           /\ result'[c] = result[c] /\ Len(performed[c])' = Len(performed[c]) + 1
  <2>1. R!Perform(c)
    BY <1>2, <1>3, <1>4, <1>7 DEF R!Perform, Outcomes
  <2>. QED
    BY <2>1 DEF R!Next
<1>8. CASE /\ Pending(c) # "none" /\ Pending(c)' = "none"
           /\ result'[c] = "failure" \/ (Pending(c) = "done" /\ result'[c] = "success")
           /\ Len(performed[c])' = Len(performed[c])
  <2>1. R!Return(c)
    BY <1>2, <1>3, <1>5, <1>8 DEF R!Return
  <2>. QED
    BY <2>1 DEF R!Next
<1>. QED
  BY <1>1, <1>6, <1>7, <1>8

LEMMA RpcInit == Init => R!Init
<1>. SUFFICES ASSUME Init PROVE R!Init
  OBVIOUS
<1>1. \A c \in Client : returned[c] = Len(reqs[c]) /\ Len(performed[c]) = 0
  BY DEF Init
<1>2. \A c \in Client : Pending(c) = "none"
  BY <1>1 DEF Pending
<1>. QED
  BY <1>1, <1>2 DEF Init, R!Init

LEMMA RpcTool ==
  ASSUME Truthful, TypeOK, TypeOK', OwnThreads, CallsOK, NEW c \in Client,
         Start(c) \/ Call(c) \/ Receive(c) \/ Exit(c) \/ Quit(c)
  PROVE  [R!Next]_(R!vars)
<1>1. \A d \in Client \ {c} : Same(d)
  BY ToolIsLocal, UntouchedSame
<1>2. performed' = performed
  BY DEF Start, Call, Receive, Exit, Quit
<1>3. CASE Start(c) \/ Exit(c) \/ Quit(c)
  <2>1. UNCHANGED <<reqs, returned, result>>
    BY <1>3 DEF Start, Exit, Quit
  <2>2. Same(c)
    BY <1>2, <2>1 DEF Same, Pending, LastOutcome
  <2>. QED
    BY <1>1, <2>2, OneStep
<1>4. CASE Call(c)
  <2>1. tool[c] = "ready" /\ AllDone(c) /\ Idle(c) /\ returned' = returned /\ result' = result
    BY <1>4 DEF Call, CallsOK, JobOK, CallOK
  <2>2. CASE reqs' = reqs
    <3>1. Same(c)
      BY <1>2, <2>1, <2>2 DEF Same, Pending, LastOutcome
    <3>. QED
      BY <1>1, <3>1, OneStep
  <2>3. ASSUME NEW r \in Request, reqs' = [reqs EXCEPT ![c] = Append(@, r)]
        PROVE  [R!Next]_(R!vars)
    <3>1. Calls(c) \in Nat /\ Calls(c)' = Calls(c) + 1
      <4>1. reqs[c] \in Seq(Request)
        BY LocalTypes
      <4>2. reqs'[c] = Append(reqs[c], r)
        BY <2>3 DEF TypeOK, ToolsOK
      <4>. QED
        BY <4>1, <4>2 DEF Calls
    <3>2. Pending(c) = "none"
      BY <2>1, PendingKnown DEF PendingFacts, Idle
    <3>3. PICK k \in Nat \ {0} : k = Calls(c) + 1 /\ Calls(c) = k - 1
      BY <3>1
    <3>4. Calls(c)' = k /\ returned'[c] # k /\ performed'[c] = Done(k - 1)
      BY <1>2, <2>1, <3>1, <3>3 DEF Idle, AllDone
    <3>5. Pending(c)' = "asked"
      BY <3>4, PendingKnownNext DEF PendingFacts
    <3>. QED
      BY <1>1, <1>2, <2>1, <3>2, <3>5, OneStep
  <2>. QED
    BY <1>4, <2>2, <2>3 DEF Call
<1>5. CASE Receive(c)
  <2>1. /\ tool[c] = "wait" /\ (toClient[c] # <<>> \/ conn[c] = "down") /\ reqs' = reqs
        /\ JobOK(c) /\ Asking(c) /\ reqs[c] # <<>>
    BY <1>5 DEF Receive, CallsOK, CallOK, TypeOK, ToolsOK
  <2>2. PICK res \in Results(c, Text(Taken(toClient[c], MaxResponse))) : result'[c] = res
    BY <1>5 DEF Receive, TypeOK, ToolsOK
  <2>3. PICK o \in {"done", "fail"} : Effect(c, o) /\ (res = "success" => o = "done")
    BY <2>1, ResultIsTrue
  <2>4. res \in {"failure", "success"}
    BY <2>2 DEF Results
  <2>5. /\ Calls(c) \in Nat \ {0} /\ Calls(c) = returned[c] + 1 /\ returned[c] \in Nat
        /\ returned'[c] = returned[c] + 1 /\ Calls(c)' = Calls(c)
    <3>1. Calls(c) \in Nat /\ returned[c] \in Nat
      BY LocalTypes
    <3>2. returned'[c] = returned[c] + 1
      BY <1>5 DEF Receive, TypeOK, ToolsOK
    <3>. QED
      BY <2>1, <3>1, <3>2 DEF Asking, Calls
  <2>6. Pending(c)' = "none"
    BY <2>5, PendingKnownNext DEF PendingFacts
  <2>7. Pending(c) \in {"asked", "done", "fail"} /\ (res = "success" => Pending(c) = "done")
    <3>1. o \in Outcomes
      BY DEF Outcomes
    <3>2. CASE performed[c] = Append(Done(Calls(c) - 1), [n |-> Calls(c), o |-> o])
      <4>1. PICK k \in Nat \ {0} : k = Calls(c) /\ returned[c] # k
        BY <2>5
      <4>2. performed[c] = Append(Done(k - 1), [n |-> k, o |-> o])
        BY <3>2, <4>1
      <4>3. Pending(c) = o
        BY <3>1, <4>1, <4>2, PendingKnown DEF PendingFacts
      <4>. QED
        BY <2>3, <4>3
    <3>3. CASE o = "fail" /\ performed[c] = Done(Calls(c) - 1)
      <4>1. Pending(c) = "asked"
        BY <2>5, <3>3, PendingKnown DEF PendingFacts
      <4>. QED
        BY <2>3, <3>3, <4>1
    <3>. QED
      BY <2>3, <3>2, <3>3 DEF Effect
  <2>. QED
    BY <1>1, <1>2, <2>2, <2>4, <2>6, <2>7, OneStep
<1>. QED
  BY <1>3, <1>4, <1>5

LEMMA RpcServed ==
  ASSUME Truthful, TypeOK, TypeOK', CallsOK, NEW t \in Client, UNCHANGED toolVars, Served(t),
         \A d \in Client \ {t} : Untouched(d)
  PROVE  [R!Next]_(R!vars)
<1>1. \A d \in Client \ {t} : Same(d)
  BY UntouchedSame
<1>2. UNCHANGED <<reqs, returned, result>> /\ Calls(t)' = Calls(t)
  BY DEF toolVars, Calls
<1>3. CASE performed'[t] = performed[t]
  <2>1. Same(t)
    BY <1>2, <1>3 DEF Same, Pending, LastOutcome
  <2>. QED
    BY <1>1, <2>1, OneStep
<1>4. CASE performed'[t] # performed[t]
  <2>1. /\ thread[t] = "request" /\ outcome'[t] \in {"done", "fail"}
        /\ performed'[t] = Append(performed[t], [n |-> buf[t][1].n, o |-> outcome'[t]])
    BY <1>4 DEF Served, Begun, WasRead, WasHandled, WasAnswered, WasClosed, Truthful
  <2>2. ~Quiet(t) /\ ~Sent(t) /\ ~Handled(t)
    BY <2>1 DEF Quiet, Sent, Handled
  <2>3. Asking(t) /\ Arrived(t)
    BY <2>2 DEF CallsOK, CallOK, Idle, Asking, Answered, Lost, TypeOK, ToolsOK
  <2>4. /\ Calls(t) \in Nat \ {0} /\ returned[t] # Calls(t)
        /\ performed[t] = Done(Calls(t) - 1) /\ buf[t][1].n = Calls(t)
    <3>1. Calls(t) \in Nat /\ returned[t] \in Nat
      BY LocalTypes
    <3>. QED
      BY <2>3, <3>1 DEF Asking, Arrived
  <2>5. Pending(t) = "asked"
    BY <2>4, PendingKnown DEF PendingFacts
  <2>6. PICK k \in Nat \ {0} : k = Calls(t)
    BY <2>4
  <2>7. PICK o \in Outcomes : o = outcome'[t]
    BY <2>1 DEF Outcomes
  <2>8. Calls(t)' = k /\ returned'[t] # k
        /\ performed'[t] = Append(Done(k - 1), [n |-> k, o |-> o])
    BY <1>2, <2>1, <2>4, <2>6, <2>7
  <2>9. Pending(t)' = o
    BY <2>8, PendingKnownNext DEF PendingFacts
  <2>10. Len(performed[t])' = Len(performed[t]) + 1
    BY <2>1, LocalTypes
  <2>. QED
    BY <1>1, <1>2, <2>5, <2>9, <2>10, OneStep
<1>. QED
  BY <1>3, <1>4

LEMMA RpcStep ==
  Truthful /\ TypeOK /\ TypeOK' /\ OwnThreads /\ CallsOK /\ [Next]_vars => [R!Next]_(R!vars)
<1>. SUFFICES ASSUME Truthful, TypeOK, TypeOK', OwnThreads, CallsOK, [Next]_vars
              PROVE  [R!Next]_(R!vars)
  OBVIOUS
<1>1. ASSUME UNCHANGED <<toolVars, performed>> PROVE [R!Next]_(R!vars)
  <2>1. \A c \in Client : Same(c)
    BY <1>1 DEF toolVars, Same, Pending, LastOutcome
  <2>2. UNCHANGED R!vars
    BY <2>1, AllSame
  <2>. QED
    BY <2>2
<1>2. CASE UNCHANGED vars
  BY <1>1, <1>2 DEF vars
<1>3. CASE Crash \/ Restart \/ Accept
  BY <1>1, <1>3 DEF Crash, Restart, Accept
<1>4. ASSUME NEW t \in Client, Work(t) PROVE [R!Next]_(R!vars)
  BY <1>1, <1>4, WorkIsLocal, RpcServed DEF Died
<1>. QED
  BY <1>2, <1>3, <1>4, RpcTool DEF Next

\* The socket, its threads and their retries implement Rpc: a call takes effect
\* at most once and before it returns, and reported success means that it did,
\* whatever tools are killed and however often the daemon dies, until the accept
\* loop overtakes a thread.
THEOREM CallsAreRpc == ASSUME Truthful PROVE Spec => RpcSpec
<1>1. TypeOK /\ [Next]_vars => (late' = {} => late = {})
  BY LateStays
<1>2. /\ (late = {} => CallsOK) /\ (late = {} => OwnThreads) /\ TypeOK /\ TypeOK'
      /\ [Next]_vars
      => [R!Next \/ late' # {}]_(R!vars)
  BY <1>1, RpcStep
<1>. QED
  BY <1>2, RpcInit, CallsCorrect, ThreadsCorrect, TypeCorrect, PTL DEF Spec, RpcSpec
=============================================================================
