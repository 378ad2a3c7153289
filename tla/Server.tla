------------------------------- MODULE Server --------------------------------
(***************************************************************************)
(* The daemon's JSON-RPC server (json/jsonrpc_server.c), the client side   *)
(* (json/jsonrpc_api.c) and the tools (ufatag, ufaattr, ufafind), over the *)
(* two byte streams of a Unix socket.                                      *)
(*                                                                         *)
(* A message is a run of cells of text and a NUL; a cell stands for enough *)
(* bytes that Chunk of them fill the server's buffer (CHUNK_SIZE), and     *)
(* MaxResponse of them the client's (MAX_RESPONSE_SIZE).                   *)
(*                                                                         *)
(* Env lists what happens beside the regular case:                         *)
(*   "quit"     a tool is killed                                           *)
(*   "crash"    the daemon dies, and is started again                      *)
(*   "silent"   an operation fails without an error message                *)
(*   "threads"  a thread cannot be created                                 *)
(*   "quote"    names with quotes or backslashes, which nothing escapes    *)
(*   "foreign"  clients that do not use jsonrpc_api.c                      *)
(*   "stale"    the token that nobody wrote is that of an earlier object   *)
(*                                                                         *)
(* A connection stands for its descriptor, also in the accept loop's       *)
(* variable.  Descriptors are numbers that are used again: if two threads  *)
(* serve one connection, the second close may hit another connection.      *)
(* That is left out; what is said of tools here ends when a thread comes   *)
(* too late to read its own connection from that variable.                 *)
(***************************************************************************)
EXTENDS Naturals, Sequences, FiniteSets

CONSTANTS
  Client,       \* runs of a tool, each with a connection of its own
  Method,       \* methods that tools call
  Env,          \* see above
  Chunk,        \* cells in the server's buffer
  MaxResponse,  \* cells in the client's buffer
  RequestLen,   \* lengths of requests, and
  ListLen,      \*   of answers with a list, in cells of text
  NoFd,         \* -1 in place of a connection
  MaxCalls,     \* bound on the calls of one run
  MaxDeaths     \* bound on deaths of the daemon

Known == {"listtags", "gettags", "settag", "cleartags", "inserttag", "unsettag",
          "setattr", "unsetattr", "getattr", "search"}

ASSUME ServerAssumption ==
  /\ Method \subseteq Known
  /\ Env \subseteq {"quit", "crash", "silent", "threads", "quote", "foreign",
              "stale"}
  /\ RequestLen \subseteq Nat \ {0} /\ ListLen \subseteq Nat \ {0}
  /\ Chunk \in Nat /\ Chunk > 2
  /\ MaxResponse \in Nat /\ MaxResponse > 2
  /\ NoFd \notin Client
  /\ MaxCalls \in Nat /\ MaxDeaths \in Nat

VARIABLES
  tool,       \* per client: what the tool does next
  job,        \* the methods it has still to call
  reqs,       \* the requests it has sent: [method, len, form]
  returned,   \* how many of its calls have returned, and what the last one
  result,     \*   returned
  status,     \* its exit status
  conn,       \* its connection: "none", "up", "closed" by it, or "down"
  toServer,   \* cells the tool has written and the server has not read
  toClient,   \* cells the server has written and the tool has not read
  alive,      \* the daemon runs
  backlog,    \* connections that are not accepted yet
  cfd,        \* the variable of the accept loop
  thread,     \* per accepted connection: what the thread made for it does next
  fd,         \* the connection that thread reads and writes
  buf,        \* the text it has received of a request
  outcome,    \* what came out of the operation it has performed
  performed,  \* history: per client [n, o], operations in their order
  late,       \* history: the connections whose thread had not read cfd when the
              \*   next one was accepted
  deaths      \* number of deaths so far

toolVars == <<tool, job, reqs, returned, result, status>>
threadVars == <<thread, fd, buf, outcome>>
vars == <<toolVars, conn, toServer, toClient, alive, backlog, cfd, threadVars,
          performed, late, deaths>>

-----------------------------------------------------------------------------
(* Messages.                                                               *)

Forms ==
  {"whole"} \cup (IF "quote" \in Env THEN {"invalid", "part"} ELSE {})
            \cup (IF "foreign" \in Env THEN {"unknown", "nomethod", "bare"} ELSE {})

Request == [method: Method, len: RequestLen, form: Forms]

\* The method each command of a tool calls.
TagCommand == [set |-> "settag", unset |-> "unsettag", list |-> "gettags",
               clear |-> "cleartags", list_all |-> "listtags", create |-> "inserttag"]
AttrCommand == [set |-> "setattr", unset |-> "unsetattr", get |-> "getattr",
                list |-> "getattr", describe |-> "getattr"]
Commands == {TagCommand[x] : x \in DOMAIN TagCommand}
              \cup {AttrCommand[x] : x \in DOMAIN AttrCommand} \cup {"search"}

\* What a tool asks for in one run: one call, or one per tag for ufatag set and
\* ufatag unset.
Jobs ==
  {<<m>> : m \in Method \cap Commands}
    \cup {[i \in 1 .. k |-> m] :
            k \in 1 .. MaxCalls, m \in Method \cap {TagCommand.set, TagCommand.unset}}

ListMethods == {"listtags", "gettags", "getattr", "search"}

\* Cells of request n.
Cells(n, len) == [i \in 1 .. len + 1 |-> [n |-> n, i |-> IF i > len THEN 0 ELSE i]]

\* (The mutant sends an answer twice.)
AnswerTwice(n, o, len) ==
  LET k == len + 1 IN
  [i \in 1 .. 2 * k |->
     [n |-> n, i |-> IF i % k = 0 THEN 0 ELSE i % k, o |-> o, len |-> len]]

\* Cells of an answer to request n with outcome o.
AnswerCells(n, o, len) ==
  [i \in 1 .. len + 1 |-> [n |-> n, i |-> IF i > len THEN 0 ELSE i, o |-> o, len |-> len]]

\* What strlen sees: the cells before the first NUL.
Text(s) ==
  LET nuls == {i \in 1 .. Len(s) : s[i].i = 0} IN
  IF nuls = {} THEN s
  ELSE SubSeq(s, 1, (CHOOSE i \in nuls : \A j \in nuls : i <= j) - 1)

Smaller(a, b) == IF a < b THEN a ELSE b

\* What one read of at most k cells returns, and what it leaves.
Taken(s, k) == SubSeq(s, 1, Smaller(k, Len(s)))

Rest(s, k) == SubSeq(s, Smaller(k, Len(s)) + 1, Len(s))

\* b holds the first cells of the request it begins with.
Prefix(b) == \A i \in 1 .. Len(b) : b[i].n = b[1].n /\ b[i].i = i

\* ufa_jsonrpc_parse of a request.  After a part that is never completed it
\* depends on the text whether more text makes it invalid.
Parsed(c, b) ==
  LET r == reqs[c][b[1].n] IN
  IF b[1].i # 1 THEN {"invalid"}
  ELSE IF ~Prefix(b) THEN {"part", "invalid"}
  ELSE IF Len(b) < r.len THEN {"part"}
  ELSE IF r.form \in {"invalid", "part"} THEN {r.form}
  ELSE {"ok"}

-----------------------------------------------------------------------------
Init ==
  /\ tool = [c \in Client |-> "off"]
  /\ job = [c \in Client |-> <<>>]
  /\ reqs = [c \in Client |-> <<>>]
  /\ returned = [c \in Client |-> 0]
  /\ result = [c \in Client |-> "nothing"]
  /\ status = [c \in Client |-> "none"]
  /\ conn = [c \in Client |-> "none"]
  /\ toServer = [c \in Client |-> <<>>]
  /\ toClient = [c \in Client |-> <<>>]
  /\ alive = TRUE
  /\ backlog = <<>>
  /\ cfd = NoFd
  /\ thread = [c \in Client |-> "none"]
  /\ fd = [c \in Client |-> NoFd]
  /\ buf = [c \in Client |-> <<>>]
  /\ outcome = [c \in Client |-> "none"]
  /\ performed = [c \in Client |-> <<>>]
  /\ late = {}
  /\ deaths = 0

(***************************************************************************)
(* Tools.                                                                  *)
(***************************************************************************)

\* ufa_jsonrpc_api_init: without a daemon the tool ends with EX_UNAVAILABLE.
Start(c) ==
  /\ tool[c] = "off"
  /\ \/ /\ alive
        /\ job' \in {[job EXCEPT ![c] = j] : j \in Jobs}
        /\ conn' = [conn EXCEPT ![c] = "up"]
        /\ backlog' = Append(backlog, c)
        /\ tool' = [tool EXCEPT ![c] = "ready"]
        /\ UNCHANGED status
     \/ /\ ~alive
        /\ tool' = [tool EXCEPT ![c] = "ended"]
        /\ status' = [status EXCEPT ![c] = "unavailable"]
        /\ UNCHANGED <<job, conn, backlog>>
  /\ UNCHANGED <<reqs, returned, result, toServer, toClient, alive, cfd,
                 threadVars, performed, late, deaths>>

\* The write of request_socket.  On a connection that the daemon has left, the
\* signal SIGPIPE ends the tool.
Call(c) ==
  /\ tool[c] = "ready" /\ job[c] # <<>>
  /\ \/ /\ conn[c] = "down"
        /\ tool' = [tool EXCEPT ![c] = "killed"]
        /\ UNCHANGED <<reqs, toServer>>
     \/ /\ conn[c] = "up"
        /\ \E r \in Request :
             /\ r.method = Head(job[c])
             /\ reqs' = [reqs EXCEPT ![c] = Append(@, r)]
             /\ toServer' = [toServer EXCEPT ![c] = @ \o Cells(Len(reqs[c]) + 1, r.len)]
        /\ tool' = [tool EXCEPT ![c] = "wait"]
  /\ UNCHANGED <<job, returned, result, status, conn, toClient, alive, backlog, cfd,
                 threadVars, performed, late, deaths>>

\* Whether a call of m with outcome o is taken for done: settag and the lists
\* only look whether the answer is an error, the others at its value.
ByError(o) == o # "fail"
ByValue(o) == o = "done"

\* (The mutant takes every answer for a success.)
SucceedsAlways(m, o) == TRUE

Succeeds(m, o) ==
  IF m \in ListMethods \cup {"settag"} THEN ByError(o) ELSE ByValue(o)

\* What a call makes of the text t it has read.  An answer to another method
\* is read as if it were one to this method.
Results(c, t) ==
  LET m == reqs[c][Len(reqs[c])].method
      asked == reqs[c][t[1].n].method IN
  IF t = <<>> THEN IF "stale" \in Env THEN {"failure", "success"} ELSE {"failure"}
  ELSE IF ~(Prefix(t) /\ Len(t) = t[1].len) THEN {"failure"}
  ELSE IF t[1].o # "fail" /\ asked # m THEN {"failure", "success"}
  ELSE IF Succeeds(m, t[1].o) THEN {"success"}
  ELSE {"failure"}

\* (The mutant does not wait for an answer.)
ReceiveAtOnce(c) ==
  /\ tool[c] = "wait"
  /\ result' = [result EXCEPT ![c] = "failure"]
  /\ job' = [job EXCEPT ![c] = <<>>]
  /\ returned' = [returned EXCEPT ![c] = @ + 1]
  /\ tool' = [tool EXCEPT ![c] = "ready"]
  /\ UNCHANGED <<reqs, status, conn, toServer, toClient, alive, backlog, cfd,
                 threadVars, performed, late, deaths>>

\* The read of request_socket: it waits for something to read or for the end
\* of the connection.  The tool goes on with the next call after a success.
Receive(c) ==
  /\ tool[c] = "wait"
  /\ toClient[c] # <<>> \/ conn[c] = "down"
  /\ LET cells == Taken(toClient[c], MaxResponse) IN
       \E res \in Results(c, Text(cells)) :
         /\ result' = [result EXCEPT ![c] = res]
         /\ job' = [job EXCEPT ![c] = IF res = "success" THEN Tail(@) ELSE <<>>]
  /\ toClient' = [toClient EXCEPT ![c] = Rest(@, MaxResponse)]
  /\ returned' = [returned EXCEPT ![c] = @ + 1]
  /\ tool' = [tool EXCEPT ![c] = "ready"]
  /\ UNCHANGED <<reqs, status, conn, toServer, alive, backlog, cfd, threadVars,
                 performed, late, deaths>>

\* ufa_jsonrpc_api_close and the exit status.
Exit(c) ==
  /\ tool[c] = "ready" /\ job[c] = <<>>
  /\ tool' = [tool EXCEPT ![c] = "ended"]
  /\ status' = [status EXCEPT ![c] = IF result[c] = "success" THEN "ok" ELSE "failure"]
  /\ conn' = [conn EXCEPT ![c] = IF @ = "up" THEN "closed" ELSE @]
  /\ toClient' = [toClient EXCEPT ![c] = <<>>]
  /\ UNCHANGED <<job, reqs, returned, result, toServer, alive, backlog, cfd,
                 threadVars, performed, late, deaths>>

Quit(c) ==
  /\ "quit" \in Env
  /\ tool[c] \in {"ready", "wait"}
  /\ tool' = [tool EXCEPT ![c] = "killed"]
  /\ conn' = [conn EXCEPT ![c] = IF @ = "up" THEN "closed" ELSE @]
  /\ toClient' = [toClient EXCEPT ![c] = <<>>]
  /\ UNCHANGED <<job, reqs, returned, result, status, toServer, alive, backlog,
                 cfd, threadVars, performed, late, deaths>>

(***************************************************************************)
(* The daemon.                                                             *)
(***************************************************************************)

\* All that is left of the daemon's connections when it dies.
Dies ==
  /\ alive' = FALSE
  /\ conn' = [c \in Client |-> IF conn[c] = "up" THEN "down" ELSE conn[c]]
  /\ toServer' = [c \in Client |-> <<>>]
  /\ backlog' = <<>>
  /\ cfd' = NoFd
  /\ thread' = [c \in Client |-> IF thread[c] = "none" THEN "none" ELSE "done"]
  /\ fd' = [c \in Client |-> NoFd]
  /\ buf' = [c \in Client |-> <<>>]
  /\ outcome' = [c \in Client |-> "none"]

Crash ==
  /\ "crash" \in Env
  /\ alive /\ deaths < MaxDeaths
  /\ Dies
  /\ deaths' = deaths + 1
  /\ UNCHANGED <<toolVars, toClient, performed, late>>

\* The new daemon removes the socket's path and binds it again.
Restart ==
  /\ ~alive
  /\ alive' = TRUE
  /\ UNCHANGED <<toolVars, conn, toServer, toClient, backlog, cfd, threadVars,
                 performed, late, deaths>>

\* The accept loop.  The new thread is given the address of cfd, and nothing
\* makes the loop wait until a thread has read it.  Without a thread the
\* connection stays open and nobody reads it.
Accept ==
  /\ alive /\ backlog # <<>>
  /\ cfd' = Head(backlog)
  /\ backlog' = Tail(backlog)
  /\ late' = late \cup {t \in Client : thread[t] = "new"}
  /\ \/ thread' = [thread EXCEPT ![Head(backlog)] = "new"]
     \/ "threads" \in Env /\ UNCHANGED thread
  /\ UNCHANGED <<toolVars, conn, toServer, toClient, alive, fd, buf, outcome,
                 performed, deaths>>

\* The thread reads its connection from the loop's variable.
Begin(t) ==
  /\ thread[t] = "new"
  /\ fd' = [fd EXCEPT ![t] = cfd]
  /\ thread' = [thread EXCEPT ![t] = "read"]
  /\ UNCHANGED <<toolVars, conn, toServer, toClient, alive, backlog, cfd, buf,
                 outcome, performed, late, deaths>>

\* (The mutant keeps the text of a request it has handled.)
KeepsText(b) == b

\* What handle_connection keeps of the text of a request it has handled.
Cleared(b) == <<>>

\* One turn of handle_connection: what follows a NUL in the chunk is dropped, a
\* request is taken, a part kept, and anything else forgotten.  A chunk that
\* fills the buffer is terminated one byte beyond it, which may end the daemon.
Read(t) ==
  LET c == fd[t]
      part == Taken(toServer[c], Chunk)
      text == buf[t] \o Text(part) IN
  /\ thread[t] = "read" /\ toServer[c] # <<>>
  /\ \/ /\ toServer' = [toServer EXCEPT ![c] = Rest(@, Chunk)]
        /\ \/ /\ Text(part) = <<>>
              /\ UNCHANGED <<thread, buf>>
           \/ /\ Text(part) # <<>>
              /\ \E p \in Parsed(c, text) :
                   /\ buf' = [buf EXCEPT ![t] = IF p = "invalid" THEN <<>> ELSE text]
                   /\ thread' = [thread EXCEPT ![t] = IF p = "ok" THEN "request" ELSE "read"]
        /\ UNCHANGED <<conn, alive, backlog, cfd, fd, outcome, deaths>>
     \/ /\ Len(part) = Chunk /\ deaths < MaxDeaths
        /\ Dies
        /\ deaths' = deaths + 1
  /\ UNCHANGED <<toolVars, toClient, performed, late>>

\* A handler of one of the methods ms performs the operation, which may fail,
\* and answers; a missing parameter is answered with an error.  Without a
\* handler nobody answers, and strcmp of a method that is not there ends the
\* daemon.
Handle(t, ms) ==
  LET c == fd[t]
      n == buf[t][1].n
      form == reqs[c][n].form IN
  /\ thread[t] = "request" /\ reqs[c][n].method \in ms
  /\ \/ /\ form = "bare"
        /\ outcome' = [outcome EXCEPT ![t] = "fail"]
        /\ thread' = [thread EXCEPT ![t] = "answer"]
        /\ UNCHANGED <<conn, toServer, alive, backlog, cfd, fd, buf, performed, deaths>>
     \/ /\ form = "whole"
        /\ \E o \in {"done", "fail"} \cup (Env \cap {"silent"}) :
             /\ outcome' = [outcome EXCEPT ![t] = o]
             /\ performed' = [performed EXCEPT ![c] = Append(@, [n |-> n, o |-> o])]
        /\ thread' = [thread EXCEPT ![t] = "answer"]
        /\ UNCHANGED <<conn, toServer, alive, backlog, cfd, fd, buf, deaths>>
     \/ /\ form = "unknown"
        /\ thread' = [thread EXCEPT ![t] = "read"]
        /\ buf' = [buf EXCEPT ![t] = Cleared(@)]
        /\ UNCHANGED <<conn, toServer, alive, backlog, cfd, fd, outcome, performed,
                       deaths>>
     \/ /\ form = "nomethod" /\ deaths < MaxDeaths
        /\ Dies
        /\ deaths' = deaths + 1
        /\ UNCHANGED performed
  /\ UNCHANGED <<toolVars, toClient, late>>

HandleChange(t) == Handle(t, Known \ ListMethods)
HandleQuery(t) == Handle(t, ListMethods)

\* The write of the answer.  When the tool has gone, the signal SIGPIPE ends
\* the daemon.
Answer(t) ==
  LET c == fd[t]
      n == buf[t][1].n IN
  /\ thread[t] = "answer"
  /\ \/ /\ conn[c] = "up"
        /\ \E len \in IF reqs[c][n].method \in ListMethods THEN ListLen ELSE {1} :
             toClient' = [toClient EXCEPT ![c] = @ \o AnswerCells(n, outcome[t], len)]
        /\ thread' = [thread EXCEPT ![t] = "read"]
        /\ buf' = [buf EXCEPT ![t] = Cleared(@)]
        /\ outcome' = [outcome EXCEPT ![t] = "none"]
        /\ UNCHANGED <<conn, toServer, alive, backlog, cfd, fd, deaths>>
     \/ /\ conn[c] # "up"
        /\ Dies
        /\ UNCHANGED <<toClient, deaths>>
  /\ UNCHANGED <<toolVars, performed, late>>

\* (The mutant takes a read that would block for the end.)
HangUpEarly(t) ==
  /\ thread[t] = "read"
  /\ toServer[fd[t]] = <<>>
  /\ thread' = [thread EXCEPT ![t] = "done"]
  /\ UNCHANGED <<toolVars, conn, toServer, toClient, alive, backlog, cfd, fd, buf,
                 outcome, performed, late, deaths>>

\* (The mutant waits for an error.)
HangUpOnError(t) ==
  /\ thread[t] = "read"
  /\ conn[fd[t]] = "down"
  /\ thread' = [thread EXCEPT ![t] = "done"]
  /\ UNCHANGED <<toolVars, conn, toServer, toClient, alive, backlog, cfd, fd, buf,
                 outcome, performed, late, deaths>>

\* read returns 0 or fails: the thread closes the connection and ends.
HangUp(t) ==
  /\ thread[t] = "read"
  /\ conn[fd[t]] = "closed" /\ toServer[fd[t]] = <<>>
  /\ thread' = [thread EXCEPT ![t] = "done"]
  /\ fd' = [fd EXCEPT ![t] = NoFd]
  /\ buf' = [buf EXCEPT ![t] = <<>>]
  /\ UNCHANGED <<toolVars, conn, toServer, toClient, alive, backlog, cfd, outcome,
                 performed, late, deaths>>

Work(t) ==
  \/ Begin(t) \/ Read(t) \/ HandleChange(t) \/ HandleQuery(t)
  \/ Answer(t) \/ HangUp(t)

Next ==
  \/ \E c \in Client : Start(c) \/ Call(c) \/ Receive(c) \/ Exit(c) \/ Quit(c)
  \/ Crash \/ Restart \/ Accept
  \/ \E t \in Client : Work(t)

Spec == Init /\ [][Next]_vars

\* The steps of running tools and of the daemon's threads.  Nobody has to start
\* a tool, to kill one, or to start the daemon again.
Progress ==
  \/ Accept
  \/ \E c \in Client : Call(c) \/ Receive(c) \/ Exit(c)
  \/ \E t \in Client : Work(t)

\* While some process or thread can run, one of them runs.
FairSpec == Spec /\ WF_vars(Progress)

-----------------------------------------------------------------------------
Outcomes == {"done", "fail", "silent"}
Cell == [n: Nat, i: Nat]
AnswerCell == [n: Nat, i: Nat, o: Outcomes, len: Nat]

ToolsOK ==
  /\ tool \in [Client -> {"off", "ready", "wait", "ended", "killed"}]
  /\ job \in [Client -> Seq(Method)]
  /\ reqs \in [Client -> Seq(Request)]
  /\ returned \in [Client -> Nat]
  /\ result \in [Client -> {"nothing", "failure", "success"}]
  /\ status \in [Client -> {"none", "ok", "failure", "unavailable"}]
  /\ \A c \in Client : tool[c] = "wait" => job[c] # <<>> /\ reqs[c] # <<>>

StreamsOK ==
  /\ conn \in [Client -> {"none", "up", "closed", "down"}]
  /\ toServer \in [Client -> Seq(Cell)]
  /\ toClient \in [Client -> Seq(AnswerCell)]

ThreadsOK ==
  /\ thread \in [Client -> {"none", "new", "read", "request", "answer", "done"}]
  /\ fd \in [Client -> Client \cup {NoFd}]
  /\ buf \in [Client -> Seq(Cell)]
  /\ outcome \in [Client -> Outcomes \cup {"none"}]
  /\ \A t \in Client :
       /\ thread[t] = "new" => cfd \in Client
       /\ thread[t] \in {"read", "request", "answer"} => fd[t] \in Client
       /\ thread[t] \in {"request", "answer"} => buf[t] # <<>>
       /\ thread[t] = "answer" => outcome[t] \in Outcomes

TypeOK ==
  /\ ToolsOK /\ StreamsOK /\ ThreadsOK
  /\ alive \in BOOLEAN
  /\ backlog \in Seq(Client)
  /\ cfd \in Client \cup {NoFd}
  /\ performed \in [Client -> Seq([n: Nat, o: Outcomes])]
  /\ late \subseteq Client
  /\ deaths \in 0 .. MaxDeaths

\* The connection that a thread serves or is going to serve.
Serves(t) == IF thread[t] = "new" THEN cfd ELSE fd[t]
Working == {t \in Client : thread[t] \notin {"none", "done"}}
Waiting == {backlog[i] : i \in 1 .. Len(backlog)}

\* An open connection is in the backlog or has a thread, and never two, but for
\* those whose thread was overtaken by the accept loop: that thread leaves its
\* own connection unserved, and serves the one of another.
ServedOnce ==
  /\ \A t, u \in Working : Serves(t) = Serves(u) => t = u \/ {t, u} \cap late # {}
  /\ \A c \in Client :
       conn[c] = "up" /\ c \notin Waiting
         => c \in late \/ \E t \in Working : Serves(t) = c

\* Until the accept loop overtakes a thread, a tool that waits finds nothing to
\* read but the answer to what it has asked last.
OwnAnswer ==
  late = {} =>
    \A c \in Client : tool[c] = "wait" =>
      \A i \in 1 .. Len(toClient[c]) : toClient[c][i].n = Len(reqs[c])

\* Until then, a tool that reports success has had all it asked for done, each
\* once and in its order.
Truth ==
  late = {} =>
    \A c \in Client : status[c] = "ok" =>
      performed[c] = [n \in 1 .. Len(reqs[c]) |-> [n |-> n, o |-> "done"]]

\* What a call is from its tool's point of view (see Rpc).
LastOutcome(c) == {performed[c][i].o : i \in {j \in 1 .. Len(performed[c]) :
                                                 performed[c][j].n = Len(reqs[c])}}
Pending(c) ==
  IF returned[c] = Len(reqs[c]) THEN "none"
  ELSE IF LastOutcome(c) = {} THEN "asked"
  ELSE CHOOSE o \in LastOutcome(c) : TRUE

R == INSTANCE Rpc WITH pending <- [c \in Client |-> Pending(c)],
                       told <- result,
                       count <- [c \in Client |-> Len(performed[c])]

\* A call takes effect at most once, and not after it has returned, and success
\* means that it did: every step is one of Rpc, as long as no thread has been
\* overtaken.
RpcSpec == R!Init /\ [][R!Next \/ late' # {}]_(R!vars)

\* Every call returns, and every tool ends, unless a thread is overtaken.
EveryToolEnds ==
  \A c \in Client :
    tool[c] \in {"ready", "wait"} ~> tool[c] \in {"ended", "killed"} \/ late # {}

\* No thread stays behind for a connection that was closed, unless a thread is
\* overtaken.
EveryThreadEnds ==
  \A t \in Client :
    (t \in Working /\ conn[t] = "closed") ~> (t \notin Working \/ late # {})
=============================================================================
