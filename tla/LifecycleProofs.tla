--------------------------- MODULE LifecycleProofs ---------------------------
(***************************************************************************)
(* Theorems about Lifecycle, for every number of processes: one daemon at  *)
(* a time (for every Env without several pid files), an orderly start and  *)
(* end of each (for every Env with one signal at its regular time), and    *)
(* the monitor's state (for every Env without early signals).              *)
(***************************************************************************)
EXTENDS Lifecycle, TLAPS

Phases == {"off", "fork", "lock", "start", "config", "tables", "thread", "watch",
           "serve", "wait", "join", "stop", "exit", "ended"}

\* The inductive invariant.  Only a daemon has a thread of the server, so no
\* other process binds or removes the path while one listens.
DaemonInv ==
  /\ main \in [Proc -> Phases]
  /\ server \in [Proc -> {"none", "object", "unlink", "bind", "accept", "done"}]
  /\ socket \in [Proc -> {"unset", "open", "shut"}]
  /\ \A p \in Proc : server[p] # "none" => p \in Daemon
  /\ OneDaemon
  /\ Reachable

OnePidFile == "homes" \notin Env

LEMMA DaemonInit == Init => DaemonInv
BY DEF Init, DaemonInv, Phases, Daemon, OneDaemon, Reachable

\* A process ends: the others keep what they have.
LEMMA EndStep ==
  ASSUME DaemonInv, NEW p \in Proc, NEW st, End(p, st)
  PROVE  DaemonInv'
<1>1. /\ main' = [main EXCEPT ![p] = "ended"]
      /\ server' = [server EXCEPT ![p] = "none"]
      /\ socket' = [socket EXCEPT ![p] = "shut"]
      /\ path' = path
      /\ lock' = IF lock = p THEN NoProc ELSE lock
  BY DEF End
<1>2. p \notin Daemon' /\ \A q \in Proc : q # p => (q \in Daemon' <=> q \in Daemon)
  BY <1>1 DEF DaemonInv, Daemon
<1>3. OneDaemon'
  BY <1>1, <1>2 DEF DaemonInv, OneDaemon, Daemon
<1>4. Reachable'
  BY <1>1, <1>2 DEF DaemonInv, Reachable, Daemon
<1>. QED
  BY <1>1, <1>2, <1>3, <1>4 DEF DaemonInv, Phases

\* A step of the main thread that neither makes the process a daemon nor ends
\* it; it may start the server's thread or shut the socket.
LEMMA MainStep ==
  ASSUME DaemonInv, NEW p \in Proc, NEW at \in Phases,
         main' = [main EXCEPT ![p] = at],
         p \in Daemon <=> at \notin {"off", "fork", "lock", "ended"},
         \/ server' = server
         \/ p \in Daemon /\ server' = [server EXCEPT ![p] = "object"],
         \/ socket' = socket
         \/ socket' = [socket EXCEPT ![p] = "shut"],
         lock' = lock \/ (p \notin Daemon /\ lock = p),
         path' = path
  PROVE  DaemonInv'
<1>1. Daemon' = Daemon
  BY DEF DaemonInv, Daemon
<1>2. OneDaemon'
  BY <1>1 DEF DaemonInv, OneDaemon, Daemon
<1>3. Reachable'
  BY <1>1 DEF DaemonInv, Reachable, Daemon
<1>. QED
  BY <1>1, <1>2, <1>3 DEF DaemonInv

\* A step of the server's thread of a daemon, the only one there is.
LEMMA ServerStep ==
  ASSUME DaemonInv, NEW p \in Proc, p \in Daemon,
         NEW at \in {"unlink", "bind", "accept", "done"},
         server' = [server EXCEPT ![p] = at],
         socket' = socket \/ socket' = [socket EXCEPT ![p] = "open"],
         path' = p \/ at # "accept",
         UNCHANGED <<main, lock>>
  PROVE  DaemonInv'
<1>1. Daemon' = Daemon /\ \A q \in Daemon : q = p
  BY DEF DaemonInv, OneDaemon, Daemon
<1>2. OneDaemon'
  BY <1>1 DEF DaemonInv, OneDaemon
<1>3. Reachable'
  BY <1>1 DEF DaemonInv, Reachable, Daemon
<1>. QED
  BY <1>1, <1>2, <1>3 DEF DaemonInv

\* Steps that only concern the monitor and signals.
LEMMA OtherStep ==
  ASSUME DaemonInv, UNCHANGED <<main, server, socket, lock, path>>
  PROVE  DaemonInv'
BY DEF DaemonInv, Daemon, OneDaemon, Reachable

LEMMA LockStep ==
  ASSUME DaemonInv, OnePidFile, NEW p \in Proc, Lock(p)
  PROVE  DaemonInv'
<1>1. CASE End(p, "failure")
  BY <1>1, EndStep
<1>2. CASE /\ Main(p, "lock", "start") /\ lock = NoProc /\ lock' = p
           /\ UNCHANGED <<monitor, server, monVars, srvVars, path, sigVars, status>>
  <2>1. /\ main' = [main EXCEPT ![p] = "start"]
        /\ UNCHANGED <<server, socket, path>> /\ lock' = p
    BY <1>2 DEF Main, srvVars
  <2>2. Daemon = {}
    BY <1>2, LifecycleAssumption DEF DaemonInv, OneDaemon, Daemon
  <2>3. Daemon' = {p}
    BY <2>1, <2>2 DEF DaemonInv, Daemon
  <2>4. OneDaemon'
    BY <2>1, <2>3 DEF OneDaemon
  <2>5. server'[p] = "none"
    BY <2>1, <2>2 DEF DaemonInv
  <2>6. Reachable'
    BY <2>3, <2>5 DEF Reachable
  <2>. QED
    BY <2>1, <2>2, <2>3, <2>4, <2>6 DEF DaemonInv, Phases
<1>. QED
  BY <1>1, <1>2 DEF Lock, OnePidFile

LEMMA DaemonStep ==
  ASSUME DaemonInv, OnePidFile, Next
  PROVE  DaemonInv'
<1>. PICK p \in Proc :
       \/ Launch(p) \/ MainThread(p) \/ MonitorThread(p) \/ ServerThread(p)
       \/ SignalHandler(p) \/ Fails(p) \/ Event(p) \/ Kill(p)
       \/ \E s \in Signal : Send(p, s)
  BY DEF Next
<1>. USE DEF srvVars, sigVars, monVars, threads
<1>1. CASE Launch(p)
  BY <1>1, MainStep DEF Launch, Daemon, Phases
<1>2. CASE MainThread(p)
  <2>1. CASE Daemonize(p)
    <3>1. p \notin Daemon
      BY <2>1 DEF Daemonize, Main, Daemon
    <3>2. lock' = lock \/ lock = p
      BY <2>1 DEF Daemonize
    <3>. QED
      BY <2>1, <3>1, <3>2, MainStep DEF Daemonize, Main, Phases
  <2>2. CASE Lock(p)
    BY <2>2, LockStep
  <2>3. CASE Exit(p)
    BY <2>3, EndStep DEF Exit
  <2>4. CASE StartServer(p)
    <3>1. p \in Daemon
      BY <2>4 DEF StartServer, Main, Daemon
    <3>. QED
      BY <2>4, <3>1, MainStep DEF StartServer, Main, Phases
  <2>5. CASE StopServer(p)
    <3>1. p \in Daemon
      BY <2>5 DEF StopServer, Main, Daemon
    <3>2. socket' = socket \/ socket' = [socket EXCEPT ![p] = "shut"]
      BY <2>5 DEF StopServer, DaemonInv
    <3>. QED
      BY <2>5, <3>1, <3>2, MainStep DEF StopServer, Main, Phases
  <2>6. ASSUME NEW from, NEW to,
               <<from, to>> \in {<<"start", "config">>, <<"config", "tables">>,
                 <<"tables", "thread">>, <<"thread", "watch">>, <<"watch", "serve">>,
                 <<"wait", "stop">>, <<"wait", "join">>, <<"join", "stop">>},
               Main(p, from, to), UNCHANGED <<server, socket, lock, path>>
        PROVE  DaemonInv'
    <3>1. p \in Daemon /\ to \in Phases /\ to \notin {"off", "fork", "lock", "ended"}
      BY <2>6 DEF Main, Daemon, Phases
    <3>. QED
      BY <2>6, <3>1, MainStep DEF Main
  <2>7. CASE Handlers(p)
    BY <2>6, <2>7 DEF Handlers
  <2>8. CASE OpenMonitor(p)
    BY <2>6, <2>8 DEF OpenMonitor
  <2>9. CASE MakeTables(p)
    BY <2>6, <2>9 DEF MakeTables
  <2>10. CASE StartMonitor(p)
    BY <2>6, <2>10 DEF StartMonitor
  <2>11. CASE AddWatches(p)
    BY <2>6, <2>11 DEF AddWatches
  <2>12. CASE Wait(p)
    BY <2>6, <2>12 DEF Wait
  <2>13. CASE Joined(p)
    BY <2>6, <2>13 DEF Joined
  <2>. QED
    BY <1>2, <2>1, <2>2, <2>3, <2>4, <2>5, <2>7, <2>8, <2>9, <2>10, <2>11, <2>12, <2>13
    DEF MainThread
<1>3. CASE MonitorThread(p)
  BY <1>3, OtherStep DEF MonitorThread, InitSemaphore, Handled, Stop, LastHandled, Close,
                         Post, Monitor
<1>4. CASE ServerThread(p)
  <2>1. p \in Daemon
    BY <1>4 DEF ServerThread, NewServer, Unlink, Bind, EndServer, Server, DaemonInv
  <2>2. CASE NewServer(p)
    BY <2>1, <2>2, ServerStep DEF NewServer, Server
  <2>3. CASE Unlink(p)
    BY <2>1, <2>3, ServerStep DEF Unlink, Server
  <2>4. CASE Bind(p)
    BY <2>1, <2>4, ServerStep DEF Bind, Server
  <2>5. CASE EndServer(p)
    BY <2>1, <2>5, ServerStep DEF EndServer, Server
  <2>. QED
    BY <1>4, <2>2, <2>3, <2>4, <2>5 DEF ServerThread
<1>5. CASE SignalHandler(p)
  <2>1. ASSUME NEW s \in Signal, Deliver(p, s) PROVE DaemonInv'
    BY <2>1, EndStep, OtherStep DEF Deliver
  <2>2. ASSUME NEW t \in Thread, StopMonitor(p, t) PROVE DaemonInv'
    BY <2>2, EndStep, OtherStep DEF StopMonitor
  <2>3. ASSUME NEW t \in Thread, Stopped(p, t) PROVE DaemonInv'
    BY <2>3, EndStep, OtherStep DEF Stopped
  <2>. QED
    BY <1>5, <2>1, <2>2, <2>3 DEF SignalHandler
<1>6. CASE Fails(p) \/ Kill(p)
  BY <1>6, EndStep DEF Fails, Kill
<1>7. CASE Event(p)
  BY <1>7, OtherStep DEF Event, Monitor
<1>8. CASE \E s \in Signal : Send(p, s)
  BY <1>8, OtherStep DEF Send
<1>. QED
  BY <1>1, <1>2, <1>3, <1>4, <1>5, <1>6, <1>7, <1>8

\* If all daemons use one pid file, at most one runs at a time, and tools that
\* connect to the path reach the daemon that listens, however many are
\* started, killed, stopped by signals or fail on the way.
THEOREM DaemonCorrect ==
  ASSUME OnePidFile
  PROVE  Spec => []OneDaemon /\ []Reachable
<1>1. DaemonInv /\ UNCHANGED vars => DaemonInv'
  BY OtherStep DEF vars, threads, srvVars
<1>2. DaemonInv /\ [Next]_vars => DaemonInv'
  BY <1>1, DaemonStep
<1>3. DaemonInv => OneDaemon /\ Reachable
  BY DEF DaemonInv
<1>. QED
  BY <1>2, <1>3, DaemonInit, PTL DEF Spec
-----------------------------------------------------------------------------
\* One signal, that arrives on the main thread while it waits for the monitor.
OneSignal == Env \cap {"early", "second", "any"} = {}

\* What a step leaves to the processes that do not take it.
Kept(q) ==
  /\ main'[q] = main[q] /\ monitor'[q] = monitor[q] /\ efd'[q] = efd[q]
  /\ tables'[q] = tables[q] /\ ended'[q] = ended[q] /\ pending'[q] = pending[q]
  /\ signals'[q] = signals[q] /\ handlers'[q] = handlers[q] /\ status'[q] = status[q]

LEMMA KeptStage ==
  ASSUME NEW q \in Proc, AtStage(q), Kept(q) PROVE AtStage(q)'
BY DEF Kept, AtStage, Before, Opening, Starting, Waiting, Called, Stopping, Leaving, Gone,
       Calm, Free, InUse, HandlerAt

LEMMA StageStep ==
  ASSUME StageInv, TypeOK', NEW p \in Proc, \A q \in Proc \ {p} : Kept(q), AtStage(p)'
  PROVE  StageInv'
BY KeptStage DEF StageInv

LEMMA StageInit == Init => StageInv
<1>. SUFFICES ASSUME Init PROVE StageInv
  OBVIOUS
<1>1. TypeOK
  <2>1. \A t \in Thread : <<>> \in Seq(Handler)
    OBVIOUS
  <2>. QED
    BY <2>1 DEF Init, TypeOK
<1>2. ASSUME NEW p \in Proc PROVE Before(p) /\ status[p] # "aborted"
  BY DEF Init, Before, Calm, Free, NoHandler
<1>. QED
  BY <1>1, <1>2 DEF StageInv, AtStage

\* The handlers that can run have their type.
LEMMA HandlerTypes ==
  /\ NoHandler \in [Thread -> Seq(Handler)]
  /\ \A s \in Signal, at \in {"stop", "wait"} : OnMain(s, at) \in [Thread -> Seq(Handler)]
<1>1. \A h \in Handler : <<h>> \in Seq(Handler)
  OBVIOUS
<1>2. \A s \in Signal, at \in {"stop", "wait"} : [sig |-> s, at |-> at] \in Handler
  BY DEF Handler
<1>. QED
  BY <1>1, <1>2 DEF NoHandler, OnMain

LEMMA HandlersDiffer ==
  /\ NoHandler["main"] = <<>>
  /\ \A s, at : /\ OnMain(s, at)["main"] = <<[sig |-> s, at |-> at]>>
                /\ OnMain(s, at)["main"] # <<>>
                /\ OnMain(s, at)["monitor"] = <<>> /\ OnMain(s, at)["server"] = <<>>
BY DEF NoHandler, OnMain, Thread

\* A thread on which one handler runs.
LEMMA OneHandler ==
  ASSUME NEW s, NEW at
  PROVE  LET h == [sig |-> s, at |-> at] IN
         /\ Len(<<h>>) = 1 /\ <<h>>[1] = h /\ SubSeq(<<h>>, 1, 1 - 1) = <<>>
         /\ [<<h>> EXCEPT ![1].at = "wait"] = <<[sig |-> s, at |-> "wait"]>>
<1>. DEFINE h == [sig |-> s, at |-> at]
<1>1. Len(<<h>>) = 1 /\ <<h>>[1] = h
  OBVIOUS
<1>2. SubSeq(<<h>>, 1, 1 - 1) = <<>>
  <2>. HIDE DEF h
  <2>. QED
    OBVIOUS
<1>3. [<<h>> EXCEPT ![1].at = "wait"] = <<[sig |-> s, at |-> "wait"]>>
  OBVIOUS
<1>. QED
  BY <1>1, <1>2, <1>3

LEMMA EndStage ==
  ASSUME StageInv, NEW p \in Proc, NEW st \in {"ok", "failure", "killed"}, End(p, st)
  PROVE  StageInv'
<1>. USE DEF StageInv
<1>1. /\ main' = [main EXCEPT ![p] = "ended"]
      /\ monitor' = [monitor EXCEPT ![p] = "none"]
      /\ efd' = [efd EXCEPT ![p] = "closed"]
      /\ tables' = [tables EXCEPT ![p] = FALSE]
      /\ pending' = [pending EXCEPT ![p] = {}]
      /\ handlers' = [handlers EXCEPT ![p] = NoHandler]
      /\ status' = [status EXCEPT ![p] = st]
      /\ UNCHANGED <<ended, signals>>
  BY DEF End, NoHandler
<1>2. TypeOK'
  BY <1>1, HandlerTypes DEF TypeOK, End
<1>3. \A q \in Proc \ {p} : Kept(q)
  BY <1>1 DEF TypeOK, Kept
<1>4. AtStage(p)'
  BY <1>1 DEF TypeOK, AtStage, Gone, Free
<1>. QED
  BY <1>2, <1>3, <1>4, StageStep

\* The steps of the main thread before a signal can arrive.
LEMMA MainStages ==
  ASSUME StageInv, NEW p \in Proc, Launch(p) \/ MainThread(p)
  PROVE  StageInv'
<1>. USE DEF StageInv, srvVars, sigVars, monVars, threads
<1>. DEFINE Rest == UNCHANGED <<monitor, efd, tables, ended, sigVars, status>>
<1>1. ASSUME TypeOK', NEW at, main' = [main EXCEPT ![p] = at], Rest,
             AtStage(p)'
      PROVE  StageInv'
  BY <1>1, StageStep DEF Kept, TypeOK
<1>2. CASE Launch(p) \/ Daemonize(p) \/ Handlers(p)
  <2>1. PICK at \in {"fork", "lock", "config"} : main' = [main EXCEPT ![p] = at]
    BY <1>2 DEF Launch, Daemonize, Handlers, Main
  <2>2. Rest /\ Before(p)
    BY <1>2 DEF Launch, Daemonize, Handlers, Main, AtStage, Before, Opening, Starting, Waiting,
       Called, HandlerAt, Stopping, Leaving, Gone
  <2>3. TypeOK'
    BY <1>2, <2>1, <2>2 DEF Launch, Daemonize, Handlers, TypeOK
  <2>4. AtStage(p)'
    BY <2>1, <2>2 DEF AtStage, Before, Calm, Free, TypeOK
  <2>. QED
    BY <1>1, <2>1, <2>2, <2>3, <2>4
<1>3. CASE Lock(p)
  <2>1. CASE /\ Main(p, "lock", "start") /\ lock' = p
             /\ UNCHANGED <<monitor, server, monVars, srvVars, path, sigVars, status>>
    <3>1. Rest /\ Before(p) /\ main' = [main EXCEPT ![p] = "start"]
      BY <2>1 DEF Main, AtStage, Before, Opening, Starting, Waiting,
         Called, HandlerAt, Stopping, Leaving, Gone
    <3>2. TypeOK'
      BY <2>1, <3>1 DEF TypeOK
    <3>3. AtStage(p)'
      BY <3>1 DEF AtStage, Before, Calm, Free, TypeOK
    <3>. QED
      BY <1>1, <3>1, <3>2, <3>3
  <2>2. CASE End(p, "failure")
    BY <2>2, EndStage
  <2>. QED
    BY <1>3, <2>1, <2>2 DEF Lock
<1>4. CASE OpenMonitor(p)
  <2>1. /\ main[p] = "config" /\ main' = [main EXCEPT ![p] = "tables"]
        /\ efd' = [efd EXCEPT ![p] = "open"]
        /\ UNCHANGED <<monitor, tables, ended, sigVars, status, server, lock, srvVars, path>>
    BY <1>4 DEF OpenMonitor, Main
  <2>2. Before(p)
    BY <2>1 DEF AtStage, Before, Opening, Starting, Waiting,
       Called, HandlerAt, Stopping, Leaving, Gone
  <2>3. TypeOK'
    BY <2>1 DEF TypeOK
  <2>4. AtStage(p)'
    BY <2>1, <2>2 DEF AtStage, Before, Opening, Calm, Free, TypeOK
  <2>. QED
    BY <2>1, <2>3, <2>4, StageStep DEF Kept, TypeOK
<1>5. CASE MakeTables(p)
  <2>1. /\ main[p] = "tables" /\ main' = [main EXCEPT ![p] = "thread"]
        /\ tables' = [tables EXCEPT ![p] = TRUE]
        /\ UNCHANGED <<monitor, efd, ended, sigVars, status, server, lock, srvVars, path>>
    BY <1>5 DEF MakeTables, Main
  <2>2. Opening(p)
    BY <2>1 DEF AtStage, Before, Opening, Starting, Waiting,
       Called, HandlerAt, Stopping, Leaving, Gone
  <2>3. TypeOK'
    BY <2>1 DEF TypeOK
  <2>4. AtStage(p)'
    BY <2>1, <2>2 DEF AtStage, Opening, Calm, TypeOK
  <2>. QED
    BY <2>1, <2>3, <2>4, StageStep DEF Kept, TypeOK
<1>6. CASE StartMonitor(p)
  <2>1. /\ main[p] = "thread" /\ main' = [main EXCEPT ![p] = "watch"]
        /\ monitor' = [monitor EXCEPT ![p] = "begin"]
        /\ UNCHANGED <<tables, efd, ended, sigVars, status, server, lock, srvVars, path>>
    BY <1>6 DEF StartMonitor, Main
  <2>2. Opening(p)
    BY <2>1 DEF AtStage, Before, Opening, Starting, Waiting,
       Called, HandlerAt, Stopping, Leaving, Gone
  <2>3. TypeOK'
    BY <2>1 DEF TypeOK
  <2>4. AtStage(p)'
    BY <2>1, <2>2 DEF AtStage, Opening, Starting, InUse, Calm, TypeOK
  <2>. QED
    BY <2>1, <2>3, <2>4, StageStep DEF Kept, TypeOK
<1>7. CASE AddWatches(p) \/ StartServer(p) \/ Wait(p)
  <2>1. main[p] \in {"watch", "serve", "wait"}
    BY <1>7 DEF AddWatches, StartServer, Wait, Main
  <2>2. Starting(p)
    BY <2>1 DEF AtStage, Before, Opening, Starting, Waiting,
       Called, HandlerAt, Stopping, Leaving, Gone
  <2>3. PICK at \in {"serve", "wait", "join"} : main' = [main EXCEPT ![p] = at]
    BY <1>7, <2>2 DEF AddWatches, StartServer, Wait, Main, Starting, InUse
  <2>4. Rest
    BY <1>7 DEF AddWatches, StartServer, Wait
  <2>7. /\ object' \in [Proc -> 0 .. 2] /\ UNCHANGED <<socket, lock, path>>
        /\ server' \in [Proc -> {"none", "object", "unlink", "bind", "accept", "done"}]
    <3>1. CASE AddWatches(p)
      BY <3>1 DEF TypeOK, AddWatches
    <3>2. CASE StartServer(p)
      BY <3>2 DEF TypeOK, StartServer
    <3>3. CASE Wait(p)
      BY <3>3 DEF TypeOK, Wait
    <3>. QED
      BY <1>7, <3>1, <3>2, <3>3
  <2>5. TypeOK'
    BY <2>3, <2>4, <2>7 DEF TypeOK
  <2>6. AtStage(p)'
    BY <2>2, <2>3, <2>4 DEF AtStage, Starting, Waiting, InUse, Calm, TypeOK
  <2>. QED
    BY <1>1, <2>3, <2>4, <2>5, <2>6
<1>8. CASE Joined(p) \/ StopServer(p)
  <2>1. /\ main[p] \in {"join", "stop"} /\ (main[p] = "join" => monitor[p] = "done")
        /\ handlers[p]["main"] = <<>>
    BY <1>8 DEF Joined, StopServer, Main, Runs
  <2>2. Leaving(p)
    BY <2>1, HandlersDiffer DEF AtStage, Before, Opening, Starting, Waiting, InUse,
       Called, HandlerAt, Stopping, Leaving, Gone
  <2>3. PICK at \in {"stop", "exit"} : main' = [main EXCEPT ![p] = at]
    BY <1>8 DEF Joined, StopServer, Main
  <2>4. Rest
    BY <1>8 DEF Joined, StopServer
  <2>7. /\ socket' \in [Proc -> {"unset", "open", "shut"}]
        /\ UNCHANGED <<server, object, lock, path>>
    <3>1. CASE Joined(p)
      BY <3>1 DEF TypeOK, Joined
    <3>2. CASE StopServer(p)
      <4>1. PICK x \in {"unset", "open", "shut"} : socket' = [socket EXCEPT ![p] = x]
        BY <3>2 DEF TypeOK, StopServer
      <4>. QED
        BY <3>2, <4>1 DEF TypeOK, StopServer
    <3>. QED
      BY <1>8, <3>1, <3>2
  <2>5. TypeOK'
    BY <2>3, <2>4, <2>7 DEF TypeOK
  <2>6. AtStage(p)'
    BY <2>2, <2>3, <2>4 DEF AtStage, Leaving, Free, TypeOK
  <2>. QED
    BY <1>1, <2>3, <2>4, <2>5, <2>6
<1>9. CASE Exit(p)
  BY <1>9, EndStage DEF Exit
<1>. QED
  BY <1>2, <1>3, <1>4, <1>5, <1>6, <1>7, <1>8, <1>9 DEF MainThread

\* The stages in which the monitor's thread exists.
LEMMA MonitorRuns ==
  ASSUME StageInv, NEW p \in Proc,
         monitor[p] \in {"begin", "loop", "callbacks", "last", "close", "post"}
  PROVE  Starting(p) \/ Waiting(p) \/ Called(p) \/ Stopping(p)
BY DEF StageInv, AtStage, Before, Opening, Leaving, Gone

\* The monitor's thread ends in order: it frees its state, then posts.
LEMMA MonitorStages ==
  ASSUME StageInv, NEW p \in Proc, MonitorThread(p) \/ Event(p)
  PROVE  StageInv'
<1>. USE DEF StageInv, srvVars, sigVars, monVars, threads
<1>. DEFINE Rest == UNCHANGED <<main, server, lock, object, socket, path, pending, signals,
                               handlers, status>>
            A == AtStage(p)
<1>1. ASSUME NEW at \in {"loop", "callbacks", "last", "close", "post", "done"},
             monitor' = [monitor EXCEPT ![p] = at], Rest,
             efd' \in [Proc -> {"closed", "open", "written"}],
             tables' \in [Proc -> BOOLEAN], ended' \in [Proc -> 0 .. 1],
             \A q \in Proc \ {p} :
               efd'[q] = efd[q] /\ tables'[q] = tables[q] /\ ended'[q] = ended[q],
             A'
      PROVE  StageInv'
  <2>1. TypeOK'
    BY <1>1 DEF TypeOK
  <2>2. \A q \in Proc \ {p} : Kept(q)
    BY <1>1 DEF Kept, TypeOK
  <2>. QED
    BY <1>1, <2>1, <2>2, StageStep
<1>2. UNCHANGED <<efd, tables, ended>> =>
        /\ efd' \in [Proc -> {"closed", "open", "written"}]
        /\ tables' \in [Proc -> BOOLEAN] /\ ended' \in [Proc -> 0 .. 1]
        /\ \A q \in Proc \ {p} :
             efd'[q] = efd[q] /\ tables'[q] = tables[q] /\ ended'[q] = ended[q]
  BY DEF TypeOK
<1>. USE DEF Starting, Waiting, Called, Stopping, InUse, Calm, Free, HandlerAt
<1>3. CASE InitSemaphore(p)
  <2>1. /\ monitor[p] = "begin" /\ monitor' = [monitor EXCEPT ![p] = "loop"]
        /\ ended' = [ended EXCEPT ![p] = 0] /\ Rest /\ UNCHANGED <<efd, tables>>
    BY <1>3 DEF InitSemaphore, Monitor
  <2>2. A'
    BY <2>1, MonitorRuns DEF AtStage, TypeOK
  <2>. QED
    BY <1>1, <2>1, <2>2 DEF TypeOK
<1>4. CASE Event(p) \/ Handled(p)
  <2>1. PICK at \in {"loop", "callbacks"} : monitor' = [monitor EXCEPT ![p] = at]
    BY <1>4 DEF Event, Handled, Monitor
  <2>2. /\ monitor[p] \in {"loop", "callbacks"} /\ UNCHANGED <<efd, tables, ended>> /\ Rest
    BY <1>4 DEF Event, Handled, Monitor
  <2>3. A'
    BY <2>1, <2>2, MonitorRuns DEF AtStage, TypeOK
  <2>. QED
    BY <1>1, <1>2, <2>1, <2>2, <2>3
<1>5. CASE Stop(p) \/ LastHandled(p)
  <2>1. PICK at \in {"last", "close"} : monitor' = [monitor EXCEPT ![p] = at]
    BY <1>5 DEF Stop, LastHandled, Monitor
  <2>2. /\ monitor[p] \in {"loop", "last"} /\ UNCHANGED <<efd, tables, ended>> /\ Rest
        /\ monitor[p] = "loop" => efd[p] = "written"
    BY <1>5 DEF Stop, LastHandled, Monitor
  <2>3. Stopping(p)
    BY <2>2, MonitorRuns
  <2>4. A'
    BY <2>1, <2>2, <2>3 DEF AtStage, TypeOK
  <2>. QED
    BY <1>1, <1>2, <2>1, <2>2, <2>4
<1>6. CASE Close(p)
  <2>1. /\ monitor[p] = "close" /\ monitor' = [monitor EXCEPT ![p] = "post"] /\ Rest
        /\ efd' = [efd EXCEPT ![p] = "closed"] /\ tables' = [tables EXCEPT ![p] = FALSE]
        /\ UNCHANGED ended
    BY <1>6 DEF Close, Monitor
  <2>2. Stopping(p)
    BY <2>1, MonitorRuns
  <2>3. A'
    BY <2>1, <2>2 DEF AtStage, TypeOK
  <2>. QED
    BY <1>1, <2>1, <2>3 DEF TypeOK
<1>7. CASE Post(p)
  <2>1. /\ monitor[p] = "post" /\ monitor' = [monitor EXCEPT ![p] = "done"] /\ Rest
        /\ ended' = [ended EXCEPT ![p] = ended[p] + 1] /\ UNCHANGED <<efd, tables>>
    BY <1>7 DEF Post, Monitor
  <2>2. Stopping(p)
    BY <2>1, MonitorRuns
  <2>3. ended' = [ended EXCEPT ![p] = 1]
    <3>1. ended[p] = 0
      BY <2>1, <2>2
    <3>. QED
      BY <2>1, <3>1
  <2>4. A'
    BY <2>1, <2>2, <2>3 DEF AtStage, TypeOK
  <2>. QED
    BY <1>1, <2>1, <2>3, <2>4 DEF TypeOK
<1>. QED
  BY <1>3, <1>4, <1>5, <1>6, <1>7 DEF MonitorThread

\* The server's thread leaves the monitor alone.
LEMMA ServerTypes ==
  ASSUME TypeOK, NEW p \in Proc, ServerThread(p)
  PROVE  /\ UNCHANGED <<main, monitor, lock, monVars, sigVars, status>>
         /\ TypeOK' /\ \A q \in Proc : Kept(q)
<1>. USE DEF srvVars, sigVars, monVars, threads
<1>1. UNCHANGED <<main, monitor, lock, monVars, sigVars, status>>
  BY DEF ServerThread, NewServer, Unlink, Bind, EndServer
<1>2. /\ server' \in [Proc -> {"none", "object", "unlink", "bind", "accept", "done"}]
      /\ object' \in [Proc -> 0 .. 2] /\ socket' \in [Proc -> {"unset", "open", "shut"}]
      /\ path' \in Proc \cup {NoProc}
  <2>1. CASE NewServer(p)
    BY <2>1 DEF NewServer, Server, TypeOK
  <2>2. CASE Unlink(p)
    BY <2>2 DEF Unlink, Server, TypeOK
  <2>3. CASE Bind(p)
    BY <2>3 DEF Bind, Server, TypeOK
  <2>4. CASE EndServer(p)
    BY <2>4 DEF EndServer, Server, TypeOK
  <2>. QED
    BY <2>1, <2>2, <2>3, <2>4 DEF ServerThread
<1>3. TypeOK'
  BY <1>1, <1>2 DEF TypeOK
<1>4. \A q \in Proc : Kept(q)
  BY <1>1 DEF Kept
<1>. QED
  BY <1>1, <1>3, <1>4

LEMMA ServerStages ==
  ASSUME StageInv, NEW p \in Proc, ServerThread(p)
  PROVE  StageInv'
<1>1. TypeOK' /\ \A q \in Proc : Kept(q)
  BY ServerTypes DEF StageInv
<1>2. AtStage(p)'
  BY <1>1, KeptStage DEF StageInv
<1>. QED
  BY <1>1, <1>2, StageStep

\* One signal is sent, handled on the main thread, and answered there.
LEMMA SignalStages ==
  ASSUME StageInv, OneSignal, NEW p \in Proc,
         SignalHandler(p) \/ \E s \in Signal : Send(p, s)
  PROVE  StageInv'
<1>. USE DEF StageInv, srvVars, sigVars, monVars, threads
<1>1. ASSUME NEW s \in Signal, Send(p, s) PROVE StageInv'
  <2>1. /\ main[p] = "join" /\ signals[p] = {}
        /\ signals' = [signals EXCEPT ![p] = {s}]
        /\ pending' = [pending EXCEPT ![p] = pending[p] \cup {s}]
        /\ UNCHANGED <<threads, lock, monVars, srvVars, path, handlers, status>>
    BY <1>1 DEF Send, OneSignal
  <2>2. Waiting(p)
    BY <2>1 DEF AtStage, Before, Opening, Starting, Called, HandlerAt, Stopping, Leaving, Gone
  <2>3. pending' = [pending EXCEPT ![p] = {s}]
    BY <2>1, <2>2 DEF Waiting
  <2>4. TypeOK'
    BY <2>1, <2>3 DEF TypeOK
  <2>5. AtStage(p)'
    BY <2>1, <2>2, <2>3 DEF AtStage, Waiting, InUse, TypeOK
  <2>. QED
    BY <2>1, <2>3, <2>4, <2>5, StageStep DEF Kept, TypeOK
<1>2. ASSUME NEW s \in Signal, Deliver(p, s) PROVE StageInv'
  <2>1. s \in pending[p]
    BY <1>2 DEF Deliver
  <2>2. Waiting(p)
    BY <2>1 DEF AtStage, Before, Opening, Starting, Calm, Called, HandlerAt, Stopping, Leaving, Gone
  <2>3. signals[p] = {s} /\ main[p] = "join"
    BY <2>1, <2>2 DEF Waiting
  <2>4. handlers' = [handlers EXCEPT ![p] = OnMain(s, "stop")]
    <3>1. PICK t \in Thread :
            /\ ~Blocks(p, t, s)
            /\ t = "main" \/ "any" \in Env \/ Blocks(p, "main", s)
            /\ handlers' = [handlers EXCEPT ![p][t] = Append(@, [sig |-> s, at |-> "stop"])]
      BY <1>2, <2>3 DEF Deliver
    <3>2. handlers[p] = NoHandler
      BY <2>2 DEF Waiting
    <3>3. ~Blocks(p, "main", s)
      BY <3>2, HandlersDiffer DEF Blocks
    <3>4. t = "main"
      BY <3>1, <3>3 DEF OneSignal
    <3>5. handlers' = [handlers EXCEPT ![p] =
             [NoHandler EXCEPT !["main"] = Append(<<>>, [sig |-> s, at |-> "stop"])]]
      BY <3>1, <3>2, <3>4, HandlersDiffer DEF TypeOK
    <3>6. [NoHandler EXCEPT !["main"] = Append(<<>>, [sig |-> s, at |-> "stop"])]
            = OnMain(s, "stop")
      BY DEF NoHandler, OnMain, Thread
    <3>. QED
      BY <3>5, <3>6
  <2>5. pending' = [pending EXCEPT ![p] = {}]
        /\ UNCHANGED <<threads, lock, monVars, srvVars, path, signals, status>>
    BY <1>2, <2>2, <2>3 DEF Deliver, Waiting
  <2>6. TypeOK'
    BY <2>4, <2>5, HandlerTypes DEF TypeOK
  <2>7. AtStage(p)'
    BY <2>2, <2>3, <2>4, <2>5 DEF AtStage, Waiting, Called, HandlerAt, InUse, TypeOK
  <2>. QED
    BY <2>4, <2>5, <2>6, <2>7, StageStep DEF Kept, TypeOK
<1>3. ASSUME NEW t \in Thread, handlers[p][t] # <<>>
      PROVE  /\ (t = "main" /\ Called(p)) \/ Stopping(p)
             /\ \A s, at : handlers[p] = OnMain(s, at) =>
                  /\ Top(p, t) = [sig |-> s, at |-> at] /\ Len(handlers[p][t]) = 1
                  /\ Pop(p, t) = [handlers EXCEPT ![p] = NoHandler]
                  /\ [handlers EXCEPT ![p][t][Len(handlers[p][t])].at = "wait"]
                       = [handlers EXCEPT ![p] = OnMain(s, "wait")]
  <2>1. handlers[p] # NoHandler
    BY <1>3 DEF NoHandler
  <2>2. Called(p) \/ Stopping(p)
    BY <2>1 DEF AtStage, Before, Opening, Starting, Waiting, Calm, Leaving, Gone
  <2>3. t = "main"
    BY <1>3, <2>2, HandlersDiffer DEF Called, Stopping, HandlerAt, Thread
  <2>4. ASSUME NEW s, NEW at, handlers[p] = OnMain(s, at)
        PROVE  /\ Top(p, t) = [sig |-> s, at |-> at] /\ Len(handlers[p][t]) = 1
               /\ Pop(p, t) = [handlers EXCEPT ![p] = NoHandler]
               /\ [handlers EXCEPT ![p][t][Len(handlers[p][t])].at = "wait"]
                    = [handlers EXCEPT ![p] = OnMain(s, "wait")]
    <3>1. handlers[p][t] = <<[sig |-> s, at |-> at]>>
      BY <2>3, <2>4, HandlersDiffer
    <3>8. Len(handlers[p][t]) = 1
      BY <3>1, OneHandler
    <3>2. Top(p, t) = [sig |-> s, at |-> at]
      BY <3>1, <3>8, OneHandler DEF Top
    <3>3. [OnMain(s, at) EXCEPT !["main"] = <<>>] = NoHandler
      BY DEF OnMain, NoHandler, Thread
    <3>4. Pop(p, t) = [handlers EXCEPT ![p] = NoHandler]
      <4>1. SubSeq(handlers[p][t], 1, Len(handlers[p][t]) - 1) = <<>>
        BY <3>1, <3>8, OneHandler
      <4>. QED
        BY <2>3, <2>4, <3>3, <4>1 DEF Pop
    <3>5. [OnMain(s, at) EXCEPT !["main"] = <<[sig |-> s, at |-> "wait"]>>] = OnMain(s, "wait")
      BY DEF OnMain, Thread
    <3>6. [<<[sig |-> s, at |-> at]>> EXCEPT ![1].at = "wait"] = <<[sig |-> s, at |-> "wait"]>>
      BY OneHandler
    <3>7. [handlers EXCEPT ![p][t][Len(handlers[p][t])].at = "wait"]
            = [handlers EXCEPT ![p] = OnMain(s, "wait")]
      BY <2>3, <2>4, <3>1, <3>5, <3>6, <3>8
    <3>. QED
      BY <3>2, <3>4, <3>7, <3>8
  <2>. QED
    BY <2>2, <2>3, <2>4
<1>4. ASSUME NEW t \in Thread, StopMonitor(p, t) PROVE StageInv'
  <2>1. handlers[p][t] # <<>> /\ Top(p, t).at = "stop"
    BY <1>4 DEF StopMonitor
  <2>2. PICK s \in Signal, at \in {"stop", "wait"} :
          signals[p] = {s} /\ handlers[p] = OnMain(s, at)
    BY <1>3, <2>1 DEF Called, Stopping, HandlerAt
  <2>3. at = "stop" /\ Called(p)
    <3>1. at = "stop"
      <4>1. Top(p, t) = [sig |-> s, at |-> at]
        BY <1>3, <2>1, <2>2
      <4>. QED
        BY <2>1, <4>1
    <3>2. \A r : OnMain(s, "stop") # OnMain(r, "wait")
      <4>. SUFFICES ASSUME NEW r, OnMain(s, "stop") = OnMain(r, "wait") PROVE FALSE
        OBVIOUS
      <4>1. <<[sig |-> s, at |-> "stop"]>> = <<[sig |-> r, at |-> "wait"]>>
        BY HandlersDiffer
      <4>2. [sig |-> s, at |-> "stop"].at = [sig |-> r, at |-> "wait"].at
        BY <4>1
      <4>. QED
        BY <4>2
    <3>. QED
      BY <1>3, <2>1, <2>2, <3>1, <3>2 DEF Stopping, HandlerAt
  <2>4. efd[p] = "open" /\ tables[p]
    BY <2>3 DEF Called, InUse
  <2>5. /\ efd' = [efd EXCEPT ![p] = "written"]
        /\ handlers' = [handlers EXCEPT ![p] = OnMain(s, "wait")]
        /\ UNCHANGED <<threads, lock, tables, ended, srvVars, path, pending, signals, status>>
    BY <1>3, <1>4, <2>1, <2>2, <2>4 DEF StopMonitor
  <2>6. TypeOK'
    BY <2>5, HandlerTypes DEF TypeOK
  <2>7. AtStage(p)'
    BY <2>2, <2>3, <2>5 DEF AtStage, Called, Stopping, HandlerAt, InUse, TypeOK
  <2>. QED
    BY <2>5, <2>6, <2>7, StageStep DEF Kept, TypeOK
<1>5. ASSUME NEW t \in Thread, Stopped(p, t) PROVE StageInv'
  <2>1. handlers[p][t] # <<>> /\ ended[p] > 0
    BY <1>5 DEF Stopped
  <2>2. Stopping(p) /\ Free(p) /\ monitor[p] = "done" /\ ended[p] = 1
    <3>1. Called(p) \/ Stopping(p)
      BY <1>3, <2>1
    <3>2. ended[p] # 0
      BY <2>1
    <3>. QED
      BY <3>1, <3>2 DEF Called, Stopping, InUse
  <2>3. PICK s \in Signal : signals[p] = {s} /\ handlers[p] = OnMain(s, "wait")
    BY <2>2 DEF Stopping, HandlerAt
  <2>4. /\ ended' = [ended EXCEPT ![p] = 0]
        /\ handlers' = [handlers EXCEPT ![p] = NoHandler]
        /\ UNCHANGED <<threads, lock, efd, tables, srvVars, path, pending, signals, status>>
    <3>1. Pop(p, t) = [handlers EXCEPT ![p] = NoHandler]
      BY <1>3, <2>1, <2>3
    <3>2. ended' = [ended EXCEPT ![p] = ended[p] - 1]
      BY <1>5, <2>2 DEF Stopped, Free
    <3>. QED
      BY <1>5, <2>2, <3>1, <3>2 DEF Stopped, Free
  <2>5. TypeOK'
    BY <2>4, HandlerTypes DEF TypeOK
  <2>6. AtStage(p)'
    BY <2>2, <2>3, <2>4 DEF AtStage, Stopping, Leaving, HandlerAt, Free, TypeOK
  <2>. QED
    BY <2>4, <2>5, <2>6, StageStep DEF Kept, TypeOK
<1>. QED
  BY <1>1, <1>2, <1>4, <1>5 DEF SignalHandler

\* Every process goes through the stages of start, signal and end in order.
THEOREM StagesCorrect ==
  ASSUME OneSignal
  PROVE  Spec => []StageInv
<1>1. StageInv /\ UNCHANGED vars => StageInv'
  <2>. SUFFICES ASSUME StageInv, UNCHANGED vars PROVE StageInv'
    OBVIOUS
  <2>1. TypeOK'
    BY DEF StageInv, TypeOK, vars, threads, monVars, srvVars, sigVars
  <2>2. \A q \in Proc : Kept(q)
    BY DEF Kept, vars, threads, monVars, srvVars, sigVars
  <2>. QED
    BY <2>1, <2>2, KeptStage DEF StageInv
<1>2. ASSUME StageInv, NEW p \in Proc, Fails(p) \/ Kill(p) PROVE StageInv'
  BY <1>2, EndStage DEF Fails, Kill
<1>3. StageInv /\ [Next]_vars => StageInv'
  BY <1>1, <1>2, MainStages, MonitorStages, ServerStages, SignalStages DEF Next
<1>. QED
  BY <1>3, StageInit, PTL DEF Spec
-----------------------------------------------------------------------------
(* The monitor's state, however many signals a daemon is sent and whichever *)
(* of its threads handles them, as long as none comes before the main       *)
(* thread waits for the monitor.                                            *)

\* The semaphore is 0 from the start of the monitor's thread until it posts.
TypeInv ==
  /\ TypeOK
  /\ \A p \in Proc : monitor[p] \in {"loop", "callbacks", "last", "close", "post"} => ended[p] = 0

\* Signals come when the monitor is set up, and from then on its thread works
\* with the tables until it frees them; only then it posts the semaphore for
\* which handlers wait.
Orderly(p) ==
  /\ status[p] # "aborted"
  /\ handlers[p] # NoHandler \/ pending[p] # {} => signals[p] # {}
  /\ signals[p] # {} => main[p] \in {"join", "stop", "exit", "ended"}
  /\ ended[p] # 0 => monitor[p] = "done" \/ main[p] = "ended"
  /\ main[p] \in {"off", "fork", "lock", "start", "config"} => Free(p) /\ monitor[p] = "none"
  /\ main[p] \in {"tables", "thread"} =>
       efd[p] = "open" /\ (tables[p] <=> main[p] = "thread") /\ monitor[p] = "none"
  /\ main[p] \in {"watch", "serve", "wait"} =>
       efd[p] = "open" /\ tables[p] /\ monitor[p] \in {"begin", "loop", "callbacks"}
  /\ main[p] \in {"join", "stop", "exit"} =>
       \/ /\ efd[p] # "closed" /\ tables[p]
          /\ monitor[p] \in {"begin", "loop", "callbacks", "last", "close"}
       \/ Free(p) /\ monitor[p] \in {"post", "done"}
  /\ main[p] = "ended" => Free(p) /\ monitor[p] = "none"

NoneEarly == "early" \notin Env
TablesInv == TypeInv /\ \A p \in Proc : Orderly(p)

LEMMA EndTyped ==
  ASSUME TypeInv, NEW p \in Proc, NEW st \in {"ok", "failure", "killed", "aborted"}, End(p, st)
  PROVE  TypeInv' /\ (\A q \in Proc \ {p} : Kept(q)) /\ (st # "aborted" => Orderly(p)')
<1>1. /\ main' = [main EXCEPT ![p] = "ended"]
      /\ monitor' = [monitor EXCEPT ![p] = "none"]
      /\ efd' = [efd EXCEPT ![p] = "closed"]
      /\ tables' = [tables EXCEPT ![p] = FALSE]
      /\ pending' = [pending EXCEPT ![p] = {}]
      /\ handlers' = [handlers EXCEPT ![p] = NoHandler]
      /\ status' = [status EXCEPT ![p] = st]
      /\ UNCHANGED <<ended, signals>>
  BY DEF End, NoHandler
<1>2. TypeOK'
  BY <1>1, HandlerTypes DEF TypeInv, TypeOK, End
<1>3. \A q \in Proc \ {p} : Kept(q)
  BY <1>1 DEF TypeInv, TypeOK, Kept
<1>4. TypeInv'
  BY <1>1, <1>2 DEF TypeInv, TypeOK
<1>5. st # "aborted" => Orderly(p)'
  BY <1>1 DEF TypeInv, TypeOK, Orderly, Free
<1>. QED
  BY <1>3, <1>4, <1>5

\* The main thread sets up the monitor, and then goes on while signals come.
LEMMA MainTyped ==
  ASSUME TypeInv, NEW p \in Proc, Launch(p) \/ MainThread(p) \/ Fails(p) \/ Kill(p)
  PROVE  TypeInv' /\ (\A q \in Proc \ {p} : Kept(q)) /\ (Orderly(p) => Orderly(p)')
<1>. USE DEF srvVars, sigVars, monVars, threads
<1>. DEFINE Rest == UNCHANGED <<monitor, efd, tables, ended, sigVars, status>>
<1>1. TypeOK
  BY DEF TypeInv
<1>2. CASE Launch(p) \/ Daemonize(p) \/ Handlers(p)
  <2>1. PICK at \in {"fork", "lock", "config"} : main' = [main EXCEPT ![p] = at]
    BY <1>2 DEF Launch, Daemonize, Handlers, Main
  <2>2. Rest /\ main[p] \in {"off", "fork", "start"}
    BY <1>2 DEF Launch, Daemonize, Handlers, Main
  <2>3. TypeOK'
    BY <1>1, <1>2, <2>1, <2>2 DEF Launch, Daemonize, Handlers, TypeOK
  <2>. QED
    BY <2>1, <2>2, <2>3 DEF TypeInv, TypeOK, Kept, Orderly, Free
<1>3. CASE Lock(p)
  <2>1. CASE /\ Main(p, "lock", "start") /\ lock' = p
             /\ UNCHANGED <<monitor, server, monVars, srvVars, path, sigVars, status>>
    <3>1. Rest /\ main[p] = "lock" /\ main' = [main EXCEPT ![p] = "start"]
      BY <2>1 DEF Main
    <3>2. TypeOK'
      BY <1>1, <2>1, <3>1 DEF TypeOK
    <3>. QED
      BY <3>1, <3>2 DEF TypeInv, TypeOK, Kept, Orderly, Free
  <2>2. CASE End(p, "failure")
    BY <2>2, EndTyped
  <2>. QED
    BY <1>3, <2>1, <2>2 DEF Lock
<1>4. CASE OpenMonitor(p)
  <2>1. /\ main[p] = "config" /\ main' = [main EXCEPT ![p] = "tables"]
        /\ efd' = [efd EXCEPT ![p] = "open"]
        /\ UNCHANGED <<monitor, tables, ended, sigVars, status, server, lock, srvVars, path>>
    BY <1>4 DEF OpenMonitor, Main
  <2>2. TypeOK'
    BY <1>1, <2>1 DEF TypeOK
  <2>. QED
    BY <2>1, <2>2 DEF TypeInv, TypeOK, Kept, Orderly, Free
<1>5. CASE MakeTables(p)
  <2>1. /\ main[p] = "tables" /\ main' = [main EXCEPT ![p] = "thread"]
        /\ tables' = [tables EXCEPT ![p] = TRUE]
        /\ UNCHANGED <<monitor, efd, ended, sigVars, status, server, lock, srvVars, path>>
    BY <1>5 DEF MakeTables, Main
  <2>2. TypeOK'
    BY <1>1, <2>1 DEF TypeOK
  <2>. QED
    BY <2>1, <2>2 DEF TypeInv, TypeOK, Kept, Orderly
<1>6. CASE StartMonitor(p)
  <2>1. /\ main[p] = "thread" /\ main' = [main EXCEPT ![p] = "watch"]
        /\ monitor' = [monitor EXCEPT ![p] = "begin"]
        /\ UNCHANGED <<tables, efd, ended, sigVars, status, server, lock, srvVars, path>>
    BY <1>6 DEF StartMonitor, Main
  <2>2. TypeOK'
    BY <1>1, <2>1 DEF TypeOK
  <2>. QED
    BY <2>1, <2>2 DEF TypeInv, TypeOK, Kept, Orderly
<1>7. CASE AddWatches(p) \/ StartServer(p) \/ Wait(p)
  <2>1. PICK at \in {"serve", "wait", "join", "stop"} :
          /\ main' = [main EXCEPT ![p] = at]
          /\ at \in {"join", "stop"} => main[p] = "wait"
          /\ at = "stop" => efd[p] = "closed"
    BY <1>7 DEF AddWatches, StartServer, Wait, Main
  <2>2. Rest /\ main[p] \in {"watch", "serve", "wait"}
    BY <1>7 DEF AddWatches, StartServer, Wait, Main
  <2>3. /\ object' \in [Proc -> 0 .. 2] /\ UNCHANGED <<socket, lock, path>>
        /\ server' \in [Proc -> {"none", "object", "unlink", "bind", "accept", "done"}]
    <3>1. CASE AddWatches(p)
      BY <1>1, <3>1 DEF TypeOK, AddWatches
    <3>2. CASE StartServer(p)
      BY <1>1, <3>2 DEF TypeOK, StartServer
    <3>3. CASE Wait(p)
      BY <1>1, <3>3 DEF TypeOK, Wait
    <3>. QED
      BY <1>7, <3>1, <3>2, <3>3
  <2>4. TypeOK'
    BY <1>1, <2>1, <2>2, <2>3 DEF TypeOK
  <2>. QED
    BY <2>1, <2>2, <2>4 DEF TypeInv, TypeOK, Kept, Orderly
<1>8. CASE Joined(p) \/ StopServer(p)
  <2>1. PICK at \in {"stop", "exit"} : main' = [main EXCEPT ![p] = at]
    BY <1>8 DEF Joined, StopServer, Main
  <2>2. Rest /\ main[p] \in {"join", "stop"}
    BY <1>8 DEF Joined, StopServer, Main
  <2>3. /\ socket' \in [Proc -> {"unset", "open", "shut"}]
        /\ UNCHANGED <<server, object, lock, path>>
    <3>1. CASE Joined(p)
      BY <1>1, <3>1 DEF TypeOK, Joined
    <3>2. CASE StopServer(p)
      <4>1. PICK x \in {"unset", "open", "shut"} : socket' = [socket EXCEPT ![p] = x]
        BY <1>1, <3>2 DEF TypeOK, StopServer
      <4>. QED
        BY <1>1, <3>2, <4>1 DEF TypeOK, StopServer
    <3>. QED
      BY <1>8, <3>1, <3>2
  <2>4. TypeOK'
    BY <1>1, <2>1, <2>2, <2>3 DEF TypeOK
  <2>. QED
    BY <2>1, <2>2, <2>4 DEF TypeInv, TypeOK, Kept, Orderly, Free
<1>9. CASE Exit(p) \/ Fails(p) \/ Kill(p)
  BY <1>9, EndTyped DEF Exit, Fails, Kill
<1>. QED
  BY <1>2, <1>3, <1>4, <1>5, <1>6, <1>7, <1>8, <1>9 DEF MainThread

\* The monitor's thread frees the tables before it posts the semaphore, and it
\* comes to that after a handler has written the eventfd.
LEMMA MonitorTyped ==
  ASSUME TypeInv, NEW p \in Proc, MonitorThread(p) \/ Event(p)
  PROVE  TypeInv' /\ (\A q \in Proc \ {p} : Kept(q)) /\ (Orderly(p) => Orderly(p)')
<1>. USE DEF srvVars, sigVars, monVars, threads
<1>. DEFINE Rest == UNCHANGED <<main, server, lock, object, socket, path, pending, signals,
                               handlers, status>>
<1>1. TypeOK
  BY DEF TypeInv
<1>2. CASE InitSemaphore(p)
  <2>1. /\ monitor[p] = "begin" /\ monitor' = [monitor EXCEPT ![p] = "loop"]
        /\ ended' = [ended EXCEPT ![p] = 0] /\ Rest /\ UNCHANGED <<efd, tables>>
    BY <1>2 DEF InitSemaphore, Monitor
  <2>2. TypeOK'
    BY <1>1, <2>1 DEF TypeOK
  <2>. QED
    BY <2>1, <2>2 DEF TypeInv, TypeOK, Kept, Orderly, Free
<1>3. CASE Event(p) \/ Handled(p) \/ Stop(p) \/ LastHandled(p)
  <2>1. PICK at \in {"loop", "callbacks", "last", "close"} :
          /\ monitor' = [monitor EXCEPT ![p] = at]
          /\ at \in {"last", "close"} => efd[p] = "written" \/ monitor[p] = "last"
    BY <1>3 DEF Event, Handled, Stop, LastHandled, Monitor
  <2>2. /\ monitor[p] \in {"loop", "callbacks", "last"}
        /\ UNCHANGED <<efd, tables, ended>> /\ Rest
    BY <1>3 DEF Event, Handled, Stop, LastHandled, Monitor
  <2>3. TypeOK'
    BY <1>1, <2>1, <2>2 DEF TypeOK
  <2>. QED
    BY <2>1, <2>2, <2>3 DEF TypeInv, TypeOK, Kept, Orderly, Free
<1>4. CASE Close(p)
  <2>1. /\ monitor[p] = "close" /\ monitor' = [monitor EXCEPT ![p] = "post"] /\ Rest
        /\ efd' = [efd EXCEPT ![p] = "closed"] /\ tables' = [tables EXCEPT ![p] = FALSE]
        /\ UNCHANGED ended
    BY <1>4 DEF Close, Monitor
  <2>2. TypeOK'
    BY <1>1, <2>1 DEF TypeOK
  <2>. QED
    BY <2>1, <2>2 DEF TypeInv, TypeOK, Kept, Orderly, Free
<1>5. CASE Post(p)
  <2>1. /\ monitor[p] = "post" /\ monitor' = [monitor EXCEPT ![p] = "done"] /\ Rest
        /\ ended' = [ended EXCEPT ![p] = ended[p] + 1] /\ UNCHANGED <<efd, tables>>
    BY <1>5 DEF Post, Monitor
  <2>2. ended' = [ended EXCEPT ![p] = 1]
    <3>1. ended[p] = 0
      BY <2>1 DEF TypeInv
    <3>. QED
      BY <2>1, <3>1
  <2>3. TypeOK'
    BY <1>1, <2>1, <2>2 DEF TypeOK
  <2>. QED
    BY <2>1, <2>2, <2>3 DEF TypeInv, TypeOK, Kept, Orderly, Free
<1>. QED
  BY <1>2, <1>3, <1>4, <1>5 DEF MonitorThread

LEMMA ServerTyped ==
  ASSUME TypeInv, NEW p \in Proc, ServerThread(p)
  PROVE  TypeInv' /\ (\A q \in Proc : Kept(q)) /\ (Orderly(p) => Orderly(p)')
<1>1. /\ UNCHANGED <<main, monitor, lock, monVars, sigVars, status>>
      /\ TypeOK' /\ \A q \in Proc : Kept(q)
  BY ServerTypes DEF TypeInv
<1>. QED
  BY <1>1 DEF TypeInv, Orderly, Free, sigVars, monVars

\* What a handler is put on, taken from, or goes on in.
LEMMA HandlersTyped ==
  ASSUME TypeOK, NEW p \in Proc, NEW t \in Thread
  PROVE  /\ \A h \in Handler :
              [handlers EXCEPT ![p][t] = Append(@, h)] \in [Proc -> [Thread -> Seq(Handler)]]
         /\ handlers[p][t] # <<>> =>
              /\ handlers[p] # NoHandler
              /\ Pop(p, t) \in [Proc -> [Thread -> Seq(Handler)]]
              /\ [handlers EXCEPT ![p][t][Len(handlers[p][t])].at = "wait"]
                   \in [Proc -> [Thread -> Seq(Handler)]]
<1>1. handlers \in [Proc -> [Thread -> Seq(Handler)]] /\ handlers[p][t] \in Seq(Handler)
  BY DEF TypeOK
<1>2. \A s \in Seq(Handler) :
        [handlers EXCEPT ![p][t] = s] \in [Proc -> [Thread -> Seq(Handler)]]
  BY <1>1
<1>3. \A h \in Handler : Append(handlers[p][t], h) \in Seq(Handler)
  BY <1>1
<1>4. ASSUME handlers[p][t] # <<>>
      PROVE  /\ handlers[p] # NoHandler
             /\ Pop(p, t) \in [Proc -> [Thread -> Seq(Handler)]]
             /\ [handlers EXCEPT ![p][t][Len(handlers[p][t])].at = "wait"]
                  \in [Proc -> [Thread -> Seq(Handler)]]
  <2>. DEFINE s == handlers[p][t]
  <2>1. Len(s) \in Nat \ {0}
    BY <1>1, <1>4
  <2>2. SubSeq(s, 1, Len(s) - 1) \in Seq(Handler)
    <3>. HIDE DEF s
    <3>1. s \in Seq(Handler)
      BY <1>1 DEF s
    <3>. QED
      BY <2>1, <3>1
  <2>3. [s EXCEPT ![Len(s)].at = "wait"] \in Seq(Handler)
    <3>1. s[Len(s)] \in Handler
      BY <1>1, <2>1
    <3>2. [s[Len(s)] EXCEPT !.at = "wait"] \in Handler
      BY <3>1 DEF Handler
    <3>3. \A h \in Handler : [s EXCEPT ![Len(s)] = h] \in Seq(Handler)
      BY <1>1, <2>1
    <3>. QED
      BY <3>2, <3>3
  <2>4. Pop(p, t) \in [Proc -> [Thread -> Seq(Handler)]]
    BY <1>2, <2>2 DEF Pop
  <2>5. [handlers EXCEPT ![p][t][Len(s)].at = "wait"] \in [Proc -> [Thread -> Seq(Handler)]]
    BY <1>2, <2>3
  <2>. QED
    BY <1>4, <2>4, <2>5 DEF NoHandler
<1>. QED
  BY <1>1, <1>2, <1>3, <1>4

\* What a step of a handler, or of the kernel that calls it, leaves to others.
LEMMA OnTop ==
  ASSUME TypeOK, NEW p \in Proc, NEW t \in Thread, NEW q \in Proc \ {p}
  PROVE  /\ \A h : [handlers EXCEPT ![p][t] = Append(@, h)][q] = handlers[q]
         /\ Pop(p, t)[q] = handlers[q]
         /\ [handlers EXCEPT ![p][t][Len(handlers[p][t])].at = "wait"][q] = handlers[q]
BY DEF TypeOK, Pop

\* A signal is sent, and called on a thread of the process.
LEMMA CallTyped ==
  ASSUME TypeInv, NEW p \in Proc, NEW s \in Signal, Send(p, s) \/ Deliver(p, s)
  PROVE  /\ TypeInv' /\ \A q \in Proc \ {p} : Kept(q)
         /\ NoneEarly /\ Orderly(p) => Orderly(p)'
<1>. USE DEF srvVars, sigVars, monVars, threads
<1>1. TypeOK
  BY DEF TypeInv
<1>2. CASE Send(p, s)
  <2>1. /\ "early" \in Env \/ main[p] = "join"
        /\ signals' = [signals EXCEPT ![p] = signals[p] \cup {s}]
        /\ pending' = [pending EXCEPT ![p] = pending[p] \cup {s}]
        /\ UNCHANGED <<threads, lock, monVars, srvVars, path, handlers, status>>
    BY <1>2 DEF Send
  <2>2. TypeOK'
    BY <1>1, <2>1 DEF TypeOK
  <2>3. NoneEarly /\ Orderly(p) => Orderly(p)'
    BY <1>1, <2>1 DEF NoneEarly, Orderly, Free, TypeOK
  <2>. QED
    BY <1>1, <2>1, <2>2, <2>3 DEF TypeInv, TypeOK, Kept
<1>3. CASE Deliver(p, s) /\ main[p] \in {"fork", "lock", "start"}
  BY <1>3, EndTyped DEF Deliver
<1>4. CASE Deliver(p, s) /\ main[p] \notin {"fork", "lock", "start"}
  <2>1. PICK t \in Thread :
          handlers' = [handlers EXCEPT ![p][t] = Append(@, [sig |-> s, at |-> "stop"])]
    BY <1>4 DEF Deliver
  <2>2. /\ s \in pending[p] /\ pending' = [pending EXCEPT ![p] = pending[p] \ {s}]
        /\ UNCHANGED <<threads, lock, monVars, srvVars, path, signals, status>>
    BY <1>4 DEF Deliver
  <2>3. /\ handlers' \in [Proc -> [Thread -> Seq(Handler)]]
        /\ \A q \in Proc \ {p} : handlers'[q] = handlers[q]
    <3>1. PICK h \in Handler : h = [sig |-> s, at |-> "stop"]
      BY DEF Handler
    <3>2. handlers' = [handlers EXCEPT ![p][t] = Append(@, h)]
      BY <2>1, <3>1
    <3>3. handlers' \in [Proc -> [Thread -> Seq(Handler)]]
      BY <1>1, <3>2, HandlersTyped
    <3>. QED
      BY <1>1, <3>2, <3>3, OnTop
  <2>4. TypeOK'
    BY <1>1, <2>2, <2>3 DEF TypeOK
  <2>5. Orderly(p) => Orderly(p)'
    BY <1>1, <2>2 DEF Orderly, Free, TypeOK
  <2>. QED
    BY <1>1, <2>2, <2>3, <2>4, <2>5 DEF TypeInv, TypeOK, Kept
<1>. QED
  BY <1>2, <1>3, <1>4

\* The handler finds the tables as ufa_monitor_stop asserts.
LEMMA HandlerTyped ==
  ASSUME TypeInv, NEW p \in Proc, NEW t \in Thread, StopMonitor(p, t) \/ Stopped(p, t)
  PROVE  TypeInv' /\ (\A q \in Proc \ {p} : Kept(q)) /\ (Orderly(p) => Orderly(p)')
<1>. USE DEF srvVars, sigVars, monVars, threads
<1>1. TypeOK /\ handlers[p][t] # <<>> /\ handlers[p] # NoHandler /\ Alive(p)
  BY HandlersTyped DEF TypeInv, StopMonitor, Stopped
<1>2. main[p] # "ended" /\ (Orderly(p) => signals[p] # {})
  BY <1>1 DEF Alive, Over, Orderly
<1>3. CASE StopMonitor(p, t)
  <2>1. CASE efd[p] # "closed" /\ ~tables[p]
    <3>1. End(p, "aborted")
      BY <1>3, <2>1 DEF StopMonitor
    <3>2. ~Orderly(p)
      BY <1>1, <1>2, <2>1 DEF Orderly, Free
    <3>. QED
      BY <3>1, <3>2, EndTyped
  <2>2. CASE efd[p] = "closed" \/ tables[p]
    <3>1. /\ handlers' = Pop(p, t)
               \/ handlers' = [handlers EXCEPT ![p][t][Len(handlers[p][t])].at = "wait"]
          /\ efd' = efd \/ (efd[p] # "closed" /\ efd' = [efd EXCEPT ![p] = "written"])
          /\ UNCHANGED <<threads, lock, tables, ended, srvVars, path, pending, signals, status>>
      BY <1>3, <2>2 DEF StopMonitor
    <3>2. /\ handlers' \in [Proc -> [Thread -> Seq(Handler)]]
          /\ \A q \in Proc \ {p} : handlers'[q] = handlers[q]
      <4>1. CASE handlers' = Pop(p, t)
        BY <1>1, <4>1, HandlersTyped, OnTop
      <4>2. CASE handlers' = [handlers EXCEPT ![p][t][Len(handlers[p][t])].at = "wait"]
        BY <1>1, <4>2, HandlersTyped, OnTop
      <4>. QED
        BY <3>1, <4>1, <4>2
    <3>3. TypeOK'
      BY <1>1, <3>1, <3>2 DEF TypeOK
    <3>4. Orderly(p) => Orderly(p)'
      BY <1>1, <1>2, <3>1 DEF Orderly, Free, TypeOK
    <3>. QED
      BY <1>1, <3>1, <3>2, <3>3, <3>4 DEF TypeInv, TypeOK, Kept
  <2>. QED
    BY <2>1, <2>2
<1>4. CASE Stopped(p, t)
  <2>1. ended[p] = 1
    BY <1>1, <1>4 DEF Stopped, TypeOK
  <2>2. CASE efd[p] # "closed" \/ tables[p]
    <3>1. End(p, "aborted")
      BY <1>4, <2>2 DEF Stopped
    <3>2. ~Orderly(p)
      BY <1>1, <1>2, <2>1, <2>2 DEF Orderly, Free
    <3>. QED
      BY <3>1, <3>2, EndTyped
  <2>3. CASE efd[p] = "closed" /\ ~tables[p]
    <3>1. /\ handlers' = Pop(p, t)
          /\ UNCHANGED <<threads, lock, efd, tables, srvVars, path, pending, signals, status>>
      BY <1>4, <2>3 DEF Stopped
    <3>2. ended' = [ended EXCEPT ![p] = 0]
      <4>1. ended' = [ended EXCEPT ![p] = ended[p] - 1]
        BY <1>4, <2>3 DEF Stopped
      <4>. QED
        BY <2>1, <4>1
    <3>3. /\ handlers' \in [Proc -> [Thread -> Seq(Handler)]]
          /\ \A q \in Proc \ {p} : handlers'[q] = handlers[q]
      BY <1>1, <3>1, HandlersTyped, OnTop
    <3>4. TypeOK'
      <4>1. ended' \in [Proc -> 0 .. 1]
        BY <1>1, <3>2 DEF TypeOK
      <4>. QED
        BY <1>1, <3>1, <3>3, <4>1 DEF TypeOK
    <3>5. Orderly(p) => Orderly(p)'
      BY <1>1, <1>2, <3>1, <3>2 DEF Orderly, Free, TypeOK
    <3>. QED
      BY <1>1, <3>1, <3>2, <3>3, <3>4, <3>5 DEF TypeInv, TypeOK, Kept
  <2>. QED
    BY <2>2, <2>3
<1>. QED
  BY <1>3, <1>4

LEMMA OrderlyStep ==
  TypeInv /\ [Next]_vars =>
    /\ TypeInv'
    /\ NoneEarly /\ (\A q \in Proc : Orderly(q)) => \A q \in Proc : Orderly(q)'
<1>. SUFFICES ASSUME TypeInv, [Next]_vars
     PROVE  /\ TypeInv'
            /\ NoneEarly /\ (\A q \in Proc : Orderly(q)) => \A q \in Proc : Orderly(q)'
  OBVIOUS
<1>1. ASSUME NEW q \in Proc, Kept(q), Orderly(q) PROVE Orderly(q)'
  BY <1>1 DEF Kept, Orderly, Free
<1>2. CASE UNCHANGED vars
  <2>1. TypeInv'
    BY <1>2 DEF TypeInv, TypeOK, vars, threads, monVars, srvVars, sigVars
  <2>2. \A q \in Proc : Kept(q)
    BY <1>2 DEF Kept, vars, threads, monVars, srvVars, sigVars
  <2>. QED
    BY <1>1, <2>1, <2>2
<1>3. ASSUME NEW p \in Proc,
             \/ Launch(p) \/ MainThread(p) \/ MonitorThread(p) \/ ServerThread(p)
             \/ SignalHandler(p) \/ Fails(p) \/ Event(p) \/ Kill(p)
             \/ \E s \in Signal : Send(p, s)
      PROVE  /\ TypeInv' /\ \A q \in Proc \ {p} : Kept(q)
             /\ NoneEarly /\ Orderly(p) => Orderly(p)'
  BY <1>3, MainTyped, MonitorTyped, ServerTyped, CallTyped, HandlerTyped DEF SignalHandler
<1>. QED
  BY <1>1, <1>2, <1>3 DEF Next

LEMMA OrderlyInit == Init => TablesInv
<1>. SUFFICES ASSUME Init PROVE TablesInv
  OBVIOUS
<1>1. TypeOK /\ \A p \in Proc : monitor[p] = "none"
  BY StageInit DEF StageInv, Init
<1>2. ASSUME NEW p \in Proc PROVE Orderly(p)
  BY DEF Init, Orderly, Free, NoHandler
<1>. QED
  BY <1>1, <1>2 DEF TablesInv, TypeInv

\* Every variable keeps its type, whatever daemons are sent and whenever: the
\* semaphore that the monitor posts for a handler is posted once.
THEOREM TypeCorrect == Spec => []TypeOK
<1>1. TablesInv => TypeInv
  BY DEF TablesInv
<1>2. TypeInv => TypeOK
  BY DEF TypeInv
<1>. QED
  BY <1>1, <1>2, OrderlyInit, OrderlyStep, PTL DEF Spec

\* If no signal comes before the main thread waits for the monitor, the tables
\* that ufa_monitor_watch and the callbacks of the monitor use are there
\* whenever they run, and no assertion of ufa_monitor_stop fails, with several
\* signals at a time and on whatever thread their handlers run.
THEOREM TablesCorrect ==
  ASSUME NoneEarly
  PROVE  Spec => []TablesInUse
<1>1. TablesInv /\ [Next]_vars => TablesInv'
  BY OrderlyStep DEF TablesInv
<1>2. TablesInv => TablesInUse
  <2>1. SUFFICES ASSUME TypeOK, NEW p \in Proc, Orderly(p)
                 PROVE  /\ main[p] = "watch" \/ monitor[p] \in {"loop", "callbacks", "last"}
                             => tables[p]
                        /\ status[p] # "aborted"
    BY DEF TablesInv, TypeInv, TablesInUse
  <2>. QED
    BY <2>1 DEF Orderly, TypeOK
<1>. QED
  BY <1>1, <1>2, OrderlyInit, PTL DEF Spec
=============================================================================
