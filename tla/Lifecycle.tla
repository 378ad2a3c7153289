------------------------------ MODULE Lifecycle ------------------------------
(***************************************************************************)
(* Start and end of the daemon: main and start_ufad (core/ufad.c), the     *)
(* lock on the pid file and the double fork (util/daemonize.c), the        *)
(* monitor thread (core/monitor_inotify.c), the thread that listens on the *)
(* socket (json/jsonrpc_server.c), and the signal handler, which runs on   *)
(* top of any of the three threads.                                        *)
(*                                                                         *)
(* Env lists what happens beside the regular case:                         *)
(*   "crash"   a daemon is killed                                          *)
(*   "fail"    reading the configuration, creating a thread or inotify     *)
(*             fails                                                       *)
(*   "nobind"  making, binding or listening on the socket fails            *)
(*   "early"   signals arrive before the main thread waits for the monitor *)
(*   "second"  further signals arrive while one is handled                 *)
(*   "any"     a signal is handled by another thread than the main thread  *)
(*   "homes"   daemons are started with different home directories, and so *)
(*             with a pid file each                                        *)
(***************************************************************************)
EXTENDS Naturals, Sequences

CONSTANTS
  Proc,     \* processes that run ufad
  Env,      \* see above
  NoProc    \* in place of a process

Thread == {"main", "monitor", "server"}
Signal == {"SIGINT", "SIGTERM"}

ASSUME LifecycleAssumption ==
  /\ Env \subseteq {"crash", "fail", "nobind", "early", "second", "any", "homes"}
  /\ NoProc \notin Proc

VARIABLES
  main,      \* what the main thread does next
  monitor,   \* what the monitor thread does next
  server,    \* what the thread of the server does next
  lock,      \* the process that has locked the pid file
  efd,       \* monitor: "closed", "open", or "written" to stop it
  tables,    \* monitor: its hash tables exist
  ended,     \* monitor, end_reading: the value of its semaphore
  object,    \* the server object that the variable server names: 0 none,
             \*   1 that of the main thread, 2 that of the server's
  socket,    \* socket_fd of the second object is "unset", "open" or "shut"
  path,      \* the process whose socket is bound to SOCKET_PATH
  pending,   \* signals a process was sent and has not handled
  signals,   \* signals it was ever sent
  handlers,  \* per thread: the signal handlers that run on it, the last on top
  status     \* exit status

threads == <<main, monitor, server>>
monVars == <<efd, tables, ended>>
srvVars == <<object, socket>>
sigVars == <<pending, signals, handlers>>
vars == <<threads, lock, monVars, srvVars, path, sigVars, status>>

Init ==
  /\ main = [p \in Proc |-> "off"]
  /\ monitor = [p \in Proc |-> "none"]
  /\ server = [p \in Proc |-> "none"]
  /\ lock = NoProc
  /\ efd = [p \in Proc |-> "closed"]
  /\ tables = [p \in Proc |-> FALSE]
  /\ ended = [p \in Proc |-> 0]
  /\ object = [p \in Proc |-> 0]
  /\ socket = [p \in Proc |-> "unset"]
  /\ path = NoProc
  /\ pending = [p \in Proc |-> {}]
  /\ signals = [p \in Proc |-> {}]
  /\ handlers = [p \in Proc |-> [t \in Thread |-> <<>>]]
  /\ status = [p \in Proc |-> "none"]

Over == {"off", "ended"}
Alive(p) == main[p] \notin Over

\* A handler suspends the code of its thread.
Runs(p, t) == Alive(p) /\ handlers[p][t] = <<>>

\* The process ends: the kernel closes what it has and drops its lock.
End(p, st) ==
  /\ main' = [main EXCEPT ![p] = "ended"]
  /\ monitor' = [monitor EXCEPT ![p] = "none"]
  /\ server' = [server EXCEPT ![p] = "none"]
  /\ lock' = IF lock = p THEN NoProc ELSE lock
  /\ efd' = [efd EXCEPT ![p] = "closed"]
  /\ tables' = [tables EXCEPT ![p] = FALSE]
  /\ socket' = [socket EXCEPT ![p] = "shut"]
  /\ pending' = [pending EXCEPT ![p] = {}]
  /\ handlers' = [handlers EXCEPT ![p] = [t \in Thread |-> <<>>]]
  /\ status' = [status EXCEPT ![p] = st]
  /\ UNCHANGED <<ended, object, path, signals>>

(***************************************************************************)
(* The main thread.                                                        *)
(***************************************************************************)

Main(p, from, to) ==
  /\ Runs(p, "main") /\ main[p] = from
  /\ main' = [main EXCEPT ![p] = to]

Launch(p) ==
  /\ main[p] = "off"
  /\ main' = [main EXCEPT ![p] = "fork"]
  /\ UNCHANGED <<monitor, server, lock, monVars, srvVars, path, sigVars, status>>

\* ufa_daemon, unless in the foreground: the process goes on as a child, which
\* does not inherit locks.
Daemonize(p) ==
  /\ Main(p, "fork", "lock")
  /\ lock' = IF lock = p THEN NoProc ELSE lock
  /\ UNCHANGED <<monitor, server, monVars, srvVars, path, sigVars, status>>

\* (The mutant does not look at the answer.)
LockAnyhow(p) ==
  /\ Main(p, "lock", "start")
  /\ lock' = IF lock = NoProc THEN p ELSE lock
  /\ UNCHANGED <<monitor, server, monVars, srvVars, path, sigVars, status>>

\* ufa_daemon_running.
Lock(p) ==
  \/ /\ Main(p, "lock", "start")
     /\ lock = NoProc \/ "homes" \in Env
     /\ lock' = p
     /\ UNCHANGED <<monitor, server, monVars, srvVars, path, sigVars, status>>
  \/ /\ Runs(p, "main") /\ main[p] = "lock"
     /\ lock # NoProc /\ "homes" \notin Env
     /\ End(p, "failure")

\* start_ufad sets the signal handlers.
Handlers(p) ==
  /\ Main(p, "start", "config")
  /\ UNCHANGED <<monitor, server, lock, monVars, srvVars, path, sigVars, status>>

Fails(p) ==
  /\ "fail" \in Env
  /\ Runs(p, "main") /\ main[p] \in {"config", "thread", "serve"}
  /\ End(p, "failure")

\* ufa_monitor_init up to eventfd, to the tables, and to the end.
OpenMonitor(p) ==
  /\ Main(p, "config", "tables")
  /\ efd' = [efd EXCEPT ![p] = "open"]
  /\ UNCHANGED <<monitor, server, lock, tables, ended, srvVars, path, sigVars, status>>

MakeTables(p) ==
  /\ Main(p, "tables", "thread")
  /\ tables' = [tables EXCEPT ![p] = TRUE]
  /\ UNCHANGED <<monitor, server, lock, efd, ended, srvVars, path, sigVars, status>>

StartMonitor(p) ==
  /\ Main(p, "thread", "watch")
  /\ monitor' = [monitor EXCEPT ![p] = "begin"]
  /\ UNCHANGED <<server, lock, monVars, srvVars, path, sigVars, status>>

\* The watches (see Watch), and the first server object.
AddWatches(p) ==
  /\ Main(p, "watch", "serve")
  /\ object' = [object EXCEPT ![p] = 1]
  /\ UNCHANGED <<monitor, server, lock, monVars, socket, path, sigVars, status>>

StartServer(p) ==
  /\ Main(p, "serve", "wait")
  /\ server' = [server EXCEPT ![p] = "object"]
  /\ UNCHANGED <<monitor, lock, monVars, srvVars, path, sigVars, status>>

\* ufa_monitor_wait: at once when the monitor has been stopped.
Wait(p) ==
  /\ Main(p, "wait", IF efd[p] = "closed" THEN "stop" ELSE "join")
  /\ UNCHANGED <<monitor, server, lock, monVars, srvVars, path, sigVars, status>>

Joined(p) ==
  /\ Main(p, "join", "stop")
  /\ monitor[p] = "done"
  /\ UNCHANGED <<monitor, server, lock, monVars, srvVars, path, sigVars, status>>

\* (The mutant gives the lock up before the server has ended.)
UnlockAndStop(p) ==
  /\ Main(p, "stop", "exit")
  /\ lock' = NoProc
  /\ socket' = [socket EXCEPT ![p] = "shut"]
  /\ UNCHANGED <<monitor, server, monVars, object, path, sigVars, status>>

\* ufa_jsonrpc_server_stop and _free: of the first object, or before there is
\* a socket, it stops nothing.
StopServer(p) ==
  /\ Main(p, "stop", "exit")
  /\ socket' = [socket EXCEPT ![p] = IF object[p] = 2 /\ @ = "open" THEN "shut" ELSE @]
  /\ UNCHANGED <<monitor, server, lock, monVars, object, path, sigVars, status>>

Exit(p) ==
  /\ Runs(p, "main") /\ main[p] = "exit"
  /\ End(p, "ok")

(***************************************************************************)
(* The monitor thread: loop_read_events.                                   *)
(***************************************************************************)

Monitor(p, from, to) ==
  /\ Runs(p, "monitor") /\ monitor[p] = from
  /\ monitor' = [monitor EXCEPT ![p] = to]

InitSemaphore(p) ==
  /\ Monitor(p, "begin", "loop")
  /\ ended' = [ended EXCEPT ![p] = 0]
  /\ UNCHANGED <<main, server, lock, efd, tables, srvVars, path, sigVars, status>>

Event(p) ==
  /\ Monitor(p, "loop", "callbacks")
  /\ efd[p] = "open"
  /\ UNCHANGED <<main, server, lock, monVars, srvVars, path, sigVars, status>>

Handled(p) ==
  /\ Monitor(p, "callbacks", "loop")
  /\ UNCHANGED <<main, server, lock, monVars, srvVars, path, sigVars, status>>

\* After the eventfd was written the events that are there are still handled.
Stop(p) ==
  /\ efd[p] = "written"
  /\ Monitor(p, "loop", "last") \/ Monitor(p, "loop", "close")
  /\ UNCHANGED <<main, server, lock, monVars, srvVars, path, sigVars, status>>

LastHandled(p) ==
  /\ Monitor(p, "last", "close")
  /\ UNCHANGED <<main, server, lock, monVars, srvVars, path, sigVars, status>>

\* (The mutant leaves the eventfd open.)
FreeTables(p) ==
  /\ Monitor(p, "close", "post")
  /\ tables' = [tables EXCEPT ![p] = FALSE]
  /\ UNCHANGED <<main, server, lock, efd, ended, srvVars, path, sigVars, status>>

Close(p) ==
  /\ Monitor(p, "close", "post")
  /\ efd' = [efd EXCEPT ![p] = "closed"]
  /\ tables' = [tables EXCEPT ![p] = FALSE]
  /\ UNCHANGED <<main, server, lock, ended, srvVars, path, sigVars, status>>

\* (The mutant forgets to post the semaphore.)
PostNothing(p) ==
  /\ Monitor(p, "post", "done")
  /\ UNCHANGED <<main, server, lock, monVars, srvVars, path, sigVars, status>>

\* (The mutant posts it twice.)
PostTwice(p) ==
  /\ Monitor(p, "post", "done")
  /\ ended' = [ended EXCEPT ![p] = @ + 2]
  /\ UNCHANGED <<main, server, lock, efd, tables, srvVars, path, sigVars, status>>

Post(p) ==
  /\ Monitor(p, "post", "done")
  /\ ended' = [ended EXCEPT ![p] = @ + 1]
  /\ UNCHANGED <<main, server, lock, efd, tables, srvVars, path, sigVars, status>>

(***************************************************************************)
(* The thread of the server: start_server and jsonrpc_server.              *)
(***************************************************************************)

Server(p, from, to) ==
  /\ Runs(p, "server") /\ server[p] = from
  /\ server' = [server EXCEPT ![p] = to]

NewServer(p) ==
  /\ Server(p, "object", "unlink")
  /\ object' = [object EXCEPT ![p] = 2]
  /\ UNCHANGED <<main, monitor, lock, monVars, socket, path, sigVars, status>>

\* (The mutant does not remove what an earlier daemon left.)
UnlinkNothing(p) ==
  /\ Server(p, "unlink", "bind")
  /\ socket' = [socket EXCEPT ![p] = "open"]
  /\ UNCHANGED <<main, monitor, lock, monVars, object, path, sigVars, status>>

\* It removes the path, whoever has bound it, and makes a socket.
Unlink(p) ==
  /\ Server(p, "unlink", "bind")
  /\ path' = NoProc
  /\ socket' = [socket EXCEPT ![p] = "open"]
  /\ UNCHANGED <<main, monitor, lock, monVars, object, sigVars, status>>

\* A path that is bound already, or another failure, leaves the daemon without
\* a server.
Bind(p) ==
  /\ \/ /\ path = NoProc
        /\ Server(p, "bind", "accept")
        /\ path' = p
     \/ /\ path # NoProc \/ "nobind" \in Env
        /\ Server(p, "bind", "done")
        /\ UNCHANGED path
  /\ UNCHANGED <<main, monitor, lock, monVars, srvVars, sigVars, status>>

\* accept fails, and the path is removed, whoever has bound it.
EndServer(p) ==
  /\ Server(p, "accept", "done")
  /\ socket[p] = "shut"
  /\ path' = NoProc
  /\ UNCHANGED <<main, monitor, lock, monVars, srvVars, sigVars, status>>

(***************************************************************************)
(* Signals.                                                                *)
(***************************************************************************)

Send(p, s) ==
  /\ Alive(p) /\ s \notin signals[p]
  /\ "early" \in Env \/ main[p] = "join"
  /\ "second" \in Env \/ signals[p] = {}
  /\ signals' = [signals EXCEPT ![p] = @ \cup {s}]
  /\ pending' = [pending EXCEPT ![p] = @ \cup {s}]
  /\ UNCHANGED <<threads, lock, monVars, srvVars, path, handlers, status>>

Top(p, t) == handlers[p][t][Len(handlers[p][t])]
Pop(p, t) == [handlers EXCEPT ![p][t] = SubSeq(@, 1, Len(@) - 1)]

\* A handler's own signal is blocked on its thread.
Blocks(p, t, s) == \E i \in 1 .. Len(handlers[p][t]) : handlers[p][t][i].sig = s
Lives(p, t) ==
  \/ t = "main"
  \/ t = "monitor" /\ monitor[p] \notin {"none", "done"}
  \/ t = "server" /\ server[p] \notin {"none", "done"}

\* The kernel interrupts the main thread unless it blocks the signal.  Before
\* the handlers are set a signal ends the process.
Deliver(p, s) ==
  /\ Alive(p) /\ s \in pending[p]
  /\ \/ /\ main[p] \in {"fork", "lock", "start"}
        /\ End(p, "killed")
     \/ /\ main[p] \notin {"fork", "lock", "start"}
        /\ \E t \in Thread :
             /\ Lives(p, t) /\ ~Blocks(p, t, s)
             /\ t = "main" \/ "any" \in Env \/ Blocks(p, "main", s)
             /\ handlers' = [handlers EXCEPT ![p][t] = Append(@, [sig |-> s, at |-> "stop"])]
        /\ pending' = [pending EXCEPT ![p] = @ \ {s}]
        /\ UNCHANGED <<threads, lock, monVars, srvVars, path, signals, status>>

\* ufa_monitor_stop on top of thread t: nothing without a monitor, a failed
\* assertion without tables, and otherwise the eventfd is written.
StopMonitor(p, t) ==
  /\ Alive(p) /\ handlers[p][t] # <<>> /\ Top(p, t).at = "stop"
  /\ \/ /\ efd[p] = "closed"
        /\ handlers' = Pop(p, t)
        /\ UNCHANGED <<threads, lock, monVars, srvVars, path, pending, signals, status>>
     \/ /\ efd[p] # "closed" /\ ~tables[p]
        /\ End(p, "aborted")
     \/ /\ efd[p] # "closed" /\ tables[p]
        /\ efd' = [efd EXCEPT ![p] = "written"]
        /\ handlers' = [handlers EXCEPT ![p][t][Len(handlers[p][t])].at = "wait"]
        /\ UNCHANGED <<threads, lock, tables, ended, srvVars, path, pending, signals,
                       status>>

\* The semaphore was posted; the monitor's state must be gone.
Stopped(p, t) ==
  /\ Alive(p) /\ handlers[p][t] # <<>> /\ Top(p, t).at = "wait"
  /\ ended[p] > 0
  /\ \/ /\ efd[p] = "closed" /\ ~tables[p]
        /\ ended' = [ended EXCEPT ![p] = @ - 1]
        /\ handlers' = Pop(p, t)
        /\ UNCHANGED <<threads, lock, efd, tables, srvVars, path, pending, signals, status>>
     \/ /\ efd[p] # "closed" \/ tables[p]
        /\ End(p, "aborted")

Kill(p) ==
  /\ "crash" \in Env
  /\ Alive(p)
  /\ End(p, "killed")

-----------------------------------------------------------------------------
MainThread(p) ==
  \/ Daemonize(p) \/ Lock(p) \/ Handlers(p) \/ OpenMonitor(p) \/ MakeTables(p)
  \/ StartMonitor(p) \/ AddWatches(p) \/ StartServer(p) \/ Wait(p) \/ Joined(p)
  \/ StopServer(p) \/ Exit(p)
MonitorThread(p) ==
  \/ InitSemaphore(p) \/ Handled(p) \/ Stop(p) \/ LastHandled(p) \/ Close(p) \/ Post(p)
ServerThread(p) == NewServer(p) \/ Unlink(p) \/ Bind(p) \/ EndServer(p)
SignalHandler(p) ==
  \/ \E s \in Signal : Deliver(p, s)
  \/ \E t \in Thread : StopMonitor(p, t) \/ Stopped(p, t)

Next ==
  \E p \in Proc :
    \/ Launch(p) \/ MainThread(p) \/ MonitorThread(p) \/ ServerThread(p)
    \/ SignalHandler(p) \/ Fails(p) \/ Event(p) \/ Kill(p)
    \/ \E s \in Signal : Send(p, s)

Spec == Init /\ [][Next]_vars

\* A thread that can run is run, and a signal delivered.  Nobody has to start
\* a daemon or to end one, and no event has to occur.
FairSpec ==
  /\ Spec
  /\ \A p \in Proc :
       /\ WF_vars(MainThread(p)) /\ WF_vars(MonitorThread(p))
       /\ WF_vars(ServerThread(p)) /\ WF_vars(SignalHandler(p))

-----------------------------------------------------------------------------
Handler == [sig: Signal, at: {"stop", "wait"}]

TypeOK ==
  /\ main \in [Proc -> {"off", "fork", "lock", "start", "config", "tables", "thread",
                        "watch", "serve", "wait", "join", "stop", "exit", "ended"}]
  /\ monitor \in [Proc -> {"none", "begin", "loop", "callbacks", "last", "close",
                           "post", "done"}]
  /\ server \in [Proc -> {"none", "object", "unlink", "bind", "accept", "done"}]
  /\ lock \in Proc \cup {NoProc}
  /\ efd \in [Proc -> {"closed", "open", "written"}]
  /\ tables \in [Proc -> BOOLEAN]
  /\ ended \in [Proc -> 0 .. 1]
  /\ object \in [Proc -> 0 .. 2]
  /\ socket \in [Proc -> {"unset", "open", "shut"}]
  /\ path \in Proc \cup {NoProc}
  /\ pending \in [Proc -> SUBSET Signal]
  /\ signals \in [Proc -> SUBSET Signal]
  /\ handlers \in [Proc -> [Thread -> Seq(Handler)]]
  /\ status \in [Proc -> {"none", "ok", "failure", "killed", "aborted"}]

\* The processes that have passed ufa_daemon_running.
Daemon == {p \in Proc : main[p] \notin {"off", "fork", "lock", "ended"}}

\* At most one daemon runs, and it holds the lock.
OneDaemon == \A p \in Daemon : lock = p

\* Tools that connect to the socket's path reach the daemon that listens: no
\* other daemon has taken or removed its path.
Reachable == \A p \in Daemon : server[p] = "accept" /\ socket[p] = "open" => path = p

\* The monitor's tables exist while a thread uses them, and an assertion of
\* the code never fails.
TablesInUse ==
  \A p \in Proc :
    /\ main[p] = "watch" \/ monitor[p] \in {"loop", "callbacks", "last"} => tables[p]
    /\ status[p] # "aborted"

\* Why TablesInUse holds when one signal comes, while the main thread waits
\* for the monitor: the stages a process goes through.  The handler of the
\* signal runs on the main thread and waits for the monitor's thread to have
\* freed everything.
NoHandler == [t \in Thread |-> <<>>]
OnMain(s, where) ==
  [t \in Thread |-> IF t = "main" THEN <<[sig |-> s, at |-> where]>> ELSE <<>>]

Calm(p) ==
  signals[p] = {} /\ pending[p] = {} /\ handlers[p] = NoHandler /\ ended[p] = 0

HandlerAt(p, where) ==
  /\ main[p] = "join" /\ pending[p] = {}
  /\ \E s \in Signal : signals[p] = {s} /\ handlers[p] = OnMain(s, where)

Free(p) == efd[p] = "closed" /\ ~tables[p]
InUse(p) ==
  /\ efd[p] = "open" /\ tables[p] /\ ended[p] = 0
  /\ monitor[p] \in {"begin", "loop", "callbacks"}

Before(p) ==
  /\ main[p] \in {"off", "fork", "lock", "start", "config"}
  /\ Calm(p) /\ Free(p) /\ monitor[p] = "none"

Opening(p) ==
  /\ main[p] \in {"tables", "thread"}
  /\ Calm(p) /\ efd[p] = "open" /\ (tables[p] <=> main[p] = "thread")
  /\ monitor[p] = "none"

Starting(p) == main[p] \in {"watch", "serve", "wait"} /\ Calm(p) /\ InUse(p)

Waiting(p) ==
  /\ main[p] = "join" /\ handlers[p] = NoHandler /\ InUse(p)
  /\ pending[p] = signals[p] /\ \A s, t \in signals[p] : s = t

Called(p) == HandlerAt(p, "stop") /\ InUse(p)

Stopping(p) ==
  /\ HandlerAt(p, "wait")
  /\ \/ /\ efd[p] = "written" /\ tables[p] /\ ended[p] = 0
        /\ monitor[p] \in {"begin", "loop", "callbacks", "last", "close"}
     \/ Free(p) /\ monitor[p] = "post" /\ ended[p] = 0
     \/ Free(p) /\ monitor[p] = "done" /\ ended[p] = 1

Leaving(p) ==
  /\ main[p] \in {"join", "stop", "exit"}
  /\ pending[p] = {} /\ signals[p] # {} /\ handlers[p] = NoHandler
  /\ Free(p) /\ monitor[p] = "done" /\ ended[p] = 0

Gone(p) ==
  /\ main[p] = "ended" /\ pending[p] = {} /\ handlers[p] = NoHandler
  /\ Free(p) /\ monitor[p] = "none"

AtStage(p) ==
  /\ status[p] # "aborted"
  /\ \/ Before(p) \/ Opening(p) \/ Starting(p) \/ Waiting(p) \/ Called(p)
     \/ Stopping(p) \/ Leaving(p) \/ Gone(p)

StageInv == TypeOK /\ \A p \in Proc : AtStage(p)

\* A daemon that was sent a signal ends, and with status 0 unless it is killed.
SignalEnds ==
  \A p \in Proc : signals[p] # {} ~> main[p] = "ended" /\ status[p] \in {"ok", "killed"}

\* A daemon that was started listens or ends: it does not wait for another.
Serves ==
  \A p \in Proc : main[p] = "start" ~> server[p] = "accept" \/ main[p] = "ended"
=============================================================================
