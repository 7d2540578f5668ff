----------------------------- MODULE CacheDaemon -----------------------------
(***************************************************************************)
(* cmd/bpy/cachedaemon/cachedaemon.go and GetCacheClient of                *)
(* cmd/bpy/common/common.go: how commands reach a cache daemon, start one  *)
(* when they cannot, and how a daemon that nobody uses ends.               *)
(*                                                                         *)
(* A daemon is three goroutines: main opens the database, listens, waits   *)
(* for the shutdown and closes the cache; listenLoop accepts connections;  *)
(* deadman counts them and runs the idle timer.  newCon, conOk, conClosed  *)
(* and shutdown are channels without a buffer, so a send and its receive   *)
(* are one step.  The lock of the database file, the listen address and    *)
(* net/rpc are external: ServeConn returns when the client has hung up and *)
(* its calls are done.                                                     *)
(***************************************************************************)
EXTENDS Naturals, FiniteSets

CONSTANTS
  Client,   \* commands; each of them runs once
  Daemon,   \* processes that may run as daemons
  Settings, \* how commands and daemons may be set up
  Tries,    \* how often each command dials, for the 10 of the code
  NoDaemon

ASSUME DaemonAssumption ==
  /\ Settings \subseteq [socket : {"unix", "tcp"}, forever : SUBSET Daemon]
  /\ Tries \in [Client -> Nat \ {0}]
  /\ NoDaemon \notin Daemon
  /\ IsFiniteSet(Client)

\* The connections of a command, by the dial that made them.
Conn == UNION { {c} \X (1..Tries[c]) : c \in Client }

VARIABLES
  cfg,      \* the settings, which do not change
  cpc,      \* what each command does
  tries,    \* how often it has dialled
  phase,    \* the state of each connection
  at,       \* the daemon at its other end
  main,     \* what main of each daemon does
  loop,     \* what its listenLoop does
  deadman,  \* what its deadman does
  timer,    \* the idle timer; "fired" while t.C holds a value
  counter,
  dblock,   \* the daemon that has the database open
  addr      \* the daemon that can be dialled

clientVars == <<cpc, tries>>
connVars == <<phase, at>>
daemonVars == <<main, loop, deadman, timer, counter>>
shared == <<dblock, addr>>
vars == <<clientVars, connVars, daemonVars, shared>>

Socket == cfg.socket    \* cfg.CacheSocketType
Forever == cfg.forever  \* daemons started without an idle timeout

TypeOK ==
  /\ cfg \in Settings
  /\ cpc \in [Client -> {"start", "dial", "use", "done"}]
  /\ tries \in [Client -> Nat] /\ \A c \in Client : tries[c] <= Tries[c]
  /\ phase \in [Conn -> {"none", "queued", "accepted", "served", "closing", "ended"}]
  /\ at \in [Conn -> Daemon \cup {NoDaemon}]
  /\ main \in [Daemon -> {"down", "open", "listen", "bind", "run", "close", "exit"}]
  /\ loop \in [Daemon -> {"accept", "newCon", "conOk"}]
  /\ deadman \in [Daemon -> {"select", "conOk", "timeout", "ended"}]
  /\ timer \in [Daemon -> {"off", "set", "fired"}]
  /\ counter \in [Daemon -> 0..Cardinality(Conn)]
  /\ dblock \in Daemon \cup {NoDaemon}
  /\ addr \in Daemon \cup {NoDaemon}

Init ==
  /\ cfg \in Settings
  /\ cpc = [c \in Client |-> "start"]
  /\ tries = [c \in Client |-> 0]
  /\ phase = [x \in Conn |-> "none"]
  /\ at = [x \in Conn |-> NoDaemon]
  /\ main = [d \in Daemon |-> "down"]
  /\ loop = [d \in Daemon |-> "accept"]
  /\ deadman = [d \in Daemon |-> "select"]
  /\ timer = [d \in Daemon |-> "off"]
  /\ counter = [d \in Daemon |-> 0]
  /\ dblock = NoDaemon
  /\ addr = NoDaemon

-----------------------------------------------------------------------------
\* The connection x is made, if there is anybody to dial.
Dialled(x) ==
  /\ phase' = IF addr = NoDaemon THEN phase ELSE [phase EXCEPT ![x] = "queued"]
  /\ at' = [at EXCEPT ![x] = addr]

\* GetCacheClient dials "tcp", whatever cfg.CacheSocketType says,
FirstDial(c) ==
  /\ cpc[c] = "start"
  /\ Socket = "tcp"
  /\ addr # NoDaemon
  /\ tries' = [tries EXCEPT ![c] = 1]
  /\ Dialled(<<c, 1>>)
  /\ cpc' = [cpc EXCEPT ![c] = "use"]
  /\ UNCHANGED <<daemonVars, shared>>

\* and starts a daemon when that fails.
StartDaemon(c, d) ==
  /\ cpc[c] = "start"
  /\ Socket # "tcp" \/ addr = NoDaemon
  /\ d \notin Forever
  /\ main[d] = "down"
  /\ main' = [main EXCEPT ![d] = "open"]
  /\ cpc' = [cpc EXCEPT ![c] = "dial"]
  /\ UNCHANGED <<tries, connVars, loop, deadman, timer, counter, shared>>

\* It goes on dialling after a dial that succeeded, and keeps the last.
Dial(c) ==
  /\ cpc[c] = "dial"
  /\ tries[c] < Tries[c]
  /\ tries' = [tries EXCEPT ![c] = @ + 1]
  /\ Dialled(<<c, tries[c] + 1>>)
  /\ UNCHANGED <<cpc, daemonVars, shared>>

DialDone(c) ==
  /\ cpc[c] = "dial"
  /\ tries[c] = Tries[c]
  /\ cpc' = [cpc EXCEPT ![c] =
               IF \A x \in Conn : x[1] = c => phase[x] = "none" THEN "done" ELSE "use"]
  /\ UNCHANGED <<tries, connVars, daemonVars, shared>>

\* The command ends: its calls on the last connection were answered, or they
\* failed since its daemon ended or it was never made.
Finish(c) ==
  /\ cpc[c] = "use"
  /\ phase[<<c, tries[c]>>] \in {"none", "served", "ended"}
  /\ cpc' = [cpc EXCEPT ![c] = "done"]
  /\ UNCHANGED <<tries, connVars, daemonVars, shared>>

-----------------------------------------------------------------------------
\* bpy cache-daemon, run by hand without -idle-timeout.
RunDaemon(d) ==
  /\ d \in Forever
  /\ main[d] = "down"
  /\ main' = [main EXCEPT ![d] = "open"]
  /\ UNCHANGED <<clientVars, connVars, loop, deadman, timer, counter, shared>>

\* cache.NewCache waits for the lock of the database.
OpenDb(d) ==
  /\ main[d] = "open"
  /\ dblock = NoDaemon
  /\ dblock' = d
  /\ main' = [main EXCEPT ![d] = "listen"]
  /\ UNCHANGED <<clientVars, connVars, loop, deadman, timer, counter, addr>>

\* os.Remove takes the address of a unix socket from whoever had it.
RemoveAddr(d) ==
  /\ main[d] = "listen"
  /\ addr' = IF Socket = "unix" THEN NoDaemon ELSE addr
  /\ main' = [main EXCEPT ![d] = "bind"]
  /\ UNCHANGED <<clientVars, connVars, loop, deadman, timer, counter, dblock>>

Listen(d) ==
  /\ main[d] = "bind"
  /\ addr = NoDaemon
  /\ addr' = d
  /\ main' = [main EXCEPT ![d] = "run"]
  /\ timer' = [timer EXCEPT ![d] = IF d \in Forever THEN "off" ELSE "set"]
  /\ UNCHANGED <<clientVars, connVars, loop, deadman, counter, dblock>>

\* The end of a process, and of what it held.
End(d) ==
  /\ main' = [main EXCEPT ![d] = "down"]
  /\ dblock' = IF dblock = d THEN NoDaemon ELSE dblock
  /\ addr' = IF addr = d THEN NoDaemon ELSE addr
  /\ phase' = [x \in Conn |-> IF at[x] = d THEN "ended" ELSE phase[x]]
  /\ at' = [x \in Conn |-> IF at[x] = d THEN NoDaemon ELSE at[x]]
  /\ loop' = [loop EXCEPT ![d] = "accept"]
  /\ deadman' = [deadman EXCEPT ![d] = "select"]
  /\ timer' = [timer EXCEPT ![d] = "off"]
  /\ counter' = [counter EXCEPT ![d] = 0]
  /\ UNCHANGED clientVars

ListenFails(d) == main[d] = "bind" /\ addr # NoDaemon /\ End(d)

\* A signal, or log.Fatalf when Accept fails.
Kill(d) == main[d] # "down" /\ End(d)

-----------------------------------------------------------------------------
Alive(d) == main[d] \in {"run", "close", "exit"}

\* listenLoop
Accept(d) ==
  /\ Alive(d)
  /\ loop[d] = "accept"
  /\ \E x \in Conn :
       /\ at[x] = d
       /\ phase[x] = "queued"
       /\ phase' = [phase EXCEPT ![x] = "accepted"]
  /\ loop' = [loop EXCEPT ![d] = "newCon"]
  /\ UNCHANGED <<clientVars, at, main, deadman, timer, counter, shared>>

\* Mutants of NewCon: the connection is not counted,
NewConUncounted(d) ==
  /\ Alive(d)
  /\ loop[d] = "newCon"
  /\ deadman[d] = "select"
  /\ loop' = [loop EXCEPT ![d] = "conOk"]
  /\ deadman' = [deadman EXCEPT ![d] = IF timer[d] = "fired" THEN "timeout" ELSE "conOk"]
  /\ timer' = [timer EXCEPT ![d] = "off"]
  /\ UNCHANGED <<clientVars, connVars, main, counter, shared>>

\* the timer runs on,
NewConTimerOn(d) ==
  /\ Alive(d)
  /\ loop[d] = "newCon"
  /\ deadman[d] = "select"
  /\ loop' = [loop EXCEPT ![d] = "conOk"]
  /\ counter' = [counter EXCEPT ![d] = IF d \in Forever THEN @ ELSE @ + 1]
  /\ deadman' = [deadman EXCEPT ![d] = IF timer[d] = "fired" THEN "timeout" ELSE "conOk"]
  /\ UNCHANGED <<clientVars, connVars, timer, main, shared>>

\* or deadman returns without the shutdown when the timer had fired.
NewConReturns(d) ==
  /\ Alive(d)
  /\ loop[d] = "newCon"
  /\ deadman[d] = "select"
  /\ loop' = [loop EXCEPT ![d] = "conOk"]
  /\ counter' = [counter EXCEPT ![d] = IF d \in Forever THEN @ ELSE @ + 1]
  /\ deadman' = [deadman EXCEPT ![d] = IF timer[d] = "fired" THEN "ended" ELSE "conOk"]
  /\ timer' = [timer EXCEPT ![d] = "off"]
  /\ UNCHANGED <<clientVars, connVars, main, shared>>

(***************************************************************************)
(* newCon: deadman counts the connection, stops the timer and, when it had *)
(* fired already, gives up instead of sending conOk.  runForever, in its   *)
(* place, sends conOk and counts nothing.                                  *)
(***************************************************************************)
NewCon(d) ==
  /\ Alive(d)
  /\ loop[d] = "newCon"
  /\ deadman[d] = "select"
  /\ loop' = [loop EXCEPT ![d] = "conOk"]
  /\ counter' = [counter EXCEPT ![d] = IF d \in Forever THEN @ ELSE @ + 1]
  /\ deadman' = [deadman EXCEPT ![d] = IF timer[d] = "fired" THEN "timeout" ELSE "conOk"]
  /\ timer' = [timer EXCEPT ![d] = "off"]
  /\ UNCHANGED <<clientVars, connVars, main, shared>>

ConOk(d) ==
  /\ Alive(d)
  /\ loop[d] = "conOk"
  /\ deadman[d] = "conOk"
  /\ loop' = [loop EXCEPT ![d] = "accept"]
  /\ deadman' = [deadman EXCEPT ![d] = "select"]
  /\ phase' = [x \in Conn |->
                IF at[x] = d /\ phase[x] = "accepted" THEN "served" ELSE phase[x]]
  /\ UNCHANGED <<clientVars, at, main, timer, counter, shared>>

\* ServeConn returns.
ServeEnds(x) ==
  /\ phase[x] = "served"
  /\ cpc[x[1]] = "done"
  /\ phase' = [phase EXCEPT ![x] = "closing"]
  /\ UNCHANGED <<clientVars, at, daemonVars, shared>>

\* Mutant of ConClosed: the timer is not started again.
ConClosedTimerOff(x) ==
  LET d == at[x]
  IN  /\ phase[x] = "closing"
      /\ deadman[d] = "select"
      /\ phase' = [phase EXCEPT ![x] = "ended"]
      /\ at' = [at EXCEPT ![x] = NoDaemon]
      /\ counter' = [counter EXCEPT ![d] = IF d \in Forever THEN @ ELSE @ - 1]
      /\ UNCHANGED <<clientVars, deadman, timer, main, loop, shared>>

\* conClosed: a timer that Reset finds active ends the daemon.
ConClosed(x) ==
  LET d    == at[x]
      last == d \notin Forever /\ counter[d] = 1
  IN  /\ phase[x] = "closing"
      /\ deadman[d] = "select"
      /\ phase' = [phase EXCEPT ![x] = "ended"]
      /\ at' = [at EXCEPT ![x] = NoDaemon]
      /\ counter' = [counter EXCEPT ![d] = IF d \in Forever THEN @ ELSE @ - 1]
      /\ deadman' = [deadman EXCEPT ![d] =
                       IF last /\ timer[d] = "set" THEN "timeout" ELSE @]
      /\ timer' = [timer EXCEPT ![d] = IF last THEN "set" ELSE @]
      /\ UNCHANGED <<clientVars, main, loop, shared>>

Expire(d) ==
  /\ Alive(d)
  /\ timer[d] = "set"
  /\ timer' = [timer EXCEPT ![d] = "fired"]
  /\ UNCHANGED <<clientVars, connVars, main, loop, deadman, counter, shared>>

Timeout(d) ==
  /\ Alive(d)
  /\ deadman[d] = "select"
  /\ timer[d] = "fired"
  /\ timer' = [timer EXCEPT ![d] = "off"]
  /\ deadman' = [deadman EXCEPT ![d] = "timeout"]
  /\ UNCHANGED <<clientVars, connVars, main, loop, counter, shared>>

Shutdown(d) ==
  /\ main[d] = "run"
  /\ deadman[d] = "timeout"
  /\ deadman' = [deadman EXCEPT ![d] = "ended"]
  /\ main' = [main EXCEPT ![d] = "close"]
  /\ UNCHANGED <<clientVars, connVars, loop, timer, counter, shared>>

\* c.Close writes what is pending and closes the database.
CloseCache(d) ==
  /\ main[d] = "close"
  /\ main' = [main EXCEPT ![d] = "exit"]
  /\ dblock' = NoDaemon
  /\ UNCHANGED <<clientVars, connVars, loop, deadman, timer, counter, addr>>

Exit(d) == main[d] = "exit" /\ End(d)

-----------------------------------------------------------------------------
ClientStep(c) ==
  \/ FirstDial(c) \/ Dial(c) \/ DialDone(c) \/ Finish(c)
  \/ \E d \in Daemon : StartDaemon(c, d)

MainStep(d) ==
  OpenDb(d) \/ RemoveAddr(d) \/ Listen(d) \/ ListenFails(d) \/ Shutdown(d) \/ CloseCache(d) \/ Exit(d)

LoopStep(d) == Accept(d) \/ NewCon(d) \/ ConOk(d)

TimerStep(d) == Expire(d) \/ Timeout(d)

ConnStep(x) == ServeEnds(x) \/ ConClosed(x)

Next ==
  /\ \/ \E c \in Client : ClientStep(c)
     \/ \E d \in Daemon :
          MainStep(d) \/ LoopStep(d) \/ TimerStep(d) \/ Kill(d) \/ RunDaemon(d)
     \/ \E x \in Conn : ConnStep(x)
  /\ UNCHANGED cfg

\* Goroutines and commands go on, and the timer runs; the steps of each are
\* enabled one at a time.
Fairness ==
  /\ \A c \in Client : WF_vars(ClientStep(c))
  /\ \A d \in Daemon : WF_vars(MainStep(d)) /\ WF_vars(LoopStep(d)) /\ WF_vars(TimerStep(d))
  /\ \A x \in Conn : WF_vars(ConnStep(x))

Spec == Init /\ [][Next]_<<vars, cfg>> /\ Fairness

-----------------------------------------------------------------------------
(***************************************************************************)
(* A connection is served only by a daemon that has the database open and  *)
(* is not closing the cache: Cache.Close takes no lock, and a daemon that  *)
(* takes over the address finds no other one at work.                      *)
(***************************************************************************)
ServedWhileOpen ==
  \A x \in Conn : phase[x] = "served" => main[at[x]] = "run" /\ dblock = at[x]

(***************************************************************************)
(* deadman counts the connections there are: the idle timer neither runs   *)
(* while there is one nor stays off when the last has gone.                *)
(***************************************************************************)
CounterExact ==
  \A d \in Daemon \ Forever :
    main[d] = "run" /\ deadman[d] = "select" =>
      /\ counter[d] = Cardinality({x \in Conn : at[x] = d /\ phase[x] \in {"served", "closing"}})
      /\ counter[d] = 0 <=> timer[d] # "off"

(***************************************************************************)
(* A command that uses the cache gets answers or errors: its connection is *)
(* not left waiting in a daemon that is shutting down.                     *)
(***************************************************************************)
CommandsEnd == \A c \in Client : cpc[c] = "use" ~> cpc[c] = "done"

(***************************************************************************)
(* When all daemons have an idle timeout they end once the commands have:  *)
(* also those that wait for the database of another.                       *)
(***************************************************************************)
DaemonsEnd ==
  \A d \in Daemon : Forever = {} /\ main[d] # "down" ~> main[d] = "down"
=============================================================================
