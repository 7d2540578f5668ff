-------------------------- MODULE CacheDaemonProofs --------------------------
(***************************************************************************)
(* Proofs about CacheDaemon: for any number of commands, dials and daemons *)
(* a connection is served only by a daemon that has the database open, and *)
(* deadman counts exactly the connections that are served.                 *)
(***************************************************************************)
EXTENDS CacheDaemon, FiniteSetTheorems, TLAPS

\* The connections of d: all, those deadman should have counted and the one
\* that listenLoop holds.
Near(d) == {x \in Conn : at[x] = d}
Active(d) == {x \in Conn : at[x] = d /\ phase[x] \in {"served", "closing"}}
Accepted(d) == {x \in Conn : at[x] = d /\ phase[x] = "accepted"}

Types ==
  /\ cfg \in Settings
  /\ cpc \in [Client -> {"start", "dial", "use", "done"}]
  /\ tries \in [Client -> Nat]
  /\ phase \in [Conn -> {"none", "queued", "accepted", "served", "closing", "ended"}]
  /\ at \in [Conn -> Daemon \cup {NoDaemon}]
  /\ main \in [Daemon -> {"down", "open", "listen", "bind", "run", "close", "exit"}]
  /\ loop \in [Daemon -> {"accept", "newCon", "conOk"}]
  /\ deadman \in [Daemon -> {"select", "conOk", "timeout", "ended"}]
  /\ timer \in [Daemon -> {"off", "set", "fired"}]
  /\ counter \in [Daemon -> Nat]
  /\ dblock \in Daemon \cup {NoDaemon}
  /\ addr \in Daemon \cup {NoDaemon}

\* A connection that no dial made yet is new, and one that is neither new nor
\* over is at a daemon.
ConnInv ==
  /\ \A c \in Client : cpc[c] = "start" => tries[c] = 0
  /\ \A x \in Conn : x[2] > tries[x[1]] => phase[x] = "none"
  /\ \A x \in Conn : at[x] = NoDaemon <=> phase[x] \in {"none", "ended"}

\* main: what it holds, and what it has not started.
MainInv(d) ==
  /\ main[d] \in {"listen", "bind", "run", "close"} => dblock = d
  /\ addr = d \/ Near(d) # {} => Alive(d)
  /\ ~ Alive(d) => /\ loop[d] = "accept"
                   /\ deadman[d] = "select"
                   /\ timer[d] = "off"
                   /\ counter[d] = 0
  /\ main[d] \in {"close", "exit"} => deadman[d] = "ended"

\* listenLoop holds at most one connection, and deadman waits for it only.
LoopInv(d) ==
  /\ loop[d] = "accept" => Accepted(d) = {}
  /\ loop[d] # "accept" => \E x \in Conn : Accepted(d) = {x}
  /\ deadman[d] = "conOk" => loop[d] = "conOk"

\* deadman: the counter and the timer, and what it ends with.
DeadmanInv(d) ==
  /\ d \in Forever => timer[d] = "off" /\ deadman[d] \in {"select", "conOk"}
  /\ d \notin Forever /\ Alive(d) /\ deadman[d] = "select" =>
       /\ counter[d] = Cardinality(Active(d))
       /\ counter[d] = 0 <=> timer[d] # "off"
  /\ d \notin Forever /\ deadman[d] = "conOk" =>
       /\ counter[d] = Cardinality(Active(d)) + 1
       /\ timer[d] = "off"
  /\ deadman[d] \in {"timeout", "ended"} => Active(d) = {}

DaemonInv(d) == MainInv(d) /\ LoopInv(d) /\ DeadmanInv(d)

LifeInv ==
  /\ Types
  /\ ConnInv
  /\ \A d \in Daemon : DaemonInv(d)
-----------------------------------------------------------------------------
\* There are finitely many connections.
LEMMA ConnFinite == IsFiniteSet(Conn)
<1> DEFINE T(c) == {c} \X (1..Tries[c])
           S == {T(c) : c \in Client}
           f == [c \in Client |-> T(c)]
<1>1. IsFiniteSet(Client)
  BY DaemonAssumption
<1>2. f \in Surjection(Client, S)
  BY Zenon DEF Surjection
<1>3. \A X : \A g \in Surjection(Client, X) : IsFiniteSet(X)
  BY <1>1, FS_Surjection
<1>4. IsFiniteSet(S)
  BY <1>2, <1>3, Zenon
<1>5. ASSUME NEW c \in Client PROVE IsFiniteSet(T(c))
  <2>1. Tries[c] \in Nat
    BY DaemonAssumption
  <2>2. IsFiniteSet(1..Tries[c])
    BY <2>1, FS_Interval
  <2>3. IsFiniteSet({c})
    BY FS_Singleton, Zenon
  <2> QED BY <2>2, <2>3, FS_Product, Zenon
<1>6. \A t \in S : IsFiniteSet(t)
  BY <1>5
<1>7. IsFiniteSet(UNION S)
  <2> HIDE DEF S
  <2> QED BY <1>4, <1>6, FS_UNION
<1> QED BY <1>7 DEF Conn

\* A connection is a command and the number of a dial.
LEMMA ConnPairs ==
  /\ \A x \in Conn : x[1] \in Client /\ x[2] \in Nat /\ x = <<x[1], x[2]>>
  /\ \A c \in Client : \A n \in 1..Tries[c] : <<c, n>> \in Conn
BY DaemonAssumption DEF Conn

\* What a daemon serves can be counted.
LEMMA ActiveFinite ==
  ASSUME NEW d
  PROVE  /\ IsFiniteSet(Active(d))
         /\ Cardinality(Active(d)) \in Nat
         /\ Cardinality(Active(d)) = 0 <=> Active(d) = {}
<1>1. Active(d) \in SUBSET Conn
  BY DEF Active
<1>2. IsFiniteSet(Active(d))
  BY <1>1, ConnFinite, FS_Subset
<1>3. Cardinality(Active(d)) \in Nat
  BY <1>2, FS_CardinalityType
<1> QED BY <1>2, <1>3, FS_EmptySet

(***************************************************************************)
(* A step leaves alone what the invariant says of d when the goroutines of *)
(* d and the connections they hold stay as they are; d may get connections *)
(* that wait to be accepted.                                               *)
(***************************************************************************)
Untouched(d) ==
  /\ cfg' = cfg
  /\ main'[d] = main[d] /\ loop'[d] = loop[d] /\ deadman'[d] = deadman[d]
  /\ timer'[d] = timer[d] /\ counter'[d] = counter[d]
  /\ Active(d)' = Active(d)
  /\ Accepted(d)' = Accepted(d)
  /\ addr' = d \/ Near(d)' # {} => addr = d \/ Near(d) # {}
  /\ dblock = d => dblock' = d

LEMMA UntouchedKeeps ==
  ASSUME NEW d \in Daemon, DaemonInv(d), Untouched(d)
  PROVE  DaemonInv(d)'
<1>1. Alive(d)' <=> Alive(d)
  BY DEF Untouched, Alive
<1>2. MainInv(d)'
  BY <1>1, Zenon DEF DaemonInv, MainInv, Untouched
<1>3. LoopInv(d)'
  BY Zenon DEF DaemonInv, LoopInv, Untouched
<1>4. Forever' = Forever
  BY Zenon DEF Forever, Untouched
<1>5. DeadmanInv(d)'
  BY <1>1, <1>4, Zenon DEF DaemonInv, DeadmanInv, Untouched
<1> QED BY <1>2, <1>3, <1>5 DEF DaemonInv

\* So does a step that changes no connection for every daemon it leaves alone.
LEMMA ConnsSame ==
  ASSUME UNCHANGED connVars, NEW d
  PROVE  Active(d)' = Active(d) /\ Accepted(d)' = Accepted(d) /\ Near(d)' = Near(d)
BY Zenon DEF connVars, Active, Accepted, Near

LEMMA ConnInvSame ==
  ASSUME ConnInv, UNCHANGED <<clientVars, connVars>>
  PROVE  ConnInv'
BY Zenon DEF ConnInv, clientVars, connVars

-----------------------------------------------------------------------------
\* The steps of a command.

LEMMA DialledKeeps ==
  ASSUME LifeInv, cfg' = cfg, UNCHANGED <<daemonVars, shared>>,
         NEW c \in Client, tries[c] < Tries[c],
         Dialled(<<c, tries[c] + 1>>),
         tries' = [tries EXCEPT ![c] = tries[c] + 1],
         cpc' \in [Client -> {"start", "dial", "use", "done"}],
         cpc'[c] # "start",
         \A k \in Client \ {c} : cpc'[k] = cpc[k]
  PROVE  LifeInv'
<1> DEFINE y == <<c, tries[c] + 1>>
<1>0. Types /\ ConnInv /\ \A d \in Daemon : DaemonInv(d)
  BY DEF LifeInv
<1>1. tries[c] \in Nat /\ Tries[c] \in Nat
  BY <1>0, DaemonAssumption DEF Types
<1>2. y \in Conn
  BY <1>1, ConnPairs
<1>3. y[1] = c /\ y[2] > tries[c]
  BY <1>1
<1>4. phase[y] = "none" /\ at[y] = NoDaemon
  BY <1>0, <1>2, <1>3 DEF ConnInv
<1>5. /\ phase' = IF addr = NoDaemon THEN phase ELSE [phase EXCEPT ![y] = "queued"]
      /\ at' = [at EXCEPT ![y] = addr]
  BY DEF Dialled
<1>6. Types'
  <2>1. /\ phase' \in [Conn -> {"none", "queued", "accepted", "served", "closing", "ended"}]
        /\ at' \in [Conn -> Daemon \cup {NoDaemon}]
    BY <1>0, <1>5, Zenon DEF Types
  <2>2. tries' \in [Client -> Nat]
    BY <1>0, <1>1 DEF Types
  <2> QED BY <1>0, <2>1, <2>2, Zenon DEF Types, daemonVars, shared
<1>7. \A x \in Conn \ {y} : phase'[x] = phase[x] /\ at'[x] = at[x]
  BY <1>0, <1>5 DEF Types
<1>8. at'[y] = addr /\ phase'[y] = IF addr = NoDaemon THEN "none" ELSE "queued"
  BY <1>0, <1>2, <1>4, <1>5 DEF Types
<1> HIDE DEF y
<1>9. ConnInv'
  <2>1. \A k \in Client : cpc'[k] = "start" => tries'[k] = 0
    BY <1>0 DEF ConnInv, Types
  <2>2. ASSUME NEW x \in Conn, x[2] > tries'[x[1]] PROVE phase'[x] = "none"
    <3>1. x # y
      BY <2>2, <1>1, <1>0 DEF y, Types
    <3>2. x[1] \in Client /\ x[2] \in Nat
      BY ConnPairs
    <3>3. x[2] > tries[x[1]]
      BY <2>2, <3>2, <1>0, <1>1 DEF Types
    <3> QED BY <3>1, <3>3, <1>0, <1>7 DEF ConnInv
  <2>3. ASSUME NEW x \in Conn PROVE at'[x] = NoDaemon <=> phase'[x] \in {"none", "ended"}
    BY <1>0, <1>7, <1>8 DEF ConnInv
  <2> QED BY <2>1, <2>2, <2>3 DEF ConnInv
<1>10. ASSUME NEW d \in Daemon PROVE DaemonInv(d)'
  <2>0. d # NoDaemon
    BY DaemonAssumption
  <2>1. Active(d)' = Active(d)
    BY <1>4, <1>7, <1>8, <2>0 DEF Active
  <2>2. Accepted(d)' = Accepted(d)
    BY <1>4, <1>7, <1>8, <2>0 DEF Accepted
  <2>3. Near(d)' # {} => addr = d \/ Near(d) # {}
    BY <1>7, <1>8, <2>0 DEF Near
  <2>4. Untouched(d)
    BY <2>1, <2>2, <2>3 DEF Untouched, daemonVars, shared
  <2> QED BY <1>0, <2>4, UntouchedKeeps
<1> QED BY <1>6, <1>9, <1>10 DEF LifeInv

\* A step that touches no daemon and no connection.
LEMMA CommandKeeps ==
  ASSUME LifeInv, cfg' = cfg, UNCHANGED <<tries, connVars, daemonVars, shared>>,
         cpc' \in [Client -> {"start", "dial", "use", "done"}],
         \A k \in Client : cpc'[k] = "start" => cpc[k] = "start"
  PROVE  LifeInv'
<1>0. Types /\ ConnInv /\ \A d \in Daemon : DaemonInv(d)
  BY DEF LifeInv
<1>1. Types'
  BY <1>0 DEF Types, connVars, daemonVars, shared
<1>2. ConnInv'
  BY <1>0, Zenon DEF ConnInv, connVars
<1>3. ASSUME NEW d \in Daemon PROVE DaemonInv(d)'
  <2>1. Untouched(d)
    BY ConnsSame, Zenon DEF Untouched, daemonVars, shared
  <2> QED BY <1>0, <2>1, UntouchedKeeps
<1> QED BY <1>1, <1>2, <1>3 DEF LifeInv

LEMMA ClientStepKeeps ==
  ASSUME LifeInv, cfg' = cfg, NEW c \in Client,
         FirstDial(c) \/ Dial(c) \/ DialDone(c) \/ Finish(c)
  PROVE  LifeInv'
<1>0. Types /\ ConnInv
  BY DEF LifeInv
<1>1. CASE FirstDial(c)
  <2>1. tries[c] = 0 /\ tries[c] + 1 = 1 /\ tries[c] < Tries[c]
    BY <1>0, <1>1, DaemonAssumption DEF FirstDial, ConnInv
  <2>2. Dialled(<<c, tries[c] + 1>>) /\ tries' = [tries EXCEPT ![c] = tries[c] + 1]
    BY <1>1, <2>1 DEF FirstDial
  <2>3. /\ cpc' \in [Client -> {"start", "dial", "use", "done"}]
        /\ cpc'[c] # "start"
        /\ \A k \in Client \ {c} : cpc'[k] = cpc[k]
    BY <1>0, <1>1 DEF FirstDial, Types
  <2>4. UNCHANGED <<daemonVars, shared>>
    BY <1>1 DEF FirstDial
  <2> QED BY <2>1, <2>2, <2>3, <2>4, DialledKeeps, Zenon
<1>2. CASE Dial(c)
  <2>1. tries[c] < Tries[c] /\ Dialled(<<c, tries[c] + 1>>)
    BY <1>2 DEF Dial
  <2>2. tries' = [tries EXCEPT ![c] = tries[c] + 1]
    BY <1>2 DEF Dial
  <2>3. /\ cpc' \in [Client -> {"start", "dial", "use", "done"}]
        /\ cpc'[c] # "start"
        /\ \A k \in Client \ {c} : cpc'[k] = cpc[k]
    BY <1>0, <1>2 DEF Dial, Types
  <2>4. UNCHANGED <<daemonVars, shared>>
    BY <1>2 DEF Dial
  <2> QED BY <2>1, <2>2, <2>3, <2>4, DialledKeeps, Zenon
<1>3. CASE DialDone(c)
  <2>1. PICK v \in {"done", "use"} : cpc' = [cpc EXCEPT ![c] = v]
    BY <1>3, Zenon DEF DialDone
  <2>2. /\ cpc' \in [Client -> {"start", "dial", "use", "done"}]
        /\ \A k \in Client : cpc'[k] = "start" => cpc[k] = "start"
    BY <1>0, <2>1 DEF Types
  <2>3. UNCHANGED <<tries, connVars, daemonVars, shared>>
    BY <1>3 DEF DialDone
  <2> QED BY <2>2, <2>3, CommandKeeps
<1>4. CASE Finish(c)
  <2>1. /\ cpc' \in [Client -> {"start", "dial", "use", "done"}]
        /\ \A k \in Client : cpc'[k] = "start" => cpc[k] = "start"
    BY <1>0, <1>4 DEF Finish, Types
  <2>2. UNCHANGED <<tries, connVars, daemonVars, shared>>
    BY <1>4 DEF Finish
  <2> QED BY <2>1, <2>2, CommandKeeps
<1> QED BY <1>1, <1>2, <1>3, <1>4

-----------------------------------------------------------------------------
\* The steps of a daemon that leave the connections alone.

\* The step of d touches no other daemon.
OthersSame(d) ==
  \A e \in Daemon \ {d} :
    /\ main'[e] = main[e] /\ loop'[e] = loop[e] /\ deadman'[e] = deadman[e]
    /\ timer'[e] = timer[e] /\ counter'[e] = counter[e]
    /\ addr' = e => addr = e
    /\ dblock = e => dblock' = e

LEMMA DaemonStepKeeps ==
  ASSUME LifeInv, cfg' = cfg, UNCHANGED connVars, Types', ConnInv',
         NEW d \in Daemon, DaemonInv(d)', OthersSame(d)
  PROVE  LifeInv'
<1>1. ASSUME NEW e \in Daemon \ {d} PROVE DaemonInv(e)'
  <2>1. Untouched(e)
    BY ConnsSame, Zenon DEF Untouched, OthersSame
  <2> QED BY <2>1, UntouchedKeeps DEF LifeInv
<1> QED BY <1>1 DEF LifeInv

\* Starting a process.
LEMMA StartKeeps ==
  ASSUME LifeInv, cfg' = cfg, NEW d \in Daemon, main[d] = "down",
         main' = [main EXCEPT ![d] = "open"],
         UNCHANGED <<tries, connVars, loop, deadman, timer, counter, shared>>,
         cpc' \in [Client -> {"start", "dial", "use", "done"}],
         \A k \in Client : cpc'[k] = "start" => cpc[k] = "start"
  PROVE  LifeInv'
<1>0. Types /\ ConnInv /\ DaemonInv(d)
  BY DEF LifeInv
<1>1. Types'
  BY <1>0 DEF Types, connVars, shared
<1>2. ConnInv'
  BY <1>0, Zenon DEF ConnInv, connVars
<1>3. OthersSame(d)
  BY <1>0 DEF OthersSame, Types, shared
<1>4. main'[d] = "open" /\ ~ Alive(d) /\ ~ Alive(d)'
  BY <1>0 DEF Alive, Types
<1>5. DaemonInv(d)'
  <2>1. MainInv(d)'
    BY <1>0, <1>4, ConnsSame, Zenon DEF DaemonInv, MainInv, shared
  <2>2. LoopInv(d)'
    BY <1>0, ConnsSame, Zenon DEF DaemonInv, LoopInv
  <2>3. DeadmanInv(d)'
    BY <1>0, <1>4, ConnsSame, Zenon DEF DaemonInv, DeadmanInv, Forever
  <2> QED BY <2>1, <2>2, <2>3 DEF DaemonInv
<1> QED BY <1>1, <1>2, <1>3, <1>5, DaemonStepKeeps, Zenon

LEMMA StartDaemonKeeps ==
  ASSUME LifeInv, cfg' = cfg, NEW c \in Client, NEW d \in Daemon, StartDaemon(c, d)
  PROVE  LifeInv'
<1>1. Types
  BY DEF LifeInv
<1>2. /\ cpc' \in [Client -> {"start", "dial", "use", "done"}]
      /\ \A k \in Client : cpc'[k] = "start" => cpc[k] = "start"
  BY <1>1 DEF StartDaemon, Types
<1> QED BY <1>2, StartKeeps, Zenon DEF StartDaemon

LEMMA RunDaemonKeeps ==
  ASSUME LifeInv, cfg' = cfg, NEW d \in Daemon, RunDaemon(d)
  PROVE  LifeInv'
<1>1. Types
  BY DEF LifeInv
<1>2. /\ cpc' \in [Client -> {"start", "dial", "use", "done"}]
      /\ \A k \in Client : cpc'[k] = "start" => cpc[k] = "start"
  BY <1>1 DEF RunDaemon, Types, clientVars
<1> QED BY <1>2, StartKeeps, Zenon DEF RunDaemon, clientVars

\* main up to the listen address: nothing but what main holds changes.
LEMMA OpenDbKeeps ==
  ASSUME LifeInv, cfg' = cfg, NEW d \in Daemon, OpenDb(d)
  PROVE  LifeInv'
<1> USE DEF OpenDb
<1>0. Types /\ ConnInv /\ DaemonInv(d)
  BY DEF LifeInv
<1>1. Types'
  BY <1>0 DEF Types, clientVars, connVars
<1>2. ConnInv'
  BY <1>0, ConnInvSame
<1>3. OthersSame(d)
  BY <1>0, DaemonAssumption DEF OthersSame, Types
<1>4. main'[d] = "listen" /\ ~ Alive(d) /\ ~ Alive(d)'
  BY <1>0 DEF Alive, Types
<1>5. DaemonInv(d)'
  <2>1. MainInv(d)'
    BY <1>0, <1>4, ConnsSame, Zenon DEF DaemonInv, MainInv
  <2>2. LoopInv(d)'
    BY <1>0, ConnsSame, Zenon DEF DaemonInv, LoopInv
  <2>3. DeadmanInv(d)'
    BY <1>0, <1>4, ConnsSame, Zenon DEF DaemonInv, DeadmanInv, Forever
  <2> QED BY <2>1, <2>2, <2>3 DEF DaemonInv
<1> QED BY <1>1, <1>2, <1>3, <1>5, DaemonStepKeeps, Zenon

LEMMA RemoveAddrKeeps ==
  ASSUME LifeInv, cfg' = cfg, NEW d \in Daemon, RemoveAddr(d)
  PROVE  LifeInv'
<1> USE DEF RemoveAddr
<1>0. Types /\ ConnInv /\ DaemonInv(d)
  BY DEF LifeInv
<1>1. Types'
  BY <1>0 DEF Types, clientVars, connVars
<1>2. ConnInv'
  BY <1>0, ConnInvSame
<1>3. OthersSame(d)
  BY <1>0, DaemonAssumption DEF OthersSame, Types
<1>4. main'[d] = "bind" /\ ~ Alive(d) /\ ~ Alive(d)'
  BY <1>0 DEF Alive, Types
<1>5. addr' = d => addr = d
  BY DaemonAssumption
<1>6. dblock' = d
  BY <1>0 DEF DaemonInv, MainInv
<1>7. DaemonInv(d)'
  <2>1. MainInv(d)'
    BY <1>0, <1>4, <1>5, <1>6, ConnsSame, Zenon DEF DaemonInv, MainInv
  <2>2. LoopInv(d)'
    BY <1>0, ConnsSame, Zenon DEF DaemonInv, LoopInv
  <2>3. DeadmanInv(d)'
    BY <1>0, <1>4, ConnsSame, Zenon DEF DaemonInv, DeadmanInv, Forever
  <2> QED BY <2>1, <2>2, <2>3 DEF DaemonInv
<1> QED BY <1>1, <1>2, <1>3, <1>7, DaemonStepKeeps, Zenon

\* deadman starts with no connection and the timer set.
LEMMA ListenKeeps ==
  ASSUME LifeInv, cfg' = cfg, NEW d \in Daemon, Listen(d)
  PROVE  LifeInv'
<1> USE DEF Listen
<1>0. Types /\ ConnInv /\ DaemonInv(d)
  BY DEF LifeInv
<1>1. Types'
  BY <1>0 DEF Types, clientVars, connVars
<1>2. ConnInv'
  BY <1>0, ConnInvSame
<1>3. OthersSame(d)
  BY <1>0, DaemonAssumption DEF OthersSame, Types
<1>4. main'[d] = "run" /\ ~ Alive(d) /\ Alive(d)'
  BY <1>0 DEF Alive, Types
<1>5. /\ timer'[d] = IF d \in Forever THEN "off" ELSE "set"
      /\ loop'[d] = "accept" /\ deadman'[d] = "select" /\ counter'[d] = 0
  BY <1>0, <1>4 DEF DaemonInv, MainInv, Types
<1>6. dblock' = d /\ Near(d) = {}
  BY <1>0, <1>4 DEF DaemonInv, MainInv
<1>7. Active(d)' = {} /\ Accepted(d)' = {}
  BY <1>6 DEF Near, Active, Accepted, connVars
<1>8. DaemonInv(d)'
  <2>1. MainInv(d)'
    BY <1>4, <1>5, <1>6 DEF MainInv
  <2>2. LoopInv(d)'
    BY <1>5, <1>7 DEF LoopInv
  <2>3. Cardinality(Active(d)') = 0
    BY <1>7, FS_EmptySet
  <2>4. Forever' = Forever
    BY DEF Forever
  <2>5. DeadmanInv(d)'
    BY <1>5, <1>7, <2>3, <2>4 DEF DeadmanInv
  <2> QED BY <2>1, <2>2, <2>5 DEF DaemonInv
<1> QED BY <1>1, <1>2, <1>3, <1>8, DaemonStepKeeps, Zenon

\* The timer and deadman: a timer that is not off means that nothing is served.
LEMMA ExpireKeeps ==
  ASSUME LifeInv, cfg' = cfg, NEW d \in Daemon, Expire(d)
  PROVE  LifeInv'
<1> USE DEF Expire
<1>0. Types /\ ConnInv /\ DaemonInv(d)
  BY DEF LifeInv
<1>1. Types'
  BY <1>0 DEF Types, clientVars, connVars, shared
<1>2. ConnInv'
  BY <1>0, ConnInvSame
<1>3. OthersSame(d)
  BY <1>0 DEF OthersSame, Types, shared
<1>4. timer'[d] = "fired" /\ (Alive(d)' <=> Alive(d))
  BY <1>0 DEF Alive, Types
<1>5. Forever' = Forever
  BY DEF Forever
<1>6. DaemonInv(d)'
  <2>1. MainInv(d)'
    BY <1>0, <1>4, ConnsSame, Zenon DEF DaemonInv, MainInv, shared
  <2>2. LoopInv(d)'
    BY <1>0, ConnsSame, Zenon DEF DaemonInv, LoopInv
  <2>3. d \notin Forever /\ deadman[d] # "conOk"
    BY <1>0 DEF DaemonInv, DeadmanInv
  <2>4. Active(d)' = Active(d)
    BY ConnsSame
  <2>5. DeadmanInv(d)'
    BY <1>0, <1>4, <1>5, <2>3, <2>4 DEF DaemonInv, DeadmanInv
  <2> QED BY <2>1, <2>2, <2>5 DEF DaemonInv
<1> QED BY <1>1, <1>2, <1>3, <1>6, DaemonStepKeeps, Zenon

LEMMA TimeoutKeeps ==
  ASSUME LifeInv, cfg' = cfg, NEW d \in Daemon, Timeout(d)
  PROVE  LifeInv'
<1> USE DEF Timeout
<1>0. Types /\ ConnInv /\ DaemonInv(d)
  BY DEF LifeInv
<1>1. Types'
  BY <1>0 DEF Types, clientVars, connVars, shared
<1>2. ConnInv'
  BY <1>0, ConnInvSame
<1>3. OthersSame(d)
  BY <1>0 DEF OthersSame, Types, shared
<1>4. timer'[d] = "off" /\ deadman'[d] = "timeout" /\ (Alive(d)' <=> Alive(d))
  BY <1>0 DEF Alive, Types
<1>5. main[d] \notin {"close", "exit"}
  BY <1>0 DEF DaemonInv, MainInv
<1>6. DaemonInv(d)'
  <2>1. MainInv(d)'
    BY <1>0, <1>4, <1>5, ConnsSame, Zenon DEF DaemonInv, MainInv, shared
  <2>2. LoopInv(d)'
    BY <1>0, <1>4, ConnsSame DEF DaemonInv, LoopInv
  <2>3. d \notin Forever /\ d \notin Forever'
    BY <1>0 DEF DaemonInv, DeadmanInv, Forever
  <2>4. counter[d] = 0 /\ counter[d] = Cardinality(Active(d))
    BY <1>0, <2>3 DEF DaemonInv, DeadmanInv
  <2>5. Active(d)' = {}
    BY <2>4, ActiveFinite, ConnsSame
  <2>6. DeadmanInv(d)'
    BY <1>4, <2>3, <2>5 DEF DeadmanInv
  <2> QED BY <2>1, <2>2, <2>6 DEF DaemonInv
<1> QED BY <1>1, <1>2, <1>3, <1>6, DaemonStepKeeps, Zenon

LEMMA ShutdownKeeps ==
  ASSUME LifeInv, cfg' = cfg, NEW d \in Daemon, Shutdown(d)
  PROVE  LifeInv'
<1> USE DEF Shutdown
<1>0. Types /\ ConnInv /\ DaemonInv(d)
  BY DEF LifeInv
<1>1. Types'
  BY <1>0 DEF Types, clientVars, connVars, shared
<1>2. ConnInv'
  BY <1>0, ConnInvSame
<1>3. OthersSame(d)
  BY <1>0 DEF OthersSame, Types, shared
<1>4. main'[d] = "close" /\ deadman'[d] = "ended" /\ Alive(d) /\ Alive(d)'
  BY <1>0 DEF Alive, Types
<1>5. DaemonInv(d)'
  <2>1. MainInv(d)'
    BY <1>0, <1>4, ConnsSame DEF DaemonInv, MainInv, shared
  <2>2. LoopInv(d)'
    BY <1>0, <1>4, ConnsSame DEF DaemonInv, LoopInv
  <2>3. d \notin Forever /\ d \notin Forever'
    BY <1>0 DEF DaemonInv, DeadmanInv, Forever
  <2>4. Active(d)' = {}
    BY <1>0, ConnsSame DEF DaemonInv, DeadmanInv
  <2>5. DeadmanInv(d)'
    BY <1>4, <2>3, <2>4 DEF DeadmanInv
  <2> QED BY <2>1, <2>2, <2>5 DEF DaemonInv
<1> QED BY <1>1, <1>2, <1>3, <1>5, DaemonStepKeeps, Zenon

LEMMA CloseCacheKeeps ==
  ASSUME LifeInv, cfg' = cfg, NEW d \in Daemon, CloseCache(d)
  PROVE  LifeInv'
<1> USE DEF CloseCache
<1>0. Types /\ ConnInv /\ DaemonInv(d)
  BY DEF LifeInv
<1>1. Types'
  BY <1>0 DEF Types, clientVars, connVars
<1>2. ConnInv'
  BY <1>0, ConnInvSame
<1>3. dblock = d
  BY <1>0 DEF DaemonInv, MainInv
<1>4. OthersSame(d)
  BY <1>0, <1>3 DEF OthersSame, Types
<1>5. main'[d] = "exit" /\ Alive(d) /\ Alive(d)'
  BY <1>0 DEF Alive, Types
<1>6. DaemonInv(d)'
  <2>1. deadman'[d] = "ended"
    BY <1>0 DEF DaemonInv, MainInv
  <2>2. MainInv(d)'
    BY <1>5, <2>1 DEF MainInv
  <2>3. LoopInv(d)'
    BY <1>0, ConnsSame, Zenon DEF DaemonInv, LoopInv
  <2>4. DeadmanInv(d)'
    BY <1>0, <1>5, ConnsSame, Zenon DEF DaemonInv, DeadmanInv, Forever
  <2> QED BY <2>2, <2>3, <2>4 DEF DaemonInv
<1> QED BY <1>1, <1>2, <1>4, <1>6, DaemonStepKeeps, Zenon

\* newCon: the connection that listenLoop holds is counted before it is served.
LEMMA NewConKeeps ==
  ASSUME LifeInv, cfg' = cfg, NEW d \in Daemon, NewCon(d)
  PROVE  LifeInv'
<1> USE DEF NewCon
<1>0. Types /\ ConnInv /\ DaemonInv(d)
  BY DEF LifeInv
<1>1. Types'
  <2>1. counter' \in [Daemon -> Nat]
    BY <1>0 DEF Types
  <2>2. /\ loop' \in [Daemon -> {"accept", "newCon", "conOk"}]
        /\ timer' \in [Daemon -> {"off", "set", "fired"}]
    BY <1>0 DEF Types
  <2>3. deadman' \in [Daemon -> {"select", "conOk", "timeout", "ended"}]
    BY <1>0 DEF Types
  <2> QED BY <1>0, <2>1, <2>2, <2>3, Zenon DEF Types, clientVars, connVars, shared
<1>2. ConnInv'
  BY <1>0, ConnInvSame
<1>3. OthersSame(d)
  BY <1>0 DEF OthersSame, Types, shared
<1>4. /\ loop'[d] = "conOk" /\ timer'[d] = "off"
      /\ deadman'[d] = IF timer[d] = "fired" THEN "timeout" ELSE "conOk"
      /\ d \notin Forever => counter'[d] = counter[d] + 1
      /\ Alive(d)' <=> Alive(d)
  BY <1>0 DEF Alive, Types
<1>5. main[d] \notin {"close", "exit"}
  BY <1>0 DEF DaemonInv, MainInv
<1>6. DaemonInv(d)'
  <2>1. MainInv(d)'
    BY <1>0, <1>4, <1>5, ConnsSame DEF DaemonInv, MainInv, shared
  <2>2. LoopInv(d)'
    BY <1>0, <1>4, ConnsSame DEF DaemonInv, LoopInv
  <2>3. Forever' = Forever /\ Active(d)' = Active(d)
    BY ConnsSame DEF Forever
  <2>4. d \in Forever => deadman'[d] = "conOk"
    BY <1>0, <1>4 DEF DaemonInv, DeadmanInv
  <2>5. d \notin Forever => counter[d] = Cardinality(Active(d))
    BY <1>0 DEF DaemonInv, DeadmanInv
  <2>6. deadman'[d] = "timeout" => Active(d) = {}
    <3>1. timer[d] = "fired" /\ d \notin Forever => counter[d] = 0
      BY <1>0 DEF DaemonInv, DeadmanInv
    <3> QED BY <1>4, <2>4, <2>5, <3>1, ActiveFinite
  <2>7. d \notin Forever => counter'[d] = Cardinality(Active(d)) + 1
    BY <1>4, <2>5
  <2>8. deadman'[d] \in {"conOk", "timeout"}
    BY <1>4
  <2>9. DeadmanInv(d)'
    BY <1>4, <2>3, <2>4, <2>6, <2>7, <2>8 DEF DeadmanInv
  <2> QED BY <2>1, <2>2, <2>9 DEF DaemonInv
<1> QED BY <1>1, <1>2, <1>3, <1>6, DaemonStepKeeps, Zenon

-----------------------------------------------------------------------------
\* The steps of a daemon that change its connections.

\* The step of d changes no connection of another daemon, and gives it none.
OwnConns(d) ==
  \A x \in Conn : IF at[x] = d THEN at'[x] \in {d, NoDaemon}
                               ELSE at'[x] = at[x] /\ phase'[x] = phase[x]

LEMMA ConnStepKeeps ==
  ASSUME LifeInv, cfg' = cfg, Types', ConnInv',
         NEW d \in Daemon, DaemonInv(d)', OthersSame(d), OwnConns(d)
  PROVE  LifeInv'
<1>1. ASSUME NEW e \in Daemon \ {d} PROVE DaemonInv(e)'
  <2>0. e # NoDaemon /\ e # d
    BY DaemonAssumption
  <2>1. \A x \in Conn : /\ at'[x] = e <=> at[x] = e
                        /\ at[x] = e => phase'[x] = phase[x]
    BY <2>0 DEF OwnConns
  <2>2. Active(e)' = Active(e)
    BY <2>1 DEF Active
  <2>3. Accepted(e)' = Accepted(e)
    BY <2>1 DEF Accepted
  <2>4. Near(e)' = Near(e)
    BY <2>1 DEF Near
  <2>5. Untouched(e)
    BY <2>2, <2>3, <2>4, Zenon DEF Untouched, OthersSame
  <2> QED BY <2>5, UntouchedKeeps DEF LifeInv
<1> QED BY <1>1 DEF LifeInv

\* The end of a process ends its connections.
LEMMA EndKeeps ==
  ASSUME LifeInv, cfg' = cfg, NEW d \in Daemon, End(d)
  PROVE  LifeInv'
<1> USE DEF End
<1>0. Types /\ ConnInv /\ DaemonInv(d)
  BY DEF LifeInv
<1>1. d # NoDaemon
  BY DaemonAssumption
<1>2. Types'
  <2>1. /\ phase' \in [Conn -> {"none", "queued", "accepted", "served", "closing", "ended"}]
        /\ at' \in [Conn -> Daemon \cup {NoDaemon}]
    BY <1>0 DEF Types
  <2>2. /\ main' \in [Daemon -> {"down", "open", "listen", "bind", "run", "close", "exit"}]
        /\ loop' \in [Daemon -> {"accept", "newCon", "conOk"}]
        /\ deadman' \in [Daemon -> {"select", "conOk", "timeout", "ended"}]
    BY <1>0 DEF Types
  <2>3. timer' \in [Daemon -> {"off", "set", "fired"}] /\ counter' \in [Daemon -> Nat]
    BY <1>0 DEF Types
  <2>4. dblock' \in Daemon \cup {NoDaemon} /\ addr' \in Daemon \cup {NoDaemon}
    BY <1>0 DEF Types
  <2> QED BY <1>0, <2>1, <2>2, <2>3, <2>4, Zenon DEF Types, clientVars
<1>3. \A x \in Conn : IF at[x] = d THEN at'[x] = NoDaemon /\ phase'[x] = "ended"
                                   ELSE at'[x] = at[x] /\ phase'[x] = phase[x]
  OBVIOUS
<1>4. ConnInv'
  <2>1. \A x \in Conn : x[2] > tries[x[1]] => phase'[x] = "none"
    BY <1>0, <1>1, <1>3 DEF ConnInv
  <2>2. \A x \in Conn : at'[x] = NoDaemon <=> phase'[x] \in {"none", "ended"}
    BY <1>0, <1>1, <1>3 DEF ConnInv
  <2> QED BY <1>0, <2>1, <2>2, Zenon DEF ConnInv, clientVars
<1>5. OthersSame(d)
  BY <1>0, DaemonAssumption DEF OthersSame, Types
<1>6. OwnConns(d)
  BY <1>3 DEF OwnConns
<1>7. DaemonInv(d)'
  <2>1. \A x \in Conn : at'[x] # d
    BY <1>1, <1>3
  <2>2. Near(d)' = {} /\ Active(d)' = {} /\ Accepted(d)' = {}
    BY <2>1 DEF Near, Active, Accepted
  <2>3. /\ main'[d] = "down" /\ loop'[d] = "accept" /\ deadman'[d] = "select"
        /\ timer'[d] = "off" /\ counter'[d] = 0
    BY <1>0 DEF Types
  <2>4. addr' # d /\ ~ Alive(d)'
    BY <1>1, <2>3 DEF Alive
  <2>5. MainInv(d)'
    BY <2>2, <2>3, <2>4 DEF MainInv
  <2>6. LoopInv(d)'
    BY <2>2, <2>3 DEF LoopInv
  <2>7. DeadmanInv(d)'
    BY <2>3, <2>4 DEF DeadmanInv
  <2> QED BY <2>5, <2>6, <2>7 DEF DaemonInv
<1> QED BY <1>2, <1>4, <1>5, <1>6, <1>7, ConnStepKeeps, Zenon

LEMMA AcceptKeeps ==
  ASSUME LifeInv, cfg' = cfg, NEW d \in Daemon, Accept(d)
  PROVE  LifeInv'
<1>0. Types /\ ConnInv /\ DaemonInv(d)
  BY DEF LifeInv
<1>1. PICK y \in Conn : /\ at[y] = d
                        /\ phase[y] = "queued"
                        /\ phase' = [phase EXCEPT ![y] = "accepted"]
  BY Zenon DEF Accept
<1>2. /\ Alive(d) /\ loop[d] = "accept" /\ loop' = [loop EXCEPT ![d] = "newCon"]
      /\ UNCHANGED <<clientVars, at, main, deadman, timer, counter, shared>>
  BY DEF Accept
<1>3. Types'
  BY <1>0, <1>1, <1>2 DEF Types, clientVars, shared
<1>4. phase'[y] = "accepted" /\ \A x \in Conn \ {y} : phase'[x] = phase[x]
  BY <1>0, <1>1 DEF Types
<1>5. ConnInv'
  <2>1. \A x \in Conn : x[2] > tries[x[1]] => phase'[x] = "none"
    BY <1>0, <1>1, <1>4 DEF ConnInv
  <2>2. \A x \in Conn : at[x] = NoDaemon <=> phase'[x] \in {"none", "ended"}
    BY <1>0, <1>1, <1>4 DEF ConnInv
  <2> QED BY <1>0, <1>2, <2>1, <2>2, Zenon DEF ConnInv, clientVars
<1>6. OthersSame(d)
  BY <1>0, <1>2 DEF OthersSame, Types, shared
<1>7. OwnConns(d)
  BY <1>1, <1>2, <1>4 DEF OwnConns
<1>8. DaemonInv(d)'
  <2>1. Near(d)' = Near(d)
    BY <1>2 DEF Near
  <2>2. Active(d)' = Active(d)
    BY <1>1, <1>2, <1>4 DEF Active
  <2>3. Accepted(d) = {}
    BY <1>0, <1>2 DEF DaemonInv, LoopInv
  <2>4. Accepted(d)' = {y}
    BY <1>1, <1>2, <1>4, <2>3 DEF Accepted
  <2>5. loop'[d] = "newCon" /\ Alive(d)'
    BY <1>0, <1>2 DEF Types, Alive
  <2>6. MainInv(d)'
    BY <1>0, <1>2, <2>1, <2>5, Zenon DEF DaemonInv, MainInv, shared
  <2>7. deadman[d] # "conOk"
    BY <1>0, <1>2 DEF DaemonInv, LoopInv
  <2>8. LoopInv(d)'
    BY <1>2, <2>4, <2>5, <2>7 DEF LoopInv
  <2>9. DeadmanInv(d)'
    BY <1>0, <1>2, <2>2, Zenon DEF DaemonInv, DeadmanInv, Forever
  <2> QED BY <2>6, <2>8, <2>9 DEF DaemonInv
<1> QED BY <1>3, <1>5, <1>6, <1>7, <1>8, ConnStepKeeps, Zenon

\* conOk: what deadman had counted ahead is served.
LEMMA ConOkKeeps ==
  ASSUME LifeInv, cfg' = cfg, NEW d \in Daemon, ConOk(d)
  PROVE  LifeInv'
<1>0. Types /\ ConnInv /\ DaemonInv(d)
  BY DEF LifeInv
<1>1. /\ Alive(d) /\ loop[d] = "conOk" /\ deadman[d] = "conOk"
      /\ loop' = [loop EXCEPT ![d] = "accept"]
      /\ deadman' = [deadman EXCEPT ![d] = "select"]
      /\ UNCHANGED <<clientVars, at, main, timer, counter, shared>>
  BY DEF ConOk
<1>2. PICK y \in Conn : Accepted(d) = {y}
  BY <1>0, <1>1 DEF DaemonInv, LoopInv
<1>3. at[y] = d /\ phase[y] = "accepted"
  BY <1>2 DEF Accepted
<1>4. phase'[y] = "served" /\ \A x \in Conn \ {y} : phase'[x] = phase[x]
  BY <1>2, <1>3 DEF ConOk, Accepted
<1>5. Types'
  <2>1. phase' \in [Conn -> {"none", "queued", "accepted", "served", "closing", "ended"}]
    BY <1>0 DEF ConOk, Types
  <2> QED BY <1>0, <1>1, <2>1 DEF Types, clientVars, shared
<1>6. ConnInv'
  <2>1. \A x \in Conn : x[2] > tries[x[1]] => phase'[x] = "none"
    BY <1>0, <1>3, <1>4 DEF ConnInv
  <2>2. \A x \in Conn : at[x] = NoDaemon <=> phase'[x] \in {"none", "ended"}
    BY <1>0, <1>3, <1>4 DEF ConnInv
  <2> QED BY <1>0, <1>1, <2>1, <2>2, Zenon DEF ConnInv, clientVars
<1>7. OthersSame(d)
  BY <1>0, <1>1 DEF OthersSame, Types, shared
<1>8. OwnConns(d)
  BY <1>1, <1>3, <1>4 DEF OwnConns
<1>9. DaemonInv(d)'
  <2>1. Near(d)' = Near(d)
    BY <1>1 DEF Near
  <2>2. Active(d)' = Active(d) \cup {y} /\ y \notin Active(d)
    BY <1>1, <1>3, <1>4 DEF Active
  <2>3. Accepted(d)' = {}
    BY <1>1, <1>2, <1>4 DEF Accepted
  <2>4. loop'[d] = "accept" /\ deadman'[d] = "select" /\ Alive(d)'
    BY <1>0, <1>1 DEF Types, Alive
  <2>5. main[d] \notin {"close", "exit"}
    BY <1>0, <1>1 DEF DaemonInv, MainInv
  <2>6. MainInv(d)'
    BY <1>0, <1>1, <2>1, <2>4, <2>5, Zenon DEF DaemonInv, MainInv, shared
  <2>7. LoopInv(d)'
    BY <2>3, <2>4 DEF LoopInv
  <2>8. Cardinality(Active(d)') = Cardinality(Active(d)) + 1
    <3>1. IsFiniteSet(Active(d))
      BY ActiveFinite
    <3>2. Cardinality(Active(d) \cup {y}) = Cardinality(Active(d)) + 1
      BY <2>2, <3>1, FS_AddElement, Zenon
    <3> QED BY <2>2, <3>2, Zenon
  <2>9. Forever' = Forever
    BY DEF Forever
  <2>10. d \notin Forever => counter'[d] = Cardinality(Active(d)') /\ timer'[d] = "off"
    BY <1>0, <1>1, <2>8 DEF DaemonInv, DeadmanInv
  <2>11. d \notin Forever => counter'[d] # 0
    BY <2>8, <2>10, ActiveFinite
  <2>12. d \in Forever => timer'[d] = "off"
    BY <1>0, <1>1 DEF DaemonInv, DeadmanInv
  <2>13. DeadmanInv(d)'
    BY <2>4, <2>9, <2>10, <2>11, <2>12 DEF DeadmanInv
  <2> QED BY <2>6, <2>7, <2>13 DEF DaemonInv
<1> QED BY <1>5, <1>6, <1>7, <1>8, <1>9, ConnStepKeeps, Zenon

LEMMA ServeEndsKeeps ==
  ASSUME LifeInv, cfg' = cfg, NEW y \in Conn, ServeEnds(y)
  PROVE  LifeInv'
<1>0. Types /\ ConnInv /\ \A d \in Daemon : DaemonInv(d)
  BY DEF LifeInv
<1>1. /\ phase[y] = "served" /\ phase' = [phase EXCEPT ![y] = "closing"]
      /\ UNCHANGED <<clientVars, at, daemonVars, shared>>
  BY DEF ServeEnds
<1>2. Types'
  BY <1>0, <1>1 DEF Types, clientVars, daemonVars, shared
<1>3. phase'[y] = "closing" /\ \A x \in Conn \ {y} : phase'[x] = phase[x]
  BY <1>0, <1>1 DEF Types
<1>4. ConnInv'
  <2>1. \A x \in Conn : x[2] > tries[x[1]] => phase'[x] = "none"
    BY <1>0, <1>1, <1>3 DEF ConnInv
  <2>2. \A x \in Conn : at[x] = NoDaemon <=> phase'[x] \in {"none", "ended"}
    BY <1>0, <1>1, <1>3 DEF ConnInv
  <2> QED BY <1>0, <1>1, <2>1, <2>2, Zenon DEF ConnInv, clientVars
<1>5. ASSUME NEW d \in Daemon PROVE DaemonInv(d)'
  <2>1. Active(d)' = Active(d)
    BY <1>1, <1>3 DEF Active
  <2>2. Accepted(d)' = Accepted(d)
    BY <1>1, <1>3 DEF Accepted
  <2>3. Near(d)' = Near(d)
    BY <1>1 DEF Near
  <2>4. Untouched(d)
    BY <1>1, <2>1, <2>2, <2>3, Zenon DEF Untouched, daemonVars, shared
  <2> QED BY <1>0, <2>4, UntouchedKeeps
<1> QED BY <1>2, <1>4, <1>5 DEF LifeInv

\* conClosed: the timer is off as long as deadman counts a connection, so the
\* timer that the last one starts was not running.
LEMMA ConClosedKeeps ==
  ASSUME LifeInv, cfg' = cfg, NEW y \in Conn, NEW d \in Daemon, at[y] = d, ConClosed(y)
  PROVE  LifeInv'
<1> DEFINE last == d \notin Forever /\ counter[d] = 1
<1>0. Types /\ ConnInv
  BY DEF LifeInv
<1>1. /\ phase[y] = "closing" /\ deadman[d] = "select"
      /\ phase' = [phase EXCEPT ![y] = "ended"]
      /\ at' = [at EXCEPT ![y] = NoDaemon]
      /\ counter' = [counter EXCEPT ![d] = IF d \in Forever THEN @ ELSE @ - 1]
      /\ deadman' = [deadman EXCEPT ![d] =
                       IF last /\ timer[d] = "set" THEN "timeout" ELSE @]
      /\ timer' = [timer EXCEPT ![d] = IF last THEN "set" ELSE @]
      /\ UNCHANGED <<clientVars, main, loop, shared>>
  BY DEF ConClosed
<1>2. d # NoDaemon
  BY DaemonAssumption
<1>3. DaemonInv(d)
  BY DEF LifeInv
<1>4. y \in Active(d) /\ y \in Near(d)
  BY <1>1 DEF Active, Near
<1>5. Alive(d)
  BY <1>3, <1>4 DEF DaemonInv, MainInv
<1>6. Cardinality(Active(d)) \in Nat \ {0}
  BY <1>4, ActiveFinite
<1>7. d \notin Forever => counter[d] = Cardinality(Active(d)) /\ timer[d] = "off"
  BY <1>1, <1>3, <1>5, <1>6 DEF DaemonInv, DeadmanInv
<1>8. last => timer[d] # "set"
  BY <1>7
<1>9. /\ phase'[y] = "ended" /\ at'[y] = NoDaemon
      /\ \A x \in Conn \ {y} : phase'[x] = phase[x] /\ at'[x] = at[x]
  BY <1>0, <1>1 DEF Types
<1>10. /\ deadman'[d] = "select"
       /\ timer'[d] = IF last THEN "set" ELSE timer[d]
       /\ d \notin Forever => counter'[d] = counter[d] - 1
       /\ Alive(d)'
  BY <1>0, <1>1, <1>2, <1>5, <1>8 DEF Types, Alive
<1>11. Types'
  <2>1. /\ phase' \in [Conn -> {"none", "queued", "accepted", "served", "closing", "ended"}]
        /\ at' \in [Conn -> Daemon \cup {NoDaemon}]
    BY <1>0, <1>1 DEF Types
  <2>2. counter' \in [Daemon -> Nat]
    BY <1>0, <1>1, <1>6, <1>7 DEF Types
  <2>3. deadman' \in [Daemon -> {"select", "conOk", "timeout", "ended"}]
    BY <1>0, <1>1, <1>2 DEF Types
  <2>4. timer' \in [Daemon -> {"off", "set", "fired"}]
    BY <1>0, <1>1, <1>2 DEF Types
  <2> QED BY <1>0, <1>1, <2>1, <2>2, <2>3, <2>4, Zenon DEF Types, clientVars, shared
<1>12. OthersSame(d)
  BY <1>0, <1>1 DEF OthersSame, Types, shared
<1>13. OwnConns(d)
  BY <1>9 DEF OwnConns
<1>14. ConnInv'
  <2>1. \A x \in Conn : x[2] > tries[x[1]] => phase'[x] = "none"
    BY <1>0, <1>1, <1>9 DEF ConnInv
  <2>2. \A x \in Conn : at'[x] = NoDaemon <=> phase'[x] \in {"none", "ended"}
    BY <1>0, <1>9 DEF ConnInv
  <2> QED BY <1>0, <1>1, <2>1, <2>2, Zenon DEF ConnInv, clientVars
<1>15. DaemonInv(d)'
  <2>1. Active(d)' = Active(d) \ {y}
    BY <1>2, <1>9 DEF Active
  <2>2. Accepted(d)' = Accepted(d)
    BY <1>1, <1>2, <1>9 DEF Accepted
  <2>3. MainInv(d)'
    BY <1>1, <1>3, <1>5, <1>10 DEF DaemonInv, MainInv, shared
  <2>4. LoopInv(d)'
    BY <1>1, <1>3, <1>10, <2>2 DEF DaemonInv, LoopInv
  <2>5. Cardinality(Active(d)') = Cardinality(Active(d)) - 1
    <3>1. IsFiniteSet(Active(d))
      BY ActiveFinite
    <3>2. Cardinality(Active(d) \ {y}) = Cardinality(Active(d)) - 1
      BY <1>4, <3>1, FS_RemoveElement, Zenon
    <3> QED BY <2>1, <3>2, Zenon
  <2>6. Forever' = Forever
    BY DEF Forever
  <2>7. d \notin Forever => counter'[d] = Cardinality(Active(d)')
    BY <1>7, <1>10, <2>5
  <2>8. d \notin Forever => (counter'[d] = 0 <=> timer'[d] # "off")
    <3> SUFFICES ASSUME d \notin Forever PROVE counter'[d] = 0 <=> timer'[d] # "off"
      OBVIOUS
    <3>1. counter[d] \in Nat /\ counter'[d] = counter[d] - 1 /\ timer[d] = "off"
      BY <1>6, <1>7, <1>10
    <3>2. CASE counter[d] = 1
      <4>1. timer'[d] = "set"
        BY <1>10, <3>2
      <4> QED BY <3>1, <3>2, <4>1
    <3>3. CASE counter[d] # 1
      <4>1. timer'[d] = "off"
        BY <1>10, <3>1, <3>3
      <4>2. counter'[d] # 0
        BY <3>1, <3>3
      <4> QED BY <4>1, <4>2
    <3> QED BY <3>2, <3>3
  <2>9. d \in Forever => timer'[d] = "off"
    BY <1>3, <1>10 DEF DaemonInv, DeadmanInv
  <2>10. DeadmanInv(d)'
    BY <1>10, <2>6, <2>7, <2>8, <2>9 DEF DeadmanInv
  <2> QED BY <2>3, <2>4, <2>10 DEF DaemonInv
<1> QED BY <1>11, <1>12, <1>13, <1>14, <1>15, ConnStepKeeps, Zenon

-----------------------------------------------------------------------------
\* LifeInv is inductive.
LEMMA LifeInit == Init => LifeInv
<1> SUFFICES ASSUME Init PROVE LifeInv
  OBVIOUS
<1> USE DEF Init
<1>1. Types
  BY DEF Types
<1>2. ConnInv
  <2>1. \A x \in Conn : phase[x] = "none" /\ at[x] = NoDaemon
    OBVIOUS
  <2> QED BY <2>1 DEF ConnInv
<1>3. ASSUME NEW d \in Daemon PROVE DaemonInv(d)
  <2>1. \A x \in Conn : at[x] # d
    BY DaemonAssumption
  <2>2. Near(d) = {} /\ Accepted(d) = {}
    BY <2>1 DEF Near, Accepted
  <2>3. ~ Alive(d) /\ addr # d
    BY DaemonAssumption DEF Alive
  <2>4. MainInv(d)
    BY <2>2, <2>3 DEF MainInv
  <2>5. LoopInv(d)
    BY <2>2 DEF LoopInv
  <2>6. DeadmanInv(d)
    BY <2>3 DEF DeadmanInv
  <2> QED BY <2>4, <2>5, <2>6 DEF DaemonInv
<1> QED BY <1>1, <1>2, <1>3 DEF LifeInv

LEMMA LifeStep == LifeInv /\ [Next]_<<vars, cfg>> => LifeInv'
<1> SUFFICES ASSUME LifeInv, [Next]_<<vars, cfg>> PROVE LifeInv'
  OBVIOUS
<1>1. CASE Next
  <2>0. cfg' = cfg
    BY <1>1 DEF Next
  <2>1. ASSUME NEW c \in Client, ClientStep(c) PROVE LifeInv'
    BY <2>0, <2>1, ClientStepKeeps, StartDaemonKeeps, Zenon DEF ClientStep
  <2>2. ASSUME NEW d \in Daemon, MainStep(d) PROVE LifeInv'
    <3>1. CASE OpenDb(d)
      BY <2>0, <3>1, OpenDbKeeps
    <3>2. CASE RemoveAddr(d)
      BY <2>0, <3>2, RemoveAddrKeeps
    <3>3. CASE Listen(d)
      BY <2>0, <3>3, ListenKeeps
    <3>4. CASE ListenFails(d) \/ Exit(d)
      BY <2>0, <3>4, EndKeeps DEF ListenFails, Exit
    <3>5. CASE Shutdown(d)
      BY <2>0, <3>5, ShutdownKeeps
    <3>6. CASE CloseCache(d)
      BY <2>0, <3>6, CloseCacheKeeps
    <3> QED BY <2>2, <3>1, <3>2, <3>3, <3>4, <3>5, <3>6, Zenon DEF MainStep
  <2>3. ASSUME NEW d \in Daemon, LoopStep(d) PROVE LifeInv'
    BY <2>0, <2>3, AcceptKeeps, NewConKeeps, ConOkKeeps, Zenon DEF LoopStep
  <2>4. ASSUME NEW d \in Daemon, TimerStep(d) PROVE LifeInv'
    BY <2>0, <2>4, ExpireKeeps, TimeoutKeeps, Zenon DEF TimerStep
  <2>5. ASSUME NEW d \in Daemon, Kill(d) \/ RunDaemon(d) PROVE LifeInv'
    BY <2>0, <2>5, EndKeeps, RunDaemonKeeps, Zenon DEF Kill
  <2>6. ASSUME NEW x \in Conn, ConnStep(x) PROVE LifeInv'
    <3>1. CASE ServeEnds(x)
      BY <2>0, <3>1, ServeEndsKeeps
    <3>2. CASE ConClosed(x)
      <4>1. phase[x] = "closing"
        BY <3>2 DEF ConClosed
      <4>2. PICK d \in Daemon : at[x] = d
        BY <4>1 DEF LifeInv, Types, ConnInv
      <4> QED BY <2>0, <3>2, <4>2, ConClosedKeeps
    <3> QED BY <2>6, <3>1, <3>2 DEF ConnStep
  <2> QED BY <1>1, <2>1, <2>2, <2>3, <2>4, <2>5, <2>6, Zenon DEF Next
<1>2. CASE UNCHANGED <<vars, cfg>>
  <2>1. /\ cfg' = cfg
        /\ UNCHANGED <<tries, connVars, daemonVars, shared>>
        /\ cpc' = cpc
    BY <1>2 DEF vars, clientVars
  <2>2. cpc' \in [Client -> {"start", "dial", "use", "done"}]
    BY <2>1 DEF LifeInv, Types
  <2> QED BY <2>1, <2>2, CommandKeeps
<1> QED BY <1>1, <1>2

LEMMA LifeAlways == Spec => []LifeInv
BY LifeInit, LifeStep, PTL DEF Spec

(***************************************************************************)
(* Whatever the commands, the daemons, their timers and the signals do, a  *)
(* connection that ServeConn serves is at a daemon that runs and has the   *)
(* database open: deadman never lets main close the cache under a call.    *)
(***************************************************************************)
THEOREM ServedOpen == Spec => []ServedWhileOpen
<1>1. LifeInv => ServedWhileOpen
  <2> SUFFICES ASSUME LifeInv, NEW x \in Conn, phase[x] = "served"
               PROVE  main[at[x]] = "run" /\ dblock = at[x]
    BY DEF ServedWhileOpen
  <2>1. PICK d \in Daemon : at[x] = d
    BY DEF LifeInv, Types, ConnInv
  <2>2. x \in Near(d) /\ x \in Active(d)
    BY <2>1 DEF Near, Active
  <2>3. DaemonInv(d)
    BY DEF LifeInv
  <2>4. Alive(d) /\ deadman[d] # "ended"
    BY <2>2, <2>3 DEF DaemonInv, MainInv, DeadmanInv
  <2>5. main[d] = "run"
    BY <2>3, <2>4 DEF DaemonInv, MainInv, Alive
  <2>6. dblock = d
    BY <2>3, <2>5 DEF DaemonInv, MainInv
  <2> QED BY <2>1, <2>5, <2>6
<1> QED BY <1>1, LifeAlways, PTL

(***************************************************************************)
(* The counter of deadman is the number of connections that are served or  *)
(* whose end it has not been told of, whenever it waits in its select, and *)
(* the idle timer runs exactly when there is none.                         *)
(***************************************************************************)
THEOREM CountsExactly == Spec => []CounterExact
<1>1. LifeInv => CounterExact
  <2> SUFFICES ASSUME LifeInv, NEW d \in Daemon \ Forever,
                      main[d] = "run", deadman[d] = "select"
               PROVE  /\ counter[d] = Cardinality(Active(d))
                      /\ counter[d] = 0 <=> timer[d] # "off"
    BY Zenon DEF CounterExact, Active
  <2>1. DaemonInv(d) /\ Alive(d)
    BY DEF LifeInv, Alive
  <2> QED BY <2>1 DEF DaemonInv, DeadmanInv
<1> QED BY <1>1, LifeAlways, PTL

-----------------------------------------------------------------------------
(***************************************************************************)
(* How far the numbers go.                                                 *)
(***************************************************************************)
BoundInv ==
  /\ \A c \in Client : tries[c] <= Tries[c]
  /\ \A d \in Daemon : counter[d] <= Cardinality(Conn)

\* A command dials no more than it may.
LEMMA TriesStep ==
  ASSUME LifeInv, BoundInv, [Next]_<<vars, cfg>>
  PROVE  \A c \in Client : tries'[c] <= Tries[c]
<1> SUFFICES ASSUME NEW c \in Client PROVE tries'[c] <= Tries[c]
  OBVIOUS
<1>1. tries \in [Client -> Nat] /\ tries[c] <= Tries[c] /\ Tries[c] \in Nat \ {0}
  BY DaemonAssumption DEF LifeInv, Types, BoundInv
<1>2. ASSUME NEW b \in Client, FirstDial(b) \/ Dial(b) PROVE tries'[c] <= Tries[c]
  BY <1>1, <1>2 DEF FirstDial, Dial
<1>3. CASE tries' = tries
  BY <1>1, <1>3
<1>4. ASSUME NEW b \in Client, ClientStep(b) PROVE tries'[c] <= Tries[c]
  BY <1>2, <1>3, <1>4, Zenon DEF ClientStep, DialDone, Finish, StartDaemon
<1>5. ASSUME NEW d \in Daemon, MainStep(d) \/ Kill(d) \/ RunDaemon(d) PROVE tries' = tries
  BY <1>5, Zenon DEF MainStep, OpenDb, RemoveAddr, Listen, ListenFails, Shutdown, CloseCache, Exit,
     Kill, RunDaemon, End, clientVars
<1>6. ASSUME NEW d \in Daemon, LoopStep(d) \/ TimerStep(d) PROVE tries' = tries
  BY <1>6, Zenon DEF LoopStep, Accept, NewCon, ConOk, TimerStep, Expire, Timeout, clientVars
<1>7. ASSUME NEW x \in Conn, ConnStep(x) PROVE tries' = tries
  BY <1>7, Zenon DEF ConnStep, ServeEnds, ConClosed, clientVars
<1>8. CASE UNCHANGED <<vars, cfg>>
  BY <1>3, <1>8, Zenon DEF vars, clientVars
<1> QED BY <1>3, <1>4, <1>5, <1>6, <1>7, <1>8, Zenon DEF Next

\* deadman counts a connection that is not among those it has counted.
LEMMA NewConCounts ==
  ASSUME LifeInv, NEW d \in Daemon, NewCon(d), d \notin Forever
  PROVE  counter[d] + 1 <= Cardinality(Conn)
<1>1. DaemonInv(d)
  BY DEF LifeInv
<1>2. PICK x \in Conn : Accepted(d) = {x}
  BY <1>1 DEF NewCon, DaemonInv, LoopInv
<1>3. x \notin Active(d) /\ Active(d) \cup {x} \in SUBSET Conn
  <2>1. phase[x] = "accepted"
    BY <1>2 DEF Accepted
  <2> QED BY <2>1 DEF Active
<1>4. IsFiniteSet(Active(d)) /\ Cardinality(Active(d)) \in Nat
  BY ActiveFinite
<1>5. Cardinality(Active(d) \cup {x}) = Cardinality(Active(d)) + 1
  BY <1>3, <1>4, FS_AddElement
<1>6. Cardinality(Active(d) \cup {x}) <= Cardinality(Conn)
  BY <1>3, ConnFinite, FS_Subset
<1>7. counter[d] = Cardinality(Active(d))
  BY <1>1 DEF NewCon, DaemonInv, DeadmanInv
<1> QED BY <1>5, <1>6, <1>7

LEMMA CounterStep ==
  ASSUME LifeInv, BoundInv, [Next]_<<vars, cfg>>
  PROVE  \A e \in Daemon : counter'[e] <= Cardinality(Conn)
<1> SUFFICES ASSUME NEW e \in Daemon PROVE counter'[e] <= Cardinality(Conn)
  OBVIOUS
<1>1. counter \in [Daemon -> Nat] /\ counter[e] <= Cardinality(Conn) /\ Cardinality(Conn) \in Nat
  BY ConnFinite, FS_CardinalityType DEF LifeInv, Types, BoundInv
<1>2. CASE counter' = counter
  BY <1>1, <1>2
<1>3. ASSUME NEW d \in Daemon, End(d) PROVE counter'[e] <= Cardinality(Conn)
  BY <1>1, <1>3 DEF End
<1>4. ASSUME NEW d \in Daemon, NewCon(d) PROVE counter'[e] <= Cardinality(Conn)
  <2>1. counter' = [counter EXCEPT ![d] = IF d \in Forever THEN @ ELSE @ + 1]
    BY <1>4 DEF NewCon
  <2>2. d \notin Forever => counter[d] + 1 <= Cardinality(Conn)
    BY <1>4, NewConCounts
  <2> QED BY <1>1, <2>1, <2>2
<1>5. ASSUME NEW x \in Conn, ConClosed(x) PROVE counter'[e] <= Cardinality(Conn)
  <2>1. PICK d : counter' = [counter EXCEPT ![d] = IF d \in Forever THEN @ ELSE @ - 1]
    BY <1>5 DEF ConClosed
  <2>2. counter'[e] \in {counter[e], counter[e] - 1}
    BY <1>1, <2>1
  <2> QED BY <1>1, <2>2
<1>6. ASSUME NEW c \in Client, ClientStep(c) PROVE counter' = counter
  BY <1>6, Zenon DEF ClientStep, FirstDial, Dial, DialDone, Finish, StartDaemon, daemonVars
<1>7. ASSUME NEW d \in Daemon, MainStep(d) \/ Kill(d) \/ RunDaemon(d)
      PROVE  counter'[e] <= Cardinality(Conn)
  BY <1>2, <1>3, <1>7, Zenon DEF MainStep, OpenDb, RemoveAddr, Listen, ListenFails, Shutdown,
     CloseCache, Exit, Kill, RunDaemon
<1>8. ASSUME NEW d \in Daemon, LoopStep(d) \/ TimerStep(d)
      PROVE  counter'[e] <= Cardinality(Conn)
  BY <1>2, <1>4, <1>8, Zenon DEF LoopStep, Accept, ConOk, TimerStep, Expire, Timeout
<1>9. ASSUME NEW x \in Conn, ConnStep(x) PROVE counter'[e] <= Cardinality(Conn)
  BY <1>2, <1>5, <1>9, Zenon DEF ConnStep, ServeEnds, daemonVars
<1>10. CASE UNCHANGED <<vars, cfg>>
  BY <1>2, <1>10, Zenon DEF vars, daemonVars
<1> QED BY <1>2, <1>6, <1>7, <1>8, <1>9, <1>10, Zenon DEF Next

(***************************************************************************)
(* Every variable has its type: no command dials more often than it may,   *)
(* and the counter of deadman stays between none and all connections.      *)
(***************************************************************************)
THEOREM TypesHold == Spec => []TypeOK
<1>1. Init => BoundInv
  <2> SUFFICES ASSUME Init PROVE BoundInv
    OBVIOUS
  <2>1. Cardinality(Conn) \in Nat /\ \A c \in Client : Tries[c] \in Nat
    BY ConnFinite, FS_CardinalityType, DaemonAssumption
  <2> QED BY <2>1 DEF Init, BoundInv
<1>2. LifeInv /\ BoundInv /\ [Next]_<<vars, cfg>> => BoundInv'
  BY TriesStep, CounterStep DEF BoundInv
<1>3. LifeInv /\ BoundInv => TypeOK
  <2> SUFFICES ASSUME LifeInv, BoundInv PROVE TypeOK
    OBVIOUS
  <2>1. counter \in [Daemon -> 0..Cardinality(Conn)]
    <3>1. Cardinality(Conn) \in Nat /\ counter \in [Daemon -> Nat]
      BY ConnFinite, FS_CardinalityType DEF LifeInv, Types
    <3>2. \A d \in Daemon : counter[d] \in 0..Cardinality(Conn)
      BY <3>1 DEF BoundInv
    <3> QED BY <3>1, <3>2
  <2> QED BY <2>1, Zenon DEF LifeInv, BoundInv, Types, TypeOK
<1> QED BY <1>1, <1>2, <1>3, LifeInit, LifeStep, PTL DEF Spec
=============================================================================
