------------------------------ MODULE LiveServer ------------------------------
(***************************************************************************)
(* The live server: the accept loop, the bounded queue of connections, the *)
(* pool of HTTP workers, the registry that gives every `?game=` id a match *)
(* of its own, and the sessions, which live until their last Arc is gone.  *)
(*                                                                         *)
(* A session is named by the connection it was built for, that of the      *)
(* default game is 0.  A poisoned session mutex is recovered or answered   *)
(* with a 500: the request is answered either way, and the model does not  *)
(* tell them apart.  Slowest bounds the time between the clock reading of  *)
(* resolve and its last critical section.                                  *)
(***************************************************************************)
EXTENDS Naturals, Sequences, FiniteSets

CONSTANTS
  Games, Default, Workers, Absent,
  MaxGames,     \* SOCCER_LIVE_MAX_GAMES
  QueueCap,     \* live_http_worker_queue_capacity
  Idle,         \* LIVE_GAME_EVICT_IDLE_MS
  Slowest,      \* how long a resolve may take
  LocalRefresh, \* whether a session has a local policy refresher
  Connections, MaxNow   \* bounds: connections in all, the clock

ASSUME ServerAssumption ==
  /\ Default \notin Games /\ Absent \notin Games \union Workers \union {Default} \union Nat
  /\ MaxGames \in Nat \ {0} /\ QueueCap \in Nat \ {0} /\ Idle \in Nat /\ Slowest \in Nat
  /\ LocalRefresh \in BOOLEAN /\ Connections \in Nat /\ MaxNow \in Nat

Ids == Games \union {Default}
Sessions == 0..Connections

VARIABLES
  now,        \* soccer_unix_millis, in units of the model
  sent,       \* connections accepted so far
  accepting,  \* the connection the accept loop is sending
  streams,    \* stream_rx
  at,         \* where each worker is
  stream,     \* its connection
  game,       \* the id the request names
  started,    \* `now` of its resolve
  inst,       \* the session resolve has returned
  holds,      \* the Arcs it holds
  games,      \* the registry: the session of each id
  lastAccess, \* last_access_ms of the sessions
  running,    \* sessions whose controller threads run
  pinned,     \* sessions held by a refresher thread
  done,       \* connections answered or closed
  served      \* history: of each id, the session last resolved and when

network == <<sent, accepting, streams>>
registry == <<games, lastAccess, served>>
sessions == <<running, pinned>>
request == <<stream, game, started, inst>>
serverVars == <<now, network, at, request, holds, registry, sessions, done>>

(* SoccerLiveServer::new and LiveGameRegistry::with_default. *)
ServerInit ==
  /\ now = 0 /\ sent = 0 /\ accepting = Absent /\ streams = <<>>
  /\ at = [w \in Workers |-> "idle"]
  /\ stream = [w \in Workers |-> Absent] /\ game = [w \in Workers |-> Absent]
  /\ started = [w \in Workers |-> 0] /\ inst = [w \in Workers |-> Absent]
  /\ holds = [w \in Workers |-> {}]
  /\ games = [g \in Ids |-> IF g = Default THEN 0 ELSE Absent]
  /\ lastAccess = [s \in Sessions |-> 0]
  /\ running = {0} /\ pinned = IF LocalRefresh THEN {0} ELSE {}
  /\ done = {}
  /\ served = [g \in Ids |-> IF g = Default THEN [session |-> 0, at |-> 0] ELSE Absent]

Registered == {g \in Ids : games[g] # Absent}

-----------------------------------------------------------------------------
(* The accept loop and the queue *)

AcceptStream ==
  /\ accepting = Absent /\ sent < Connections
  /\ sent' = sent + 1 /\ accepting' = sent + 1
  /\ UNCHANGED <<now, streams, at, request, holds, registry, sessions, done>>

\* SyncSender::send blocks while the queue is full.
Send ==
  /\ accepting # Absent /\ Len(streams) < QueueCap
  /\ streams' = Append(streams, accepting) /\ accepting' = Absent
  /\ UNCHANGED <<now, sent, at, request, holds, registry, sessions, done>>

(* A worker holds the mutex of the receiver while it waits: connections are *)
(* taken one by one.                                                       *)
TakeStream(w) ==
  /\ at[w] = "idle" /\ streams # <<>>
  /\ stream' = [stream EXCEPT ![w] = Head(streams)] /\ streams' = Tail(streams)
  /\ at' = [at EXCEPT ![w] = "read"]
  /\ UNCHANGED <<now, sent, accepting, game, started, inst, holds, registry, sessions, done>>

-----------------------------------------------------------------------------
(* A worker and its request *)

\* read_http_request ends: the request is whole, or silent for 250 ms.
ReadRequest(w) ==
  /\ at[w] = "read"
  /\ \E g \in Ids : game' = [game EXCEPT ![w] = g]
  /\ started' = [started EXCEPT ![w] = now]
  /\ at' = [at EXCEPT ![w] = "resolve"]
  /\ UNCHANGED <<now, network, stream, inst, holds, registry, sessions, done>>

\* The connection is closed without an answer.
Close(w) ==
  /\ done' = done \union {stream[w]} /\ at' = [at EXCEPT ![w] = "finish"]

ReadFails(w) ==
  /\ at[w] = "read" /\ Close(w)
  /\ UNCHANGED <<now, network, request, holds, registry, sessions>>

\* In one critical section: the session is used for the request of w.
Touch(w, s) ==
  /\ lastAccess' = [lastAccess EXCEPT ![s] = started[w]]
  /\ served' = [served EXCEPT ![game[w]] = [session |-> s, at |-> now]]
  /\ inst' = [inst EXCEPT ![w] = s]

Found(w) ==
  /\ games[game[w]] # Absent
  /\ Touch(w, games[game[w]])
  /\ UNCHANGED games

\* The fast path of resolve.
Resolve(w) ==
  /\ at[w] = "resolve"
  /\ \/ /\ Found(w)
        /\ at' = [at EXCEPT ![w] = "handle"]
        /\ holds' = [holds EXCEPT ![w] = {games[game[w]]}]
     \/ /\ games[game[w]] = Absent
        /\ at' = [at EXCEPT ![w] = "build"]
        /\ UNCHANGED <<registry, inst, holds>>
  /\ UNCHANGED <<now, network, stream, game, started, sessions, done>>

BuildWith(w, refresh) ==
  /\ at[w] = "build"
  /\ running' = running \union {stream[w]}
  /\ pinned' = IF refresh THEN pinned \union {stream[w]} ELSE pinned
  /\ holds' = [holds EXCEPT ![w] = {stream[w]}]
  /\ at' = [at EXCEPT ![w] = "insert"]
  /\ UNCHANGED <<now, network, request, registry, done>>

(* Mutant: every session has a refresher thread, which never ends. *)
BuildPinned(w) == BuildWith(w, TRUE)

(* SoccerLiveHttpBridge::new, outside the registry lock. *)
Build(w) == BuildWith(w, LocalRefresh)

\* Idle games as w sees them: its clock reading is from before the build.
IdleGames(w) ==
  {g \in Registered \ {Default} : lastAccess[games[g]] + Idle <= started[w]}

(* Mutant: any game but the default one may be evicted. *)
VictimsAnyGame(w) ==
  IF Cardinality(Registered) < MaxGames THEN {}
  ELSE {g \in Registered \ {Default} :
          \A h \in Registered \ {Default} : lastAccess[games[g]] <= lastAccess[games[h]]}

(* Mutant: eviction starts one game too late. *)
VictimsLate(w) ==
  IF Cardinality(Registered) <= MaxGames THEN {}
  ELSE {g \in IdleGames(w) : \A h \in IdleGames(w) : lastAccess[games[g]] <= lastAccess[games[h]]}

\* The stalest of the idle games, when the registry is full.
Victims(w) ==
  IF Cardinality(Registered) < MaxGames THEN {}
  ELSE {g \in IdleGames(w) : \A h \in IdleGames(w) : lastAccess[games[g]] <= lastAccess[games[h]]}

\* The second critical section: another request may have been faster.
Insert(w) ==
  /\ at[w] = "insert"
  /\ \/ /\ Found(w)
        /\ holds' = [holds EXCEPT ![w] = @ \union {games[game[w]]}]
     \/ /\ games[game[w]] = Absent
        /\ \E victim \in IF Victims(w) = {} THEN {Absent} ELSE Victims(w) :
             /\ games' = [g \in Ids |-> CASE g = game[w] -> stream[w]
                                          [] g = victim -> Absent
                                          [] OTHER -> games[g]]
             /\ holds' = [holds EXCEPT ![w] =
                            @ \union (IF victim = Absent THEN {} ELSE {games[victim]})]
        /\ Touch(w, stream[w])
  /\ at' = [at EXCEPT ![w] = "drop"]
  /\ UNCHANGED <<now, network, stream, game, started, sessions, done>>

\* w gives up its Arcs of S; the last Arc of a session joins its threads.
Drop(w, S) ==
  /\ holds' = [holds EXCEPT ![w] = @ \ S]
  /\ running' = running \
       {s \in S : /\ s \notin pinned /\ \A g \in Ids : games[g] # s
                  /\ \A v \in Workers \ {w} : s \notin holds[v]}
  /\ UNCHANGED pinned

\* The evicted session or the needless candidate, after the registry lock.
DropOther(w) ==
  /\ at[w] = "drop"
  /\ Drop(w, holds[w] \ {inst[w]})
  /\ at' = [at EXCEPT ![w] = "handle"]
  /\ UNCHANGED <<now, network, request, registry, done>>

\* The handler runs under the mutex of the session ...
Enter(w) ==
  /\ at[w] = "handle"
  /\ \A v \in Workers : at[v] = "locked" => inst[v] # inst[w]
  /\ at' = [at EXCEPT ![w] = "locked"]
  /\ UNCHANGED <<now, network, request, holds, registry, sessions, done>>

\* ... and answers without it.
Leave(w) ==
  /\ at[w] = "locked"
  /\ at' = [at EXCEPT ![w] = "write"]
  /\ UNCHANGED <<now, network, request, holds, registry, sessions, done>>

(* Mutant: a panic ends the worker. *)
PanicKills(w) ==
  /\ at[w] \in {"build", "locked"}
  /\ at' = [at EXCEPT ![w] = "dead"]
  /\ holds' = [holds EXCEPT ![w] = {}]
  /\ UNCHANGED <<now, network, request, registry, sessions, done>>

\* catch_unwind: the panic of a build or a handler costs one connection.
Panic(w) ==
  /\ at[w] \in {"build", "locked"} /\ Close(w)
  /\ UNCHANGED <<now, network, request, holds, registry, sessions>>

\* write_all and flush succeed or fail; they have no timeout.
Write(w) ==
  /\ at[w] = "write" /\ Close(w)
  /\ UNCHANGED <<now, network, request, holds, registry, sessions>>

Finish(w) ==
  /\ at[w] = "finish"
  /\ Drop(w, holds[w])
  /\ at' = [at EXCEPT ![w] = "idle"]
  /\ stream' = [stream EXCEPT ![w] = Absent] /\ game' = [game EXCEPT ![w] = Absent]
  /\ started' = [started EXCEPT ![w] = 0] /\ inst' = [inst EXCEPT ![w] = Absent]
  /\ UNCHANGED <<now, network, registry, done>>

Worker(w) ==
  \/ TakeStream(w) \/ ReadRequest(w) \/ ReadFails(w) \/ Resolve(w)
  \/ Build(w) \/ Insert(w) \/ DropOther(w) \/ Enter(w) \/ Leave(w) \/ Panic(w)
  \/ Write(w) \/ Finish(w)

Resolving(w) == at[w] \in {"resolve", "build", "insert"}

Clock ==
  /\ now < MaxNow
  /\ \A w \in Workers : Resolving(w) => now - started[w] < Slowest
  /\ now' = now + 1
  /\ UNCHANGED <<network, at, request, holds, registry, sessions, done>>

ServerNext == AcceptStream \/ Send \/ (\E w \in Workers : Worker(w)) \/ Clock

Fairness == WF_serverVars(Send) /\ \A w \in Workers : WF_serverVars(Worker(w))
ServerSpec == ServerInit /\ [][ServerNext]_serverVars /\ Fairness

-----------------------------------------------------------------------------
(* Properties *)

(* Every variable stays in its range; the queue respects its capacity.      *)
ServerTypeOK ==
  /\ now \in Nat /\ sent \in 0..Connections
  /\ accepting \in 1..sent \union {Absent}
  /\ streams \in Seq(1..sent) /\ Len(streams) <= QueueCap
  /\ at \in [Workers -> {"idle", "read", "resolve", "build", "insert", "drop", "handle",
                          "locked", "write", "finish"}]
  /\ stream \in [Workers -> 1..sent \union {Absent}]
  /\ game \in [Workers -> Ids \union {Absent}] /\ started \in [Workers -> Nat]
  /\ inst \in [Workers -> 0..sent \union {Absent}] /\ holds \in [Workers -> SUBSET (0..sent)]
  /\ games \in [Ids -> 0..sent \union {Absent}] /\ lastAccess \in [Sessions -> Nat]
  /\ running \subseteq 0..sent /\ pinned \subseteq 0..sent /\ done \subseteq 1..sent
  /\ served \in [Ids -> [session : 0..sent, at : Nat] \union {Absent}]

(* Two requests for one id less than the idle time apart (the time a        *)
(* resolve may take aside) get the same match, the default id always: no    *)
(* race between builds, and no eviction, resets the match under an open tab.*)
TabKeepsItsMatch ==
  [][\A g \in Ids :
       served[g] # Absent /\ (g = Default \/ now - served[g].at + Slowest < Idle)
         => served'[g] = served[g] \/ served'[g].session = served[g].session]_serverVars

(* The registry grows beyond its cap only while every named match in it is  *)
(* open: an idle one would have made room.                                  *)
CapExceededOnlyByOpenTabs ==
  [][Cardinality(Registered') > MaxGames /\ Cardinality(Registered') > Cardinality(Registered)
       => \A g \in Registered \ {Default} : now - served[g].at < Idle + Slowest]_serverVars

(* Every connection that is accepted is answered or closed, with panics in  *)
(* handlers, slow builds and a full queue: again and again nobody waits.    *)
EveryStreamServed == []<>(done = 1..sent)

(* The threads of a session that no request can reach any more end, be it   *)
(* evicted, a build that lost a race or one cut short by a panic: again and *)
(* again only the matches of the registry have threads.                     *)
SessionsReleased == []<>(running \subseteq {games[g] : g \in Ids})

(* A match is not evicted before it has been without a request for the      *)
(* idle time.                                                               *)
OpenMatchNeverReclaimed ==
  [][\A g \in Registered : games'[g] # games[g] => now - served[g].at >= Idle]_serverVars
=============================================================================
