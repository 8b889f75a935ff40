---------------------------- MODULE StreamRegistry ----------------------------
(***************************************************************************)
(* The life of streaming sessions (stream.go): StartStream, the registry   *)
(* of running sessions, everything that stops one (stream/stop, Connect,   *)
(* Disconnect, the idle eviction loop, CloseAll) and the run loop as far   *)
(* as starting and ending it goes.  StreamSession has what the loop does.  *)
(*                                                                         *)
(* A StartStream request and the session it makes have one name.  The      *)
(* calls that stop sessions all unlink them under the registry lock and    *)
(* shut them down, one by one, after releasing it.                         *)
(***************************************************************************)
EXTENDS Integers, FiniteSets

CONSTANTS Starts,       \* StartStream requests, and the sessions they make
          Conns,        \* connection ids
          Calls,        \* workers of connect, disconnect and stream/stop
          Evictor,      \* the goroutine of evictLoop
          Main,         \* the main goroutine, which runs CloseAll
          NoConn,       \* a call about no connection in particular
          MaxSessions,  \* StreamMaxSessions
          IdleTimeout,  \* StreamIdleTimeout, in ticks
          MaxGen        \* bound: number of Connect calls

ASSUME StreamAssumption ==
  /\ Evictor \notin Calls
  /\ Main \notin Calls
  /\ Evictor # Main
  /\ NoConn \notin Conns
  /\ MaxSessions \in Nat
  /\ IdleTimeout \in Nat
  /\ MaxGen \in Nat

VARIABLES
  conns,     \* Service.conns: configuration generation, 0 when absent
  gen,       \* number of configurations handed to Connect so far
  sessions,  \* StreamRegistry.sessions
  conn,      \* the connection a request names
  pc,        \* where StartStream, and then the run loop, stands
  cfg,       \* the configuration the session's client was built from
  client,    \* the session's kgo client
  cancelled, \* the session's context is cancelled
  idle,      \* ticks since lastActivityUnixMs, counted up to IdleTimeout + 1
  call,      \* what each stopping process is doing
  victims,   \* sessions it has unlinked and not yet shut down
  exited,    \* the process is gone
  raced      \* history: a connect or disconnect of the connection was under
             \* way while the session had a client and was not registered

tableVars   == <<conns, gen>>
sessionVars == <<sessions, conn, pc, cfg, client, cancelled, idle, raced>>
callVars    == <<call, victims, exited>>
vars        == <<tableVars, sessionVars, callVars>>

Procs    == Calls \cup {Evictor, Main}
Starting == {"found", "admitted", "made"}
Looping  == {"begin", "run"}
PCs      == {"idle", "failed", "zombie", "ended"} \cup Starting \cup Looping
Call     == [at: {"idle", "unlink", "close"},
             op: {"none", "connect", "disconnect", "stop", "evict", "exit"},
             conn: Conns \cup {NoConn}]

IdleCall == [at |-> "idle", op |-> "none", conn |-> NoConn]

\* main has called CloseAll: Serve takes no more requests.
Closing  == call[Main].at # "idle"
Serving  == ~exited /\ ~Closing
SessionsOf(c) == {s \in sessions : conn[s] = c}

\* A connect or disconnect of c is under way.
UnderWay(c) == \E k \in Calls : call[k].at # "idle" /\ call[k].conn = c

Init ==
  /\ conns = [c \in Conns |-> 0]
  /\ gen = 0
  /\ sessions = {}
  /\ conn \in [Starts -> Conns]
  /\ pc = [s \in Starts |-> "idle"]
  /\ cfg = [s \in Starts |-> 0]
  /\ client = [s \in Starts |-> "none"]
  /\ cancelled = [s \in Starts |-> FALSE]
  /\ idle = [s \in Starts |-> 0]
  /\ call = [k \in Procs |-> IdleCall]
  /\ victims = [k \in Procs |-> {}]
  /\ exited = FALSE
  /\ raced = [s \in Starts |-> FALSE]

Goto(s, label) == pc' = [pc EXCEPT ![s] = label]

-----------------------------------------------------------------------------
\* StartStream.

\* The connection is looked up and the parameters are validated.
Lookup(s) ==
  /\ Serving
  /\ pc[s] = "idle"
  /\ conns[conn[s]] # 0
  /\ Goto(s, "found")
  /\ UNCHANGED <<tableVars, sessions, conn, cfg, client, cancelled, idle, raced, callVars>>

\* The limit is checked under the registry lock, which is released again.
Admit(s) ==
  /\ ~exited
  /\ pc[s] = "found"
  /\ Cardinality(sessions) < MaxSessions
  /\ Goto(s, "admitted")
  /\ UNCHANGED <<tableVars, sessions, conn, cfg, client, cancelled, idle, raced, callVars>>

\* consumeClient looks the connection up once more; the session is made and
\* stamped as active.
Create(s) ==
  /\ ~exited
  /\ pc[s] = "admitted"
  /\ conns[conn[s]] # 0
  /\ client' = [client EXCEPT ![s] = "open"]
  /\ cfg' = [cfg EXCEPT ![s] = conns[conn[s]]]
  /\ idle' = [idle EXCEPT ![s] = 0]
  /\ raced' = [raced EXCEPT ![s] = UnderWay(conn[s])]
  /\ Goto(s, "made")
  /\ UNCHANGED <<tableVars, sessions, conn, cancelled, callVars>>

\* One of StartStream's early returns: not connected, invalid parameters, too
\* many sessions, no client.
StartFails(s) ==
  /\ ~exited
  /\ pc[s] \in {"found", "admitted"}
  /\ Goto(s, "failed")
  /\ UNCHANGED <<tableVars, sessions, conn, cfg, client, cancelled, idle, raced, callVars>>

\* The session enters the registry and its run loop is started.
Insert(s) ==
  /\ ~exited
  /\ pc[s] = "made"
  /\ sessions' = sessions \cup {s}
  /\ Goto(s, "begin")
  /\ UNCHANGED <<tableVars, conn, cfg, client, cancelled, idle, raced, callVars>>

-----------------------------------------------------------------------------
\* The run loop.

\* The matcher, the decoder and the decompressor are set up.
LoopBegins(s) ==
  /\ ~exited
  /\ pc[s] = "begin"
  /\ Goto(s, "run")
  /\ UNCHANGED <<tableVars, sessions, conn, cfg, client, cancelled, idle, raced, callVars>>

\* One of them is invalid: an error event, and the loop returns; the session
\* stays in the registry.
LoopRefuses(s) ==
  /\ ~exited
  /\ pc[s] = "begin"
  /\ Goto(s, "zombie")
  /\ UNCHANGED <<tableVars, sessions, conn, cfg, client, cancelled, idle, raced, callVars>>

\* flush stamps the session as active.
Flush(s) ==
  /\ ~exited
  /\ pc[s] = "run"
  /\ idle' = [idle EXCEPT ![s] = 0]
  /\ UNCHANGED <<tableVars, sessions, conn, pc, cfg, client, cancelled, raced, callVars>>

\* The loop notices that its context is done; the deferred flush stamps the
\* session once more if the batch holds a message.
LoopEnds(s) ==
  /\ ~exited
  /\ pc[s] = "run"
  /\ cancelled[s]
  /\ Goto(s, "ended")
  /\ idle' \in {idle, [idle EXCEPT ![s] = 0]}
  /\ UNCHANGED <<tableVars, sessions, conn, cfg, client, cancelled, raced, callVars>>

-----------------------------------------------------------------------------
\* Stopping sessions.

\* Mutant: the sessions to stop are listed under the lock and stay registered.
Collect(k, ss) ==
  /\ victims' = [victims EXCEPT ![k] = ss]
  /\ UNCHANGED sessions

\* Under the registry lock: the sessions leave the map and become k's to close.
Unlink(k, ss) ==
  /\ victims' = [victims EXCEPT ![k] = ss]
  /\ sessions' = sessions \ ss

StartCall(k, at, op, c) == call' = [call EXCEPT ![k] = [at |-> at, op |-> op, conn |-> c]]

\* Requests of c that hold an unregistered client see a call of c begin.
MarkRaced(c) ==
  raced' = [s \in Starts |-> raced[s] \/ (pc[s] = "made" /\ conn[s] = c)]

\* Mutant: a repeated connect does not stop the sessions of the old one.
ConnectOnly(k, c) ==
  /\ Serving
  /\ k \in Calls
  /\ call[k].at = "idle"
  /\ gen < MaxGen
  /\ gen' = gen + 1
  /\ conns' = [conns EXCEPT ![c] = gen + 1]
  /\ MarkRaced(c)
  /\ UNCHANGED <<sessions, conn, pc, cfg, client, cancelled, idle, callVars>>

\* Connect replaces the table entry; only if there was one does it go on to
\* stop the connection's sessions.
Connect(k, c) ==
  /\ Serving
  /\ k \in Calls
  /\ call[k].at = "idle"
  /\ gen < MaxGen
  /\ gen' = gen + 1
  /\ conns' = [conns EXCEPT ![c] = gen + 1]
  /\ IF conns[c] # 0 THEN StartCall(k, "unlink", "connect", c) ELSE UNCHANGED call
  /\ MarkRaced(c)
  /\ UNCHANGED <<sessions, conn, pc, cfg, client, cancelled, idle, victims, exited>>

\* StopAllForConnection, called by Connect.
ConnectStop(k) ==
  /\ ~exited
  /\ call[k].at = "unlink"
  /\ Unlink(k, SessionsOf(call[k].conn))
  /\ StartCall(k, "close", "connect", call[k].conn)
  /\ UNCHANGED <<tableVars, conn, pc, cfg, client, cancelled, idle, raced, exited>>

\* Disconnect begins with StopAllForConnection.
Disconnect(k, c) ==
  /\ Serving
  /\ k \in Calls
  /\ call[k].at = "idle"
  /\ Unlink(k, SessionsOf(c))
  /\ StartCall(k, "close", "disconnect", c)
  /\ MarkRaced(c)
  /\ UNCHANGED <<tableVars, conn, pc, cfg, client, cancelled, idle, exited>>

\* stream/stop of one session, or of all; an unknown session changes nothing.
Stop(k, ss) ==
  /\ Serving
  /\ k \in Calls
  /\ call[k].at = "idle"
  /\ ss \cap sessions # {}
  /\ Unlink(k, ss \cap sessions)
  /\ StartCall(k, "close", "stop", NoConn)
  /\ UNCHANGED <<tableVars, conn, pc, cfg, client, cancelled, idle, raced, exited>>

\* Mutant: only sessions whose loop runs are looked at.
ExpiredLoops == {s \in sessions : idle[s] > IdleTimeout /\ pc[s] = "run"}

\* Sessions without activity for longer than the timeout.
Expired == {s \in sessions : idle[s] > IdleTimeout}

\* evictLoop's tick: EvictIdle.
EvictIdle ==
  /\ ~exited
  /\ call[Evictor].at = "idle"
  /\ Unlink(Evictor, Expired)
  /\ StartCall(Evictor, "close", "evict", NoConn)
  /\ UNCHANGED <<tableVars, conn, pc, cfg, client, cancelled, idle, raced, exited>>

\* CloseAll, once Serve has waited for all workers.
CloseAll ==
  /\ Serving
  /\ \A k \in Calls : call[k].at = "idle"
  /\ \A s \in Starts : pc[s] \notin Starting
  /\ Unlink(Main, sessions)
  /\ StartCall(Main, "close", "exit", NoConn)
  /\ UNCHANGED <<tableVars, conn, pc, cfg, client, cancelled, idle, raced, exited>>

\* Mutant: shutdownSession only closes the client.
CancelNothing(k, s) == FALSE

\* shutdownSession, first the context.  Sessions are shut down one at a time.
Cancel(k, s) ==
  /\ ~exited
  /\ s \in victims[k]
  /\ \A t \in victims[k] : ~cancelled[t]
  /\ cancelled' = [cancelled EXCEPT ![s] = TRUE]
  /\ UNCHANGED <<tableVars, sessions, conn, pc, cfg, client, idle, raced, callVars>>

\* Then the client.
CloseClient(k, s) ==
  /\ ~exited
  /\ s \in victims[k]
  /\ cancelled[s]
  /\ client' = [client EXCEPT ![s] = "closed"]
  /\ victims' = [victims EXCEPT ![k] = @ \ {s}]
  /\ UNCHANGED <<tableVars, sessions, conn, pc, cfg, cancelled, idle, raced, call, exited>>

\* The call has shut down what it unlinked: Disconnect now removes the table
\* entry, CloseAll the whole table, and the process ends.
Return(k) ==
  /\ ~exited
  /\ call[k].at = "close"
  /\ victims[k] = {}
  /\ call' = [call EXCEPT ![k] = IdleCall]
  /\ conns' = [c \in Conns |->
                 IF \/ call[k].op = "exit"
                    \/ call[k].op = "disconnect" /\ call[k].conn = c
                 THEN 0 ELSE conns[c]]
  /\ exited' = (call[k].op = "exit")
  /\ UNCHANGED <<gen, sessionVars, victims>>

\* Time passes.
Tick ==
  /\ ~exited
  /\ \E s \in Starts : idle[s] <= IdleTimeout
  /\ idle' = [s \in Starts |-> IF idle[s] <= IdleTimeout THEN idle[s] + 1 ELSE idle[s]]
  /\ UNCHANGED <<tableVars, sessions, conn, pc, cfg, client, cancelled, raced, callVars>>

-----------------------------------------------------------------------------
StartStep(s) == Admit(s) \/ Create(s) \/ StartFails(s) \/ Insert(s)

LoopStep(s) == LoopBegins(s) \/ LoopRefuses(s) \/ LoopEnds(s)

CallStep(k) ==
  \/ ConnectStop(k)
  \/ \E s \in Starts : Cancel(k, s) \/ CloseClient(k, s)
  \/ Return(k)

Next ==
  \/ \E s \in Starts : Lookup(s) \/ StartStep(s) \/ LoopStep(s) \/ Flush(s)
  \/ \E k \in Calls, c \in Conns : Connect(k, c) \/ Disconnect(k, c)
  \/ \E k \in Calls, ss \in {{s} : s \in Starts} \cup {Starts} : Stop(k, ss)
  \/ \E k \in Procs : CallStep(k)
  \/ EvictIdle
  \/ CloseAll
  \/ Tick

Spec == Init /\ [][Next]_vars

\* Goroutines are scheduled, a poll lasts 200 ms at most, the ticker of the
\* eviction loop fires and time passes.  No request has to be made.
FairSpec ==
  /\ Spec
  /\ \A s \in Starts : WF_vars(StartStep(s)) /\ WF_vars(LoopStep(s))
  /\ \A k \in Procs : WF_vars(CallStep(k))
  /\ WF_vars(EvictIdle)
  /\ WF_vars(Tick)

-----------------------------------------------------------------------------
\* Types of all variables of the registry and its sessions (stream.go:129-167).
TypeOK ==
  /\ conns \in [Conns -> Nat]
  /\ gen \in Nat
  /\ sessions \in SUBSET Starts
  /\ conn \in [Starts -> Conns]
  /\ pc \in [Starts -> PCs]
  /\ cfg \in [Starts -> Nat]
  /\ client \in [Starts -> {"none", "open", "closed"}]
  /\ cancelled \in [Starts -> BOOLEAN]
  /\ idle \in [Starts -> Nat]
  /\ call \in [Procs -> Call]
  /\ victims \in [Procs -> SUBSET Starts]
  /\ exited \in BOOLEAN
  /\ raced \in [Starts -> BOOLEAN]

\* However stop, reconnect, disconnect, eviction and shutdown overlap, every
\* open stream client has exactly one owner that will close it: the request
\* that made it, the registry, or the one call that unlinked it.
OwnedOnce ==
  \A s \in Starts :
    /\ client[s] = "open" <=>
         pc[s] = "made" \/ s \in sessions \/ \E k \in Procs : s \in victims[k]
    /\ ~(pc[s] = "made" /\ s \in sessions)
    /\ \A k \in Procs : s \in victims[k] =>
         /\ pc[s] # "made" /\ s \notin sessions
         /\ \A j \in Procs \ {k} : s \notin victims[j]

\* shutdownSession cancels before it closes: a run loop whose context is live
\* never polls a closed client, so a stop raises no spurious stream error.
LiveLoopHasClient ==
  \A s \in Starts : pc[s] \in Looping /\ ~cancelled[s] => client[s] = "open"

\* A registered session runs on the connection's current configuration unless a
\* connect or disconnect of it is under way, or was while StartStream was between
\* making the client and registering the session.  (Outside that window Connect
\* and Disconnect do stop every session, whatever they overlap with.)
StaleOnlyIfRaced ==
  \A s \in sessions : cfg[s] # conns[conn[s]] => UnderWay(conn[s]) \/ raced[s]

\* When the process ends the registry is empty and no client is open, but for
\* those the eviction loop had unlinked and was still closing.
ExitClosesStreams ==
  exited => /\ sessions = {}
            /\ \A s \in Starts : client[s] = "open" => s \in victims[Evictor]

\* Whoever stops what and when, stream clients are neither leaked nor closed
\* under a loop that is still meant to run.
OneOwner == OwnedOnce /\ LiveLoopHasClient /\ ExitClosesStreams

\* A session somebody unlinked stops consuming: its run loop ends.
StoppedLoopEnds ==
  \A s \in Starts :
    (pc[s] \in Looping /\ s \notin sessions) ~> (pc[s] \in {"ended", "zombie"} \/ exited)

\* A session whose loop returned at once (it still counts against the limit)
\* is evicted in the end and its client closed.
ZombieEvicted ==
  \A s \in Starts : pc[s] = "zombie" ~> (client[s] = "closed" \/ exited)

=============================================================================
