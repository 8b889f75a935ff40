------------------------------ MODULE StdioServer ------------------------------
(***************************************************************************)
(* The standalone MCP server (stdio.go, appbridge.go): one goroutine per   *)
(* request line, the pool of connections made from inline parameters, the  *)
(* bridge to a running DBX application for other connection ids, and the   *)
(* end of input, after which running requests get a bounded time.          *)
(*                                                                         *)
(* Inline parameters are identified with the connection id that is their   *)
(* hash (poolKey).  The connection table is that of the Service.           *)
(***************************************************************************)
EXTENDS Integers, Sequences, FiniteSets

CONSTANTS Lines,   \* the lines of the input, each handled by its own goroutine
          Inline,  \* inline parameters
          Bad,     \* the ones Connect refuses (NewProfileFromLifecycle, Validate)
          Saved,   \* ids of connections saved in the application
          Cap,     \* inlinePoolCap
          MaxFlips \* bound: starts and ends of the application

ASSUME StdioAssumption ==
  /\ IsFiniteSet(Lines)
  /\ Bad \subseteq Inline
  /\ Inline \cap Saved = {}
  /\ Cap \in Nat \ {0}
  /\ MaxFlips \in Nat

NoId == "no id"
ASSUME NoIdAssumption == NoId \notin Inline \cup Saved

\* What a line asks for.  "call" is tools/call of a tool that needs a
\* connection, by inline parameters or by id; "plain" is every request answered
\* from memory (initialize, ping, tools/list, kafka_cursor_next); "ui" is a
\* tool of the workbench.
Kinds == {"overlong", "garbage", "notification", "no_id", "bad_id", "no_method", "bad_version", "unknown_method",
          "bad_params", "plain", "ui", "bad_argument", "call"}

VARIABLES
  read,     \* lines read so far
  req,      \* req[l]: the inline parameters and the id of a running call
  pc,       \* pc[l]: where the line's goroutine stands
  stale,    \* stale[l]: ids it has to disconnect
  pool,     \* StdioServer.hash: ids in the pool
  order,    \* StdioServer.order
  conns,    \* the connection table
  app,      \* the application listens on the bridge's port
  flips,
  reply,    \* reply[l]: what will be written for the line
  out,      \* out[l]: answers written for the line
  silent,   \* history: the notifications
  serve,    \* "reading", "draining", "drained", "gave_up" or "closed"
  crossed   \* history: an id was registered while another registration was under way

vars == <<read, silent, req, pc, stale, pool, order, conns, app, flips, reply, out, serve, crossed>>
poolVars == <<pool, order, conns, stale, crossed>>
envVars  == <<app, flips>>

Ids(s) == {s[i] : i \in DOMAIN s}
NoReq == [inline |-> NoId, id |-> NoId]

Init ==
  /\ read = {}
  /\ req = [l \in Lines |-> NoReq]
  /\ pc = [l \in Lines |-> "unread"]
  /\ stale = [l \in Lines |-> << >>]
  /\ pool = {} /\ order = << >> /\ conns = {}
  /\ app = FALSE /\ flips = 0
  /\ reply = [l \in Lines |-> "none"]
  /\ out = [l \in Lines |-> 0]
  /\ silent = {}
  /\ serve = "reading"
  /\ crossed = FALSE

-----------------------------------------------------------------------------
\* Serve and handleLine.

\* The answer to a line that needs no tool: an error (-32700, -32600, -32601 or
\* -32602), a tool error or a result.  A notification has none, also one without
\* an id.
Reply(kind) ==
  CASE kind = "notification" -> "none"
    [] kind \in {"garbage", "no_id", "bad_id", "no_method", "bad_version", "unknown_method", "bad_params"} -> "error"
    [] kind \in {"ui", "bad_argument"} -> "failed"
    [] OTHER -> "result"

\* Read a line and start its goroutine; an overlong line is answered at once.
Read(l) ==
  /\ serve = "reading"
  /\ pc[l] = "unread"
  /\ \E k \in Kinds, i \in Inline \cup {NoId}, d \in Inline \cup Saved \cup {NoId} :
       /\ k # "call" => i = NoId /\ d = NoId
       /\ i # NoId => d = NoId  \* inline parameters win over an id
       /\ req' = [req EXCEPT ![l] = [inline |-> i, id |-> d]]
       /\ reply' = IF k \in {"call", "overlong"} THEN reply ELSE [reply EXCEPT ![l] = Reply(k)]
       /\ out' = IF k = "overlong" THEN [out EXCEPT ![l] = @ + 1] ELSE out
       /\ silent' = IF k = "notification" THEN silent \cup {l} ELSE silent
       /\ pc' = [pc EXCEPT ![l] = CASE k = "call" -> "resolve" [] k = "overlong" -> "done" [] OTHER -> "write"]
  /\ read' = read \cup {l}
  /\ UNCHANGED <<poolVars, envVars, serve>>

EndOfInput ==
  /\ serve = "reading"
  /\ serve' = "draining"
  /\ UNCHANGED <<read, silent, req, pc, poolVars, envVars, reply, out>>

\* Reading fails: Serve returns without waiting for the running requests.
ReadFails ==
  /\ serve = "reading"
  /\ serve' = "gave_up"
  /\ UNCHANGED <<read, silent, req, pc, poolVars, envVars, reply, out>>

Goto(l, label) == pc' = [pc EXCEPT ![l] = label]
Answer(l, a)   == reply' = [reply EXCEPT ![l] = a] /\ Goto(l, "write")

\* Mutant: the output is closed with the input.
WriteWhileReading(l) ==
  /\ pc[l] = "write"
  /\ Goto(l, "done")
  /\ out' = IF reply[l] = "none" \/ serve # "reading" THEN out ELSE [out EXCEPT ![l] = @ + 1]
  /\ req' = [req EXCEPT ![l] = NoReq]
  /\ reply' = [reply EXCEPT ![l] = "none"]
  /\ UNCHANGED <<read, silent, poolVars, envVars, serve>>

\* Write the answer, under writeMu; a notification gets none.
Write(l) ==
  /\ pc[l] = "write"
  /\ Goto(l, "done")
  /\ out' = IF reply[l] = "none" THEN out ELSE [out EXCEPT ![l] = @ + 1]
  /\ req' = [req EXCEPT ![l] = NoReq]
  /\ reply' = [reply EXCEPT ![l] = "none"]
  /\ UNCHANGED <<read, silent, poolVars, envVars, serve>>

Busy == {l \in Lines : pc[l] \notin {"unread", "done"}}

\* Every goroutine is done ...
Drained ==
  /\ serve = "draining"
  /\ Busy = {}
  /\ serve' = "drained"
  /\ UNCHANGED <<read, silent, req, pc, poolVars, envVars, reply, out>>

\* ... or the 300 seconds are over.
DrainTimeout ==
  /\ serve = "draining"
  /\ Busy # {}
  /\ serve' = "gave_up"
  /\ UNCHANGED <<read, silent, req, pc, poolVars, envVars, reply, out>>

\* Close, and the process ends with whatever still runs.
Close ==
  /\ serve \in {"drained", "gave_up"}
  /\ serve' = "closed"
  /\ conns' = {}
  /\ UNCHANGED <<read, silent, req, pc, pool, order, stale, crossed, envVars, reply, out>>

-----------------------------------------------------------------------------
\* resolveConnectionOrForward and pooledConnectionID.

\* The lines between registering an id and having it connected.
Registering == {l \in Lines : pc[l] \in {"disconnect", "connect"}}

\* An id in the pool is used as it is.
ResolveHit(l) ==
  /\ pc[l] = "resolve"
  /\ \/ req[l].inline \in pool
     \/ req[l].inline = NoId /\ req[l].id \in pool
  /\ Goto(l, "tool")
  /\ UNCHANGED <<read, silent, req, poolVars, envVars, reply, out, serve>>

ResolveNone(l) ==
  /\ pc[l] = "resolve"
  /\ req[l].inline = NoId /\ req[l].id = NoId
  /\ Answer(l, "failed")
  /\ UNCHANGED <<read, silent, req, poolVars, envVars, out, serve>>

ResolveForward(l) ==
  /\ pc[l] = "resolve"
  /\ req[l].inline = NoId /\ req[l].id # NoId
  /\ req[l].id \notin pool
  /\ Goto(l, "bridge")
  /\ UNCHANGED <<read, silent, req, poolVars, envVars, reply, out, serve>>

\* The eviction loop pops ids until there is room; an id that is not in the
\* pool any more is only popped.  Popped(n): what is left after n pops.
Popped(n) == pool \ Ids(SubSeq(order, 1, n))
Pops == CHOOSE n \in 0 .. Len(order) : Cardinality(Popped(n)) < Cap /\ \A m \in 0 .. n - 1 : Cardinality(Popped(m)) >= Cap

\* The ids the loop finds in the pool when it pops them, in n pops.
Evicted(n) ==
  LET found[k \in 0 .. n] ==
        IF k = 0 THEN << >>
        ELSE IF order[k] \in Popped(k - 1) THEN Append(found[k - 1], order[k]) ELSE found[k - 1]
  IN found[n]

OrderAfter(n, id) == Append(SubSeq(order, n + 1, Len(order)), id)

\* With the lock held: make room, register the id.
Register(l) ==
  /\ pc[l] = "resolve"
  /\ req[l].inline # NoId
  /\ req[l].inline \notin pool
  /\ LET id == req[l].inline
     IN /\ stale' = [stale EXCEPT ![l] = Evicted(Pops)]
        /\ pool' = Popped(Pops) \cup {id}
        /\ order' = OrderAfter(Pops, id)
  /\ crossed' = (crossed \/ Registering # {})
  /\ Goto(l, "disconnect")
  /\ UNCHANGED <<read, silent, req, conns, envVars, reply, out, serve>>

\* Mutant: the connections of evicted ids stay open.
DisconnectNone(l) ==
  /\ pc[l] = "disconnect"
  /\ Goto(l, "connect")
  /\ UNCHANGED <<read, silent, req, poolVars, envVars, reply, out, serve>>

\* With the lock released: disconnect the evicted ones, one after the other ...
Disconnect(l) ==
  /\ pc[l] = "disconnect"
  /\ IF stale[l] = << >> THEN Goto(l, "connect") /\ UNCHANGED <<stale, conns>>
     ELSE /\ conns' = conns \ {Head(stale[l])}
          /\ stale' = [stale EXCEPT ![l] = Tail(@)]
          /\ UNCHANGED pc
  /\ UNCHANGED <<read, silent, req, pool, order, crossed, envVars, reply, out, serve>>

\* ... and enter the new one into the connection table.
Connect(l) ==
  /\ pc[l] = "connect"
  /\ req[l].inline \notin Bad
  /\ conns' = conns \cup {req[l].inline}
  /\ Goto(l, "tool")
  /\ UNCHANGED <<read, silent, req, pool, order, stale, crossed, envVars, reply, out, serve>>

\* Refused parameters leave the pool again; their place in the order stays.
ConnectFails(l) ==
  /\ pc[l] = "connect"
  /\ req[l].inline \in Bad
  /\ pool' = pool \ {req[l].inline}
  /\ Answer(l, "failed")
  /\ UNCHANGED <<read, silent, req, conns, order, stale, crossed, envVars, out, serve>>

Id(l) == IF req[l].inline # NoId THEN req[l].inline ELSE req[l].id

\* Server.Call: without a connection of that id the tool fails, and it may fail
\* for reasons of its own.
Tool(l) ==
  /\ pc[l] = "tool"
  /\ Answer(l, IF Id(l) \in conns THEN "result" ELSE "failed")
  /\ UNCHANGED <<read, silent, req, poolVars, envVars, out, serve>>

-----------------------------------------------------------------------------
\* The bridge: probe the port; start the application and probe again until the
\* time is over.

AppFlips ==
  /\ flips < MaxFlips
  /\ flips' = flips + 1
  /\ app' = ~app
  /\ UNCHANGED <<read, silent, req, pc, poolVars, reply, out, serve>>

\* A listener answered the probe: forward the call.  The application may be
\* gone by then, refuse the call, or not know the id.
BridgeFound(l) ==
  /\ pc[l] = "bridge"
  /\ app
  /\ Goto(l, "forward")
  /\ UNCHANGED <<read, silent, req, poolVars, envVars, reply, out, serve>>

Forward(l) ==
  /\ pc[l] = "forward"
  /\ Answer(l, IF app /\ req[l].id \in Saved THEN "result" ELSE "failed")
  /\ UNCHANGED <<read, silent, req, poolVars, envVars, out, serve>>

\* Mutant: the probe is repeated without a deadline.
BridgeWaits(l) ==
  /\ pc[l] = "bridge"
  /\ app
  /\ Answer(l, "failed")
  /\ UNCHANGED <<read, silent, req, poolVars, envVars, out, serve>>

\* No listener until the deadline.
BridgeTimeout(l) ==
  /\ pc[l] = "bridge"
  /\ ~app
  /\ Answer(l, "failed")
  /\ UNCHANGED <<read, silent, req, poolVars, envVars, out, serve>>

LineStep(l) ==
  \/ ResolveHit(l) \/ ResolveNone(l) \/ ResolveForward(l) \/ Register(l)
  \/ Disconnect(l) \/ Connect(l) \/ ConnectFails(l) \/ Tool(l)
  \/ BridgeFound(l) \/ Forward(l) \/ BridgeTimeout(l) \/ Write(l)

ServeStep == EndOfInput \/ ReadFails \/ Drained \/ DrainTimeout \/ Close
Closed    == serve = "closed" /\ UNCHANGED vars

Next ==
  \/ \E l \in Lines : Read(l) \/ (serve # "closed" /\ LineStep(l))
  \/ ServeStep \/ AppFlips \/ Closed

\* Goroutines run, tools and probes come back, a drained server closes.
Fairness ==
  /\ \A l \in Lines : WF_vars(serve # "closed" /\ LineStep(l))
  /\ WF_vars(Drained) /\ WF_vars(Close)

Spec == Init /\ [][Next]_vars /\ Fairness

-----------------------------------------------------------------------------
\* Properties.

\* When no registration is under way, the pool's ids are exactly the
\* connections of the table, so that an evicted one is closed and a hit finds
\* its connection; registrations that crossed are the only exception.  The
\* eviction loop always finds room: the pool keeps its limit and each of its ids
\* has a place in the order list, also when refused parameters come again.
PoolMatchesTable ==
  /\ (Registering = {} /\ ~crossed /\ serve # "closed") => pool = conns
  /\ pool \subseteq Ids(order) /\ Cardinality(pool) <= Cap

\* A server that ended because every request was done has answered every line
\* once, notifications aside, in whatever order.
DrainAnswersAll ==
  serve = "drained" =>
    \A l \in read : out[l] = IF l \in silent THEN 0 ELSE 1

\* A line that is read is worked off, unless the server gave up waiting.
LineWorkedOff == \A l \in Lines : (l \in read) ~> (pc[l] = "done" \/ serve = "closed")

=============================================================================
