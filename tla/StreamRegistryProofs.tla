------------------------- MODULE StreamRegistryProofs -------------------------
(***************************************************************************)
(* Proofs about the registry of streaming sessions, for any number of      *)
(* sessions, connections and overlapping stop calls.                       *)
(***************************************************************************)
EXTENDS StreamRegistry, TLAPS

Unmade == {"idle", "found", "admitted", "failed"}

\* A request has no client before StartStream makes one.
UnmadeHasNone == \A s \in Starts : pc[s] \in Unmade => client[s] = "none"

\* A call has sessions to shut down only after it unlinked them.
VictimsUnlinked == \A k \in Procs : call[k].at # "close" => victims[k] = {}

\* CloseAll begins when no request is under way and empties the registry.
ClosingQuiet ==
  Closing => /\ sessions = {}
             /\ \A k \in Calls : call[k].at = "idle"
             /\ \A s \in Starts : pc[s] \notin Starting

\* Only workers connect and disconnect, only main exits.
CallKinds ==
  \A k \in Procs : /\ call[k].op = "exit" => k = Main
                   /\ k \notin Calls => call[k].conn = NoConn /\ call[k].at # "unlink"

\* A session in the making while a call of its connection is under way is marked;
\* a registered one is once the call has unlinked its sessions.
RacedMarked ==
  \A s \in Starts, k \in Calls :
    /\ call[k].at # "idle" /\ call[k].conn = conn[s]
    /\ pc[s] = "made" \/ (s \in sessions /\ call[k].at = "close")
    => raced[s]

\* StaleOnlyIfRaced, from the moment the client is made.
StaleMarked ==
  \A s \in Starts : pc[s] = "made" \/ s \in sessions =>
    /\ cfg[s] # 0
    /\ cfg[s] # conns[conn[s]] => UnderWay(conn[s]) \/ raced[s]

RegistryInv ==
  /\ TypeOK
  /\ OwnedOnce /\ LiveLoopHasClient /\ ExitClosesStreams
  /\ UnmadeHasNone /\ VictimsUnlinked /\ ClosingQuiet /\ CallKinds
  /\ RacedMarked /\ StaleMarked

\* Nothing is under way at the beginning.
LEMMA RegistryInit == Init => RegistryInv
  <1> SUFFICES ASSUME Init PROVE RegistryInv
    OBVIOUS
  <1>1. TypeOK
    BY DEF Init, TypeOK, PCs, Procs, Call, IdleCall, Starting, Looping
  <1>2. OwnedOnce /\ LiveLoopHasClient /\ ExitClosesStreams
    BY DEF Init, OwnedOnce, LiveLoopHasClient, ExitClosesStreams, Looping
  <1>3. UnmadeHasNone /\ VictimsUnlinked /\ CallKinds
    BY DEF Init, UnmadeHasNone, VictimsUnlinked, CallKinds, IdleCall
  <1>4. ClosingQuiet /\ RacedMarked /\ StaleMarked
    BY DEF Init, ClosingQuiet, Closing, Procs, RacedMarked, StaleMarked, IdleCall
  <1> QED BY <1>1, <1>2, <1>3, <1>4 DEF RegistryInv

\* A step of one request or loop that neither makes nor registers a client.
LEMMA MoveStep ==
  ASSUME RegistryInv, NEW s \in Starts, NEW label \in PCs \ {"made"}, pc[s] # "made", ~exited,
         label \in Looping => pc[s] \in Looping,
         label \in Unmade <=> pc[s] \in Unmade,
         label \in Starting => ~Closing,
         pc' = [pc EXCEPT ![s] = label], idle' \in [Starts -> Nat],
         UNCHANGED <<tableVars, sessions, conn, cfg, client, cancelled, raced, callVars>>
  PROVE  RegistryInv'
  <1> USE DEF tableVars, callVars
  <1>1. TypeOK'
    BY DEF RegistryInv, TypeOK
  <1>2. OwnedOnce' /\ ExitClosesStreams'
    BY DEF RegistryInv, TypeOK, OwnedOnce, ExitClosesStreams
  <1>3. LiveLoopHasClient' /\ UnmadeHasNone'
    BY DEF RegistryInv, TypeOK, LiveLoopHasClient, UnmadeHasNone
  <1>4. VictimsUnlinked' /\ CallKinds'
    BY DEF RegistryInv, VictimsUnlinked, CallKinds
  <1>5. ClosingQuiet'
    BY DEF RegistryInv, TypeOK, ClosingQuiet, Closing
  <1>6. RacedMarked' /\ StaleMarked'
    BY DEF RegistryInv, TypeOK, RacedMarked, StaleMarked, UnderWay
  <1> QED BY <1>1, <1>2, <1>3, <1>4, <1>5, <1>6 DEF RegistryInv

\* consumeClient: a client of the configuration of the moment.
LEMMA CreateStep ==
  ASSUME RegistryInv, NEW s \in Starts, Create(s)
  PROVE  RegistryInv'
  <1> USE DEF Create, Goto, tableVars, callVars
  <1>1. TypeOK'
    BY DEF RegistryInv, TypeOK, UnderWay, PCs, Starting
  <1>2. s \notin sessions /\ \A k \in Procs : s \notin victims[k]
    BY DEF RegistryInv, TypeOK, OwnedOnce, UnmadeHasNone, Unmade
  <1>3. OwnedOnce' /\ ExitClosesStreams'
    BY <1>2 DEF RegistryInv, TypeOK, OwnedOnce, ExitClosesStreams
  <1>4. LiveLoopHasClient' /\ UnmadeHasNone'
    BY DEF RegistryInv, TypeOK, LiveLoopHasClient, UnmadeHasNone, Unmade, Looping
  <1>5. VictimsUnlinked' /\ CallKinds'
    BY DEF RegistryInv, VictimsUnlinked, CallKinds
  <1>6. ClosingQuiet'
    BY DEF RegistryInv, TypeOK, ClosingQuiet, Closing, Starting
  <1>7. RacedMarked'
    BY <1>2 DEF RegistryInv, TypeOK, RacedMarked, UnderWay
  <1>8. StaleMarked'
    BY <1>2 DEF RegistryInv, TypeOK, StaleMarked, UnderWay
  <1> QED BY <1>1, <1>3, <1>4, <1>5, <1>6, <1>7, <1>8 DEF RegistryInv

\* The session is registered and its loop started.
LEMMA InsertStep ==
  ASSUME RegistryInv, NEW s \in Starts, Insert(s)
  PROVE  RegistryInv'
  <1> USE DEF Insert, Goto, tableVars, callVars
  <1>1. TypeOK'
    BY DEF RegistryInv, TypeOK, PCs, Looping
  <1>2. client[s] = "open" /\ s \notin sessions /\ \A k \in Procs : s \notin victims[k]
    BY DEF RegistryInv, TypeOK, OwnedOnce
  <1>3. OwnedOnce' /\ ExitClosesStreams'
    BY <1>2 DEF RegistryInv, TypeOK, OwnedOnce, ExitClosesStreams
  <1>4. LiveLoopHasClient' /\ UnmadeHasNone'
    BY <1>2 DEF RegistryInv, TypeOK, LiveLoopHasClient, UnmadeHasNone, Unmade, Looping
  <1>5. VictimsUnlinked' /\ CallKinds'
    BY DEF RegistryInv, VictimsUnlinked, CallKinds
  <1>6. ClosingQuiet'
    BY DEF RegistryInv, TypeOK, ClosingQuiet, Closing, Starting
  <1>7. RacedMarked' /\ StaleMarked'
    BY DEF RegistryInv, TypeOK, RacedMarked, StaleMarked, UnderWay
  <1> QED BY <1>1, <1>3, <1>4, <1>5, <1>6, <1>7 DEF RegistryInv

\* Sessions move from the registry to the call that will shut them down.
LEMMA UnlinkStep ==
  ASSUME RegistryInv, ~exited, NEW k \in Procs, NEW ss \in SUBSET sessions, NEW r \in Call,
         Unlink(k, ss), call' = [call EXCEPT ![k] = r], call[k].at # "close", r.at = "close",
         r.op = "exit" => k = Main,
         k \notin Calls => r.conn = NoConn,
         k \in Calls => ~Closing,
         k = Main => (ClosingQuiet /\ Closing)',
         r.conn \in Conns => ss = SessionsOf(r.conn),
         call[k].at = "idle" \/ r.conn = call[k].conn,
         raced' \in [Starts -> BOOLEAN],
         \A s \in Starts : raced'[s] = (raced[s] \/ (pc[s] = "made" /\ conn[s] = r.conn)),
         UNCHANGED <<tableVars, conn, pc, cfg, client, cancelled, idle, exited>>
  PROVE  RegistryInv'
  <1> USE DEF Unlink, tableVars
  <1>1. TypeOK'
    BY DEF RegistryInv, TypeOK
  <1>2. victims[k] = {}
    BY DEF RegistryInv, VictimsUnlinked
  <1>3. OwnedOnce'
    BY <1>2 DEF RegistryInv, TypeOK, OwnedOnce
  <1>4. ExitClosesStreams' /\ LiveLoopHasClient' /\ UnmadeHasNone'
    BY DEF RegistryInv, TypeOK, ExitClosesStreams, LiveLoopHasClient, UnmadeHasNone
  <1>5. VictimsUnlinked' /\ CallKinds'
    BY DEF RegistryInv, TypeOK, VictimsUnlinked, CallKinds
  <1>6. ClosingQuiet'
    <2>1. CASE k = Main
      BY <2>1
    <2>2. CASE k # Main
      BY <2>2 DEF RegistryInv, TypeOK, ClosingQuiet, Closing, Procs
    <2> QED BY <2>1, <2>2
  <1>7. RacedMarked'
    BY StreamAssumption DEF RegistryInv, TypeOK, RacedMarked, SessionsOf, Procs
  <1>8. \A c \in Conns : UnderWay(c) => UnderWay(c)'
    BY DEF RegistryInv, TypeOK, UnderWay, Procs
  <1>9. StaleMarked'
    BY <1>8 DEF RegistryInv, TypeOK, StaleMarked
  <1> QED BY <1>1, <1>3, <1>4, <1>5, <1>6, <1>7, <1>9 DEF RegistryInv

\* Connect of a connection that was there is under way from now on; of one that
\* was not, whatever is registered was stale before.
LEMMA ConnectStep ==
  ASSUME RegistryInv, NEW k \in Calls, NEW c \in Conns, Connect(k, c)
  PROVE  RegistryInv'
  <1> USE DEF Connect, StartCall, MarkRaced, Serving
  <1>1. k \in Procs /\ k # Main /\ k # Evictor /\ gen \in Nat /\ ~Closing
    BY StreamAssumption DEF Procs, RegistryInv, TypeOK
  <1>2. call' \in [Procs -> Call] /\ \A j \in Procs \ {k} : call'[j] = call[j]
    <2>1. call' = call \/ call' = [call EXCEPT ![k] = [at |-> "unlink", op |-> "connect", conn |-> c]]
      OBVIOUS
    <2>2. [at |-> "unlink", op |-> "connect", conn |-> c] \in Call
      BY DEF Call
    <2> QED BY <1>1, <2>1, <2>2 DEF RegistryInv, TypeOK
  <1>3. call'[k] = call[k] \/ call'[k] = [at |-> "unlink", op |-> "connect", conn |-> c]
    BY <1>1 DEF RegistryInv, TypeOK
  <1>4. TypeOK'
    BY <1>1, <1>2 DEF RegistryInv, TypeOK
  <1>5. OwnedOnce' /\ ExitClosesStreams' /\ LiveLoopHasClient' /\ UnmadeHasNone'
    BY DEF RegistryInv, OwnedOnce, ExitClosesStreams, LiveLoopHasClient, UnmadeHasNone
  <1>6. VictimsUnlinked' /\ CallKinds'
    BY <1>1, <1>2, <1>3 DEF RegistryInv, VictimsUnlinked, CallKinds
  <1>7. ClosingQuiet'
    BY <1>1, <1>2 DEF ClosingQuiet, Closing, Procs
  <1>8. RacedMarked'
    <2> SUFFICES ASSUME NEW s \in Starts, NEW j \in Calls, call'[j].at # "idle", call'[j].conn = conn[s],
                        pc[s] = "made" \/ (s \in sessions /\ call'[j].at = "close")
                 PROVE  raced'[s]
      BY DEF RacedMarked
    <2>1. (raced[s] \/ (pc[s] = "made" /\ conn[s] = c)) => raced'[s]
      OBVIOUS
    <2>2. CASE call'[j] = call[j]
      BY <2>1, <2>2 DEF RegistryInv, RacedMarked
    <2>3. CASE call'[j] # call[j]
      <3>1. call'[j] = [at |-> "unlink", op |-> "connect", conn |-> c]
        BY <1>1, <1>2, <1>3, <2>3 DEF Procs
      <3>2. pc[s] = "made" /\ conn[s] = c
        BY <3>1
      <3> QED BY <2>1, <3>2
    <2> QED BY <2>2, <2>3
  <1>9. \A d \in Conns : UnderWay(d) => UnderWay(d)'
    BY <1>1, <1>2, <1>3 DEF UnderWay, Procs
  <1>10. conns[c] # 0 => UnderWay(c)'
    BY <1>1, <1>2 DEF UnderWay, RegistryInv, TypeOK
  <1>11. StaleMarked'
    <2> SUFFICES ASSUME NEW s \in Starts, pc[s] = "made" \/ s \in sessions
                 PROVE  cfg[s] # 0 /\ (cfg[s] # conns'[conn[s]] => UnderWay(conn[s])' \/ raced'[s])
      BY DEF StaleMarked, UnderWay
    <2>1. cfg[s] # 0 /\ (cfg[s] # conns[conn[s]] => UnderWay(conn[s]) \/ raced[s]) /\ conn[s] \in Conns
      BY DEF RegistryInv, StaleMarked, TypeOK
    <2>2. raced[s] => raced'[s]
      OBVIOUS
    <2>3. CASE conn[s] # c
      BY <1>9, <2>1, <2>2, <2>3 DEF RegistryInv, TypeOK
    <2>4. CASE conn[s] = c
      BY <1>9, <1>10, <2>1, <2>2, <2>4
    <2> QED BY <2>3, <2>4
  <1> QED BY <1>4, <1>5, <1>6, <1>7, <1>8, <1>11 DEF RegistryInv

\* shutdownSession cancels a session that has a call as its only owner ...
LEMMA CancelStep ==
  ASSUME RegistryInv, NEW k \in Procs, NEW s \in Starts, Cancel(k, s)
  PROVE  RegistryInv'
  <1> USE DEF Cancel, tableVars, callVars
  <1>1. TypeOK'
    BY DEF RegistryInv, TypeOK
  <1>2. OwnedOnce' /\ ExitClosesStreams' /\ LiveLoopHasClient' /\ UnmadeHasNone'
    BY DEF RegistryInv, TypeOK, OwnedOnce, ExitClosesStreams, LiveLoopHasClient, UnmadeHasNone
  <1>3. VictimsUnlinked' /\ CallKinds' /\ ClosingQuiet'
    BY DEF RegistryInv, VictimsUnlinked, CallKinds, ClosingQuiet, Closing
  <1>4. RacedMarked' /\ StaleMarked'
    BY DEF RegistryInv, RacedMarked, StaleMarked, UnderWay
  <1> QED BY <1>1, <1>2, <1>3, <1>4 DEF RegistryInv

\* ... and then closes its client, which nobody else owns.
LEMMA CloseClientStep ==
  ASSUME RegistryInv, NEW k \in Procs, NEW s \in Starts, CloseClient(k, s)
  PROVE  RegistryInv'
  <1> USE DEF CloseClient, tableVars
  <1>1. TypeOK'
    BY DEF RegistryInv, TypeOK
  <1>2. OwnedOnce'
    BY DEF RegistryInv, TypeOK, OwnedOnce
  <1>3. client[s] = "open" /\ pc[s] # "made"
    BY DEF RegistryInv, TypeOK, OwnedOnce
  <1>4. ExitClosesStreams' /\ LiveLoopHasClient' /\ UnmadeHasNone'
    BY <1>3 DEF RegistryInv, TypeOK, ExitClosesStreams, LiveLoopHasClient, UnmadeHasNone
  <1>5. VictimsUnlinked' /\ CallKinds' /\ ClosingQuiet'
    BY DEF RegistryInv, TypeOK, VictimsUnlinked, CallKinds, ClosingQuiet, Closing
  <1>6. RacedMarked' /\ StaleMarked'
    BY DEF RegistryInv, RacedMarked, StaleMarked, UnderWay
  <1> QED BY <1>1, <1>2, <1>4, <1>5, <1>6 DEF RegistryInv

\* A call that returns leaves behind only sessions that were marked.
LEMMA ReturnStep ==
  ASSUME RegistryInv, NEW k \in Procs, Return(k)
  PROVE  RegistryInv'
  <1> USE DEF Return, sessionVars
  <1>1. TypeOK'
    BY DEF RegistryInv, TypeOK, Call, IdleCall
  <1>2. OwnedOnce' /\ LiveLoopHasClient' /\ UnmadeHasNone'
    BY DEF RegistryInv, OwnedOnce, LiveLoopHasClient, UnmadeHasNone
  <1>3. call[k].op = "exit" => k = Main /\ Closing
    BY DEF RegistryInv, CallKinds, Closing
  <1>4. ExitClosesStreams'
    <2> SUFFICES ASSUME call[k].op = "exit"
                 PROVE  sessions = {} /\ \A s \in Starts : client[s] = "open" => s \in victims[Evictor]
      BY DEF ExitClosesStreams
    <2>1. sessions = {} /\ victims[Main] = {} /\ \A s \in Starts : pc[s] # "made"
      BY <1>3 DEF RegistryInv, ClosingQuiet, Starting
    <2>2. \A j \in Calls : victims[j] = {}
      BY <1>3 DEF RegistryInv, ClosingQuiet, VictimsUnlinked, Procs
    <2> QED BY <2>1, <2>2 DEF RegistryInv, OwnedOnce, Procs
  <1>5. VictimsUnlinked' /\ CallKinds'
    BY DEF RegistryInv, TypeOK, VictimsUnlinked, CallKinds, IdleCall
  <1>6. ClosingQuiet'
    BY DEF RegistryInv, TypeOK, ClosingQuiet, Closing, IdleCall, Procs
  <1>7. RacedMarked'
    BY DEF RegistryInv, TypeOK, RacedMarked, IdleCall, Procs
  <1>8. StaleMarked'
    <2> SUFFICES ASSUME NEW s \in Starts, pc[s] = "made" \/ s \in sessions
                 PROVE  cfg[s] # 0 /\ (cfg[s] # conns'[conn[s]] => UnderWay(conn[s])' \/ raced[s])
      BY DEF StaleMarked, UnderWay
    <2>1. cfg[s] # 0 /\ (cfg[s] # conns[conn[s]] => UnderWay(conn[s]) \/ raced[s]) /\ conn[s] \in Conns
      BY DEF RegistryInv, StaleMarked, TypeOK
    <2>2. call[k].op # "exit"
      BY <1>3 DEF RegistryInv, ClosingQuiet, Starting
    <2>3. CASE k \in Calls /\ call[k].conn = conn[s]
      BY <2>1, <2>3 DEF RegistryInv, RacedMarked
    <2>4. CASE ~(k \in Calls /\ call[k].conn = conn[s])
      <3>1. call[k].conn # conn[s] \/ k \notin Calls
        BY <2>4
      <3>2. conns'[conn[s]] = conns[conn[s]]
        BY <2>1, <2>2, <3>1, StreamAssumption DEF RegistryInv, CallKinds
      <3>3. UnderWay(conn[s]) => UnderWay(conn[s])'
        BY <3>1 DEF UnderWay, RegistryInv, TypeOK, Procs
      <3> QED BY <2>1, <3>2, <3>3
    <2> QED BY <2>3, <2>4
  <1> QED BY <1>1, <1>2, <1>4, <1>5, <1>6, <1>7, <1>8 DEF RegistryInv

\* Requests and run loops.
LEMMA SessionStep ==
  ASSUME RegistryInv, NEW s \in Starts, Lookup(s) \/ StartStep(s) \/ LoopStep(s) \/ Flush(s)
  PROVE  RegistryInv'
  <1> USE DEF Goto, Starting, Looping, Unmade, PCs
  <1>1. CASE Lookup(s)
    BY <1>1, MoveStep DEF Lookup, Serving, RegistryInv, TypeOK
  <1>2. CASE Admit(s)
    BY <1>2, MoveStep DEF Admit, RegistryInv, TypeOK, ClosingQuiet
  <1>3. CASE Create(s)
    BY <1>3, CreateStep
  <1>4. CASE StartFails(s)
    BY <1>4, MoveStep DEF StartFails, RegistryInv, TypeOK
  <1>5. CASE Insert(s)
    BY <1>5, InsertStep
  <1>6. CASE LoopBegins(s)
    BY <1>6, MoveStep DEF LoopBegins, RegistryInv, TypeOK
  <1>7. CASE LoopRefuses(s)
    BY <1>7, MoveStep DEF LoopRefuses, RegistryInv, TypeOK
  <1>8. CASE LoopEnds(s)
    <2>1. idle' \in [Starts -> Nat]
      BY <1>8 DEF LoopEnds, RegistryInv, TypeOK
    <2> QED BY <1>8, <2>1, MoveStep DEF LoopEnds
  <1>9. CASE Flush(s)
    <2>1. pc' = [pc EXCEPT ![s] = "run"] /\ idle' \in [Starts -> Nat]
      BY <1>9 DEF Flush, RegistryInv, TypeOK
    <2> QED BY <1>9, <2>1, MoveStep DEF Flush
  <1> QED BY <1>1, <1>2, <1>3, <1>4, <1>5, <1>6, <1>7, <1>8, <1>9 DEF StartStep, LoopStep

\* Everything that unlinks sessions.
LEMMA StopStep ==
  ASSUME RegistryInv,
         \/ \E k \in Procs : ConnectStop(k)
         \/ \E k \in Calls, c \in Conns : Disconnect(k, c)
         \/ \E k \in Calls, ss \in SUBSET Starts : Stop(k, ss)
         \/ EvictIdle
         \/ CloseAll
  PROVE  RegistryInv'
  <1> USE DEF StartCall, Serving
  <1>1. Calls \subseteq Procs /\ Evictor \in Procs \ Calls /\ Main \in Procs \ Calls /\ Evictor # Main
    BY StreamAssumption DEF Procs
  <1>2. \A s \in Starts : conn[s] \in Conns /\ conn[s] # NoConn
    BY StreamAssumption DEF RegistryInv, TypeOK
  <1>3. CASE \E k \in Procs : ConnectStop(k)
    <2>1. PICK k \in Procs : ConnectStop(k)
      BY <1>3
    <2> DEFINE r == [at |-> "close", op |-> "connect", conn |-> call[k].conn]
    <2>2. k \in Calls /\ call[k] \in Call /\ call[k].at = "unlink" /\ ~exited /\ k # Main
      BY <1>1, <2>1 DEF ConnectStop, RegistryInv, TypeOK, CallKinds
    <2>3. r \in Call /\ r.at = "close" /\ r.op # "exit" /\ r.conn = call[k].conn
      BY <2>2 DEF Call
    <2>4. ~Closing
      BY <2>2 DEF RegistryInv, ClosingQuiet
    <2>5. /\ SessionsOf(call[k].conn) \in SUBSET sessions
          /\ Unlink(k, SessionsOf(call[k].conn)) /\ call' = [call EXCEPT ![k] = r]
          /\ UNCHANGED <<tableVars, conn, pc, cfg, client, cancelled, idle, exited, raced>>
      BY <2>1 DEF ConnectStop, SessionsOf
    <2>6. \A s \in Starts : raced'[s] = (raced[s] \/ (pc[s] = "made" /\ conn[s] = r.conn))
      BY <2>2, <2>3, <2>5 DEF RegistryInv, TypeOK, RacedMarked
    <2>7. raced' \in [Starts -> BOOLEAN]
      BY <2>5 DEF RegistryInv, TypeOK
    <2> HIDE DEF r
    <2> QED BY <2>2, <2>3, <2>4, <2>5, <2>6, <2>7, UnlinkStep
  <1>4. CASE \E k \in Calls, c \in Conns : Disconnect(k, c)
    <2>1. PICK k \in Calls, c \in Conns : Disconnect(k, c)
      BY <1>4
    <2> DEFINE r == [at |-> "close", op |-> "disconnect", conn |-> c]
    <2>2. r \in Call /\ r.at = "close" /\ r.op # "exit" /\ r.conn = c
      BY DEF Call
    <2>3. /\ k \in Procs /\ k # Main /\ ~exited /\ ~Closing /\ call[k].at = "idle"
          /\ SessionsOf(c) \in SUBSET sessions
          /\ Unlink(k, SessionsOf(c)) /\ call' = [call EXCEPT ![k] = r]
          /\ UNCHANGED <<tableVars, conn, pc, cfg, client, cancelled, idle, exited>>
      BY <1>1, <2>1 DEF Disconnect, SessionsOf
    <2>4. raced' = [s \in Starts |-> raced[s] \/ (pc[s] = "made" /\ conn[s] = c)]
      BY <2>1 DEF Disconnect, MarkRaced
    <2>5. raced' \in [Starts -> BOOLEAN]
      BY <2>4 DEF RegistryInv, TypeOK
    <2>6. \A s \in Starts : raced'[s] = (raced[s] \/ (pc[s] = "made" /\ conn[s] = r.conn))
      BY <2>2, <2>4
    <2> HIDE DEF r
    <2> QED BY <2>1, <2>2, <2>3, <2>5, <2>6, UnlinkStep
  <1>5. ASSUME NEW k \in Procs, NEW ss \in SUBSET sessions, NEW o \in {"stop", "evict", "exit"},
               ~exited, call[k].at = "idle", Unlink(k, ss), StartCall(k, "close", o, NoConn),
               o = "exit" => k = Main, k \in Calls => ~Closing, k = Main => (ClosingQuiet /\ Closing)',
               UNCHANGED <<tableVars, conn, pc, cfg, client, cancelled, idle, raced, exited>>
        PROVE  RegistryInv'
    <2> DEFINE r == [at |-> "close", op |-> o, conn |-> NoConn]
    <2>1. /\ r \in Call /\ r.at = "close" /\ (r.op = "exit" => k = Main)
          /\ r.conn = NoConn /\ r.conn \notin Conns
      BY <1>5, StreamAssumption DEF Call
    <2>2. call' = [call EXCEPT ![k] = r]
      BY <1>5
    <2>3. raced' \in [Starts -> BOOLEAN] /\ \A s \in Starts : raced'[s] = (raced[s] \/ (pc[s] = "made" /\ conn[s] = r.conn))
      BY <1>2, <1>5, <2>1 DEF RegistryInv, TypeOK
    <2> HIDE DEF r
    <2> QED BY <1>5, <2>1, <2>2, <2>3, UnlinkStep
  <1>6. CASE \E k \in Calls, ss \in SUBSET Starts : Stop(k, ss)
    <2>1. PICK k \in Calls, ss \in SUBSET Starts : Stop(k, ss)
      BY <1>6
    <2>2. ss \cap sessions \in SUBSET sessions /\ k \in Procs /\ k # Main
      BY <1>1, <2>1
    <2> QED BY <1>5, <2>1, <2>2 DEF Stop
  <1>7. CASE EvictIdle
    BY <1>1, <1>5, <1>7 DEF EvictIdle, Expired
  <1>8. CASE CloseAll
    <2>1. call' = [call EXCEPT ![Main] = [at |-> "close", op |-> "exit", conn |-> NoConn]] /\ sessions' = {}
      BY <1>8 DEF CloseAll, Unlink
    <2>2. Closing'
      BY <1>1, <2>1 DEF Closing, RegistryInv, TypeOK
    <2>3. ClosingQuiet'
      BY <1>1, <1>8, <2>1 DEF CloseAll, ClosingQuiet, RegistryInv, TypeOK
    <2> QED BY <1>1, <1>5, <1>8, <2>2, <2>3 DEF CloseAll, Closing
  <1> QED BY <1>3, <1>4, <1>6, <1>7, <1>8

\* The invariant is inductive.
LEMMA RegistryNext == RegistryInv /\ [Next]_vars => RegistryInv'
  <1> SUFFICES ASSUME RegistryInv, [Next]_vars PROVE RegistryInv'
    OBVIOUS
  <1>1. CASE \E s \in Starts : Lookup(s) \/ StartStep(s) \/ LoopStep(s) \/ Flush(s)
    BY <1>1, SessionStep
  <1>2. CASE \E k \in Calls, c \in Conns : Connect(k, c)
    BY <1>2, ConnectStep
  <1>3. CASE \/ \E k \in Calls, c \in Conns : Disconnect(k, c)
             \/ \E k \in Calls, ss \in {{s} : s \in Starts} \cup {Starts} : Stop(k, ss)
             \/ \E k \in Procs : ConnectStop(k)
             \/ EvictIdle
             \/ CloseAll
    <2>1. {{s} : s \in Starts} \cup {Starts} \subseteq SUBSET Starts
      OBVIOUS
    <2> QED BY <1>3, <2>1, StopStep
  <1>4. CASE \E k \in Procs, s \in Starts : Cancel(k, s) \/ CloseClient(k, s)
    BY <1>4, CancelStep, CloseClientStep
  <1>5. CASE \E k \in Procs : Return(k)
    BY <1>5, ReturnStep
  <1>6. CASE Tick \/ UNCHANGED vars
    <2>1. /\ UNCHANGED <<conns, gen, sessions, conn, pc, cfg, client, cancelled, raced, call, victims, exited>>
          /\ idle' \in [Starts -> Nat]
      BY <1>6 DEF Tick, vars, tableVars, sessionVars, callVars, RegistryInv, TypeOK
    <2>2. TypeOK' /\ UnmadeHasNone' /\ VictimsUnlinked' /\ ClosingQuiet' /\ CallKinds'
      BY <2>1 DEF RegistryInv, TypeOK, UnmadeHasNone, VictimsUnlinked, ClosingQuiet, Closing, CallKinds
    <2>3. OwnedOnce' /\ LiveLoopHasClient' /\ ExitClosesStreams'
      BY <2>1 DEF RegistryInv, OwnedOnce, LiveLoopHasClient, ExitClosesStreams
    <2>4. RacedMarked' /\ StaleMarked'
      BY <2>1 DEF RegistryInv, RacedMarked, StaleMarked, UnderWay
    <2> QED BY <2>2, <2>3, <2>4 DEF RegistryInv
  <1> QED BY <1>1, <1>2, <1>3, <1>4, <1>5, <1>6 DEF Next, CallStep

\* The invariant holds for any number of sessions and overlapping calls.
THEOREM RegistryInvariance == Spec => []RegistryInv
  BY RegistryInit, RegistryNext, PTL DEF Spec

\* The variables of the registry keep their types.
THEOREM RegistryTyping == Spec => []TypeOK
  <1>1. RegistryInv => TypeOK
    BY DEF RegistryInv
  <1> QED BY <1>1, RegistryInvariance, PTL

\* However many stops, reconnects, evictions and shutdowns overlap, a stream
\* client has one owner, is not closed under a live loop and is closed at exit.
THEOREM RegistryOneOwner == Spec => []OneOwner
  <1>1. RegistryInv => OneOwner
    BY DEF RegistryInv, OneOwner
  <1> QED BY <1>1, RegistryInvariance, PTL

\* A session runs on a replaced configuration only if StartStream raced with the
\* replacement.
THEOREM RegistryStaleOnlyIfRaced == Spec => []StaleOnlyIfRaced
  <1>1. RegistryInv => StaleOnlyIfRaced
    BY DEF RegistryInv, TypeOK, StaleMarked, StaleOnlyIfRaced
  <1> QED BY <1>1, RegistryInvariance, PTL
=============================================================================
