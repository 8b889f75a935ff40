------------------------------ MODULE ConsumePool ------------------------------
(***************************************************************************)
(* One-shot consumes (Service.consumeMessages, messages.go), the pool of   *)
(* their Kafka clients (consume_pool.go) and the connection table they     *)
(* read (service.go).                                                      *)
(*                                                                         *)
(* The server runs every request in a goroutine of its own, so a consume   *)
(* is a process.  It creates at most one client and at most one pool       *)
(* entry; both are named after the request that created them.  A step is   *)
(* what the code does inside one critical section, or between two of them. *)
(*                                                                         *)
(* Entry fields are written by consumePoolRelease without the pool lock:   *)
(* a data race.  Its writes are steps of their own here, in any order;     *)
(* the lock it takes next orders them before the sweep.                    *)
(***************************************************************************)
EXTENDS Integers, FiniteSets

CONSTANTS Requests,    \* the one-shot consumes
          Conns,       \* connection ids
          Sigs,        \* consume shapes (consumeClientSignature)
          NoReuse,     \* the shape of a request consumeReusePolicy keeps out
          NoEntry,     \* the nil entry
          MaxEntries,  \* consumePoolMaxEntries
          IdleTTL,     \* consumePoolIdleTTL, in ticks
          MaxNow,      \* bound: clock ticks
          MaxGen,      \* bound: number of Connect calls
          MaxOverlap   \* bound: Disconnect calls under way for a connection

ASSUME PoolAssumption ==
  /\ NoReuse \notin Sigs
  /\ NoEntry \notin Requests
  /\ MaxEntries \in Nat
  /\ IdleTTL \in Nat
  /\ MaxNow \in Nat
  /\ MaxGen \in Nat
  /\ MaxOverlap \in Nat

VARIABLES
  conns,          \* Service.conns: configuration generation, 0 when absent
  gen,            \* number of configurations handed to Connect so far
  disconnecting,  \* Disconnect calls that have cleared the pool, not yet the table
  stopped,        \* CloseAll has run, the process is gone
  now,            \* the wall clock
  pool,           \* Service.consumePool: key -> entry
  entry,          \* the consumePoolEntry of each request
  cli,            \* the kgo client of each request; a pooled entry's client
                  \* pointer is nil exactly when that client is closed
  job,            \* the request's connection and shape
  pc, pooled,     \* its program counter and its local variable pooled
  todo            \* release: field writes not yet done

connVars == <<conns, gen, disconnecting, stopped>>
poolVars == <<pool, entry, cli>>
reqVars  == <<job, pc, pooled, todo>>
vars     == <<connVars, now, poolVars, reqVars>>

Keys   == Conns \X Sigs
PCs    == {"start", "reset", "resetting", "create", "put", "ping", "scan",
           "abandon", "release", "close", "done", "panic"}
Writes == {"resetFailed", "inUse", "lastUsedAt"}
Entry  == [inUse: BOOLEAN, resetFailed: BOOLEAN, lastUsedAt: Nat]
Job    == [conn: Conns, sig: Sigs \cup {NoReuse}]

\* consumePoolKey: connection and shape.
Key(r)     == <<job[r].conn, job[r].sig>>
\* consumeReusePolicy: no consumer group, and a start that needs no lookup.
ReuseOK(r) == job[r].sig # NoReuse
\* The local variable client: the pooled entry's client or the request's own.
ClientOf(r) == IF pooled[r] # NoEntry THEN pooled[r] ELSE r

\* r is between taking its entry and giving up inUse: the code may still touch
\* the entry's client.
Using(r) ==
  /\ pooled[r] # NoEntry
  /\ \/ pc[r] \in {"reset", "resetting", "ping", "scan"}
     \/ pc[r] \in {"abandon", "release"} /\ "inUse" \in todo[r]

\* A nil dereference in a goroutine nobody recovers ends the process.
Crashed == \E r \in Requests : pc[r] = "panic"
Alive   == ~stopped /\ ~Crashed
At(r, label) == Alive /\ pc[r] = label

-----------------------------------------------------------------------------
Init ==
  /\ conns = [c \in Conns |-> 0]
  /\ gen = 0
  /\ disconnecting = [c \in Conns |-> 0]
  /\ stopped = FALSE
  /\ now = 0
  /\ pool = [k \in Keys |-> NoEntry]
  /\ entry = [r \in Requests |->
                [inUse |-> FALSE, resetFailed |-> FALSE, lastUsedAt |-> 0]]
  /\ cli = [r \in Requests |-> "none"]
  /\ job \in [Requests -> Job]
  /\ pc = [r \in Requests |-> "start"]
  /\ pooled = [r \in Requests |-> NoEntry]
  /\ todo = [r \in Requests |-> {}]

Goto(r, label) == pc' = [pc EXCEPT ![r] = label]

\* Mutants: closing without unlinking, and unlinking without closing.
CloseKeysInPlace(ks) ==
  /\ cli' = [e \in Requests |->
               IF \E k \in ks : pool[k] = e THEN "closed" ELSE cli[e]]
  /\ UNCHANGED pool

ForgetKeys(ks) ==
  /\ pool' = [k \in Keys |-> IF k \in ks THEN NoEntry ELSE pool[k]]
  /\ UNCHANGED cli

\* closeConsumePoolEntry on every key of ks: the entries leave the pool and
\* their clients are closed.
CloseKeys(ks) ==
  /\ pool' = [k \in Keys |-> IF k \in ks THEN NoEntry ELSE pool[k]]
  /\ cli' = [e \in Requests |->
               IF \E k \in ks : pool[k] = e THEN "closed" ELSE cli[e]]

-----------------------------------------------------------------------------
\* The consume request.

\* Mutant: acquire does not look at inUse.
ReusableBusy(e) == e # NoEntry /\ ~entry[e].resetFailed

\* An entry consumePoolAcquire hands out.
Reusable(e) == e # NoEntry /\ ~entry[e].inUse /\ ~entry[e].resetFailed

\* consumePoolAcquire finds an idle entry and takes it.
AcquireHit(r) ==
  /\ At(r, "start")
  /\ ReuseOK(r)
  /\ LET e == pool[Key(r)] IN
       /\ Reusable(e)
       /\ entry' = [entry EXCEPT ![e] = [@ EXCEPT !.inUse = TRUE, !.lastUsedAt = now]]
       /\ pooled' = [pooled EXCEPT ![r] = e]
  /\ Goto(r, "reset")
  /\ UNCHANGED <<connVars, now, pool, cli, job, todo>>

\* No entry, an occupied or a spoiled one, or a request that never reuses.
AcquireMiss(r) ==
  /\ At(r, "start")
  /\ ReuseOK(r) => ~Reusable(pool[Key(r)])
  /\ Goto(r, "create")
  /\ UNCHANGED <<connVars, now, poolVars, job, pooled, todo>>

\* entry.client is read without the lock and passed to the reset, which polls
\* it at once.
ResetStart(r) ==
  /\ At(r, "reset")
  /\ Goto(r, IF cli[pooled[r]] = "open" THEN "resetting" ELSE "panic")
  /\ UNCHANGED <<connVars, now, poolVars, job, pooled, todo>>

\* Draining, listing offsets or an empty listing failed: the entry is released
\* as unhealthy and the request goes on to make a client of its own.
ResetFails(r) ==
  /\ At(r, "resetting")
  /\ Goto(r, "abandon")
  /\ todo' = [todo EXCEPT ![r] = Writes]
  /\ UNCHANGED <<connVars, now, poolVars, job, pooled>>

\* The offsets are set; entry.client is read again, still without the lock.
ResetDone(r) ==
  /\ At(r, "resetting")
  /\ Goto(r, IF cli[pooled[r]] = "open" THEN "ping" ELSE "create")
  /\ UNCHANGED <<connVars, now, poolVars, job, pooled, todo>>

\* consumeClient builds a client from the connection's current configuration.
Create(r) ==
  /\ At(r, "create")
  /\ conns[job[r].conn] # 0
  /\ cli' = [cli EXCEPT ![r] = "open"]
  /\ Goto(r, IF ReuseOK(r) THEN "put" ELSE "ping")
  /\ UNCHANGED <<connVars, now, pool, entry, job, pooled, todo>>

\* Not connected, or the configuration yields no client.  The request returns
\* before the deferred release exists.
CreateFails(r) ==
  /\ At(r, "create")
  /\ Goto(r, "done")
  /\ UNCHANGED <<connVars, now, poolVars, job, pooled, todo>>

\* Mutant: eviction does not look at inUse.
EvictableKeys(preserve) == {k \in Keys \ {preserve} : pool[k] # NoEntry}

\* Keys evictConsumePoolLocked may drop: occupied, not the one just put, idle.
IdleKeys(preserve) ==
  {k \in Keys \ {preserve} : pool[k] # NoEntry /\ ~entry[pool[k]].inUse}

\* evictConsumePoolLocked: while the pool is over its limit, drop the idle entry
\* used least recently.  Entries stamped in the same millisecond go in map order.
EvictionChoices(preserve) ==
  LET idle   == IdleKeys(preserve)
      size   == Cardinality({k \in Keys : k = preserve \/ pool[k] # NoEntry})
      excess == size - MaxEntries
      count  == IF excess <= 0 THEN 0
                ELSE IF excess <= Cardinality(idle) THEN excess
                ELSE Cardinality(idle)
  IN {ks \in SUBSET idle :
        /\ Cardinality(ks) = count
        /\ \A k \in ks, j \in idle \ ks :
             entry[pool[k]].lastUsedAt <= entry[pool[j]].lastUsedAt}

\* consumePoolPut: close whatever entry holds the key, busy or not, insert the
\* new one as occupied, and evict down to the limit.
Put(r) ==
  /\ At(r, "put")
  /\ \E victims \in EvictionChoices(Key(r)) :
       /\ pool' = [k \in Keys |-> IF k = Key(r) THEN r
                                  ELSE IF k \in victims THEN NoEntry
                                  ELSE pool[k]]
       /\ cli' = [e \in Requests |->
                    IF \E k \in victims \cup {Key(r)} : pool[k] = e
                    THEN "closed" ELSE cli[e]]
  /\ entry' = [entry EXCEPT ![r] =
                 [inUse |-> TRUE, resetFailed |-> FALSE, lastUsedAt |-> now]]
  /\ pooled' = [pooled EXCEPT ![r] = r]
  /\ Goto(r, "ping")
  /\ UNCHANGED <<connVars, now, job, todo>>

\* The deferred function: a pooled entry is released, a temporary client closed.
Finish(r, healthy) ==
  /\ Goto(r, IF pooled[r] # NoEntry THEN "release" ELSE "close")
  /\ todo' = [todo EXCEPT ![r] =
                IF healthy THEN Writes \ {"resetFailed"} ELSE Writes]
  /\ UNCHANGED <<connVars, now, poolVars, job, pooled>>

\* Ping waits for metadata; it cannot succeed on a closed client.
PingOk(r) ==
  /\ At(r, "ping")
  /\ cli[ClientOf(r)] = "open"
  /\ Goto(r, "scan")
  /\ UNCHANGED <<connVars, now, poolVars, job, pooled, todo>>

\* Mutant: a Ping without a time limit, which never returns on a closed client.
PingFailsIfOpen(r) ==
  At(r, "ping") /\ cli[ClientOf(r)] = "open" /\ Finish(r, FALSE)

\* Ping runs into its time limit, or into a closed client.
PingFails(r) == At(r, "ping") /\ Finish(r, FALSE)

\* The scan ends at its limit, at its time window, or with a fetch error.
ScanEnds(r, healthy) == At(r, "scan") /\ Finish(r, healthy)

\* One unlocked write of consumePoolRelease.
ReleaseWrite(r, w) ==
  /\ \E label \in {"abandon", "release"} : At(r, label)
  /\ w \in todo[r]
  /\ todo' = [todo EXCEPT ![r] = @ \ {w}]
  /\ entry' = [entry EXCEPT ![pooled[r]] =
                 [inUse       |-> IF w = "inUse" THEN FALSE ELSE @.inUse,
                  resetFailed |-> w = "resetFailed" \/ @.resetFailed,
                  lastUsedAt  |-> IF w = "lastUsedAt" THEN now ELSE @.lastUsedAt]]
  /\ UNCHANGED <<connVars, now, pool, cli, job, pc, pooled>>

\* Entries idle for longer than the TTL.
ExpiredKeys ==
  {k \in Keys : /\ pool[k] # NoEntry
                /\ ~entry[pool[k]].inUse
                /\ now - entry[pool[k]].lastUsedAt > IdleTTL}

\* The locked rest of consumePoolRelease: close the entries idle for too long.
ReleaseSweep(r) ==
  /\ \E label \in {"abandon", "release"} : At(r, label)
  /\ todo[r] = {}
  /\ CloseKeys(ExpiredKeys)
  /\ Goto(r, IF pc[r] = "abandon" THEN "create" ELSE "done")
  /\ pooled' = [pooled EXCEPT ![r] = NoEntry]
  /\ UNCHANGED <<connVars, now, entry, job, todo>>

\* closeClient of a request that never pooled.
CloseTemporary(r) ==
  /\ At(r, "close")
  /\ cli' = [cli EXCEPT ![r] = "closed"]
  /\ todo' = [todo EXCEPT ![r] = {}]
  /\ Goto(r, "done")
  /\ UNCHANGED <<connVars, now, pool, entry, job, pooled>>

-----------------------------------------------------------------------------
\* The connection table.

\* Connect replaces the configuration of c; the pool is left alone.
Connect(c) ==
  /\ Alive
  /\ gen < MaxGen
  /\ gen' = gen + 1
  /\ conns' = [conns EXCEPT ![c] = gen + 1]
  /\ UNCHANGED <<disconnecting, stopped, now, poolVars, reqVars>>

KeysOf(c) == {k \in Keys : k[1] = c}

\* Disconnect, first critical section: consumePoolCloseFor.
DisconnectPool(c) ==
  /\ Alive
  /\ disconnecting[c] < MaxOverlap
  /\ disconnecting' = [disconnecting EXCEPT ![c] = @ + 1]
  /\ CloseKeys(KeysOf(c))
  /\ UNCHANGED <<conns, gen, stopped, now, entry, reqVars>>

\* Disconnect, second critical section: the connection leaves the table.
DisconnectConn(c) ==
  /\ Alive
  /\ disconnecting[c] > 0
  /\ disconnecting' = [disconnecting EXCEPT ![c] = @ - 1]
  /\ conns' = [conns EXCEPT ![c] = 0]
  /\ UNCHANGED <<gen, stopped, now, poolVars, reqVars>>

\* No consume and no disconnect is under way.
Quiet ==
  /\ \A r \in Requests : pc[r] \in {"start", "done"}
  /\ \A c \in Conns : disconnecting[c] = 0

\* CloseAll runs once Serve has waited for every worker.
CloseAll ==
  /\ Alive
  /\ Quiet
  /\ stopped' = TRUE
  /\ CloseKeys(Keys)
  /\ conns' = [c \in Conns |-> 0]
  /\ UNCHANGED <<gen, disconnecting, now, entry, reqVars>>

Tick ==
  /\ Alive
  /\ now < MaxNow
  /\ now' = now + 1
  /\ UNCHANGED <<connVars, poolVars, reqVars>>

-----------------------------------------------------------------------------
Step(r) ==
  \/ AcquireHit(r) \/ AcquireMiss(r)
  \/ ResetStart(r) \/ ResetFails(r) \/ ResetDone(r)
  \/ Create(r) \/ CreateFails(r) \/ Put(r)
  \/ PingOk(r) \/ PingFails(r)
  \/ \E healthy \in BOOLEAN : ScanEnds(r, healthy)
  \/ \E w \in Writes : ReleaseWrite(r, w)
  \/ ReleaseSweep(r) \/ CloseTemporary(r)

Next ==
  \/ \E r \in Requests : Step(r)
  \/ \E c \in Conns : Connect(c) \/ DisconnectPool(c) \/ DisconnectConn(c)
  \/ CloseAll
  \/ Tick

Spec == Init /\ [][Next]_vars

\* Goroutines are scheduled and the reset, Ping and the scan have time limits,
\* so a consume that was issued takes its next step; nothing obliges a client
\* to issue one.
FairSpec ==
  /\ Spec
  /\ \A r \in Requests : WF_vars(pc[r] # "start" /\ Step(r))

-----------------------------------------------------------------------------
\* Types of all variables: what consume_pool.go declares of its entries, and
\* the labels this model gives to the places in consumeMessages.
TypeOK ==
  /\ conns \in [Conns -> Nat]
  /\ gen \in Nat
  /\ disconnecting \in [Conns -> Nat]
  /\ stopped \in BOOLEAN
  /\ now \in Nat
  /\ pool \in [Keys -> Requests \cup {NoEntry}]
  /\ entry \in [Requests -> Entry]
  /\ cli \in [Requests -> {"none", "open", "closed"}]
  /\ job \in [Requests -> Job]
  /\ pc \in [Requests -> PCs]
  /\ pooled \in [Requests -> Requests \cup {NoEntry}]
  /\ todo \in [Requests -> SUBSET Writes]

\* Whatever order releases, evictions, sweeps and disconnects come in, the pool
\* never offers a closed client, nor one made for another connection or shape:
\* closeConsumePoolEntry unlinks and closes in one critical section.
EntriesOpen ==
  \A k \in Keys : pool[k] # NoEntry => cli[pool[k]] = "open" /\ Key(pool[k]) = k

\* Two consumes never drive the same client at a time (resetting or polling it
\* twice would mix their offsets): inUse excludes, although release clears it
\* without the lock.
ExclusiveUse ==
  \A r, q \in Requests : Using(r) /\ Using(q) /\ pooled[r] = pooled[q] => r = q

\* An entry in the pool marked occupied has a request that will release it: no
\* early return of consumeMessages leaves an entry occupied for ever.
InUseHasHolder ==
  \A k \in Keys : pool[k] # NoEntry /\ entry[pool[k]].inUse =>
    \E r \in Requests : Using(r) /\ pooled[r] = pool[k]

\* What the pool holds can be used, now or when its holder has released it.
PoolEntriesUsable == EntriesOpen /\ InUseHasHolder

\* Every open client is reachable by the code that must close it: it is in the
\* pool, about to be put there, or the temporary client of a running request.
OpenIsOwned ==
  \A r \in Requests : cli[r] = "open" =>
    \/ ReuseOK(r) /\ pool[Key(r)] = r
    \/ pc[r] = "put"
    \/ ~ReuseOK(r) /\ pc[r] \in {"ping", "scan", "close"}

\* After CloseAll no client of any consume is open.
ShutdownReleasesAll == stopped => \A r \in Requests : cli[r] # "open"

\* No client is left behind while the process runs, nor when it ends.
NoClientLeak == OpenIsOwned /\ ShutdownReleasesAll

\* The client r is using is closed in this step.
ClosedWhileBusy(r) ==
  Using(r) /\ cli[pooled[r]] = "open" /\ cli'[pooled[r]] = "closed"

BusyStep ==
  \A r \in Requests : ClosedWhileBusy(r) =>
    \/ disconnecting'[job[r].conn] # disconnecting[job[r].conn]
    \/ pool'[Key(r)] \notin {NoEntry, pooled[r]}

\* Eviction and the TTL sweep spare occupied entries: the client of a running
\* consume is only ever closed by a disconnect of its connection or by the put
\* of a client for the same key.
BusySurvivesHousekeeping == [][BusyStep]_vars

\* A consume that was issued ends, however the pool and the connections change
\* meanwhile, unless the process does.
ConsumeEnds ==
  \A r \in Requests : pc[r] # "start" ~> (pc[r] = "done" \/ ~Alive)

-----------------------------------------------------------------------------
\* What a comment of consume_pool.go says and the code does not do; refuted by a
\* run of its own.

\* "the other fields are accessed by the inUse holder only": then the holder
\* finds the client it acquired, and the reset never dereferences nil.
HolderFindsClient == ~Crashed
=============================================================================
