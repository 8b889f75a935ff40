--------------------------- MODULE ConsumePoolProofs ---------------------------
(***************************************************************************)
(* Proofs about ConsumePool for any sets of requests, connections and      *)
(* shapes and any limits.  None of the safety properties is inductive on   *)
(* its own: which entry a request may touch depends on where it stands in  *)
(* consumeMessages, so the invariant below ties the program counters to    *)
(* the entries, and the entries to the pool.                               *)
(***************************************************************************)
EXTENDS ConsumePool, TLAPS

\* The program counter and the local variable pooled agree with the kind of
\* request: only reusable shapes enter the pool's part of the code.
ShapeInv ==
  \A r \in Requests :
    /\ ~ReuseOK(r) => /\ pooled[r] = NoEntry
                      /\ pc[r] \in {"start", "create", "ping", "scan", "close", "done"}
    /\ ReuseOK(r) /\ pc[r] \in {"ping", "scan", "reset", "resetting",
                                "abandon", "release"} => pooled[r] # NoEntry
    /\ ReuseOK(r) => pc[r] # "close"
    /\ pc[r] = "put" => cli[r] = "open"

\* A request only ever works on an entry of its own key.
PooledKeyInv ==
  \A r \in Requests : pooled[r] # NoEntry => ReuseOK(pooled[r]) /\ Key(pooled[r]) = Key(r)

\* Before a request has put its entry, nobody can have seen it.
NewbornInv ==
  \A r \in Requests :
    pc[r] \in {"start", "reset", "resetting", "abandon", "create", "put"} =>
      /\ \A q \in Requests : pooled[q] # r
      /\ \A k \in Keys : pool[k] # r

\* The entry of a request that may still touch its client is marked occupied.
HolderMarkedInv == \A r \in Requests : Using(r) => entry[pooled[r]].inUse

\* CloseAll empties the pool and runs when no request does.
StoppedInv ==
  stopped => /\ \A k \in Keys : pool[k] = NoEntry
             /\ \A r \in Requests : pc[r] \in {"start", "done"}

PoolInv ==
  /\ TypeOK
  /\ ShapeInv /\ PooledKeyInv /\ NewbornInv /\ HolderMarkedInv /\ StoppedInv
  /\ EntriesOpen /\ ExclusiveUse /\ InUseHasHolder /\ OpenIsOwned

-----------------------------------------------------------------------------
\* Before any request the pool is empty and nothing is held.
LEMMA PoolInit == Init => PoolInv
  <1> SUFFICES ASSUME Init PROVE PoolInv
    OBVIOUS
  <1> USE PoolAssumption DEF Init
  <1>1. TypeOK
    BY DEF TypeOK, Entry, PCs
  <1>2. ShapeInv /\ PooledKeyInv /\ NewbornInv /\ HolderMarkedInv /\ StoppedInv
    BY DEF ShapeInv, PooledKeyInv, NewbornInv, HolderMarkedInv, StoppedInv, Using
  <1>3. EntriesOpen /\ ExclusiveUse /\ InUseHasHolder /\ OpenIsOwned
    BY DEF EntriesOpen, ExclusiveUse, InUseHasHolder, OpenIsOwned, Using
  <1> QED BY <1>1, <1>2, <1>3 DEF PoolInv

\* Taking an idle entry under the pool lock keeps the invariant.
LEMMA AcquireHitInv ==
  ASSUME PoolInv, NEW r \in Requests, AcquireHit(r)
  PROVE  PoolInv'
  <1> USE PoolAssumption DEF PoolInv, AcquireHit, At, Goto, connVars, Reusable
  <1> DEFINE e == pool[Key(r)]
  <1>0. /\ Key(r) \in Keys
        /\ e \in Requests
        /\ ~entry[e].inUse
        /\ cli[e] = "open" /\ Key(e) = Key(r)
        /\ e # r
        /\ ~stopped
    BY DEF TypeOK, Keys, Job, Key, ReuseOK, EntriesOpen, NewbornInv, Alive
  <1>1. TypeOK'
    <2>1. entry' \in [Requests -> Entry]
      BY <1>0 DEF TypeOK, Entry
    <2>2. QED BY <1>0, <2>1 DEF TypeOK, PCs
  <1>2. ShapeInv'
    BY <1>0, <1>1 DEF TypeOK, ShapeInv, ReuseOK
  <1>3. PooledKeyInv'
    BY <1>0, <1>1 DEF TypeOK, PooledKeyInv, ReuseOK, Key
  <1>4. NewbornInv'
    BY <1>0, <1>1 DEF TypeOK, NewbornInv
  <1>5. HolderMarkedInv'
    BY <1>0, <1>1 DEF TypeOK, HolderMarkedInv, Using, Entry
  <1>6. StoppedInv'
    BY <1>0 DEF StoppedInv
  <1>7. EntriesOpen'
    BY <1>0 DEF EntriesOpen, Key
  <1>8. ExclusiveUse'
    BY <1>0, <1>1 DEF TypeOK, ExclusiveUse, HolderMarkedInv, Using, Entry
  <1>9. InUseHasHolder'
    BY <1>0, <1>1 DEF TypeOK, InUseHasHolder, Using, Entry
  <1>10. OpenIsOwned'
    BY <1>0, <1>1 DEF TypeOK, OpenIsOwned, ReuseOK, Key
  <1> QED BY <1>1, <1>2, <1>3, <1>4, <1>5, <1>6, <1>7, <1>8, <1>9, <1>10

\* The steps that move one request along without touching any entry.
LocalStep(r) ==
  \/ AcquireMiss(r) \/ ResetStart(r) \/ ResetFails(r) \/ ResetDone(r)
  \/ CreateFails(r) \/ PingOk(r) \/ PingFails(r)
  \/ \E healthy \in BOOLEAN : ScanEnds(r, healthy)

\* The moves those steps make through consumeMessages.
LocalMove(r) ==
  \/ pc[r] = "start" /\ pc'[r] = "create" /\ todo' = todo
  \/ pc[r] = "reset" /\ cli[pooled[r]] = "open" /\ pc'[r] = "resetting" /\ todo' = todo
  \/ pc[r] = "reset" /\ cli[pooled[r]] # "open" /\ pc'[r] = "panic" /\ todo' = todo
  \/ pc[r] = "resetting" /\ pc'[r] = "abandon" /\ todo'[r] = Writes
  \/ pc[r] = "resetting" /\ cli[pooled[r]] = "open" /\ pc'[r] = "ping" /\ todo' = todo
  \/ pc[r] = "resetting" /\ cli[pooled[r]] # "open" /\ pc'[r] = "create" /\ todo' = todo
  \/ pc[r] = "create" /\ pc'[r] = "done" /\ todo' = todo
  \/ pc[r] = "ping" /\ pc'[r] = "scan" /\ todo' = todo
  \/ /\ pc[r] \in {"ping", "scan"}
     /\ pc'[r] = IF pooled[r] # NoEntry THEN "release" ELSE "close"
     /\ "inUse" \in todo'[r]

\* What the steps that touch neither the pool nor an entry do to a request.
LEMMA LocalStepMoves ==
  ASSUME TypeOK, NEW r \in Requests, LocalStep(r)
  PROVE  /\ UNCHANGED <<connVars, now, poolVars, job, pooled>>
         /\ ~stopped
         /\ pc' \in [Requests -> PCs] /\ todo' \in [Requests -> SUBSET Writes]
         /\ \A q \in Requests \ {r} : pc'[q] = pc[q] /\ todo'[q] = todo[q]
         /\ LocalMove(r)
  <1> USE DEF TypeOK, At, Alive, Goto, Writes, PCs
  <1>1. CASE AcquireMiss(r)
    BY <1>1 DEF AcquireMiss, LocalMove
  <1>2. CASE ResetStart(r)
    BY <1>2 DEF ResetStart, LocalMove
  <1>3. CASE ResetFails(r)
    BY <1>3 DEF ResetFails, LocalMove
  <1>4. CASE ResetDone(r)
    BY <1>4 DEF ResetDone, LocalMove
  <1>5. CASE CreateFails(r)
    BY <1>5 DEF CreateFails, LocalMove
  <1>6. CASE PingOk(r)
    BY <1>6 DEF PingOk, LocalMove
  <1>7. CASE PingFails(r)
    BY <1>7 DEF PingFails, Finish, LocalMove
  <1>8. ASSUME NEW healthy \in BOOLEAN, ScanEnds(r, healthy)
        PROVE  /\ UNCHANGED <<connVars, now, poolVars, job, pooled>>
               /\ ~stopped
               /\ pc' \in [Requests -> PCs] /\ todo' \in [Requests -> SUBSET Writes]
               /\ \A q \in Requests \ {r} : pc'[q] = pc[q] /\ todo'[q] = todo[q]
               /\ LocalMove(r)
    BY <1>8 DEF ScanEnds, Finish, LocalMove
  <1> QED BY <1>1, <1>2, <1>3, <1>4, <1>5, <1>6, <1>7, <1>8 DEF LocalStep

\* A step that touches neither the pool nor an entry keeps the invariant.
LEMMA LocalStepInv ==
  ASSUME PoolInv, NEW r \in Requests, LocalStep(r)
  PROVE  PoolInv'
  <1> USE PoolAssumption DEF PoolInv, connVars, poolVars
  <1>0. /\ UNCHANGED <<connVars, now, poolVars, job, pooled>>
        /\ ~stopped
        /\ pc' \in [Requests -> PCs] /\ todo' \in [Requests -> SUBSET Writes]
        /\ \A q \in Requests \ {r} : pc'[q] = pc[q] /\ todo'[q] = todo[q]
        /\ LocalMove(r)
    BY LocalStepMoves
  <1>1. TypeOK'
    BY <1>0 DEF TypeOK
  <1>2. ShapeInv'
    BY <1>0 DEF TypeOK, ShapeInv, ReuseOK, LocalMove, Writes
  <1>3. PooledKeyInv'
    BY <1>0 DEF PooledKeyInv, ReuseOK, Key
  <1>4. NewbornInv'
    BY <1>0 DEF TypeOK, NewbornInv, LocalMove
  <1>5. \A q \in Requests : Using(q)' => Using(q)
    BY <1>0 DEF TypeOK, Using, LocalMove, Writes
  <1>6. \A q \in Requests : Using(q) => \/ Using(q)'
                                        \/ cli[pooled[q]] # "open"
    BY <1>0 DEF TypeOK, Using, LocalMove, Writes
  <1>7. HolderMarkedInv'
    BY <1>0, <1>5 DEF HolderMarkedInv
  <1>8. StoppedInv'
    BY <1>0 DEF StoppedInv
  <1>9. EntriesOpen'
    BY <1>0 DEF EntriesOpen, Key
  <1>10. ExclusiveUse'
    BY <1>0, <1>5 DEF ExclusiveUse
  <1>11. InUseHasHolder'
    BY <1>0, <1>6 DEF InUseHasHolder, EntriesOpen
  <1>12. OpenIsOwned'
    BY <1>0 DEF TypeOK, OpenIsOwned, ReuseOK, Key, LocalMove, ShapeInv
  <1> QED BY <1>1, <1>2, <1>3, <1>4, <1>7, <1>8, <1>9, <1>10, <1>11, <1>12

\* consumeClient keeps the invariant: the new client is in nobody's hands yet.
LEMMA CreateInv ==
  ASSUME PoolInv, NEW r \in Requests, Create(r)
  PROVE  PoolInv'
  <1> USE PoolAssumption DEF PoolInv, Create, At, Goto, connVars
  <1>0. ~stopped
    BY DEF Alive
  <1>1. TypeOK'
    BY DEF TypeOK, PCs, Job
  <1>2. ShapeInv'
    BY DEF TypeOK, ShapeInv, ReuseOK
  <1>3. PooledKeyInv'
    BY DEF PooledKeyInv, ReuseOK, Key
  <1>4. NewbornInv'
    BY DEF TypeOK, NewbornInv
  <1>5. \A q \in Requests : Using(q)' = Using(q)
    <2>1. ~Using(r)
      BY DEF Using
    <2>2. ~Using(r)'
      BY DEF TypeOK, Using, ReuseOK, ShapeInv
    <2>3. \A q \in Requests \ {r} : pc'[q] = pc[q]
      BY DEF TypeOK
    <2> QED BY <2>1, <2>2, <2>3 DEF Using
  <1>6. HolderMarkedInv'
    BY <1>5 DEF HolderMarkedInv
  <1>7. StoppedInv'
    BY <1>0 DEF StoppedInv
  <1>8. EntriesOpen'
    BY DEF TypeOK, EntriesOpen, Key, NewbornInv
  <1>9. ExclusiveUse'
    BY <1>5 DEF ExclusiveUse
  <1>10. InUseHasHolder'
    BY <1>5 DEF InUseHasHolder
  <1>11. OpenIsOwned'
    BY DEF TypeOK, OpenIsOwned, ReuseOK, Key
  <1> QED BY <1>1, <1>2, <1>3, <1>4, <1>6, <1>7, <1>8, <1>9, <1>10, <1>11

\* consumePoolPut keeps the invariant, its eviction included.
LEMMA PutInv ==
  ASSUME PoolInv, NEW r \in Requests, Put(r)
  PROVE  PoolInv'
  <1> USE PoolAssumption DEF PoolInv, connVars
  <1>0. PICK victims \in EvictionChoices(Key(r)) :
          /\ pool' = [k \in Keys |-> IF k = Key(r) THEN r
                                     ELSE IF k \in victims THEN NoEntry
                                     ELSE pool[k]]
          /\ cli' = [e \in Requests |->
                       IF \E k \in victims \cup {Key(r)} : pool[k] = e
                       THEN "closed" ELSE cli[e]]
    BY DEF Put
  <1>1. /\ pc[r] = "put" /\ ~stopped
        /\ ReuseOK(r) /\ Key(r) \in Keys
        /\ victims \subseteq Keys \ {Key(r)}
        /\ \A k \in victims : pool[k] # NoEntry /\ ~entry[pool[k]].inUse
    <2>1. pc[r] = "put" /\ ~stopped
      BY DEF Put, At, Alive
    <2>2. ReuseOK(r) /\ Key(r) \in Keys
      BY <2>1 DEF ShapeInv, TypeOK, Job, Keys, Key, ReuseOK
    <2>3. victims \subseteq IdleKeys(Key(r))
      BY <1>0 DEF EvictionChoices
    <2> QED BY <2>1, <2>2, <2>3 DEF IdleKeys
  <1>2. /\ entry' = [entry EXCEPT ![r] =
                       [inUse |-> TRUE, resetFailed |-> FALSE, lastUsedAt |-> now]]
        /\ pooled' = [pooled EXCEPT ![r] = r]
        /\ pc' = [pc EXCEPT ![r] = "ping"]
        /\ UNCHANGED <<connVars, now, job, todo>>
    BY DEF Put, Goto
  <1>3. (\A q \in Requests : pooled[q] # r) /\ (\A k \in Keys : pool[k] # r)
    BY <1>1 DEF NewbornInv
  <1>4. TypeOK'
    <2>1. pool' \in [Keys -> Requests \cup {NoEntry}]
      BY <1>0 DEF TypeOK
    <2>2. cli' \in [Requests -> {"none", "open", "closed"}]
      BY <1>0 DEF TypeOK
    <2>3. entry' \in [Requests -> Entry]
      BY <1>2 DEF TypeOK, Entry
    <2> QED BY <1>2, <2>1, <2>2, <2>3 DEF TypeOK, PCs
  <1>5. cli'[r] = "open" /\ pool'[Key(r)] = r
    BY <1>0, <1>1, <1>3 DEF TypeOK, ShapeInv
  <1>6. \A q \in Requests \ {r} :
          /\ pc'[q] = pc[q] /\ pooled'[q] = pooled[q]
          /\ entry'[q] = entry[q] /\ pooled[q] # r
    BY <1>2, <1>3 DEF TypeOK
  <1>7. ShapeInv'
    <2>1. \A q \in Requests : pc'[q] = "put" => cli'[q] = "open"
      BY <1>0, <1>1, <1>2, <1>6 DEF TypeOK, ShapeInv, NewbornInv
    <2> QED BY <1>1, <1>2, <2>1 DEF TypeOK, ShapeInv, ReuseOK
  <1>8. PooledKeyInv'
    BY <1>1, <1>2 DEF TypeOK, PooledKeyInv, ReuseOK, Key
  <1>9. NewbornInv'
    BY <1>0, <1>1, <1>2, <1>3 DEF TypeOK, NewbornInv
  <1>10. \A q \in Requests \ {r} : Using(q)' = Using(q)
    BY <1>2, <1>6 DEF Using
  <1>11. HolderMarkedInv'
    BY <1>2, <1>4, <1>6, <1>10 DEF TypeOK, HolderMarkedInv, Using
  <1>12. StoppedInv'
    BY <1>1, <1>2 DEF StoppedInv
  <1>13. EntriesOpen'
    <2> SUFFICES ASSUME NEW k \in Keys, pool'[k] # NoEntry
                 PROVE  cli'[pool'[k]] = "open" /\ Key(pool'[k]) = k
      BY <1>2 DEF EntriesOpen, Key
    <2>1. CASE k = Key(r)
      BY <1>5, <2>1
    <2>2. CASE k # Key(r)
      <3>1. k \notin victims /\ pool'[k] = pool[k] /\ pool[k] \in Requests
        BY <1>0, <2>2 DEF TypeOK
      <3>2. \A j \in victims \cup {Key(r)} : pool[j] # pool[k]
        BY <1>1, <2>2, <3>1 DEF EntriesOpen
      <3> QED BY <1>0, <3>1, <3>2 DEF EntriesOpen
    <2> QED BY <2>1, <2>2
  <1>14. ExclusiveUse'
    BY <1>2, <1>6, <1>10 DEF TypeOK, ExclusiveUse
  <1>15. InUseHasHolder'
    <2> SUFFICES ASSUME NEW k \in Keys, pool'[k] # NoEntry, entry'[pool'[k]].inUse
                 PROVE  \E q \in Requests : Using(q)' /\ pooled'[q] = pool'[k]
      BY DEF InUseHasHolder
    <2>1. CASE k = Key(r)
      BY <1>2, <1>5, <2>1 DEF TypeOK, Using
    <2>2. CASE k # Key(r)
      <3>1. pool'[k] = pool[k] /\ pool[k] \in Requests \ {r}
        BY <1>0, <1>3, <2>2 DEF TypeOK
      <3>2. PICK q \in Requests : Using(q) /\ pooled[q] = pool[k]
        BY <1>6, <3>1 DEF InUseHasHolder
      <3>3. q # r
        BY <1>1, <3>2 DEF Using
      <3> QED BY <1>6, <1>10, <3>1, <3>2, <3>3
    <2> QED BY <2>1, <2>2
  <1>16. OpenIsOwned'
    <2> SUFFICES ASSUME NEW q \in Requests, cli'[q] = "open"
                 PROVE  \/ ReuseOK(q)' /\ pool'[Key(q)'] = q
                        \/ pc'[q] = "put"
                        \/ ~ReuseOK(q)' /\ pc'[q] \in {"ping", "scan", "close"}
      BY DEF OpenIsOwned
    <2>1. Key(q)' = Key(q) /\ ReuseOK(q)' = ReuseOK(q)
      BY <1>2 DEF Key, ReuseOK
    <2>2. CASE q = r
      BY <1>1, <1>5, <2>1, <2>2
    <2>3. CASE q # r
      <3>1. cli[q] = "open" /\ \A k \in victims \cup {Key(r)} : pool[k] # q
        BY <1>0
      <3>2. ReuseOK(q) => Key(q) \in Keys
        BY DEF TypeOK, Job, ReuseOK, Key, Keys
      <3>3. ReuseOK(q) /\ pool[Key(q)] = q => pool'[Key(q)] = q
        BY <1>0, <3>1, <3>2
      <3> QED BY <1>6, <2>1, <2>3, <3>1, <3>3 DEF OpenIsOwned
    <2> QED BY <2>2, <2>3
  <1> QED BY <1>4, <1>7, <1>8, <1>9, <1>11, <1>12, <1>13, <1>14, <1>15, <1>16

\* An unlocked field write of consumePoolRelease keeps the invariant.
LEMMA ReleaseWriteInv ==
  ASSUME PoolInv, NEW r \in Requests, NEW w \in Writes, ReleaseWrite(r, w)
  PROVE  PoolInv'
  <1> USE PoolAssumption DEF PoolInv, ReleaseWrite, At, connVars
  <1> DEFINE e == pooled[r]
  <1>0. /\ pc[r] \in {"abandon", "release"}
        /\ e \in Requests
        /\ ~stopped
    BY DEF TypeOK, ShapeInv, Alive
  <1>1. TypeOK'
    <2>1. entry' \in [Requests -> Entry]
      BY <1>0 DEF TypeOK, Entry
    <2> QED BY <2>1 DEF TypeOK
  <1>2. entry'[e].inUse = IF w = "inUse" THEN FALSE ELSE entry[e].inUse
    BY <1>0 DEF TypeOK, Entry
  <1>3. \A q \in Requests \ {e} : entry'[q] = entry[q]
    BY <1>0 DEF TypeOK
  <1>4. \A q \in Requests \ {r} : todo'[q] = todo[q]
    BY DEF TypeOK
  <1>5. \A q \in Requests : Using(q)' => Using(q) /\ (q = r => w # "inUse")
    BY <1>0, <1>4 DEF TypeOK, Using
  <1>6. \A q \in Requests : Using(q) => Using(q)' \/ (q = r /\ w = "inUse")
    BY <1>0, <1>4 DEF TypeOK, Using
  <1>7. ShapeInv' /\ PooledKeyInv' /\ NewbornInv'
    BY DEF ShapeInv, PooledKeyInv, NewbornInv, ReuseOK, Key
  <1>8. HolderMarkedInv'
    <2> SUFFICES ASSUME NEW q \in Requests, Using(q)'
                 PROVE  entry'[pooled[q]].inUse
      BY DEF HolderMarkedInv
    <2>1. Using(q) /\ entry[pooled[q]].inUse /\ pooled[q] \in Requests
      BY <1>5 DEF HolderMarkedInv, Using, TypeOK
    <2>2. CASE pooled[q] = e /\ w = "inUse"
      <3>1. Using(r)
        BY <1>0, <2>2 DEF Using, TypeOK
      <3> QED BY <1>5, <2>1, <2>2, <3>1 DEF ExclusiveUse
    <2> QED BY <1>2, <1>3, <2>1, <2>2
  <1>9. StoppedInv'
    BY <1>0 DEF StoppedInv
  <1>10. EntriesOpen' /\ OpenIsOwned'
    BY DEF EntriesOpen, OpenIsOwned, ReuseOK, Key
  <1>11. ExclusiveUse'
    BY <1>5 DEF ExclusiveUse
  <1>12. InUseHasHolder'
    <2> SUFFICES ASSUME NEW k \in Keys, pool[k] # NoEntry, entry'[pool[k]].inUse
                 PROVE  \E q \in Requests : Using(q)' /\ pooled[q] = pool[k]
      BY DEF InUseHasHolder
    <2>1. pool[k] \in Requests /\ entry[pool[k]].inUse
      BY <1>2, <1>3 DEF TypeOK
    <2>2. PICK q \in Requests : Using(q) /\ pooled[q] = pool[k]
      BY <2>1 DEF InUseHasHolder
    <2> QED BY <1>2, <1>6, <2>2
  <1> QED BY <1>1, <1>7, <1>8, <1>9, <1>10, <1>11, <1>12

\* What closing a set of keys does, whoever closes them.
LEMMA CloseKeysFacts ==
  ASSUME PoolInv, NEW ks \in SUBSET Keys, CloseKeys(ks), job' = job
  PROVE  /\ pool' \in [Keys -> Requests \cup {NoEntry}]
         /\ cli' \in [Requests -> {"none", "open", "closed"}]
         /\ \A k \in Keys : pool'[k] # NoEntry => pool'[k] = pool[k]
         /\ EntriesOpen'
         /\ \A q \in Requests : cli'[q] = "open" =>
              /\ cli[q] = "open"
              /\ ReuseOK(q) /\ pool[Key(q)] = q => pool'[Key(q)] = q
         /\ \A q \in Requests : pc[q] = "put" => cli'[q] = "open"
  <1> USE PoolAssumption DEF PoolInv, CloseKeys
  <1>1. /\ pool' \in [Keys -> Requests \cup {NoEntry}]
        /\ cli' \in [Requests -> {"none", "open", "closed"}]
    BY DEF TypeOK
  <1>2. \A k \in Keys : pool'[k] # NoEntry => pool'[k] = pool[k] /\ k \notin ks
    OBVIOUS
  <1>3. EntriesOpen'
    BY <1>1, <1>2 DEF TypeOK, EntriesOpen, Key
  <1>4. ASSUME NEW q \in Requests, cli'[q] = "open"
        PROVE  cli[q] = "open" /\ (ReuseOK(q) /\ pool[Key(q)] = q => pool'[Key(q)] = q)
    <2>1. cli[q] = "open" /\ \A k \in ks : pool[k] # q
      BY <1>4
    <2>2. ReuseOK(q) => Key(q) \in Keys
      BY DEF TypeOK, Job, ReuseOK, Key, Keys
    <2> QED BY <2>1, <2>2
  <1>5. \A q \in Requests : pc[q] = "put" => cli'[q] = "open"
    BY DEF ShapeInv, NewbornInv
  <1> QED BY <1>1, <1>2, <1>3, <1>4, <1>5

\* The TTL sweep of consumePoolRelease keeps the invariant.
LEMMA ReleaseSweepInv ==
  ASSUME PoolInv, NEW r \in Requests, ReleaseSweep(r)
  PROVE  PoolInv'
  <1> USE PoolAssumption DEF PoolInv, connVars
  <1>0. /\ pc[r] \in {"abandon", "release"} /\ todo[r] = {}
        /\ ~stopped
        /\ ReuseOK(r)
        /\ pc' = [pc EXCEPT ![r] = IF pc[r] = "abandon" THEN "create" ELSE "done"]
        /\ pooled' = [pooled EXCEPT ![r] = NoEntry]
        /\ UNCHANGED <<connVars, now, entry, job, todo>>
        /\ CloseKeys(ExpiredKeys)
    BY DEF ReleaseSweep, At, Alive, Goto, ShapeInv
  <1>1. /\ pool' \in [Keys -> Requests \cup {NoEntry}]
        /\ cli' \in [Requests -> {"none", "open", "closed"}]
        /\ \A k \in Keys : pool'[k] # NoEntry => pool'[k] = pool[k]
        /\ EntriesOpen'
        /\ \A q \in Requests : cli'[q] = "open" =>
             /\ cli[q] = "open"
             /\ ReuseOK(q) /\ pool[Key(q)] = q => pool'[Key(q)] = q
        /\ \A q \in Requests : pc[q] = "put" => cli'[q] = "open"
    BY <1>0, CloseKeysFacts DEF ExpiredKeys
  <1>2. TypeOK'
    BY <1>0, <1>1 DEF TypeOK, PCs
  <1>3. ShapeInv'
    BY <1>0, <1>1 DEF TypeOK, ShapeInv, ReuseOK
  <1>4. PooledKeyInv'
    BY <1>0 DEF TypeOK, PooledKeyInv, ReuseOK, Key
  <1>5. NewbornInv'
    BY <1>0, <1>1 DEF TypeOK, NewbornInv
  <1>6. \A q \in Requests : Using(q)' = Using(q) /\ (Using(q) => pooled'[q] = pooled[q])
    <2>1. ~Using(r) /\ ~Using(r)'
      BY <1>0 DEF TypeOK, Using
    <2>2. \A q \in Requests \ {r} : pc'[q] = pc[q] /\ pooled'[q] = pooled[q]
      BY <1>0 DEF TypeOK
    <2> QED BY <1>0, <2>1, <2>2 DEF Using
  <1>7. HolderMarkedInv'
    BY <1>0, <1>6 DEF HolderMarkedInv
  <1>8. StoppedInv'
    BY <1>0 DEF StoppedInv
  <1>9. ExclusiveUse'
    BY <1>6 DEF ExclusiveUse
  <1>10. InUseHasHolder'
    BY <1>0, <1>1, <1>6 DEF InUseHasHolder
  <1>11. OpenIsOwned'
    BY <1>0, <1>1 DEF TypeOK, OpenIsOwned, ReuseOK, Key
  <1> QED BY <1>1, <1>2, <1>3, <1>4, <1>5, <1>7, <1>8, <1>9, <1>10, <1>11

\* Closing a temporary client keeps the invariant.
LEMMA CloseTemporaryInv ==
  ASSUME PoolInv, NEW r \in Requests, CloseTemporary(r)
  PROVE  PoolInv'
  <1> USE PoolAssumption DEF PoolInv, CloseTemporary, At, Goto, connVars
  <1>0. ~stopped /\ ~ReuseOK(r)
    BY DEF Alive, ShapeInv
  <1>1. TypeOK'
    BY DEF TypeOK, PCs
  <1>2. ShapeInv'
    BY DEF TypeOK, ShapeInv, ReuseOK
  <1>3. PooledKeyInv' /\ NewbornInv'
    BY DEF TypeOK, PooledKeyInv, NewbornInv, ReuseOK, Key
  <1>4. \A q \in Requests : Using(q)' = Using(q)
    BY DEF TypeOK, Using
  <1>5. HolderMarkedInv' /\ ExclusiveUse' /\ InUseHasHolder'
    BY <1>4 DEF HolderMarkedInv, ExclusiveUse, InUseHasHolder
  <1>6. StoppedInv'
    BY <1>0 DEF StoppedInv
  <1>7. EntriesOpen'
    <2>1. \A k \in Keys : pool[k] # r
      BY <1>0, PoolAssumption DEF EntriesOpen, Keys, Key, ReuseOK
    <2> QED BY <2>1 DEF TypeOK, EntriesOpen, Key
  <1>8. OpenIsOwned'
    BY DEF TypeOK, OpenIsOwned, ReuseOK, Key
  <1> QED BY <1>1, <1>2, <1>3, <1>5, <1>6, <1>7, <1>8

\* The steps that change no request, no entry and no key of the pool.
LEMMA ClockAndTableInv ==
  ASSUME PoolInv, UNCHANGED <<stopped, poolVars, reqVars>>,
         conns' \in [Conns -> Nat], gen' \in Nat, now' \in Nat,
         disconnecting' \in [Conns -> Nat]
  PROVE  PoolInv'
  <1> USE DEF PoolInv, poolVars, reqVars
  <1>1. TypeOK'
    BY DEF TypeOK
  <1>2. ShapeInv' /\ PooledKeyInv' /\ NewbornInv' /\ HolderMarkedInv' /\ StoppedInv'
    BY DEF ShapeInv, PooledKeyInv, NewbornInv, HolderMarkedInv, StoppedInv, Using,
           ReuseOK, Key
  <1>3. EntriesOpen' /\ ExclusiveUse' /\ InUseHasHolder' /\ OpenIsOwned'
    BY DEF EntriesOpen, ExclusiveUse, InUseHasHolder, OpenIsOwned, Using,
           ReuseOK, Key
  <1> QED BY <1>1, <1>2, <1>3

\* Disconnect's first half and CloseAll: keys are closed, no request moves.
LEMMA CloseKeysInv ==
  ASSUME PoolInv, NEW ks \in SUBSET Keys, CloseKeys(ks),
         UNCHANGED <<gen, now, entry, reqVars>>,
         conns' \in [Conns -> Nat], disconnecting' \in [Conns -> Nat],
         \/ stopped' = stopped
         \/ stopped' = TRUE /\ ks = Keys /\ Quiet
  PROVE  PoolInv'
  <1> USE PoolAssumption DEF PoolInv, reqVars
  <1>1. /\ pool' \in [Keys -> Requests \cup {NoEntry}]
        /\ cli' \in [Requests -> {"none", "open", "closed"}]
        /\ \A k \in Keys : pool'[k] # NoEntry => pool'[k] = pool[k]
        /\ EntriesOpen'
        /\ \A q \in Requests : cli'[q] = "open" =>
             /\ cli[q] = "open"
             /\ ReuseOK(q) /\ pool[Key(q)] = q => pool'[Key(q)] = q
        /\ \A q \in Requests : pc[q] = "put" => cli'[q] = "open"
    BY CloseKeysFacts
  <1>2. TypeOK'
    BY <1>1 DEF TypeOK
  <1>3. ShapeInv'
    BY <1>1 DEF ShapeInv, ReuseOK
  <1>4. PooledKeyInv' /\ NewbornInv'
    BY <1>1 DEF TypeOK, PooledKeyInv, NewbornInv, ReuseOK, Key
  <1>5. HolderMarkedInv' /\ ExclusiveUse'
    BY DEF HolderMarkedInv, ExclusiveUse, Using
  <1>6. StoppedInv'
    BY <1>1 DEF StoppedInv, CloseKeys, Quiet
  <1>7. InUseHasHolder'
    BY <1>1 DEF InUseHasHolder, Using
  <1>8. OpenIsOwned'
    BY <1>1 DEF OpenIsOwned, ReuseOK, Key
  <1> QED BY <1>1, <1>2, <1>3, <1>4, <1>5, <1>6, <1>7, <1>8

\* Every step keeps the invariant.
LEMMA PoolNext == PoolInv /\ [Next]_vars => PoolInv'
  <1> SUFFICES ASSUME PoolInv, [Next]_vars PROVE PoolInv'
    OBVIOUS
  <1> USE DEF connVars
  <1>1. ASSUME NEW r \in Requests, Step(r) PROVE PoolInv'
    <2>1. CASE LocalStep(r)
      BY <2>1, LocalStepInv
    <2>2. ASSUME NEW w \in Writes, ReleaseWrite(r, w) PROVE PoolInv'
      BY <2>2, ReleaseWriteInv
    <2> QED BY <1>1, <2>1, <2>2, AcquireHitInv, CreateInv, PutInv, ReleaseSweepInv,
               CloseTemporaryInv DEF Step, LocalStep
  <1>2. ASSUME NEW c \in Conns, Connect(c) PROVE PoolInv'
    BY <1>2, ClockAndTableInv DEF PoolInv, TypeOK, Connect
  <1>3. ASSUME NEW c \in Conns, DisconnectPool(c) PROVE PoolInv'
    <2>1. KeysOf(c) \in SUBSET Keys
      BY DEF KeysOf
    <2> QED BY <1>3, <2>1, CloseKeysInv DEF PoolInv, TypeOK, DisconnectPool
  <1>4. ASSUME NEW c \in Conns, DisconnectConn(c) PROVE PoolInv'
    BY <1>4, ClockAndTableInv DEF PoolInv, TypeOK, DisconnectConn
  <1>5. CASE CloseAll
    BY <1>5, CloseKeysInv DEF PoolInv, TypeOK, CloseAll
  <1>6. CASE Tick
    BY <1>6, ClockAndTableInv DEF PoolInv, TypeOK, Tick
  <1>7. CASE UNCHANGED vars
    BY <1>7, ClockAndTableInv DEF PoolInv, TypeOK, vars
  <1> QED BY <1>1, <1>2, <1>3, <1>4, <1>5, <1>6, <1>7 DEF Next

\* The invariant holds in every reachable state of every instance.
THEOREM PoolInvariance == Spec => []PoolInv
  BY PoolInit, PoolNext, PTL DEF Spec

\* Every variable keeps its type (consume_pool.go's entry fields included).
THEOREM PoolTyping == Spec => []TypeOK
  <1>1. PoolInv => TypeOK
    BY DEF PoolInv
  <1> QED BY <1>1, PoolInvariance, PTL

\* Two one-shot consumes never drive the same client at a time, although
\* consumePoolRelease clears inUse without holding the pool lock.
THEOREM PoolExclusion == Spec => []ExclusiveUse
  <1>1. PoolInv => ExclusiveUse
    BY DEF PoolInv
  <1> QED BY <1>1, PoolInvariance, PTL

\* The pool never offers a closed client or one of another connection or shape,
\* and an occupied entry always has a request that will release it.
THEOREM PoolEntriesSound == Spec => []PoolEntriesUsable
  <1>1. PoolInv => PoolEntriesUsable
    BY DEF PoolInv, PoolEntriesUsable
  <1> QED BY <1>1, PoolInvariance, PTL

\* No client is ever left open out of reach of the code that closes it, and
\* CloseAll leaves none open at all.
THEOREM PoolNoLeak == Spec => []NoClientLeak
  <1>1. PoolInv => NoClientLeak
    <2> SUFFICES ASSUME PoolInv PROVE NoClientLeak
      OBVIOUS
    <2>1. ASSUME stopped, NEW r \in Requests PROVE cli[r] # "open"
      <3>1. ReuseOK(r) => Key(r) \in Keys
        BY DEF PoolInv, TypeOK, Job, ReuseOK, Key, Keys
      <3> QED BY <2>1, <3>1, PoolAssumption DEF PoolInv, OpenIsOwned, StoppedInv
    <2> QED BY <2>1 DEF PoolInv, NoClientLeak, ShutdownReleasesAll
  <1> QED BY <1>1, PoolInvariance, PTL

\* Closing keys whose entries are idle disturbs no running consume.
LEMMA IdleKeysSpareBusy ==
  ASSUME PoolInv, NEW r \in Requests, ClosedWhileBusy(r), NEW ks \in SUBSET Keys,
         \A k \in ks : pool[k] # NoEntry => ~entry[pool[k]].inUse
  PROVE  \A k \in ks : pool[k] # pooled[r]
  BY DEF PoolInv, HolderMarkedInv, ClosedWhileBusy, Using

\* Eviction on put and the TTL sweep on release never close the client of a
\* running consume; only a disconnect or a put under the same key does.
THEOREM PoolHousekeeping == Spec => BusySurvivesHousekeeping
  <1>1. ASSUME PoolInv, PoolInv', [Next]_vars PROVE [BusyStep]_vars
    <2> SUFFICES ASSUME Next, NEW r \in Requests, ClosedWhileBusy(r)
                 PROVE  \/ disconnecting'[job[r].conn] # disconnecting[job[r].conn]
                        \/ pool'[Key(r)] \notin {NoEntry, pooled[r]}
      BY <1>1 DEF BusyStep
    <2> DEFINE Goal == \/ disconnecting'[job[r].conn] # disconnecting[job[r].conn]
                       \/ pool'[Key(r)] \notin {NoEntry, pooled[r]}
    <2> USE PoolAssumption
    <2>0. /\ pooled[r] \in Requests /\ cli[pooled[r]] = "open"
          /\ cli'[pooled[r]] = "closed"
          /\ Key(r) \in Keys /\ Key(pooled[r]) = Key(r) /\ ReuseOK(pooled[r])
          /\ pc[r] \notin {"start", "done"}
      BY <1>1 DEF ClosedWhileBusy, Using, PoolInv, TypeOK, PooledKeyInv, Job, Keys, Key,
                  ReuseOK
    <2>1. ASSUME NEW q \in Requests, Step(q), ~Put(q) PROVE cli'[pooled[r]] # "closed"
      <3>1. CASE UNCHANGED cli
        BY <2>0, <3>1
      <3>2. CASE Create(q)
        BY <1>1, <2>0, <3>2 DEF Create, PoolInv, TypeOK
      <3>3. CASE ReleaseSweep(q)
        <4>1. \A k \in ExpiredKeys : pool[k] # pooled[r]
          BY <1>1, IdleKeysSpareBusy DEF ExpiredKeys
        <4> QED BY <2>0, <3>3, <4>1 DEF ReleaseSweep, CloseKeys
      <3>4. CASE CloseTemporary(q)
        <4>1. ~ReuseOK(q)
          BY <1>1, <3>4 DEF PoolInv, ShapeInv, CloseTemporary, At
        <4> QED BY <1>1, <2>0, <3>4, <4>1 DEF CloseTemporary, PoolInv, TypeOK
      <3> QED BY <2>1, <3>1, <3>2, <3>3, <3>4
              DEF Step, AcquireHit, AcquireMiss, ResetStart, ResetFails, ResetDone,
                  CreateFails, PingOk, PingFails, ScanEnds, Finish, ReleaseWrite, poolVars
    <2>2. ASSUME NEW q \in Requests, Put(q) PROVE Goal
      <3>1. PICK victims \in EvictionChoices(Key(q)) :
              /\ pool' = [k \in Keys |-> IF k = Key(q) THEN q
                                         ELSE IF k \in victims THEN NoEntry
                                         ELSE pool[k]]
              /\ cli' = [e \in Requests |->
                           IF \E k \in victims \cup {Key(q)} : pool[k] = e
                           THEN "closed" ELSE cli[e]]
        BY <2>2 DEF Put
      <3>2. victims \in SUBSET Keys /\ \A k \in victims : ~entry[pool[k]].inUse
        BY <3>1 DEF EvictionChoices, IdleKeys
      <3>3. \A k \in victims : pool[k] # pooled[r]
        BY <1>1, <3>2, IdleKeysSpareBusy
      <3>4. pool[Key(q)] = pooled[r]
        BY <2>0, <3>1, <3>3
      <3>5. Key(q) \in Keys
        BY <1>1, <2>2 DEF PoolInv, TypeOK, ShapeInv, Put, At, Job, Keys, Key, ReuseOK
      <3>6. Key(q) = Key(r)
        BY <1>1, <2>0, <3>4, <3>5 DEF PoolInv, EntriesOpen
      <3>7. pooled[r] # q
        BY <1>1, <2>2 DEF PoolInv, NewbornInv, Put, At
      <3> QED BY <3>1, <3>5, <3>6, <3>7
    <2>3. ASSUME NEW c \in Conns, DisconnectPool(c) PROVE Goal
      <3>1. PICK k \in KeysOf(c) : pool[k] = pooled[r]
        BY <2>0, <2>3 DEF DisconnectPool, CloseKeys
      <3>2. k = Key(r)
        BY <1>1, <2>0, <3>1 DEF PoolInv, EntriesOpen, KeysOf
      <3>3. c = job[r].conn
        BY <3>1, <3>2 DEF KeysOf, Key
      <3> QED BY <1>1, <2>3, <3>3 DEF DisconnectPool, PoolInv, TypeOK
    <2>4. CASE CloseAll
      BY <2>0, <2>4 DEF CloseAll, Quiet
    <2>5. ASSUME NEW c \in Conns, Connect(c) \/ DisconnectConn(c) PROVE FALSE
      BY <2>0, <2>5 DEF Connect, DisconnectConn, poolVars
    <2>6. CASE Tick
      BY <2>0, <2>6 DEF Tick, poolVars
    <2> QED BY <2>0, <2>1, <2>2, <2>3, <2>4, <2>5, <2>6 DEF Next
  <1> QED BY <1>1, PoolInvariance, PTL DEF Spec, BusySurvivesHousekeeping
=============================================================================
