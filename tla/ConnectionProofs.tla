--------------------------- MODULE ConnectionProofs ---------------------------
(***************************************************************************)
(* Proofs about connections, what is done over them and the rules without  *)
(* state of MCRules.                                                       *)
(*                                                                         *)
(* AdminOps, for any number of calls, entries, partitions and presets: the *)
(* shared admin client, whose lock and the place of its holder have to be  *)
(* tied together before anything can be said of it; the lag of a group,    *)
(* from three lists read one after the other; and the preset file with its *)
(* temporary files.                                                        *)
(*                                                                         *)
(* ConnectionSetup, for every form, pasted text, target and machine: the   *)
(* run of MCRules varies one group of settings at a time, the theorems     *)
(* cover all combinations.                                                 *)
(*                                                                         *)
(* MessageRules, for every list of time stamps and all counts: the time    *)
(* histogram and the top groups of a digest.  And for every two texts: the *)
(* hunks of the schema diff make the new text of the old one, and the      *)
(* lines they leave alone are a longest common subsequence.                *)
(***************************************************************************)
EXTENDS AdminOps, MCRules, TLAPS, FiniteSetTheorems, SequenceTheorems, WellFoundedInduction

InUse(c) == pc[c] \in {"request", "second"}

\* A call past its lookup has an entry; the holder of a lock is in its requests.
HolderInv ==
  /\ \A c \in Calls : pc[c] = "lock" \/ InUse(c) => entry[c] \in 1 .. made
  /\ \A e \in Entries, c \in Calls : lock[e] = c => InUse(c) /\ entry[c] = e

AdminInv == TypeOK /\ HolderInv /\ ClientOpenInUse /\ LeakOnlyIfRaced

\* Nothing is made, locked or built at the beginning.
LEMMA AdminInit == Init => AdminInv
  BY AdminAssumption, PresetAssumption
  DEF Init, AdminInv, TypeOK, HolderInv, ClientOpenInUse, LeakOnlyIfRaced, Entries, InUse, PCs, None

\* A step that leaves the connections alone moves one call, which neither waits
\* for a lock nor works under one, or leaves it where it is.
LEMMA QuietStep ==
  ASSUME AdminInv, UNCHANGED <<connVars, entry>>, NEW c \in Calls, NEW label \in PCs \ {"lock", "request", "second"},
         ~InUse(c), pc' = [pc EXCEPT ![c] = label]
  PROVE  AdminInv'
  BY DEF AdminInv, TypeOK, HolderInv, ClientOpenInUse, LeakOnlyIfRaced, InUse, connVars, PCs

\* So does one in which a call under its lock goes on to its second request.
LEMMA SecondRequest ==
  ASSUME AdminInv, UNCHANGED <<connVars, entry>>, NEW c \in Calls, InUse(c),
         pc' = [pc EXCEPT ![c] = "second"] \/ pc' = pc
  PROVE  AdminInv'
  BY DEF AdminInv, TypeOK, HolderInv, ClientOpenInUse, LeakOnlyIfRaced, InUse, connVars, PCs

\* The entry of a call that is in its requests or about to be.
LEMMA EntryRange ==
  ASSUME AdminInv, NEW c \in Calls, pc[c] = "lock" \/ InUse(c)
  PROVE  entry[c] \in 1 .. made /\ entry[c] \in Entries
  <1>1. entry[c] \in 1 .. made
    BY DEF AdminInv, HolderInv
  <1>2. made \in 0 .. MaxEntries /\ MaxEntries \in Nat
    BY AdminAssumption DEF AdminInv, TypeOK
  <1> QED BY <1>1, <1>2 DEF Entries

\* The end of a callback gives the lock back.
LEMMA FinishStep ==
  ASSUME AdminInv, NEW c \in Calls, NEW r, InUse(c), Finish(c, r)
  PROVE  AdminInv'
  <1>1. entry[c] \in 1 .. made /\ entry[c] \in Entries /\ lock[entry[c]] = c
    BY EntryRange DEF AdminInv, ClientOpenInUse, InUse
  <1>2. /\ pc' = [pc EXCEPT ![c] = "done"]
        /\ lock' = [lock EXCEPT ![entry[c]] = None]
        /\ entry' = [entry EXCEPT ![c] = 0]
        /\ UNCHANGED <<table, made, client, toClose, late>>
    BY DEF Finish, Goto
  <1>3. TypeOK'
    BY <1>1, <1>2 DEF AdminInv, TypeOK, PCs
  <1>4. HolderInv'
    BY <1>1, <1>2, PresetAssumption DEF AdminInv, TypeOK, HolderInv, InUse, None
  <1>5. ClientOpenInUse'
    <2> SUFFICES ASSUME NEW d \in Calls, (InUse(d))' PROVE (lock[entry[d]] = d /\ client[entry[d]])'
      BY DEF ClientOpenInUse, InUse
    <2>1. d # c /\ InUse(d) /\ entry'[d] = entry[d]
      BY <1>2 DEF AdminInv, TypeOK, InUse
    <2>2. lock[entry[d]] = d /\ client[entry[d]] /\ entry[d] \in Entries
      BY <2>1, EntryRange DEF AdminInv, ClientOpenInUse, InUse
    <2>3. entry[d] # entry[c]
      BY <1>1, <2>1, <2>2
    <2> QED BY <1>1, <1>2, <2>1, <2>2, <2>3 DEF AdminInv, TypeOK
  <1>6. LeakOnlyIfRaced'
    BY <1>2 DEF AdminInv, LeakOnlyIfRaced
  <1> QED BY <1>3, <1>4, <1>5, <1>6 DEF AdminInv

\* withAdmin with a free lock: the caller becomes its holder, and whoever worked
\* under a lock before works on another entry.
LEMMA LockStep ==
  ASSUME AdminInv, NEW c \in Calls, Lock(c)
  PROVE  AdminInv'
  <1>1. entry[c] \in 1 .. made /\ entry[c] \in Entries /\ pc[c] = "lock" /\ lock[entry[c]] = None
    BY EntryRange DEF Lock
  <1>2. /\ pc' = [pc EXCEPT ![c] = "request"]
        /\ lock' = [lock EXCEPT ![entry[c]] = c]
        /\ client' = [client EXCEPT ![entry[c]] = TRUE]
        /\ late' = [late EXCEPT ![entry[c]] = @ \/ (entry[c] # table /\ entry[c] \notin toClose)]
        /\ UNCHANGED <<table, made, toClose, entry>>
    BY DEF Lock, Goto
  <1>3. TypeOK'
    <2>1. client' \in [Entries -> BOOLEAN] /\ late' \in [Entries -> BOOLEAN]
      BY <1>1, <1>2 DEF AdminInv, TypeOK
    <2> QED BY <1>1, <1>2, <2>1 DEF AdminInv, TypeOK, PCs
  <1>4. HolderInv'
    BY <1>1, <1>2 DEF AdminInv, TypeOK, HolderInv, InUse
  <1>5. ClientOpenInUse'
    <2> SUFFICES ASSUME NEW d \in Calls, (InUse(d))' PROVE (lock[entry[d]] = d /\ client[entry[d]])'
      BY DEF ClientOpenInUse, InUse
    <2>1. CASE d = c
      BY <1>1, <1>2, <2>1 DEF AdminInv, TypeOK
    <2>2. CASE d # c
      <3>1. InUse(d)
        BY <1>2, <2>2 DEF AdminInv, TypeOK, InUse
      <3>2. lock[entry[d]] = d /\ client[entry[d]] /\ entry[d] \in Entries
        BY <3>1, EntryRange DEF AdminInv, ClientOpenInUse, InUse
      <3>3. entry[d] # entry[c]
        BY <1>1, <3>2, PresetAssumption
      <3> QED BY <1>1, <1>2, <3>2, <3>3 DEF AdminInv, TypeOK
    <2> QED BY <2>1, <2>2
  <1>6. LeakOnlyIfRaced'
    <2> SUFFICES ASSUME NEW e \in Entries, client'[e], ~late'[e] PROVE e = table \/ e \in toClose
      BY <1>2 DEF LeakOnlyIfRaced
    <2>1. CASE e = entry[c]
      <3>1. late'[e] = (late[e] \/ (e # table /\ e \notin toClose))
        BY <1>1, <1>2, <2>1 DEF AdminInv, TypeOK
      <3> QED BY <3>1
    <2>2. CASE e # entry[c]
      BY <1>1, <1>2, <2>2 DEF AdminInv, TypeOK, LeakOnlyIfRaced
    <2> QED BY <2>1, <2>2
  <1> QED BY <1>3, <1>4, <1>5, <1>6 DEF AdminInv

\* lookup: the entry in the table is one that was made.
LEMMA LookupStep ==
  ASSUME AdminInv, NEW c \in Calls, Lookup(c)
  PROVE  AdminInv'
  <1>1. /\ pc[c] = "lookup" /\ entry' = [entry EXCEPT ![c] = table]
        /\ pc' = [pc EXCEPT ![c] = IF table = 0 THEN "done" ELSE "lock"]
        /\ UNCHANGED connVars
    BY DEF Lookup, Goto
  <1>2. TypeOK'
    BY <1>1 DEF AdminInv, TypeOK, PCs, connVars
  <1>3. HolderInv'
    BY <1>1 DEF AdminInv, TypeOK, HolderInv, InUse, connVars
  <1>4. ClientOpenInUse' /\ LeakOnlyIfRaced'
    BY <1>1 DEF AdminInv, TypeOK, ClientOpenInUse, LeakOnlyIfRaced, connVars
  <1> QED BY <1>2, <1>3, <1>4 DEF AdminInv

\* Connect and Disconnect leave the entry they take out of the table to be
\* closed; nobody has the new entry yet.
LEMMA TableStep ==
  ASSUME AdminInv, Connect \/ Disconnect
  PROVE  AdminInv'
  <1>1. /\ made \in 0 .. MaxEntries /\ table \in 0 .. made /\ MaxEntries \in Nat
        /\ toClose \subseteq 1 .. made
    BY AdminAssumption DEF AdminInv, TypeOK
  <1>2. /\ UNCHANGED <<client, lock, late, pc, entry>>
        /\ made' \in made .. MaxEntries /\ table' \in 0 .. made'
        /\ toClose' = IF table = 0 THEN toClose ELSE toClose \cup {table}
    BY <1>1 DEF Connect, Disconnect, callVars
  <1>3. TypeOK'
    <2>1. toClose' \subseteq 1 .. made'
      BY <1>1, <1>2
    <2>2. entry' \in [Calls -> 0 .. made']
      BY <1>1, <1>2 DEF AdminInv, TypeOK
    <2> QED BY <1>1, <1>2, <2>1, <2>2 DEF AdminInv, TypeOK
  <1>4. HolderInv'
    BY <1>1, <1>2 DEF AdminInv, HolderInv, InUse
  <1>5. ClientOpenInUse'
    BY <1>2 DEF AdminInv, ClientOpenInUse
  <1>6. LeakOnlyIfRaced'
    BY <1>1, <1>2 DEF AdminInv, LeakOnlyIfRaced, Entries
  <1> QED BY <1>3, <1>4, <1>5, <1>6 DEF AdminInv

\* closeLocked with a free lock, of an entry whose closing this ends.
LEMMA CloseStep ==
  ASSUME AdminInv, NEW e \in Entries, lock[e] = None,
         client' = [client EXCEPT ![e] = FALSE],
         table' = table \/ (table' = 0 /\ table = e),
         toClose' \in {toClose, toClose \ {e}},
         UNCHANGED <<made, lock, late, pc, entry>>
  PROVE  AdminInv'
  <1>1. TypeOK'
    BY DEF AdminInv, TypeOK
  <1>2. HolderInv'
    BY DEF AdminInv, HolderInv, InUse
  <1>3. ClientOpenInUse'
    <2> SUFFICES ASSUME NEW d \in Calls, InUse(d) PROVE lock[entry[d]] = d /\ client'[entry[d]]
      BY DEF ClientOpenInUse, InUse
    <2>1. lock[entry[d]] = d /\ client[entry[d]] /\ entry[d] \in Entries
      BY EntryRange DEF AdminInv, ClientOpenInUse, InUse
    <2>2. entry[d] # e
      BY <2>1, PresetAssumption
    <2> QED BY <2>1, <2>2 DEF AdminInv, TypeOK
  <1>4. LeakOnlyIfRaced'
    BY DEF AdminInv, TypeOK, LeakOnlyIfRaced
  <1> QED BY <1>1, <1>2, <1>3, <1>4 DEF AdminInv

\* CloseAll comes after every call, so nobody holds the lock.
LEMMA CloseAllStep ==
  ASSUME AdminInv, CloseAll
  PROVE  AdminInv'
  <1>1. UNCHANGED <<made, lock, toClose, late, pc, entry>> /\ table' = 0
    BY DEF CloseAll, callVars
  <1>2. CASE table = 0
    BY <1>1, <1>2 DEF CloseAll, AdminInv, TypeOK, HolderInv, ClientOpenInUse, LeakOnlyIfRaced, InUse
  <1>3. CASE table # 0
    <2>1. table \in Entries
      BY <1>3, AdminAssumption DEF AdminInv, TypeOK, Entries
    <2>2. lock[table] = None
      BY <2>1 DEF CloseAll, AdminInv, TypeOK, HolderInv, InUse
    <2>3. client' = [client EXCEPT ![table] = FALSE]
      BY <1>3 DEF CloseAll, closeLocked
    <2> QED BY <1>1, <2>1, <2>2, <2>3, CloseStep
  <1> QED BY <1>2, <1>3

\* Every step of a management call.
LEMMA AdminStepInv ==
  ASSUME AdminInv, NEW c \in Calls, AdminStep(c)
  PROVE  AdminInv'
  <1>1. CASE Gate(c)
    <2>1. \E label \in {"lookup", "done"} : pc' = [pc EXCEPT ![c] = label]
      BY <1>1 DEF Gate, Goto
    <2> QED BY <1>1, <2>1, QuietStep DEF Gate, InUse, PCs
  <1>2. CASE Lookup(c)
    BY <1>2, LookupStep
  <1>3. CASE Lock(c)
    BY <1>3, LockStep
  <1>4. CASE LockFails(c)
    <2>1. /\ pc[c] = "lock" /\ pc' = [pc EXCEPT ![c] = "done"]
          /\ UNCHANGED <<table, made, client, lock, toClose, late, entry>>
      BY <1>4 DEF LockFails, Goto
    <2> QED BY <2>1 DEF AdminInv, TypeOK, HolderInv, ClientOpenInUse, LeakOnlyIfRaced, InUse, PCs
  <1>5. CASE Request(c)
    <2>1. CASE todo[c] > 1
      BY <1>5, <2>1, SecondRequest DEF Request, InUse
    <2>2. CASE ~(todo[c] > 1)
      BY <1>5, <2>2, FinishStep DEF Request, InUse
    <2> QED BY <2>1, <2>2
  <1>6. CASE RequestFails(c)
    BY <1>6, FinishStep DEF RequestFails, InUse
  <1>7. CASE ListTargets(c)
    BY <1>7, SecondRequest DEF ListTargets, InUse, Goto
  <1>8. CASE CommitTargets(c)
    <2>1. PICK accepted \in SUBSET Parts : Finish(c, offsetResetRows(accepted))
      BY <1>8 DEF CommitTargets
    <2> QED BY <1>8, <2>1, FinishStep DEF CommitTargets, InUse
  <1>9. CASE DeleteRecords(c)
    BY <1>9, FinishStep DEF DeleteRecords, InUse
  <1>10. CASE FetchOffsets(c)
    BY <1>10, SecondRequest DEF FetchOffsets, InUse, Goto
  <1>11. CASE ListEnds(c)
    BY <1>11, FinishStep DEF ListEnds, InUse
  <1> QED BY <1>1, <1>2, <1>3, <1>4, <1>5, <1>6, <1>7, <1>8, <1>9, <1>10, <1>11 DEF AdminStep

\* Preset calls have no entry and no lock.
LEMMA PresetStepInv ==
  ASSUME AdminInv, NEW c \in Calls, PresetStep(c)
  PROVE  AdminInv'
  <1>1. /\ UNCHANGED <<connVars, entry>> /\ ~InUse(c)
        /\ \E label \in {"done", "open", "write", "rename", "remove"} : pc' = [pc EXCEPT ![c] = label]
    <2>1. CASE LoadPresets(c)
      BY <2>1 DEF LoadPresets, Goto, InUse
    <2>2. CASE Open(c) \/ Write(c) \/ WriteFails(c) \/ Rename(c) \/ RenameFails(c) \/ RemoveTmp(c)
      BY <2>2 DEF Open, Write, WriteFails, Rename, RenameFails, RemoveTmp, Forget, Goto, InUse, callVars
    <2>3. LoadPresets(c) \/ (Open(c) \/ Write(c) \/ WriteFails(c) \/ Rename(c) \/ RenameFails(c) \/ RemoveTmp(c))
      BY DEF PresetStep
    <2> QED BY <2>1, <2>2, <2>3
  <1> QED BY <1>1, QuietStep DEF PCs

\* The invariant is inductive.
LEMMA AdminNext == AdminInv /\ [Next]_vars => AdminInv'
  <1> SUFFICES ASSUME AdminInv, [Next]_vars PROVE AdminInv'
    OBVIOUS
  <1>1. CASE \E c \in Calls : AdminStep(c) \/ PresetStep(c)
    BY <1>1, AdminStepInv, PresetStepInv
  <1>2. CASE Connect \/ Disconnect
    BY <1>2, TableStep
  <1>3. CASE \E e \in Entries : CloseOld(e)
    <2>1. PICK e \in Entries : CloseOld(e)
      BY <1>3
    <2>2. /\ lock[e] = None /\ client' = [client EXCEPT ![e] = FALSE]
          /\ table' = table /\ toClose' \in {toClose, toClose \ {e}}
          /\ UNCHANGED <<made, lock, late, pc, entry>>
      BY <2>1 DEF CloseOld, closeLocked, callVars
    <2> QED BY <2>1, <2>2, CloseStep
  <1>4. CASE CloseAll
    BY <1>4, CloseAllStep
  <1>5. CASE \E p \in Parts : Produced(p) \/ Consumed(p)
    <2>1. UNCHANGED <<table, made, client, lock, toClose, late, pc, entry>>
      BY <1>5 DEF Produced, Consumed, connVars, callVars
    <2> QED BY <2>1 DEF AdminInv, TypeOK, HolderInv, ClientOpenInUse, LeakOnlyIfRaced, InUse
  <1>6. CASE UNCHANGED vars
    BY <1>6 DEF vars, connVars, callVars, AdminInv, TypeOK, HolderInv, ClientOpenInUse, LeakOnlyIfRaced, InUse
  <1> QED BY <1>1, <1>2, <1>3, <1>4, <1>5, <1>6 DEF Next

\* The invariant holds for any number of calls and replaced connections.
THEOREM AdminInvariance == Spec => []AdminInv
  BY AdminInit, AdminNext, PTL DEF Spec

\* The variables of connections and calls keep their types.
THEOREM AdminTyping == Spec => []TypeOK
  <1>1. AdminInv => TypeOK
    BY DEF AdminInv
  <1> QED BY <1>1, AdminInvariance, PTL

\* withAdmin: a call in its requests has the lock and an open client.
THEOREM AdminClientOpen == Spec => []ClientOpenInUse
  <1>1. AdminInv => ClientOpenInUse
    BY DEF AdminInv
  <1> QED BY <1>1, AdminInvariance, PTL

\* closeLocked: only a client built on a closed entry is ever left behind.
THEOREM AdminNoLeak == Spec => []LeakOnlyIfRaced
  <1>1. AdminInv => LeakOnlyIfRaced
    BY DEF AdminInv
  <1> QED BY <1>1, AdminInvariance, PTL
-----------------------------------------------------------------------------
\* The lag of a group.

\* Types of the cluster's offsets and of what a call keeps of them.
OffsetTypes ==
  /\ end \in [Parts -> Nat] /\ committed \in [Parts -> Int]
  /\ goal \in [Calls -> [Parts -> Int]]
  /\ backlog \in [Calls -> [Parts -> Int]] /\ lag \in [Calls -> [Parts -> Int]]
  /\ rowError \in [Calls -> SUBSET Parts] /\ unlisted \in [Calls -> SUBSET Parts]

\* A call that has read the committed offsets will answer at least the backlog
\* there was then where it gets the end: end offsets only grow, and a committed
\* offset that came with an error counts as none.  One that has not answered has
\* no lag.
LagInv ==
  /\ OffsetTypes
  /\ \A c \in Calls : pc[c] = "second" /\ op[c] = "lag" =>
       \A p \in Parts : backlog[c][p] <= groupLag(end[p], goal[c][p])
  /\ \A c \in Calls : pc[c] # "done" => lag[c] = NoOffsets
  /\ LagNotUnderstated

\* Nothing is read at the beginning.
LEMMA LagInit == Init => LagInv
  BY DEF Init, LagInv, OffsetTypes, LagNotUnderstated, NoOffsets

\* groupLag grows with the end offset.
LEMMA LagMonotone ==
  ASSUME NEW e \in Nat, NEW f \in Nat, e <= f, NEW at \in Int
  PROVE  groupLag(e, at) \in Int /\ groupLag(e, at) <= groupLag(f, at)
  BY DEF groupLag

\* A step that leaves what was read and answered alone, does not take end offsets
\* back and does not take a call to the second request of a lag.
LEMMA LagQuiet ==
  ASSUME LagInv, OffsetTypes', UNCHANGED lagVars, \A p \in Parts : end[p] <= end'[p],
         \A c \in Calls : /\ pc'[c] = "second" /\ op'[c] = "lag" =>
                               pc[c] = "second" /\ op[c] = "lag" /\ goal'[c] = goal[c]
                          /\ pc'[c] # "done" => pc[c] # "done"
  PROVE  LagInv'
  <1>0. UNCHANGED <<backlog, lag, rowError, unlisted>>
    BY DEF lagVars
  <1>1. ASSUME NEW c \in Calls, pc'[c] = "second", op'[c] = "lag", NEW p \in Parts
        PROVE  backlog'[c][p] <= groupLag(end'[p], goal'[c][p])
    <2>1. backlog[c][p] <= groupLag(end[p], goal[c][p]) /\ goal'[c] = goal[c]
      BY <1>1 DEF LagInv
    <2>2. end[p] \in Nat /\ end'[p] \in Nat /\ goal[c][p] \in Int /\ backlog[c][p] \in Int
      BY DEF LagInv, OffsetTypes
    <2>3. /\ groupLag(end[p], goal[c][p]) \in Int
          /\ groupLag(end[p], goal[c][p]) <= groupLag(end'[p], goal[c][p])
      BY <2>2, LagMonotone
    <2>4. groupLag(end'[p], goal[c][p]) \in Int
      BY <2>2, LagMonotone
    <2> QED BY <1>0, <2>1, <2>2, <2>3, <2>4
  <1>2. \A c \in Calls : pc'[c] # "done" => lag'[c] = NoOffsets'
    BY <1>0 DEF LagInv, NoOffsets
  <1>3. LagNotUnderstated'
    BY <1>0 DEF LagInv, LagNotUnderstated
  <1> QED BY <1>1, <1>2, <1>3 DEF LagInv, groupLag

\* The end of a callback that is not a lag's.
LEMMA LagFinish ==
  ASSUME LagInv, pc \in [Calls -> PCs], NEW c \in Calls, NEW r, Finish(c, r), UNCHANGED <<lagVars, end>>,
         committed' \in [Parts -> Int]
  PROVE  LagInv'
  <1>1. /\ pc' = [pc EXCEPT ![c] = "done"] /\ op' = op
        /\ goal' = [goal EXCEPT ![c] = NoOffsets]
    BY DEF Finish, Goto
  <1>2. goal' \in [Calls -> [Parts -> Int]] /\ \A d \in Calls \ {c} : goal'[d] = goal[d]
    BY <1>1 DEF LagInv, OffsetTypes, NoOffsets
  <1>3. OffsetTypes'
    BY <1>2 DEF LagInv, OffsetTypes, lagVars
  <1>4. \A d \in Calls : pc'[d] # "done" => d # c /\ pc'[d] = pc[d]
    BY <1>1
  <1>5. \A p \in Parts : end[p] <= end'[p]
    BY DEF LagInv, OffsetTypes
  <1> QED BY <1>1, <1>2, <1>3, <1>4, <1>5, LagQuiet

\* Every step of a management call.
LEMMA LagAdminStep ==
  ASSUME LagInv, TypeOK, NEW c \in Calls, AdminStep(c)
  PROVE  LagInv'
  <1>1. /\ pc \in [Calls -> PCs] /\ OffsetTypes
        /\ \A p \in Parts : end[p] <= end[p]
    BY DEF TypeOK, LagInv, OffsetTypes
  <1>2. CASE Gate(c)
    <2>1. PICK o \in AdminOp, label \in {"lookup", "done"} :
            op' = [op EXCEPT ![c] = o] /\ pc' = [pc EXCEPT ![c] = label]
      BY <1>2 DEF Gate, Goto
    <2>2. /\ pc[c] = "idle"
          /\ UNCHANGED <<goal, lagVars, end, committed>>
      BY <1>2 DEF Gate, cluster
    <2>3. \A d \in Calls : /\ pc'[d] = "second" => d # c
                           /\ pc'[d] # "done" => pc[d] # "done"
      BY <1>1, <2>1, <2>2
    <2>4. \A d \in Calls : d # c => pc'[d] = pc[d] /\ op'[d] = op[d]
      BY <1>1, <2>1
    <2>5. OffsetTypes'
      BY <1>1, <2>2 DEF OffsetTypes, lagVars
    <2> QED BY <1>1, <2>2, <2>3, <2>4, <2>5, LagQuiet
  <1>3. CASE Lookup(c) \/ Lock(c) \/ LockFails(c)
    <2>1. /\ \E label \in {"done", "lock", "request"} : pc' = [pc EXCEPT ![c] = label]
          /\ pc[c] \in {"lookup", "lock"}
          /\ UNCHANGED <<op, goal, lagVars, end, committed>>
      BY <1>3 DEF Lookup, Lock, LockFails, Goto, cluster
    <2>2. \A d \in Calls : /\ pc'[d] = "second" => pc[d] = "second"
                           /\ pc'[d] # "done" => pc[d] # "done"
      BY <1>1, <2>1
    <2>3. OffsetTypes'
      BY <1>1, <2>1 DEF OffsetTypes, lagVars
    <2> QED BY <1>1, <2>1, <2>2, <2>3, LagQuiet
  <1>4. CASE Request(c)
    <2>1. CASE todo[c] > 1
      <3>1. UNCHANGED <<pc, op, goal, lagVars, end, committed>>
        BY <1>4, <2>1 DEF Request, cluster
      <3>2. OffsetTypes'
        BY <1>1, <3>1 DEF OffsetTypes, lagVars
      <3> QED BY <1>1, <3>1, <3>2, LagQuiet
    <2>2. CASE ~(todo[c] > 1)
      <3>1. Finish(c, "success") /\ UNCHANGED <<lagVars, end, committed>>
        BY <1>4, <2>2 DEF Request, cluster
      <3> QED BY <1>1, <3>1, LagFinish DEF OffsetTypes
    <2> QED BY <2>1, <2>2
  <1>5. CASE RequestFails(c)
    <2>1. Finish(c, "error") /\ UNCHANGED <<lagVars, end, committed>>
      BY <1>5 DEF RequestFails, cluster
    <2> QED BY <1>1, <2>1, LagFinish DEF OffsetTypes
  <1>6. CASE ListTargets(c)
    <2>1. PICK at \in [Parts -> Int] : goal' = [goal EXCEPT ![c] = at]
      <3>1. end \in [Parts -> Int] /\ [Parts -> 0 .. MaxEnd] \subseteq [Parts -> Int]
        BY <1>1, AdminAssumption DEF OffsetTypes
      <3> QED BY <1>6, <3>1 DEF ListTargets
    <2>2. /\ pc' = [pc EXCEPT ![c] = "second"] /\ pc[c] = "request" /\ op[c] # "lag"
          /\ UNCHANGED <<op, lagVars, end, committed>>
      BY <1>6 DEF ListTargets, Goto, cluster
    <2>3. OffsetTypes' /\ \A d \in Calls \ {c} : goal'[d] = goal[d]
      BY <1>1, <2>1, <2>2 DEF OffsetTypes, lagVars
    <2>4. \A d \in Calls : d # c => pc'[d] = pc[d]
      BY <1>1, <2>2
    <2> QED BY <1>1, <2>2, <2>3, <2>4, LagQuiet
  <1>7. CASE CommitTargets(c)
    <2>1. PICK accepted \in SUBSET Parts :
            /\ committed' = [p \in Parts |-> IF p \in accepted THEN goal[c][p] ELSE committed[p]]
            /\ Finish(c, offsetResetRows(accepted))
      BY <1>7 DEF CommitTargets
    <2>2. committed' \in [Parts -> Int]
      BY <1>1, <2>1 DEF OffsetTypes
    <2>3. UNCHANGED <<lagVars, end>>
      BY <1>7 DEF CommitTargets
    <2> QED BY <1>1, <2>1, <2>2, <2>3, LagFinish
  <1>8. CASE DeleteRecords(c)
    <2>1. Finish(c, "success") /\ UNCHANGED <<lagVars, end, committed>>
      BY <1>8 DEF DeleteRecords
    <2> QED BY <1>1, <2>1, LagFinish DEF OffsetTypes
  <1>9. CASE FetchOffsets(c)
    <2> DEFINE now == [p \in Parts |-> groupLag(end[p], committed[p])]
               read(failed) == [p \in Parts |-> IF p \in failed THEN -1 ELSE committed[p]]
    <2>1. /\ pc[c] = "request" /\ pc' = [pc EXCEPT ![c] = "second"]
          /\ backlog' = [backlog EXCEPT ![c] = now]
          /\ UNCHANGED <<op, lag, unlisted, end, committed>>
      BY <1>9 DEF FetchOffsets, Goto, cluster
    <2>2. PICK failed \in SUBSET Parts : /\ goal' = [goal EXCEPT ![c] = read(failed)]
                                         /\ rowError' = [rowError EXCEPT ![c] = failed]
      BY <1>9 DEF FetchOffsets
    <2> DEFINE at == read(failed)
    <2>3. /\ now \in [Parts -> Int] /\ at \in [Parts -> Int]
          /\ \A p \in Parts : now[p] <= groupLag(end[p], at[p])
      <3>1. \A p \in Parts : end[p] \in Nat /\ committed[p] \in Int
        BY <1>1 DEF OffsetTypes
      <3>2. now \in [Parts -> Int] /\ at \in [Parts -> Int]
        BY <3>1, LagMonotone
      <3>3. ASSUME NEW p \in Parts PROVE now[p] <= groupLag(end[p], at[p])
        BY <3>1 DEF groupLag
      <3> QED BY <3>2, <3>3
    <2>4. goal' = [goal EXCEPT ![c] = at]
      BY <2>2
    <2> HIDE DEF now, at, read
    <2>5. OffsetTypes'
      BY <1>1, <2>1, <2>2, <2>3, <2>4 DEF OffsetTypes
    <2>6. /\ goal'[c] = at /\ backlog'[c] = now
          /\ \A d \in Calls \ {c} : /\ goal'[d] = goal[d] /\ backlog'[d] = backlog[d] /\ pc'[d] = pc[d]
                                    /\ rowError'[d] = rowError[d]
      BY <1>1, <2>1, <2>2, <2>4 DEF OffsetTypes
    <2>7. \A d \in Calls : pc'[d] = "second" /\ op'[d] = "lag" =>
            \A p \in Parts : backlog'[d][p] <= groupLag(end[p], goal'[d][p])
      BY <2>1, <2>3, <2>6 DEF LagInv
    <2>8. \A d \in Calls : pc'[d] # "done" => lag[d] = NoOffsets
      BY <2>1, <2>6 DEF LagInv
    <2>9. LagNotUnderstated'
      <3>1. lag[c] = NoOffsets
        BY <2>1 DEF LagInv
      <3>2. \A p \in Parts : lag[c][p] = -1
        BY <3>1 DEF NoOffsets
      <3> QED BY <2>1, <2>6, <3>2 DEF LagInv, LagNotUnderstated
    <2> QED BY <2>1, <2>5, <2>7, <2>8, <2>9 DEF LagInv, groupLag, NoOffsets
  <1>10. CASE ListEnds(c)
    <2>1. /\ pc[c] = "second" /\ op[c] = "lag" /\ pc' = [pc EXCEPT ![c] = "done"]
          /\ goal' = [goal EXCEPT ![c] = NoOffsets]
          /\ UNCHANGED <<op, backlog, end, committed>>
      BY <1>10 DEF ListEnds, Finish, Goto, cluster
    <2>2. PICK listed \in SUBSET Parts, failed \in SUBSET Parts, noStart \in SUBSET Parts :
            /\ lag' = [lag EXCEPT ![c] = groupOffsetRows(c, listed)]
            /\ rowError' = [rowError EXCEPT ![c] = @ \cup failed \cup noStart]
            /\ unlisted' = [unlisted EXCEPT ![c] = Parts \ (listed \cup failed)]
      BY <1>10 DEF ListEnds
    <2> DEFINE rows == groupOffsetRows(c, listed)
               errors == rowError[c] \cup failed \cup noStart
               absent == Parts \ (listed \cup failed)
    <2>3. rows \in [Parts -> Int] /\ \A p \in listed : backlog[c][p] <= rows[p]
      <3>1. \A p \in Parts : end[p] \in Nat /\ goal[c][p] \in Int
        BY <1>1 DEF OffsetTypes
      <3>2. \A p \in Parts : /\ groupLag(end[p], goal[c][p]) \in Int /\ groupLag(0, goal[c][p]) \in Int
                             /\ backlog[c][p] <= groupLag(end[p], goal[c][p])
        BY <2>1, <3>1, LagMonotone DEF LagInv
      <3> QED BY <3>2 DEF groupOffsetRows
    <2>4. errors \in SUBSET Parts /\ absent \in SUBSET Parts /\ failed \subseteq errors
      BY <1>1 DEF OffsetTypes
    <2>5. lag' = [lag EXCEPT ![c] = rows] /\ rowError' = [rowError EXCEPT ![c] = errors] /\ unlisted' = [unlisted EXCEPT ![c] = absent]
      BY <2>2
    <2>6. \A p \in Parts : p \in listed \/ p \in errors \/ p \in absent
      OBVIOUS
    <2> HIDE DEF rows, errors, absent
    <2>7. OffsetTypes'
      BY <1>1, <2>1, <2>3, <2>4, <2>5 DEF OffsetTypes, NoOffsets
    <2>8. /\ lag'[c] = rows /\ rowError'[c] = errors /\ unlisted'[c] = absent
          /\ \A d \in Calls \ {c} : /\ goal'[d] = goal[d] /\ lag'[d] = lag[d] /\ pc'[d] = pc[d]
                                    /\ rowError'[d] = rowError[d] /\ unlisted'[d] = unlisted[d]
          /\ pc'[c] = "done"
      BY <1>1, <2>1, <2>5 DEF OffsetTypes
    <2>9. \A d \in Calls : pc'[d] = "second" /\ op[d] = "lag" =>
            \A p \in Parts : backlog[d][p] <= groupLag(end[p], goal'[d][p])
      BY <2>8 DEF LagInv
    <2>10. \A d \in Calls : pc'[d] # "done" => lag'[d] = NoOffsets
      BY <2>8 DEF LagInv
    <2>11. LagNotUnderstated'
      <3>1. SUFFICES ASSUME NEW d \in Calls, NEW p \in Parts, lag'[d][p] # -1, lag'[d][p] < backlog[d][p]
                     PROVE  p \in rowError'[d] \cup unlisted'[d]
        BY <2>1 DEF LagNotUnderstated
      <3>2. CASE d = c
        <4>1. rows[p] \in Int /\ backlog[c][p] \in Int /\ rows[p] < backlog[c][p]
          BY <1>1, <2>3, <2>8, <3>1, <3>2 DEF OffsetTypes
        <4>2. p \notin listed
          BY <2>3, <4>1
        <4> QED BY <2>6, <2>8, <3>2, <4>2
      <3>3. CASE d # c
        BY <2>8, <3>1, <3>3 DEF LagInv, LagNotUnderstated
      <3> QED BY <3>2, <3>3
    <2> QED BY <2>1, <2>7, <2>9, <2>10, <2>11 DEF LagInv, groupLag, NoOffsets
  <1> QED BY <1>2, <1>3, <1>4, <1>5, <1>6, <1>7, <1>8, <1>9, <1>10 DEF AdminStep

\* Nothing else answers a lag, and producers only add records.
LEMMA LagNext == LagInv /\ AdminInv /\ [Next]_vars => LagInv'
  <1> SUFFICES ASSUME LagInv, AdminInv, [Next]_vars PROVE LagInv'
    OBVIOUS
  <1>1. TypeOK /\ pc \in [Calls -> PCs] /\ OffsetTypes /\ \A p \in Parts : end[p] <= end[p]
    BY DEF AdminInv, TypeOK, LagInv, OffsetTypes
  <1>2. CASE \E c \in Calls : AdminStep(c)
    BY <1>1, <1>2, LagAdminStep
  <1>3. CASE \E c \in Calls : PresetStep(c)
    <2>1. PICK c \in Calls : PresetStep(c)
      BY <1>3
    <2>2. /\ UNCHANGED <<goal, lagVars, end, committed>> /\ pc[c] # "done"
          /\ \E label \in {"done", "open", "write", "rename", "remove"} : pc' = [pc EXCEPT ![c] = label]
          /\ \A d \in Calls \ {c} : op'[d] = op[d]
      <3>1. CASE LoadPresets(c)
        <4>1. \E o \in PresetOp : op' = [op EXCEPT ![c] = o]
          BY <3>1 DEF LoadPresets
        <4>2. \A d \in Calls \ {c} : op'[d] = op[d]
          BY <4>1
        <4> QED BY <3>1, <4>2 DEF LoadPresets, Goto, cluster
      <3>2. CASE Open(c) \/ Write(c) \/ WriteFails(c) \/ Rename(c) \/ RenameFails(c) \/ RemoveTmp(c)
        BY <3>2 DEF Open, Write, WriteFails, Rename, RenameFails, RemoveTmp, Forget, Goto, callVars, cluster
      <3> QED BY <2>1, <3>1, <3>2 DEF PresetStep
    <2>3. \A d \in Calls : /\ pc'[d] = "second" => d # c /\ pc[d] = "second"
                           /\ pc'[d] # "done" => pc[d] # "done"
      BY <1>1, <2>2
    <2>4. OffsetTypes'
      BY <1>1, <2>2 DEF OffsetTypes, lagVars
    <2> QED BY <1>1, <2>2, <2>3, <2>4, LagQuiet
  <1>4. CASE Connect \/ Disconnect \/ (\E e \in Entries : CloseOld(e)) \/ CloseAll \/ UNCHANGED vars
    <2>1. UNCHANGED <<pc, op, goal, lagVars, end, committed>>
      BY <1>4 DEF Connect, Disconnect, CloseOld, CloseAll, vars, callVars, cluster
    <2>2. OffsetTypes'
      BY <1>1, <2>1 DEF OffsetTypes, lagVars
    <2> QED BY <1>1, <2>1, <2>2, LagQuiet
  <1>5. CASE \E p \in Parts : Produced(p) \/ Consumed(p)
    <2>1. UNCHANGED <<pc, op, goal, lagVars>>
      BY <1>5 DEF Produced, Consumed, callVars
    <2>2. /\ end' \in [Parts -> Nat] /\ committed' \in [Parts -> Int]
          /\ \A q \in Parts : end[q] <= end'[q]
      <3>1. PICK p \in Parts : Produced(p) \/ Consumed(p)
        BY <1>5
      <3>2. CASE Produced(p)
        BY <1>1, <3>2 DEF Produced, OffsetTypes
      <3>3. CASE Consumed(p)
        BY <1>1, <3>3 DEF Consumed, OffsetTypes
      <3> QED BY <3>1, <3>2, <3>3
    <2>3. OffsetTypes'
      BY <1>1, <2>1, <2>2 DEF OffsetTypes, lagVars
    <2> QED BY <2>1, <2>2, <2>3, LagQuiet
  <1> QED BY <1>2, <1>3, <1>4, <1>5 DEF Next

\* GetGroupOffsets: a lag below the backlog there was when the committed offsets
\* were read stands in a row with an error, or of a partition without a listed end.
THEOREM AdminLag == Spec => []LagNotUnderstated
  <1>1. LagInv => LagNotUnderstated
    BY DEF LagInv
  <1> QED BY <1>1, LagInit, LagNext, AdminInvariance, PTL DEF Spec

-----------------------------------------------------------------------------
\* The presets and their file.

Changed(c, list) == IF op[c] = "save" THEN list \cup {preset[c]} ELSE list \ {preset[c]}

\* Where the only preset call at work stands: its list is the change of what the
\* file has, and it has the temporary file for itself.
PresetWork(c) ==
  /\ pc[c] \in {"open", "write", "rename"} => doc[c] = Changed(c, expected)
  /\ pc[c] = "write" => fd[c] = tmp /\ tmp # None /\ content[tmp] = Partial
  /\ pc[c] = "rename" /\ tmp # None => content[tmp] = doc[c]

PresetTypes ==
  /\ crossed \in BOOLEAN
  /\ file \in Calls \cup {"first"} /\ tmp \in Calls \cup {None}
  /\ content \in [Calls \cup {"first"} -> (SUBSET PresetIds) \cup {Partial}]
  /\ fd \in [Calls -> Calls \cup {None}]
  /\ doc \in [Calls -> SUBSET PresetIds]
  /\ op \in [Calls -> AdminOp \cup PresetOp \cup {None}] /\ preset \in [Calls -> PresetIds \cup {None}]
  /\ \A c \in Calls : pc[c] = "write" => fd[c] # None

\* One call at a time; the temporary file, which a failed call may have left, is not
\* the file, and an inode of the two belongs to a call that has opened it.
Undisturbed ==
  /\ \A c, d \in Saving : c = d
  /\ \A c \in Saving : PresetWork(c)
  /\ tmp # file
  /\ \A c \in Calls : /\ file = c => pc[c] = "done"
                      /\ tmp = c => pc[c] \in {"write", "rename", "remove", "done"}

PresetInv == PresetTypes /\ (~crossed => Undisturbed) /\ PresetFileExact

\* An empty list in the first file.
LEMMA PresetInit == Init => PresetInv
  <1> SUFFICES ASSUME Init PROVE PresetInv
    OBVIOUS
  <1>1. Saving = {}
    BY DEF Init, Saving
  <1>2. /\ \A c \in Calls : pc[c] = "idle" /\ file # c /\ tmp # c
        /\ content[file] = expected /\ tmp # file
    BY PresetAssumption DEF Init, None
  <1>3. PresetTypes
    BY DEF Init, PresetTypes
  <1> QED BY <1>1, <1>2, <1>3 DEF PresetInv, Undisturbed, PresetFileExact

\* A step of another kind, which takes no preset call on and none away.
LEMMA PresetQuiet ==
  ASSUME PresetInv, UNCHANGED <<file, tmp, content, doc, fd, preset, expected, crossed>>,
         op' \in [Calls -> AdminOp \cup PresetOp \cup {None}],
         \A c \in Calls : /\ c \in Saving <=> c \in Saving'
                          /\ c \in Saving => pc'[c] = pc[c] /\ op'[c] = op[c]
                          /\ pc[c] = "done" => pc'[c] = "done"
  PROVE  PresetInv'
  <1>1. Saving' = Saving
    BY DEF Saving
  <1>2. ASSUME ~crossed, NEW c \in Saving PROVE PresetWork(c)'
    <2>1. c \in Calls /\ PresetWork(c) /\ pc'[c] = pc[c] /\ op'[c] = op[c]
      BY <1>2 DEF PresetInv, Undisturbed, Saving
    <2> QED BY <2>1 DEF PresetWork, Changed
  <1>3. \A c \in Calls : pc'[c] = "write" => fd[c] # None
    BY DEF PresetInv, PresetTypes, Saving
  <1>4. PresetTypes'
    BY <1>3 DEF PresetInv, PresetTypes
  <1>5. ASSUME ~crossed, NEW c \in Calls
        PROVE  /\ file = c => pc'[c] = "done"
               /\ tmp = c => pc'[c] \in {"write", "rename", "remove", "done"}
    <2>1. /\ file = c => pc[c] = "done"
          /\ tmp = c => pc[c] \in {"write", "rename", "remove", "done"}
      BY <1>5 DEF PresetInv, Undisturbed
    <2>2. pc[c] \in {"write", "rename", "remove"} => pc'[c] = pc[c]
      BY DEF Saving
    <2> QED BY <2>1, <2>2
  <1>6. ~crossed' => Undisturbed'
    BY <1>1, <1>2, <1>5 DEF PresetInv, Undisturbed
  <1> QED BY <1>4, <1>6 DEF PresetInv, PresetFileExact

\* The management calls, once they have begun, stay with their kind of work.
LEMMA PresetAdminStep ==
  ASSUME PresetInv, TypeOK, NEW c \in Calls, AdminStep(c)
  PROVE  PresetInv'
  <1>1. UNCHANGED <<file, tmp, content, doc, fd, preset, expected, crossed>>
    BY DEF AdminStep, Gate, Lookup, Lock, LockFails, Request, RequestFails, ListTargets, CommitTargets,
           DeleteRecords, FetchOffsets, ListEnds, presetVars
  <1>2. /\ pc[c] \in {"idle", "lookup", "lock", "request", "second"}
        /\ \/ pc' = pc
           \/ \E label \in {"lookup", "lock", "request", "second", "done"} : pc' = [pc EXCEPT ![c] = label]
    BY DEF AdminStep, Gate, Lookup, Lock, LockFails, Request, RequestFails, ListTargets, CommitTargets,
           DeleteRecords, FetchOffsets, ListEnds, Finish, Goto
  <1>3. op' = op \/ \E o \in AdminOp : op' = [op EXCEPT ![c] = o]
    BY DEF AdminStep, Gate, Lookup, Lock, LockFails, Request, RequestFails, ListTargets, CommitTargets,
           DeleteRecords, FetchOffsets, ListEnds, Finish
  <1>4. /\ op' \in [Calls -> AdminOp \cup PresetOp \cup {None}]
        /\ \A d \in Calls \ {c} : op'[d] = op[d]
    BY <1>3 DEF PresetInv, PresetTypes
  <1>5. /\ \A d \in Calls \ {c} : pc'[d] = pc[d]
        /\ pc'[c] \in {"idle", "lookup", "lock", "request", "second", "done"}
    BY <1>2 DEF TypeOK
  <1>6. c \notin Saving /\ c \notin Saving'
    BY <1>2, <1>5 DEF Saving
  <1>7. \A d \in Calls : (d \in Saving <=> d \in Saving') /\ (d \in Saving => d # c)
    BY <1>5, <1>6 DEF Saving
  <1> QED BY <1>1, <1>2, <1>4, <1>5, <1>7, PresetQuiet

\* LoadPresets: the first of the calls at work finds what the file has; a second
\* one crosses it.
LEMMA LoadStep ==
  ASSUME PresetInv, TypeOK, NEW c \in Calls, LoadPresets(c)
  PROVE  PresetInv'
  <1> DEFINE list == content[file]
  <1>1. PICK o \in PresetOp, i \in PresetIds :
          /\ op' = [op EXCEPT ![c] = o]
          /\ LET bad == list = Partial \/ (o = "remove" /\ i \notin list)
             IN /\ doc' = [doc EXCEPT ![c] = IF bad THEN {} ELSE IF o = "save" THEN list \cup {i} ELSE list \ {i}]
                /\ preset' = [preset EXCEPT ![c] = IF bad THEN None ELSE i]
                /\ pc' = [pc EXCEPT ![c] = IF bad THEN "done" ELSE "open"]
                /\ crossed' = (crossed \/ (~bad /\ Saving # {}))
    BY DEF LoadPresets, Goto
  <1> DEFINE bad == list = Partial \/ (o = "remove" /\ i \notin list)
  <1>2. /\ pc[c] = "idle"
        /\ UNCHANGED <<file, tmp, content, fd, expected>>
    BY DEF LoadPresets
  <1>3. list \in (SUBSET PresetIds) \cup {Partial}
    BY DEF PresetInv, PresetTypes
  <1> HIDE DEF list
  <1>4. /\ op' \in [Calls -> AdminOp \cup PresetOp \cup {None}]
        /\ preset' \in [Calls -> PresetIds \cup {None}]
        /\ doc' \in [Calls -> SUBSET PresetIds] /\ crossed' \in BOOLEAN
    <2>1. (IF bad THEN {} ELSE IF o = "save" THEN list \cup {i} ELSE list \ {i}) \in SUBSET PresetIds
      BY <1>3
    <2>2. (IF bad THEN None ELSE i) \in PresetIds \cup {None}
      OBVIOUS
    <2>3. op' \in [Calls -> AdminOp \cup PresetOp \cup {None}]
      BY <1>1 DEF PresetInv, PresetTypes
    <2>4. crossed' = (crossed \/ (~bad /\ Saving # {}))
      BY <1>1
    <2> HIDE DEF bad
    <2> QED BY <1>1, <2>1, <2>2, <2>3, <2>4 DEF PresetInv, PresetTypes, bad
  <1>5. /\ \A d \in Calls \ {c} : /\ pc'[d] = pc[d] /\ op'[d] = op[d]
                                 /\ doc'[d] = doc[d] /\ preset'[d] = preset[d]
        /\ pc'[c] \in {"done", "open"}
    BY <1>1 DEF PresetInv, PresetTypes, TypeOK
  <1>6. \A d \in Calls : pc'[d] = "write" => fd[d] # None
    BY <1>5 DEF PresetInv, PresetTypes
  <1>7. PresetTypes'
    BY <1>2, <1>4, <1>6 DEF PresetInv, PresetTypes
  <1>8. ASSUME ~crossed' PROVE ~crossed /\ Undisturbed'
    <2>1. ~crossed /\ (bad \/ Saving = {}) /\ Undisturbed
      BY <1>1, <1>8 DEF PresetInv, PresetTypes
    <2>2. list = expected
      BY <2>1 DEF PresetInv, PresetFileExact, list
    <2>3. /\ tmp' # file'
          /\ \A d \in Calls : /\ file' = d => pc'[d] = "done"
                              /\ tmp' = d => pc'[d] \in {"write", "rename", "remove", "done"}
      BY <1>2, <1>5, <2>1 DEF Undisturbed
    <2>4. CASE bad
      <3>1. pc'[c] = "done"
        BY <1>1, <2>4 DEF TypeOK
      <3>2. Saving' = Saving /\ c \notin Saving
        BY <1>2, <1>5, <3>1 DEF Saving
      <3>3. ASSUME NEW d \in Saving PROVE PresetWork(d)'
        <4>1. d \in Calls \ {c} /\ PresetWork(d)
          BY <2>1, <3>2 DEF Undisturbed, Saving
        <4> QED BY <1>2, <1>5, <4>1 DEF PresetWork, Changed
      <3> QED BY <2>1, <2>3, <3>2, <3>3 DEF Undisturbed
    <2>5. CASE ~bad /\ Saving = {}
      <3>1. pc'[c] = "open" /\ op'[c] = o /\ preset'[c] = i /\ doc'[c] = IF o = "save" THEN list \cup {i} ELSE list \ {i}
        BY <1>1, <2>5 DEF TypeOK, PresetInv, PresetTypes
      <3>2. Saving' = {c}
        BY <1>5, <2>5, <3>1 DEF Saving
      <3>3. PresetWork(c)'
        BY <1>2, <2>2, <3>1 DEF PresetWork, Changed
      <3> QED BY <2>1, <2>3, <3>2, <3>3 DEF Undisturbed
    <2> QED BY <2>1, <2>4, <2>5
  <1>9. PresetFileExact'
    BY <1>2, <1>8 DEF PresetInv, PresetFileExact
  <1> QED BY <1>7, <1>8, <1>9 DEF PresetInv

\* SaveJSON, step by step.
SaveStep(c) == Open(c) \/ Write(c) \/ WriteFails(c) \/ Rename(c) \/ RenameFails(c) \/ RemoveTmp(c)

\* A call that is over has forgotten its list and its inode.
LEMMA ForgetTypes ==
  ASSUME PresetTypes, TypeOK, NEW c \in Calls, Forget(c)
  PROVE  /\ doc' \in [Calls -> SUBSET PresetIds] /\ fd' \in [Calls -> Calls \cup {None}]
         /\ preset' \in [Calls -> PresetIds \cup {None}]
         /\ pc' = [pc EXCEPT ![c] = "done"]
         /\ \A d \in Calls : pc'[d] = "write" => fd'[d] # None
  BY DEF Forget, Goto, PresetTypes, TypeOK

\* Every step of it keeps the types and leaves the other calls alone.
LEMMA SaveTypes ==
  ASSUME PresetTypes, TypeOK, NEW c \in Calls, SaveStep(c)
  PROVE  /\ PresetTypes' /\ UNCHANGED <<op, crossed>> /\ c \in Saving
         /\ \A d \in Calls \ {c} : pc'[d] = pc[d]
  <1>1. UNCHANGED <<op, crossed>> /\ c \in Saving
    BY DEF SaveStep, Open, Write, WriteFails, Rename, RenameFails, RemoveTmp, callVars, presetVars, Saving
  <1>2. \E label \in {"write", "rename", "remove", "done"} : pc' = [pc EXCEPT ![c] = label]
    BY DEF SaveStep, Open, Write, WriteFails, Rename, RenameFails, RemoveTmp, Forget, Goto
  <1>3. \A d \in Calls \ {c} : pc'[d] = pc[d]
    BY <1>2 DEF TypeOK
  <1>4. CASE Open(c)
    <2>1. PICK i \in Calls : /\ fd' = [fd EXCEPT ![c] = i] /\ tmp' = i
                             /\ content' = [content EXCEPT ![i] = Partial]
      BY <1>4 DEF Open, PresetTypes
    <2>2. UNCHANGED <<file, doc, preset>> /\ pc' = [pc EXCEPT ![c] = "write"]
      BY <1>4 DEF Open, Goto
    <2> QED BY <1>1, <1>3, <2>1, <2>2, PresetAssumption DEF PresetTypes, TypeOK
  <1>5. CASE Write(c)
    <2>1. PICK result \in (SUBSET PresetIds) \cup {Partial} : content' = [content EXCEPT ![fd[c]] = result]
      BY <1>5 DEF Write, PresetTypes
    <2>2. UNCHANGED <<file, tmp, doc, fd, preset>> /\ pc' = [pc EXCEPT ![c] = "rename"] /\ fd[c] \in Calls
      BY <1>5 DEF Write, Goto, PresetTypes
    <2> QED BY <1>1, <1>3, <2>1, <2>2 DEF PresetTypes, TypeOK
  <1>6. CASE WriteFails(c)
    <2>1. Forget(c) /\ UNCHANGED <<file, tmp>>
      BY <1>6 DEF WriteFails
    <2>2. content' \in [Calls \cup {"first"} -> (SUBSET PresetIds) \cup {Partial}]
      BY <1>6 DEF WriteFails, PresetTypes
    <2> QED BY <1>1, <1>3, <2>1, <2>2, ForgetTypes DEF PresetTypes
  <1>7. CASE Rename(c)
    <2>1. Forget(c) /\ file' \in Calls /\ tmp' = None /\ content' = content
      BY <1>7 DEF Rename, PresetTypes
    <2> QED BY <1>1, <1>3, <2>1, ForgetTypes DEF PresetTypes
  <1>8. CASE RenameFails(c)
    <2>1. UNCHANGED <<file, tmp, content, doc, fd, preset>> /\ pc' = [pc EXCEPT ![c] = "remove"]
      BY <1>8 DEF RenameFails, Goto, presetVars
    <2> QED BY <1>1, <1>3, <2>1 DEF PresetTypes, TypeOK
  <1>9. CASE RemoveTmp(c)
    <2>1. Forget(c) /\ tmp' = None /\ UNCHANGED <<file, content>>
      BY <1>9 DEF RemoveTmp
    <2> QED BY <1>1, <1>3, <2>1, ForgetTypes DEF PresetTypes
  <1> QED BY <1>4, <1>5, <1>6, <1>7, <1>8, <1>9 DEF SaveStep

\* When another call has crossed this one, only types remain.
LEMMA CrossedStep ==
  ASSUME PresetInv, TypeOK, crossed, NEW c \in Calls, SaveStep(c)
  PROVE  PresetInv'
  BY SaveTypes DEF PresetInv, PresetFileExact

\* A step that ends the only call at work and leaves the file alone.
LEMMA SoleEnds ==
  ASSUME PresetInv, TypeOK, ~crossed, NEW c \in Calls, SaveStep(c), pc'[c] = "done",
         file' = file, expected' = expected, tmp' \in {tmp, None}, content'[file] = content[file]
  PROVE  PresetInv'
  <1>1. PresetTypes /\ Undisturbed /\ content[file] = expected
    BY DEF PresetInv, PresetFileExact
  <1>2. /\ PresetTypes' /\ crossed' = crossed /\ c \in Saving
        /\ \A d \in Calls \ {c} : pc'[d] = pc[d]
    BY <1>1, SaveTypes
  <1>3. Saving' = {}
    BY <1>1, <1>2 DEF Undisturbed, Saving
  <1>4. tmp' # file'
    BY <1>1, PresetAssumption DEF Undisturbed, PresetTypes, None
  <1>5. \A d \in Calls : /\ file' = d => pc'[d] = "done"
                         /\ tmp' = d => pc'[d] \in {"write", "rename", "remove", "done"}
    BY <1>1, <1>2, PresetAssumption DEF Undisturbed
  <1>6. Undisturbed' /\ PresetFileExact'
    BY <1>1, <1>3, <1>4, <1>5 DEF Undisturbed, PresetFileExact
  <1> QED BY <1>2, <1>6 DEF PresetInv

\* A step after which the only call at work is still at work, with the file as it was.
LEMMA SoleGoesOn ==
  ASSUME PresetInv, TypeOK, ~crossed, NEW c \in Calls, SaveStep(c), pc'[c] \in {"write", "rename", "remove"},
         file' = file, expected' = expected, tmp' # file, content'[file] = content[file],
         tmp' \in {tmp, c}, PresetWork(c)'
  PROVE  PresetInv'
  <1>1. PresetTypes /\ Undisturbed /\ content[file] = expected
    BY DEF PresetInv, PresetFileExact
  <1>2. /\ PresetTypes' /\ crossed' = crossed /\ c \in Saving
        /\ \A d \in Calls \ {c} : pc'[d] = pc[d]
    BY <1>1, SaveTypes
  <1>3. Saving' = {c}
    BY <1>1, <1>2 DEF Undisturbed, Saving
  <1>4. pc[c] # "done"
    BY <1>2 DEF Saving
  <1>5. \A d \in Calls : /\ file' = d => pc'[d] = "done"
                         /\ tmp' = d => pc'[d] \in {"write", "rename", "remove", "done"}
    BY <1>1, <1>2, <1>4 DEF Undisturbed
  <1>6. Undisturbed' /\ PresetFileExact'
    BY <1>1, <1>3, <1>5 DEF Undisturbed, PresetFileExact
  <1> QED BY <1>2, <1>6 DEF PresetInv

\* The steps of the only preset call at work: what it opens is not the file, it
\* writes the whole list there, and the rename puts the changed list in the file's
\* place; a step that fails leaves the file alone.
LEMMA SoleStep ==
  ASSUME PresetInv, TypeOK, ~crossed, NEW c \in Calls, SaveStep(c)
  PROVE  PresetInv'
  <1>1. PresetTypes /\ Undisturbed /\ content[file] = expected
    BY DEF PresetInv, PresetFileExact
  <1>2. /\ PresetTypes' /\ op' = op /\ crossed' = crossed /\ c \in Saving
        /\ \A d \in Calls \ {c} : pc'[d] = pc[d]
    BY <1>1, SaveTypes
  <1>3. PresetWork(c) /\ tmp # file /\ file # None /\ (pc[c] # "done" => file # c)
    BY <1>1, <1>2, PresetAssumption DEF Undisturbed, PresetTypes, None
  <1>4. CASE Open(c)
    <2>1. PICK i \in Calls : /\ fd' = [fd EXCEPT ![c] = i] /\ tmp' = i /\ i \in {tmp, c}
                             /\ content' = [content EXCEPT ![i] = Partial]
      BY <1>1, <1>4 DEF Open, PresetTypes
    <2>2. /\ UNCHANGED <<file, doc, preset, expected>> /\ pc' = [pc EXCEPT ![c] = "write"]
          /\ pc[c] = "open"
      BY <1>4 DEF Open, Goto
    <2>3. /\ fd'[c] = i /\ i # file /\ i # None /\ content'[i] = Partial /\ content'[file] = content[file]
          /\ pc'[c] = "write"
      BY <1>1, <1>3, <2>1, <2>2, PresetAssumption DEF PresetTypes, TypeOK
    <2>4. PresetWork(c)'
      BY <1>2, <1>3, <2>1, <2>2, <2>3 DEF PresetWork, Changed
    <2> QED BY <2>1, <2>2, <2>3, <2>4, SoleGoesOn
  <1>5. CASE Write(c)
    <2>1. /\ pc[c] = "write" /\ fd[c] = tmp /\ tmp \in Calls /\ content[tmp] = Partial
          /\ doc[c] = Changed(c, expected)
      BY <1>1, <1>3, <1>5 DEF Write, PresetWork, PresetTypes
    <2>2. /\ content' = [content EXCEPT ![tmp] = doc[c]]
          /\ pc' = [pc EXCEPT ![c] = "rename"] /\ UNCHANGED <<file, tmp, doc, fd, preset, expected>>
      BY <1>5, <2>1 DEF Write, Goto
    <2>3. content'[tmp] = doc[c] /\ content'[file] = content[file] /\ pc'[c] = "rename"
      BY <1>1, <1>3, <2>1, <2>2 DEF PresetTypes, TypeOK
    <2>4. PresetWork(c)'
      BY <1>2, <2>1, <2>2, <2>3 DEF PresetWork, Changed
    <2> QED BY <1>3, <2>2, <2>3, <2>4, SoleGoesOn
  <1>6. CASE WriteFails(c)
    <2>1. pc'[c] = "done" /\ UNCHANGED <<file, tmp, expected>>
      BY <1>1, <1>6, ForgetTypes DEF WriteFails, TypeOK
    <2>2. content'[file] = content[file]
      <3>1. CASE pc[c] = "open"
        BY <1>6, <3>1 DEF WriteFails
      <3>2. CASE pc[c] = "write"
        BY <1>1, <1>3, <1>6, <3>2 DEF WriteFails, PresetWork, PresetTypes
      <3> QED BY <1>6, <3>1, <3>2 DEF WriteFails
    <2> QED BY <2>1, <2>2, SoleEnds
  <1>7. CASE Rename(c)
    <2>1. /\ pc[c] = "rename" /\ tmp \in Calls /\ content[tmp] = doc[c] /\ doc[c] = Changed(c, expected)
      BY <1>1, <1>3, <1>7 DEF Rename, PresetWork, PresetTypes
    <2>2. /\ file' = tmp /\ tmp' = None /\ content' = content /\ expected' = Changed(c, expected)
      BY <1>7 DEF Rename, Changed
    <2>3. pc'[c] = "done"
      BY <1>1, <1>7, ForgetTypes DEF Rename, TypeOK
    <2>4. Saving' = {}
      BY <1>1, <1>2, <2>3 DEF Undisturbed, Saving
    <2>5. \A d \in Calls : file' = d => pc'[d] = "done"
      <3>1. ASSUME NEW d \in Calls, tmp = d, d # c PROVE pc'[d] = "done"
        <4>1. pc[d] \in {"write", "rename", "remove", "done"} /\ d \notin Saving
          BY <1>1, <1>2, <3>1 DEF Undisturbed
        <4> QED BY <1>2, <3>1, <4>1 DEF Saving
      <3> QED BY <2>2, <2>3, <3>1
    <2>6. Undisturbed'
      BY <2>1, <2>2, <2>4, <2>5, PresetAssumption DEF Undisturbed
    <2>7. PresetFileExact'
      BY <2>1, <2>2 DEF PresetFileExact
    <2> QED BY <1>2, <2>6, <2>7 DEF PresetInv
  <1>8. CASE RenameFails(c)
    <2>1. /\ UNCHANGED <<file, tmp, content, doc, fd, preset, expected>>
          /\ pc' = [pc EXCEPT ![c] = "remove"]
      BY <1>8 DEF RenameFails, Goto, presetVars
    <2>2. pc'[c] = "remove"
      BY <2>1 DEF TypeOK
    <2>3. PresetWork(c)'
      BY <2>2 DEF PresetWork
    <2> QED BY <1>3, <2>1, <2>2, <2>3, SoleGoesOn
  <1>9. CASE RemoveTmp(c)
    <2>1. pc'[c] = "done" /\ tmp' = None /\ UNCHANGED <<file, content, expected>>
      BY <1>1, <1>9, ForgetTypes DEF RemoveTmp, TypeOK
    <2> QED BY <2>1, SoleEnds
  <1> QED BY <1>4, <1>5, <1>6, <1>7, <1>8, <1>9 DEF SaveStep

\* The presets' invariant is inductive beside the calls' types.
LEMMA PresetNext == PresetInv /\ AdminInv /\ [Next]_vars => PresetInv'
  <1> SUFFICES ASSUME PresetInv, AdminInv, [Next]_vars PROVE PresetInv'
    OBVIOUS
  <1>1. TypeOK
    BY DEF AdminInv
  <1>2. CASE \E c \in Calls : AdminStep(c)
    BY <1>1, <1>2, PresetAdminStep
  <1>3. CASE \E c \in Calls : PresetStep(c)
    <2>1. PICK c \in Calls : LoadPresets(c) \/ SaveStep(c)
      BY <1>3 DEF PresetStep, SaveStep
    <2> QED BY <1>1, <2>1, LoadStep, CrossedStep, SoleStep
  <1>4. CASE \/ Connect \/ Disconnect \/ (\E e \in Entries : CloseOld(e)) \/ CloseAll \/ UNCHANGED vars
            \/ \E p \in Parts : Produced(p) \/ Consumed(p)
    <2>1. UNCHANGED <<pc, op, file, tmp, content, doc, fd, preset, expected, crossed>>
      BY <1>4 DEF Connect, Disconnect, CloseOld, CloseAll, Produced, Consumed, vars, callVars, presetVars
    <2>2. Saving' = Saving
      BY <2>1 DEF Saving
    <2>3. op' \in [Calls -> AdminOp \cup PresetOp \cup {None}]
      BY <2>1 DEF PresetInv, PresetTypes
    <2> QED BY <2>1, <2>2, <2>3, PresetQuiet
  <1> QED BY <1>2, <1>3, <1>4 DEF Next

\* SaveJSON: for calls that did not overlap, the file is whole and exact at any
\* moment, so also when the process dies.
THEOREM AdminPresets == Spec => []PresetFileExact
  <1>1. PresetInv => PresetFileExact
    BY DEF PresetInv
  <1> QED BY <1>1, PresetInit, PresetNext, AdminInvariance, PTL DEF Spec

-----------------------------------------------------------------------------
\* Setting up a connection.

\* The texts the code knows, and forms, pastes and targets over any set of texts
\* that has them.
Words == Protocols \cup Mechanisms \cup Registries \cup {"msk_iam", "static_token", "zookeeper", "bootstrap"}
Forms(W)   == [source : W, protocol : W, mechanism : W, tokenSource : W, registry : W, glueAuth : W,
               skipVerify : BOOLEAN, has : SUBSET Fields]
Pastes(W)  == [protocol : W, mechanism : W, jaas : SUBSET Fields, skipVerify : W, has : SUBSET Fields]
Targets(W) == [endpoint : BOOLEAN, proxy : W]

\* What NormalizeProfile leaves to choose from.
Normal(q) ==
  /\ q.source \in {"zookeeper", "bootstrap"}
  /\ q.protocol \in Protocols
  /\ q.mechanism \in Mechanisms \cup {""}
  /\ q.tokenSource \in {"msk_iam", "static_token", ""}
  /\ q.registry \in Registries

\* Pasting and normalising lead from forms to forms, with known values in the end.
LEMMA MappedForm == ASSUME NEW W, Words \subseteq W, NEW f \in Forms(W), NEW p \in Pastes(W) PROVE mapProperties(f, p) \in Forms(W)
  <1> DEFINE pr == IF p.protocol \in Protocols THEN p.protocol ELSE f.protocol
             m == IF p.mechanism \in Mechanisms THEN p.mechanism ELSE f.mechanism
             sv == IF p.skipVerify = "" THEN f.skipVerify ELSE p.skipVerify = "none"
             r == IF "srUrl" \in p.has THEN "confluent" ELSE f.registry
             h == Over(f.has, p.has, "srUrl", "srHttp") \cup (p.has \cap {"bootstrap", "ca", "cert", "key"})
  <1>1. pr \in W /\ m \in W /\ r \in W
    BY DEF Forms, Pastes, Words, Registries
  <1>2. f.skipVerify \in BOOLEAN
    BY DEF Forms
  <1>3. sv \in BOOLEAN
    BY <1>2
  <1>4. h \in SUBSET Fields
    BY DEF Forms, Pastes, Over
  <1>5. mapProperties(f, p) = [f EXCEPT !.protocol = pr, !.mechanism = m, !.skipVerify = sv, !.registry = r, !.has = h]
    BY DEF mapProperties
  <1> HIDE DEF pr, m, sv, r, h
  <1> QED BY <1>1, <1>3, <1>4, <1>5 DEF Forms

LEMMA JaasForm == ASSUME NEW W, Words \subseteq W, NEW f \in Forms(W), NEW j \in SUBSET Fields PROVE mapJAASConfig(f, j) \in Forms(W)
  BY DEF mapJAASConfig, Forms, Over

LEMMA NormalForm == ASSUME NEW W, Words \subseteq W, NEW f \in Forms(W) PROVE NormalizeProfile(f) \in Forms(W) /\ Normal(NormalizeProfile(f))
  <1>1. NormalizeProfile(f) \in Forms(W)
    <2> DEFINE s == IF f.source = "zookeeper" THEN f.source ELSE "bootstrap"
               pr == IF f.protocol \in Protocols THEN f.protocol ELSE "PLAINTEXT"
               m == IF f.mechanism \in Mechanisms THEN f.mechanism ELSE ""
               ts == IF f.tokenSource = "" THEN "msk_iam"
                     ELSE IF f.tokenSource \in {"msk_iam", "static_token"} THEN f.tokenSource ELSE ""
               r == IF f.registry \in Registries THEN f.registry ELSE "none"
    <2>1. s \in W /\ pr \in W /\ m \in W /\ ts \in W /\ r \in W
      BY DEF Forms, Words, Protocols, Registries
    <2>2. NormalizeProfile(f) = [f EXCEPT !.source = s, !.protocol = pr, !.mechanism = m, !.tokenSource = ts, !.registry = r]
      BY DEF NormalizeProfile
    <2> HIDE DEF s, pr, m, ts, r
    <2> QED BY <2>1, <2>2 DEF Forms
  <1>2. Normal(NormalizeProfile(f))
    BY DEF NormalizeProfile, Forms, Normal, Protocols, Mechanisms, Registries
  <1> QED BY <1>1, <1>2

LEMMA ProfileNormal == ASSUME NEW W, Words \subseteq W, NEW f \in Forms(W), NEW p \in Pastes(W) PROVE Profile(f, p) \in Forms(W) /\ Normal(Profile(f, p))
  <1>1. mapProperties(f, p) \in Forms(W) /\ p.jaas \in SUBSET Fields
    BY MappedForm DEF Pastes
  <1> QED BY <1>1, JaasForm, NormalForm DEF Profile, applyPropertiesImport

\* The client and the registry of a profile that was accepted.
LEMMA NoSeedError ==
  ASSUME NEW W, NEW q \in Forms(W), Normal(q), Validate(q), NEW t \in Targets(W), NEW env
  PROVE  SeedErrors(q, t, env) \subseteq Environment
  BY DEF SeedErrors, seedBrokers, Validate, Normal, Environment

LEMMA NoTLSError ==
  ASSUME NEW W, NEW q \in Forms(W), validateRequiredCombination(q), NEW env
  PROVE  buildTLSConfig(q, env) \subseteq Environment
  BY DEF buildTLSConfig, validateRequiredCombination, Together, Environment

LEMMA NoLoginError ==
  ASSUME NEW W, NEW q \in Forms(W), Normal(q), Validate(q), validateRequiredCombination(q), hasSASL(q), NEW env
  PROVE  buildSASLOpt(q, env) \subseteq Environment \cup Shapes
  <1>1. CASE q.mechanism = "GSSAPI"
    <2>1. "principal" \in q.has /\ "keytab" \in q.has
      BY <1>1 DEF validateRequiredCombination
    <2> QED BY <1>1, <2>1 DEF buildSASLOpt, KerberosErrors, Environment, Shapes
  <1>2. CASE q.mechanism = "OAUTHBEARER"
    <2>1. OauthComplete(q)
      BY <1>2 DEF validateRequiredCombination
    <2>2. OauthErrors(q) = {}
      BY <2>1 DEF OauthComplete, OauthErrors
    <2> QED BY <1>2, <2>2 DEF buildSASLOpt
  <1>3. CASE q.mechanism \notin {"GSSAPI", "OAUTHBEARER"}
    BY <1>3 DEF buildSASLOpt, Validate
  <1> QED BY <1>1, <1>2, <1>3

\* The registry a request gets is the one of the switch, or without it one whose
\* settings are there.
LEMMA NoRegistryError ==
  ASSUME NEW W, NEW q \in Forms(W), Normal(q), validateRequiredCombination(q), NEW asked,
         asked = "" \/ (asked \in {"confluent", "aws_glue"} /\ schemaProviderConfigured(q) \in {asked, "both"})
  PROVE  RegistryErrors(q, asked) \subseteq Shapes \cup (IF q.registry = "" THEN Unswitched ELSE {})
  <1> DEFINE provider == resolveSchemaProvider(q, asked)
  <1>1. RegistryComplete(q)
    BY DEF validateRequiredCombination
  <1>2. CASE q.registry = "confluent"
    <2>1. provider = "confluent"
      BY <1>2 DEF resolveSchemaProvider, schemaProviderConfigured, srEnabled, glueEnabled
    <2>2. newSchemaRegistryClient(q) = {}
      BY <1>1, <1>2 DEF RegistryComplete, newSchemaRegistryClient
    <2> QED BY <2>1, <2>2 DEF RegistryErrors
  <1>3. CASE q.registry = "aws_glue"
    <2>1. provider = "aws_glue"
      BY <1>3 DEF resolveSchemaProvider, schemaProviderConfigured, srEnabled, glueEnabled
    <2>2. newGlueClient(q) \subseteq Shapes
      BY <1>1, <1>3 DEF RegistryComplete, newGlueClient, Shapes
    <2> QED BY <2>1, <2>2 DEF RegistryErrors
  <1>4. CASE q.registry = "none"
    <2>1. provider = "none"
      BY <1>4 DEF resolveSchemaProvider, schemaProviderConfigured, srEnabled, glueEnabled
    <2> QED BY <2>1 DEF RegistryErrors
  <1>5. CASE q.registry = ""
    <2>1. provider \in {"confluent", "aws_glue", "both", "none"}
      BY <1>5 DEF resolveSchemaProvider, schemaProviderConfigured
    <2>2. provider = "confluent" => "srUrl" \in q.has
      BY <1>5 DEF resolveSchemaProvider, schemaProviderConfigured, srEnabled, glueEnabled
    <2>3. provider = "aws_glue" => {"glueRegion", "glueName"} \subseteq q.has
      BY <1>5 DEF resolveSchemaProvider, schemaProviderConfigured, srEnabled, glueEnabled
    <2> HIDE DEF provider
    <2>4. provider = "confluent" => newSchemaRegistryClient(q) \subseteq Unswitched
      BY <2>2 DEF newSchemaRegistryClient, Unswitched
    <2>5. provider = "aws_glue" => newGlueClient(q) \subseteq Shapes \cup Unswitched
      BY <2>3 DEF newGlueClient, Shapes, Unswitched
    <2>6. {"two registries"} \subseteq Unswitched
      BY DEF Unswitched
    <2>7. RegistryErrors(q, asked) \subseteq Shapes \cup Unswitched
      BY <2>1, <2>4, <2>5, <2>6 DEF RegistryErrors, provider
    <2> QED BY <1>5, <2>7
  <1> QED BY <1>2, <1>3, <1>4, <1>5 DEF Normal, Registries

\* validateRequiredCombination: for every form, paste, target and machine, what
\* Connect accepts fails later only for what the machine, the network or the shape
\* of a text decides, and a connection without the switch for its registry also for
\* what is checked only with the switch.
THEOREM SetupComplete ==
  ASSUME NEW W, Words \subseteq W, NEW f \in Forms(W), NEW p \in Pastes(W), NEW t \in Targets(W), NEW env
  PROVE  AcceptedIsComplete(f, p, t, env)
  <1> DEFINE q == Profile(f, p)
             named == {r \in {"confluent", "aws_glue"} : schemaProviderConfigured(q) \in {r, "both"}}
  <1> SUFFICES ASSUME Accepted(f, p)
               PROVE  /\ Client(q, t, env, FALSE).errors \subseteq Environment \cup Shapes
                      /\ \A asked \in {""} \cup named :
                           RegistryErrors(q, asked) \subseteq Shapes \cup (IF q.registry = "" THEN Unswitched ELSE {})
    BY DEF AcceptedIsComplete
  <1>1. q \in Forms(W) /\ Normal(q) /\ Validate(q) /\ validateRequiredCombination(q)
    BY ProfileNormal DEF Accepted
  <1> HIDE DEF q
  <1>2. Client(q, t, env, FALSE).errors =
          SeedErrors(q, t, env)
          \cup (IF hasTLS(q) THEN buildTLSConfig(q, env) ELSE {})
          \cup (IF hasSASL(q) THEN buildSASLOpt(q, env) ELSE {})
          \cup (IF t.proxy # "none" THEN runtimeProxyDialer(t) ELSE {})
    BY DEF Client, DialTLS
  <1>3. runtimeProxyDialer(t) \subseteq Environment
    BY DEF runtimeProxyDialer, Environment
  <1>4. hasSASL(q) => buildSASLOpt(q, env) \subseteq Environment \cup Shapes
    BY <1>1, NoLoginError
  <1>5. Client(q, t, env, FALSE).errors \subseteq Environment \cup Shapes
    BY <1>1, <1>2, <1>3, <1>4, NoSeedError, NoTLSError
  <1>6. ASSUME NEW asked \in {""} \cup named
        PROVE  RegistryErrors(q, asked) \subseteq Shapes \cup (IF q.registry = "" THEN Unswitched ELSE {})
    <2>1. asked = "" \/ (asked \in {"confluent", "aws_glue"} /\ schemaProviderConfigured(q) \in {asked, "both"})
      OBVIOUS
    <2> QED BY <1>1, <2>1, NoRegistryError
  <1> QED BY <1>5, <1>6

\* Service.Test: for every form, paste, target and machine, the client it builds has
\* the errors, the seeds and the certificate name of the client that is used, and
\* either has one layer of TLS when the protocol has it.
THEOREM SetupTested ==
  ASSUME NEW W, Words \subseteq W, NEW f \in Forms(W), NEW p \in Pastes(W), NEW t \in Targets(W), NEW env
  PROVE  TestIsFaithful(f, p, t, env)
  <1> DEFINE q == Profile(f, p)
  <1>1. Client(q, t, env, TRUE) = Client(q, t, env, FALSE)
    <2>1. CASE t.proxy = "none"
      BY <2>1 DEF Client, DialTLS
    <2>2. CASE t.proxy # "none"
      BY <2>2 DEF Client, DialTLS
    <2> QED BY <2>1, <2>2
  <1>2. Client(q, t, env, FALSE).layers = IF hasTLS(q) THEN 1 ELSE 0
    BY DEF Client, DialTLS
  <1> HIDE DEF q
  <1>3. TestIsFaithful(f, p, t, env)
    BY <1>1, <1>2 DEF TestIsFaithful, q
  <1> QED BY <1>3

\* The fields a pasted login touches.
Login == {"username", "password", "principal", "realm", "keytab"}

\* applyPropertiesImport: for every form and paste, a complete pasted login is
\* accepted, whatever login the form has, if the form is acceptable without SASL.
THEOREM SetupPasted ==
  ASSUME NEW W, Words \subseteq W, NEW f \in Forms(W), NEW p \in Pastes(W)
  PROVE  PastedLoginAccepted(f, p)
  <1> DEFINE f0 == [f EXCEPT !.protocol = "PLAINTEXT"]
             p0 == [p EXCEPT !.protocol = "", !.jaas = {}]
             g == mapProperties(f, p)
             g0 == mapProperties(f0, p0)
             h == mapJAASConfig(g, p.jaas)
             h0 == mapJAASConfig(g0, {})
             q == NormalizeProfile(h)
             q0 == NormalizeProfile(h0)
  <1> SUFFICES ASSUME LoginComplete(p), Accepted(f0, p0) PROVE Accepted(f, p)
    BY DEF PastedLoginAccepted
  <1>1. f0 \in Forms(W) /\ p0 \in Pastes(W) /\ p0.jaas = {}
    <2>1. f0 \in Forms(W)
      BY DEF Forms, Words, Protocols
    <2>2. p0 \in Pastes(W)
      BY DEF Pastes, Words, Registries
    <2>3. p0.jaas = {}
      BY DEF Pastes
    <2> QED BY <2>1, <2>2, <2>3
  <1>2. Profile(f, p) = q /\ Profile(f0, p0) = q0
    BY <1>1 DEF Profile, applyPropertiesImport
  <1>3. Validate(q0) /\ validateRequiredCombination(q0)
    BY <1>2 DEF Accepted
  <1>4. /\ g.source = g0.source /\ g.registry = g0.registry /\ g.glueAuth = g0.glueAuth /\ g.has = g0.has
        /\ g.protocol = p.protocol /\ g.mechanism = p.mechanism
    <2>1. p.protocol \in Protocols /\ p.mechanism \in Mechanisms
      BY DEF LoginComplete, Protocols, Mechanisms
    <2> QED BY <2>1 DEF mapProperties, Forms, Pastes
  <1>5. g \in Forms(W) /\ g0 \in Forms(W) /\ h \in Forms(W) /\ h0 \in Forms(W)
    BY <1>1, MappedForm, JaasForm DEF Pastes
  <1> HIDE DEF g, g0
  <1>6. h0 = g0
    BY <1>5 DEF mapJAASConfig, Over, Forms
  <1>7. /\ h.source = g.source /\ h.registry = g.registry /\ h.glueAuth = g.glueAuth
        /\ h.protocol = g.protocol /\ h.mechanism = g.mechanism
        /\ \A x \in Fields \ Login : x \in h.has <=> x \in g.has
    BY <1>5 DEF mapJAASConfig, Over, Forms, Login
  <1>8. IF p.mechanism = "GSSAPI" THEN {"principal", "keytab"} \subseteq h.has ELSE {"username", "password"} \subseteq h.has
    BY <1>4, <1>5 DEF mapJAASConfig, Over, Forms, LoginComplete
  <1> HIDE DEF h, h0
  <1>9. /\ q.source = q0.source /\ q.registry = q0.registry /\ q.glueAuth = q0.glueAuth
        /\ q.has = h.has /\ q0.has = g.has /\ q.mechanism = p.mechanism /\ q.protocol = p.protocol
    <2>1. p.protocol \in Protocols /\ p.mechanism \in Mechanisms
      BY DEF LoginComplete, Protocols, Mechanisms
    <2> QED BY <1>4, <1>5, <1>6, <1>7, <2>1 DEF NormalizeProfile, Forms
  <1> HIDE DEF q, q0
  <1>10. \A x \in Fields \ Login : x \in q.has <=> x \in q0.has
    BY <1>7, <1>9
  <1>11. Validate(q)
    BY <1>3, <1>9, <1>10 DEF Validate, Fields, Login, LoginComplete
  <1>12. RegistryComplete(q) /\ Together(q, "cert", "key")
    BY <1>3, <1>9, <1>10 DEF validateRequiredCombination, RegistryComplete, Together, Fields, Login
  <1>13. validateRequiredCombination(q)
    BY <1>8, <1>9, <1>12 DEF validateRequiredCombination, LoginComplete
  <1> QED BY <1>2, <1>11, <1>13 DEF Accepted

\* The inputs of the rules' run are among these forms.
RuleWords == Words \cup TokenSources \cup {"other", "https", "socks5", "http", "static", "profile"}

GivenInv ==
  given.kind = "setup" => /\ given.form \in Forms(RuleWords) /\ given.paste \in Pastes(RuleWords)
                          /\ given.target \in Targets(RuleWords)

\* The sets of inputs of the run, one by one.
LEMMA RuleForms ==
  LoginForms \cup OauthForms \cup RegistryForms \cup TransportForms \subseteq Forms(RuleWords)
  <1> DEFINE W == RuleWords
  <1>1. \A s, pr, m, ts, r, ga \in W : \A h \in SUBSET Fields : Form(s, pr, m, ts, r, ga, h) \in Forms(W)
    BY DEF Form, Forms
  <1>2. {"", "other", "PLAIN", "GSSAPI", "OAUTHBEARER", "static", "profile", "zookeeper", "bootstrap"} \subseteq W
    BY DEF RuleWords, Words, Mechanisms, Registries
  <1>3. Protocols \subseteq W /\ TokenSources \subseteq W /\ Registries \subseteq W /\ "PLAINTEXT" \in W
    BY DEF RuleWords, Words, Protocols
  <1>4. {"SASL_PLAINTEXT", "SASL_SSL"} \subseteq W
    BY DEF RuleWords, Words, Protocols
  <1>5. \A h : h \in SUBSET Fields => {"bootstrap"} \cup h \in SUBSET Fields /\ {"username", "password"} \cup h \in SUBSET Fields
    BY DEF Fields
  <1> HIDE DEF W
  <1>6. ASSUME NEW x \in LoginForms PROVE x \in Forms(W)
    <2>1. PICK pr \in FormProtocols, m \in LoginMechanisms,
               h \in SUBSET LoginFields : x = LoginForm(pr, m, h)
      BY SMT DEF LoginForms
    <2>2. h \in SUBSET Fields
      BY DEF Fields, LoginFields
    <2> QED BY <1>1, <1>2, <1>3, <1>5, <2>1, <2>2 DEF LoginForm, FormProtocols, LoginMechanisms
  <1>7. ASSUME NEW x \in OauthForms PROVE x \in Forms(W)
    <2>1. PICK pr \in {"SASL_PLAINTEXT", "SASL_SSL"}, ts \in TokenSources,
               h \in SUBSET {"mskRegion", "mskAccessKey", "mskSecretKey", "mskSession", "staticToken"} : x = OauthForm(pr, ts, h)
      BY SMT DEF OauthForms
    <2>2. h \in SUBSET Fields
      BY DEF Fields
    <2> QED BY <1>1, <1>2, <1>3, <1>4, <1>5, <2>1, <2>2 DEF OauthForm
  <1>8. ASSUME NEW x \in RegistryForms PROVE x \in Forms(W)
    <2>1. PICK r \in Registries, ga \in GlueAuths,
               h \in SUBSET RegistryFields :
               x = RegistryForm(r, ga, h)
      BY SMT DEF RegistryForms
    <2>2. h \in SUBSET Fields
      BY DEF Fields, RegistryFields
    <2> QED BY <1>1, <1>2, <1>3, <1>5, <2>1, <2>2 DEF RegistryForm, GlueAuths
  <1>9. ASSUME NEW x \in TransportForms PROVE x \in Forms(W)
    <2>1. PICK s \in Sources, pr \in Protocols, h \in SUBSET TransportFields :
               x = TransportForm(s, pr, h)
      BY SMT DEF TransportForms
    <2>2. h \in SUBSET Fields
      BY DEF Fields, TransportFields
    <2> QED BY <1>1, <1>2, <1>3, <1>5, <2>1, <2>2 DEF TransportForm, Sources
  <1> QED BY <1>6, <1>7, <1>8, <1>9 DEF W

LEMMA RulePastes == LoginPastes \cup OtherPastes \cup {NoPaste} \subseteq Pastes(RuleWords)
  <1> DEFINE W == RuleWords
  <1>1. {"", "other", "SASL_SSL", "PLAIN", "GSSAPI", "none", "https"} \subseteq W
    BY DEF RuleWords, Words, Protocols, Mechanisms, Registries
  <1>2. \A pr, m, sv \in W : \A j, h \in SUBSET Fields : Paste(pr, m, j, sv, h) \in Pastes(W)
    BY DEF Paste, Pastes
  <1> HIDE DEF W
  <1>3. ASSUME NEW x \in LoginPastes PROVE x \in Pastes(W)
    <2>1. PICK pr \in PastedProtocols, m \in PastedMechanisms,
               j \in Credentials :
               x = LoginPaste(pr, m, j)
      BY SMT DEF LoginPastes
    <2>2. j \in SUBSET Fields /\ {} \in SUBSET Fields
      BY DEF Fields, Credentials
    <2> QED BY <1>1, <1>2, <2>1, <2>2 DEF LoginPaste, PastedProtocols, PastedMechanisms
  <1>4. ASSUME NEW x \in OtherPastes PROVE x \in Pastes(W)
    <2>1. PICK sv \in {"none", "https"}, h \in SUBSET {"bootstrap", "srUrl", "srHttp", "cert", "key"} : x = OtherPaste(sv, h)
      BY SMT DEF OtherPastes
    <2>2. h \in SUBSET Fields /\ {} \in SUBSET Fields
      BY DEF Fields
    <2> QED BY <1>1, <1>2, <2>1, <2>2 DEF OtherPaste
  <1>5. NoPaste \in Pastes(W)
    BY <1>1, <1>2 DEF NoPaste
  <1> QED BY <1>3, <1>4, <1>5 DEF W

LEMMA RulesStart == RulesInit => GivenInv
  <1> DEFINE W == RuleWords
             AllForms  == LoginForms \cup OauthForms \cup RegistryForms \cup TransportForms
             AllPastes == LoginPastes \cup OtherPastes \cup {NoPaste}
  <1> SUFFICES ASSUME RulesInit, given.kind = "setup"
               PROVE  given.form \in Forms(W) /\ given.paste \in Pastes(W) /\ given.target \in Targets(W)
    BY DEF GivenInv
  <1>1. \A e \in BOOLEAN, x \in {"none", "socks5", "http"} : Target(e, x) \in Targets(W)
    BY DEF Target, Targets, RuleWords, Words, Registries
  <1>2. Direct \in Targets(W)
    BY <1>1 DEF Direct
  <1>3. ASSUME NEW f \in AllForms, NEW p \in AllPastes, NEW t \in Targets(W), NEW env, given = Setup(f, p, t, env)
        PROVE  given.form \in Forms(W) /\ given.paste \in Pastes(W) /\ given.target \in Targets(W)
    <2>1. given.form = f /\ given.paste = p /\ given.target = t
      BY <1>3 DEF Setup
    <2> QED BY <2>1, RuleForms, RulePastes
  <1>4. CASE \E f \in LoginForms, p \in LoginPastes : given = Setup(f, p, Direct, Machine)
    BY <1>2, <1>3, <1>4
  <1>5. CASE \E f \in OauthForms : given = Setup(f, NoPaste, Direct, Machine)
    BY <1>2, <1>3, <1>5
  <1>6. CASE \E f \in RegistryForms, p \in OtherPastes : given = Setup(f, p, Direct, Machine)
    BY <1>2, <1>3, <1>6
  <1>7. CASE \E f \in TransportForms, e \in BOOLEAN, x \in {"none", "socks5", "http"}, env \in SUBSET {"zk", "pem"} :
               given = Setup(f, NoPaste, Target(e, x), env)
    BY <1>1, <1>3, <1>7
  <1>8. CASE \E a, b \in BoundedSeq(Lines, MaxLines) : given = [kind |-> "diff", old |-> a, new |-> b]
    BY <1>8
  <1>9. CASE \E s \in BoundedSeq(0 .. MaxTs, 3) \ {<< >>}, n \in 0 .. 3 :
               given = [kind |-> "digest", times |-> s, limit |-> n]
    BY <1>9
  <1> QED BY <1>4, <1>5, <1>6, <1>7, <1>8, <1>9 DEF RulesInit

LEMMA RulesInvariance == RulesSpec => []GivenInv
  <1>1. GivenInv /\ [RulesNext]_<<given, done>> => GivenInv'
    BY DEF GivenInv, RulesNext
  <1> QED BY <1>1, RulesStart, PTL DEF RulesSpec

LEMMA RuleWordsEnough == Words \subseteq RuleWords
  BY DEF RuleWords

\* validateRequiredCombination: the run's invariant, as a case of SetupComplete.
THEOREM RulesComplete == RulesSpec => []AcceptedComplete
  <1>1. GivenInv => AcceptedComplete
    BY SetupComplete, RuleWordsEnough DEF GivenInv, AcceptedComplete
  <1> QED BY <1>1, RulesInvariance, PTL

\* Service.Test: the run's invariant, as a case of SetupTested.
THEOREM RulesTested == RulesSpec => []TestFaithful
  <1>1. GivenInv => TestFaithful
    BY SetupTested, RuleWordsEnough DEF GivenInv, TestFaithful
  <1> QED BY <1>1, RulesInvariance, PTL

\* applyPropertiesImport: the run's invariant, as a case of SetupPasted.
THEOREM RulesPasted == RulesSpec => []PasteAccepted
  <1>1. GivenInv => PasteAccepted
    BY SetupPasted, RuleWordsEnough DEF GivenInv, PasteAccepted
  <1> QED BY <1>1, RulesInvariance, PTL

-----------------------------------------------------------------------------
\* The aggregates of a digest.

\* A set of naturals that is not empty has a least element.
LEMMA LeastOf ==
  ASSUME NEW T \in SUBSET Nat, T # {}
  PROVE  \E x \in T : \A y \in T : x <= y
  <1> DEFINE R == {ss \in Nat \X Nat : ss[1] < ss[2]}
  <1>1. IsWellFoundedOn(R, Nat)
    BY NatLessThanWellFounded DEF OpToRel
  <1>2. \A x, y \in Nat : y < x => <<y, x>> \in R
    OBVIOUS
  <1> HIDE DEF R
  <1>3. PICK x \in T : \A y \in T : ~ (<<y, x>> \in R)
    BY <1>1, WFMin
  <1>4. \A y \in T : ~(y < x)
    BY <1>2, <1>3
  <1> QED BY <1>3, <1>4

\* What Min and Max choose.
LEMMA MinOf ==
  ASSUME NEW T \in SUBSET Nat, T # {}
  PROVE  Min(T) \in T /\ \A y \in T : Min(T) <= y
  BY LeastOf DEF Min

LEMMA MaxOf ==
  ASSUME NEW B \in Nat, NEW T \in SUBSET (0 .. B), T # {}
  PROVE  Max(T) \in T /\ \A y \in T : Max(T) >= y
  <1> DEFINE D == {d \in 0 .. B : B - d \in T}
  <1>1. D \in SUBSET Nat /\ D # {}
    <2>1. PICK x \in T : TRUE
      OBVIOUS
    <2>2. B - x \in D
      OBVIOUS
    <2>3. D # {}
      BY <2>2
    <2> HIDE DEF D
    <2>4. D \in SUBSET Nat
      BY DEF D
    <2> QED BY <2>3, <2>4
  <1>2. PICK d \in D : \A e \in D : d <= e
    BY <1>1, LeastOf
  <1>3. \A y \in T : B - y \in D
    OBVIOUS
  <1>4. B - d \in T /\ \A y \in T : B - d >= y
    BY <1>2, <1>3
  <1> QED BY <1>4 DEF Max

LEMMA MinPair ==
  ASSUME NEW a \in Nat, NEW b \in Nat
  PROVE  Min({a, b}) = IF a <= b THEN a ELSE b
  <1>1. Min({a, b}) \in {a, b} /\ \A y \in {a, b} : Min({a, b}) <= y
    BY MinOf
  <1> QED BY <1>1

\* A later multiple is at least one width further.
LEMMA Multiples ==
  ASSUME NEW i \in Nat, NEW j \in Nat, NEW w \in Nat, i < j
  PROVE  i * w \in Nat /\ i * w + w <= j * w
  <1>1. PICK d \in Nat : j = i + 1 + d
    <2>1. j - i - 1 \in Nat /\ j = i + 1 + (j - i - 1)
      OBVIOUS
    <2> QED BY <2>1
  <1>2. (i + 1 + d) * w = i * w + w + d * w /\ d * w \in Nat /\ i * w \in Nat
    OBVIOUS
  <1> QED BY <1>1, <1>2

\* The division theorem, as the provers know it.
LEMMA Quotient ==
  ASSUME NEW x \in Nat, NEW w \in Nat \ {0}
  PROVE  /\ x \div w \in Nat
         /\ (x \div w) * w <= x
         /\ x < (x \div w) * w + w
  OBVIOUS

\* The quotient is the number of the stretch of width w that holds x.
LEMMA Stretch ==
  ASSUME NEW x \in Nat, NEW w \in Nat \ {0}, NEW i \in Nat
  PROVE  /\ x \div w = i <=> i * w <= x /\ x < i * w + w
         /\ x \div w >= i <=> i * w <= x
  <1> DEFINE q == x \div w
  <1>1. q \in Nat /\ q * w \in Nat /\ i * w \in Nat /\ q * w <= x /\ x < q * w + w
    BY Quotient
  <1> HIDE DEF q
  <1>2. CASE q = i
    BY <1>1, <1>2 DEF q
  <1>3. CASE q < i
    <2>1. q * w + w <= i * w
      BY <1>1, <1>3, Multiples
    <2> QED BY <1>1, <1>3, <2>1 DEF q
  <1>4. CASE i < q
    <2>1. i * w + w <= q * w
      BY <1>1, <1>4, Multiples
    <2> QED BY <1>1, <1>4, <2>1 DEF q
  <1> QED BY <1>1, <1>2, <1>3, <1>4

\* buildTimeHistogram, for every list of time stamps: there are at most MaxBuckets
\* buckets, each counts the time stamps within its bounds, and the bounds of
\* exactly one hold a given time stamp.
HistogramExact(times) ==
  LET h == buildTimeHistogram(times)
  IN /\ Len(h) <= MaxBuckets
     /\ \A i \in DOMAIN h : h[i].count = Within(times, h[i])
     /\ \A k \in DOMAIN times : \E i \in DOMAIN h : {j \in DOMAIN h : Holds(h[j], times[k])} = {i}

\* buildTimeHistogram: the buckets of every list of time stamps are exact.
THEOREM DigestBuckets ==
  ASSUME NEW B \in Nat, NEW times \in Seq(0 .. B), times # << >>
  PROVE  HistogramExact(times)
  <1> DEFINE T == ToSet(times)
             minTs == Min(T)
             maxTs == Max(T)
             span  == maxTs - minTs + 1
             n     == Min({span, MaxBuckets})
             width == (span + n - 1) \div n
             At(ts) == Min({(ts - minTs) \div width, n - 1})
             from(i) == minTs + (i - 1) * width
             to(i)   == BucketEnd(i - 1, n - 1, from(i), width, maxTs)
             count(i) == Cardinality({k \in DOMAIN times : At(times[k]) = i - 1})
             h == [i \in 1 .. n |-> [from |-> from(i), to |-> to(i), count |-> count(i)]]
  <1>1. buildTimeHistogram(times) = h
    BY DEF buildTimeHistogram
  <1>2. T \in SUBSET (0 .. B) /\ T # {} /\ \A k \in DOMAIN times : times[k] \in T
    <2>1. \A k \in DOMAIN times : times[k] \in 0 .. B /\ times[k] \in T
      BY DEF ToSet
    <2>2. 1 \in DOMAIN times
      OBVIOUS
    <2>3. T \in SUBSET (0 .. B)
      BY <2>1 DEF ToSet
    <2> HIDE DEF T
    <2> QED BY <2>1, <2>2, <2>3
  <1>3. minTs \in Nat /\ maxTs \in Nat /\ minTs <= maxTs /\ \A k \in DOMAIN times : times[k] \in minTs .. maxTs
    <2>1. T \in SUBSET Nat
      BY <1>2
    <2> HIDE DEF T
    <2>2. minTs \in T /\ \A y \in T : minTs <= y
      BY <1>2, <2>1, MinOf
    <2>3. maxTs \in T /\ \A y \in T : maxTs >= y
      BY <1>2, MaxOf
    <2> HIDE DEF minTs, maxTs
    <2> QED BY <1>2, <2>1, <2>2, <2>3
  <1> HIDE DEF T, minTs, maxTs
  <1>4. span \in Nat \ {0}
    BY <1>3
  <1>5. n \in Nat \ {0} /\ n <= MaxBuckets
    BY <1>4, MinPair, BucketsAssumption
  <1> HIDE DEF span, n
  <1>6. width \in Nat \ {0}
    <2>1. 1 * n <= span + n - 1
      BY <1>4, <1>5
    <2>2. width >= 1
      BY <1>4, <1>5, <2>1, Stretch
    <2> QED BY <1>4, <1>5, <2>2, Quotient
  <1> HIDE DEF width
  <1>7. ASSUME NEW k \in DOMAIN times, NEW i \in 1 .. n
        PROVE  At(times[k]) = i - 1 <=> from(i) <= times[k] /\ times[k] < to(i)
    <2> DEFINE x == times[k] - minTs
               q == x \div width
    <2>1. x \in Nat /\ times[k] \in Nat /\ times[k] = minTs + x /\ times[k] <= maxTs
      BY <1>3
    <2>2. i - 1 \in Nat /\ n - 1 \in Nat /\ q \in Nat /\ (i - 1) * width \in Nat
      BY <1>5, <1>6, <2>1, Quotient
    <2>3. (q = i - 1 <=> (i - 1) * width <= x /\ x < (i - 1) * width + width) /\ (q >= i - 1 <=> (i - 1) * width <= x)
      BY <1>6, <2>1, <2>2, Stretch
    <2>4. At(times[k]) = IF q <= n - 1 THEN q ELSE n - 1
      BY <2>2, MinPair
    <2> HIDE DEF x, q, At
    <2>5. CASE i = n
      <3>1. to(i) = maxTs + 1
        BY <2>5 DEF BucketEnd
      <3>2. At(times[k]) = i - 1 <=> q >= i - 1
        BY <2>2, <2>4, <2>5
      <3>3. times[k] < to(i)
        BY <1>3, <2>1, <3>1
      <3>4. from(i) <= times[k] <=> (i - 1) * width <= x
        BY <1>3, <2>1, <2>2
      <3> QED BY <2>3, <3>2, <3>3, <3>4
    <2>6. CASE i # n
      <3>1. to(i) = from(i) + width
        BY <1>5, <2>6 DEF BucketEnd
      <3>2. At(times[k]) = i - 1 <=> q = i - 1
        BY <1>5, <2>2, <2>4, <2>6
      <3>3. from(i) <= times[k] <=> (i - 1) * width <= x
        BY <1>3, <2>1, <2>2
      <3>4. times[k] < to(i) <=> x < (i - 1) * width + width
        BY <1>3, <1>6, <2>1, <2>2, <3>1
      <3> QED BY <2>3, <3>2, <3>3, <3>4
    <2> QED BY <2>5, <2>6
  <1>8. ASSUME NEW k \in DOMAIN times PROVE At(times[k]) \in 0 .. n - 1
    <2>1. times[k] - minTs \in Nat
      BY <1>3
    <2>2. (times[k] - minTs) \div width \in Nat /\ n - 1 \in Nat
      BY <1>5, <1>6, <2>1, Quotient
    <2> QED BY <2>2, MinPair
  <1> HIDE DEF At, from, to
  <1>9. DOMAIN h = 1 .. n /\ Len(h) = n
    BY <1>5
  <1>10. \A i \in 1 .. n : h[i].from = from(i) /\ h[i].to = to(i) /\ h[i].count = count(i)
    OBVIOUS
  <1> HIDE DEF h
  <1>11. ASSUME NEW i \in 1 .. n PROVE h[i].count = Within(times, h[i])
    <2>1. {k \in DOMAIN times : At(times[k]) = i - 1} = {k \in DOMAIN times : Holds(h[i], times[k])}
      BY <1>7, <1>10 DEF Holds
    <2> QED BY <1>10, <2>1 DEF Within
  <1>12. ASSUME NEW k \in DOMAIN times
         PROVE  \E i \in 1 .. n : {j \in 1 .. n : Holds(h[j], times[k])} = {i}
    <2> DEFINE a == At(times[k])
               i == a + 1
    <2>1. a \in 0 .. n - 1 /\ \A j \in 1 .. n : Holds(h[j], times[k]) <=> a = j - 1
      BY <1>7, <1>8, <1>10 DEF Holds
    <2> HIDE DEF a
    <2>2. i \in 1 .. n
      BY <1>5, <2>1
    <2>3. \A j \in 1 .. n : Holds(h[j], times[k]) <=> a = j - 1
      BY <2>1
    <2>4. \A j \in 1 .. n : a = j - 1 <=> j = i
      BY <1>5, <2>1
    <2> HIDE DEF i
    <2>5. {j \in 1 .. n : Holds(h[j], times[k])} = {i}
      BY <2>2, <2>3, <2>4
    <2> QED BY <2>2, <2>5
  <1> QED BY <1>1, <1>5, <1>9, <1>11, <1>12 DEF HistogramExact

\* topGroups, for any counts: as many groups as asked for and there are, and none
\* that is cut off is larger than one that is kept.
TopExact(counts, limit) ==
  LET top == topGroups(counts, limit)
  IN /\ Cardinality(top) = Min({limit, Cardinality(DOMAIN counts)})
     /\ \A g \in top, d \in DOMAIN counts \ top : counts[g] >= counts[d]

\* How many groups come before a group.
Earlier(counts, g) == {h \in DOMAIN counts : Before(counts, h, g)}

\* Of two groups one comes first, and fewer come before it.
LEMMA RankGrows ==
  ASSUME NEW D \in SUBSET Nat, IsFiniteSet(D), NEW counts \in [D -> Nat], NEW g \in D, NEW h \in D, Before(counts, g, h)
  PROVE  Cardinality(Earlier(counts, g)) < Cardinality(Earlier(counts, h))
  <1> DEFINE G == Earlier(counts, g)
             H == Earlier(counts, h)
  <1>1. G \in SUBSET D /\ H \in SUBSET D
    BY DEF Earlier
  <1>2. G \subseteq H
    <2>1. \A x \in D : counts[x] \in Nat /\ x \in Nat
      OBVIOUS
    <2>2. \A x \in D : Before(counts, x, g) => Before(counts, x, h)
      BY <2>1 DEF Before
    <2> QED BY <2>2 DEF Earlier
  <1>3. g \in H /\ g \notin G
    BY DEF Earlier, Before
  <1> HIDE DEF G, H
  <1>4. IsFiniteSet(H) /\ Cardinality(H) \in Nat
    BY <1>1, FS_Subset, FS_CardinalityType
  <1>5. IsFiniteSet(G) /\ Cardinality(G) \in Nat /\ Cardinality(G) <= Cardinality(H) /\ (Cardinality(H) = Cardinality(G) => H = G)
    BY <1>2, <1>4, FS_Subset, FS_CardinalityType
  <1> QED BY <1>3, <1>4, <1>5 DEF G, H

\* topGroups: the selection is exact for all counts and every limit.
THEOREM DigestTopGroups ==
  ASSUME NEW D \in SUBSET Nat, IsFiniteSet(D), NEW counts \in [D -> Nat], NEW limit \in Nat
  PROVE  TopExact(counts, limit)
  <1> DEFINE N == Cardinality(D)
             rank == [g \in D |-> Cardinality(Earlier(counts, g))]
             top == topGroups(counts, limit)
  <1>1. N \in Nat /\ DOMAIN counts = D
    BY FS_CardinalityType
  <1>2. ASSUME NEW g \in D PROVE rank[g] \in 0 .. N - 1
    <2> DEFINE G == Earlier(counts, g)
    <2>1. G \in SUBSET (D \ {g})
      BY <1>1 DEF Earlier, Before
    <2>2. IsFiniteSet(D \ {g}) /\ Cardinality(D \ {g}) = N - 1
      BY FS_RemoveElement
    <2> HIDE DEF G
    <2>3. Cardinality(G) \in Nat /\ Cardinality(G) <= N - 1
      BY <2>1, <2>2, FS_Subset, FS_CardinalityType
    <2> QED BY <1>1, <2>3 DEF G
  <1>3. ASSUME NEW g \in D, NEW h \in D, Before(counts, g, h) PROVE rank[g] < rank[h]
    BY <1>3, RankGrows
  <1>4. \A g, h \in D : g # h => Before(counts, g, h) \/ Before(counts, h, g)
    BY <1>1 DEF Before
  <1>5. top = {g \in D : rank[g] < limit}
    BY <1>1 DEF topGroups, Earlier
  <1> HIDE DEF N, top
  <1>6. rank \in [D -> 0 .. N - 1]
    BY <1>2
  <1> HIDE DEF rank
  <1>7. \A g, h \in D : rank[g] = rank[h] => g = h
    <2> SUFFICES ASSUME NEW g \in D, NEW h \in D, g # h PROVE rank[g] # rank[h]
      OBVIOUS
    <2>1. rank[g] \in Int /\ rank[h] \in Int
      BY <1>1, <1>6
    <2> QED BY <1>3, <1>4, <2>1
  <1>8. \A r \in 0 .. N - 1 : \E g \in D : rank[g] = r
    <2> DEFINE R == 0 .. N - 1
    <2>1. IsFiniteSet(R) /\ Cardinality(R) = N
      BY <1>1, FS_Interval
    <2>2. rank \in Injection(D, R)
      BY <1>6, <1>7 DEF Injection, IsInjective
    <2> HIDE DEF R
    <2>3. rank \in Surjection(D, R)
      BY <2>1, <2>2, FS_Injection DEF N
    <2> QED BY <2>3 DEF Surjection, R
  <1>9. Cardinality(top) = Min({limit, N})
    <2> DEFINE m == IF limit <= N THEN limit ELSE N
               M == 0 .. m - 1
               f == [g \in top |-> rank[g]]
    <2>1. m \in Nat /\ Min({limit, N}) = m
      BY <1>1, MinPair
    <2> HIDE DEF m
    <2>2. IsFiniteSet(M) /\ Cardinality(M) = m
      <3>1. m \in Nat
        BY <2>1
      <3> QED BY <3>1, FS_Interval
    <2>3. \A g \in D : rank[g] \in Nat /\ rank[g] < N
      BY <1>1, <1>6
    <2>4. \A g \in top : g \in D /\ rank[g] \in M
      BY <1>1, <1>5, <2>1, <2>3 DEF m
    <2>5. \A r \in M : \E g \in top : rank[g] = r
      <3> SUFFICES ASSUME NEW r \in M PROVE \E g \in top : rank[g] = r
        OBVIOUS
      <3>1. r \in 0 .. N - 1 /\ r < limit
        BY <1>1, <2>1 DEF m
      <3>2. PICK g \in D : rank[g] = r
        BY <1>8, <3>1
      <3> QED BY <1>5, <3>1, <3>2
    <2> HIDE DEF M
    <2>6. f \in Injection(top, M)
      BY <1>7, <2>4 DEF Injection, IsInjective
    <2>7. f \in Surjection(top, M)
      BY <2>4, <2>5 DEF Surjection
    <2> HIDE DEF f
    <2>8. Cardinality(top) = Cardinality(M)
      BY <2>2, <2>6, <2>7, FS_Injection
    <2> QED BY <2>1, <2>2, <2>8
  <1>10. ASSUME NEW g \in top, NEW d \in D \ top PROVE counts[g] >= counts[d]
    <2>1. rank[g] < limit /\ ~(rank[d] < limit) /\ g \in D /\ d \in D
      BY <1>5
    <2>2. rank[g] \in Int /\ rank[d] \in Int
      BY <1>1, <1>6, <2>1
    <2>3. ~Before(counts, d, g)
      BY <1>3, <2>1, <2>2
    <2> QED BY <2>1, <2>3 DEF Before
  <1> QED BY <1>1, <1>9, <1>10 DEF TopExact, top, N

\* The inputs of the run for a digest.
DigestGiven ==
  given.kind = "digest" => /\ given.times \in Seq(0 .. MaxTs) /\ given.times # << >>
                           /\ given.limit \in Nat

LEMMA DigestStart == RulesInit => DigestGiven
  <1> SUFFICES ASSUME RulesInit, given.kind = "digest"
               PROVE  given.times \in Seq(0 .. MaxTs) /\ given.times # << >> /\ given.limit \in Nat
    BY DEF DigestGiven
  <1>1. \A f, p, t, env : given # Setup(f, p, t, env)
    BY DEF Setup
  <1>2. \A a, b : given # [kind |-> "diff", old |-> a, new |-> b]
    OBVIOUS
  <1>3. PICK s \in BoundedSeq(0 .. MaxTs, 3) \ {<< >>}, n \in 0 .. 3 : given = [kind |-> "digest", times |-> s, limit |-> n]
    BY <1>1, <1>2 DEF RulesInit
  <1>4. given.times = s /\ given.limit = n
    BY <1>3
  <1>5. s \in Seq(0 .. MaxTs)
    <2>1. PICK m \in 0 .. 3 : s \in [1 .. m -> 0 .. MaxTs]
      BY DEF BoundedSeq, SeqOf
    <2>2. m \in Nat
      BY <2>1
    <2> DEFINE S == 0 .. MaxTs
    <2> HIDE DEF S
    <2>3. s \in [1 .. m -> S]
      BY <2>1 DEF S
    <2>4. s \in Seq(S)
      BY ONLY <2>2, <2>3
    <2> QED BY <2>4 DEF S
  <1> QED BY <1>4, <1>5

\* buildTimeHistogram and topGroups: the run's invariant, as a case of
\* DigestBuckets and DigestTopGroups.
THEOREM RulesDigest == RulesSpec => []DigestCountsAll
  <1>1. DigestGiven /\ [RulesNext]_<<given, done>> => DigestGiven'
    BY DEF DigestGiven, RulesNext
  <1>2. DigestGiven => DigestCountsAll
    <2> SUFFICES ASSUME DigestGiven, given.kind = "digest" PROVE DigestCountsAll
      BY DEF DigestCountsAll
    <2> DEFINE times == given.times
               T == ToSet(times)
               counts == [t \in T |-> Cardinality({k \in DOMAIN times : times[k] = t})]
    <2>1. times \in Seq(0 .. MaxTs) /\ times # << >> /\ given.limit \in Nat
      BY DEF DigestGiven
    <2>2. HistogramExact(times)
      BY <2>1, DigestBuckets, RulesAssumption
    <2>3. T \in SUBSET Nat /\ IsFiniteSet(T)
      <3>1. \A k \in DOMAIN times : times[k] \in Nat /\ times[k] <= MaxTs
        BY <2>1, RulesAssumption
      <3>2. T \in SUBSET Nat /\ \A x \in T : x <= MaxTs
        BY <3>1 DEF ToSet
      <3> QED BY <3>2, FS_BoundedSetOfNaturals, RulesAssumption
    <2>4. counts \in [T -> Nat]
      <3>1. ASSUME NEW t \in T PROVE Cardinality({k \in DOMAIN times : times[k] = t}) \in Nat
        <4> DEFINE K == {k \in DOMAIN times : times[k] = t}
        <4>1. Len(times) \in Nat /\ DOMAIN times = 1 .. Len(times) /\ K \in SUBSET (1 .. Len(times))
          BY <2>1
        <4> HIDE DEF K
        <4>2. IsFiniteSet(1 .. Len(times))
          <5> DEFINE l == Len(times)
          <5>1. l \in Int
            BY <4>1
          <5> HIDE DEF l
          <5>2. IsFiniteSet(1 .. l)
            BY <5>1, FS_Interval
          <5> QED BY <5>2 DEF l
        <4>3. IsFiniteSet(K)
          BY <4>1, <4>2, FS_Subset
        <4> QED BY <4>3, FS_CardinalityType DEF K
      <3> HIDE DEF T
      <3> QED BY <3>1
    <2> HIDE DEF T
    <2>5. TopExact(counts, given.limit)
      BY <2>1, <2>3, <2>4, DigestTopGroups
    <2> QED BY <2>2, <2>5 DEF DigestCountsAll, HistogramExact, TopExact, T
  <1> QED BY <1>1, <1>2, DigestStart, PTL DEF RulesSpec

-----------------------------------------------------------------------------
\* The diff of two texts.

\* Induction on the naturals, with a set for the property.
LEMMA AllNaturals ==
  ASSUME NEW T, 0 \in T, \A k \in Nat : k \in T => k + 1 \in T
  PROVE  Nat \subseteq T
  <1> DEFINE B == {k \in Nat : k \notin T}
  <1> SUFFICES ASSUME B # {} PROVE FALSE
    OBVIOUS
  <1>1. PICK k \in B : \A j \in B : k <= j
    BY LeastOf
  <1>2. k # 0 /\ k - 1 \in Nat
    OBVIOUS
  <1>3. k - 1 \in T
    BY <1>1, <1>2
  <1> QED BY <1>2, <1>3

\* What the table holds at a cell, given the cells below and to the right.
Cell(a, b, g, c) ==
  IF c[1] > Len(a) \/ c[2] > Len(b) THEN 0
  ELSE IF a[c[1]] = b[c[2]] THEN g[<<c[1] + 1, c[2] + 1>>] + 1
  ELSE IF g[<<c[1] + 1, c[2]>>] >= g[<<c[1], c[2] + 1>>] THEN g[<<c[1] + 1, c[2]>>] ELSE g[<<c[1], c[2] + 1>>]

Cells(a, b) == (1 .. Len(a) + 1) \X (1 .. Len(b) + 1)

\* The lines left at a cell.
Left(a, b, c) == (Len(a) + 1 - c[1]) + (Len(b) + 1 - c[2])

\* A cell is filled from cells with fewer lines left.
LEMMA CellNext ==
  ASSUME NEW S, NEW a \in Seq(S), NEW b \in Seq(S), NEW c \in Cells(a, b)
  PROVE  /\ Left(a, b, c) \in Nat
         /\ c[1] \in 1 .. Len(a) + 1 /\ c[2] \in 1 .. Len(b) + 1
         /\ (c[1] <= Len(a) /\ c[2] <= Len(b)) =>
              \A d \in {<<c[1] + 1, c[2] + 1>>, <<c[1] + 1, c[2]>>, <<c[1], c[2] + 1>>} :
                d \in Cells(a, b) /\ Left(a, b, d) < Left(a, b, c)
  <1> DEFINE m == Len(a)
             n == Len(b)
  <1>1. m \in Nat /\ n \in Nat
    OBVIOUS
  <1>2. c[1] \in 1 .. m + 1 /\ c[2] \in 1 .. n + 1
    BY DEF Cells
  <1> HIDE DEF m, n
  <1>3. Left(a, b, c) = (m + 1 - c[1]) + (n + 1 - c[2])
    BY DEF Left, m, n
  <1>4. ASSUME c[1] <= m, c[2] <= n, NEW i \in {c[1], c[1] + 1}, NEW j \in {c[2], c[2] + 1}, i # c[1] \/ j # c[2]
        PROVE  <<i, j>> \in Cells(a, b) /\ Left(a, b, <<i, j>>) < Left(a, b, c)
    <2>1. i \in 1 .. m + 1 /\ j \in 1 .. n + 1
      BY <1>1, <1>2, <1>4
    <2>2. Left(a, b, <<i, j>>) = (m + 1 - i) + (n + 1 - j)
      BY DEF Left, m, n
    <2>3. (m + 1 - i) + (n + 1 - j) < (m + 1 - c[1]) + (n + 1 - c[2])
      <3> DEFINE p == c[1]
                 q == c[2]
      <3>1. p \in Int /\ q \in Int /\ i \in {p, p + 1} /\ j \in {q, q + 1} /\ (i # p \/ j # q)
        BY <1>2, <1>4
      <3> HIDE DEF p, q
      <3>2. (m + 1 - i) + (n + 1 - j) < (m + 1 - p) + (n + 1 - q)
        BY ONLY <1>1, <3>1
      <3> QED BY <3>2 DEF p, q
    <2> QED BY <1>3, <2>1, <2>2, <2>3 DEF Cells, m, n
  <1>5. Left(a, b, c) \in Nat
    BY <1>1, <1>2, <1>3
  <1>6. ASSUME c[1] <= m, c[2] <= n,
               NEW d \in {<<c[1] + 1, c[2] + 1>>, <<c[1] + 1, c[2]>>, <<c[1], c[2] + 1>>}
        PROVE  d \in Cells(a, b) /\ Left(a, b, d) < Left(a, b, c)
    <2>1. c[1] + 1 # c[1] /\ c[2] + 1 # c[2]
      BY <1>2
    <2> QED BY <1>4, <1>6, <2>1
  <1> QED BY <1>2, <1>5, <1>6 DEF m, n

\* The table of the code exists and holds natural numbers: its cells are filled
\* one after the other.
LEMMA LcsTable ==
  ASSUME NEW S, NEW a \in Seq(S), NEW b \in Seq(S)
  PROVE  Lcs(a, b) = [c \in Cells(a, b) |-> Cell(a, b, Lcs(a, b), c)]
  <1> DEFINE C == Cells(a, b)
             Upto(g, k) == g = [c \in C |-> g[c]] /\ \A c \in C : Left(a, b, c) <= k => g[c] = Cell(a, b, g, c)
             T == {k \in Nat : \E g : Upto(g, k)}
  <1>1. ASSUME NEW g, NEW h, NEW c \in C, \A d \in C : Left(a, b, d) < Left(a, b, c) => h[d] = g[d]
        PROVE  Cell(a, b, h, c) = Cell(a, b, g, c)
    <2>1. CASE c[1] <= Len(a) /\ c[2] <= Len(b)
      <3> DEFINE x == <<c[1] + 1, c[2] + 1>>
                 y == <<c[1] + 1, c[2]>>
                 z == <<c[1], c[2] + 1>>
      <3>1. h[x] = g[x] /\ h[y] = g[y] /\ h[z] = g[z]
        BY <1>1, <2>1, CellNext
      <3> QED BY <3>1 DEF Cell
    <2>2. CASE ~(c[1] <= Len(a) /\ c[2] <= Len(b))
      <3>1. c[1] \in Int /\ c[2] \in Int /\ Len(a) \in Int /\ Len(b) \in Int
        <4>1. c[1] \in 1 .. Len(a) + 1 /\ c[2] \in 1 .. Len(b) + 1
          BY CellNext
        <4> QED BY <4>1
      <3>2. c[1] > Len(a) \/ c[2] > Len(b)
        BY ONLY <2>2, <3>1
      <3> QED BY <3>2 DEF Cell
    <2> QED BY <2>1, <2>2
  <1>2. \A c \in C : Left(a, b, c) \in Nat
    BY CellNext
  <1> HIDE DEF C
  <1>3. ASSUME NEW k \in Nat, NEW g, \A c \in C : Left(a, b, c) < k => g[c] = Cell(a, b, g, c)
        PROVE  \E h : Upto(h, k)
    <2> DEFINE h == [c \in C |-> IF Left(a, b, c) < k THEN g[c] ELSE Cell(a, b, g, c)]
    <2>1. ASSUME NEW c \in C, Left(a, b, c) <= k PROVE h[c] = Cell(a, b, h, c)
      <3>1. \A d \in C : Left(a, b, d) < Left(a, b, c) => h[d] = g[d]
        BY <1>2, <2>1
      <3>2. Cell(a, b, h, c) = Cell(a, b, g, c)
        BY <1>1, <3>1
      <3>3. h[c] = Cell(a, b, g, c)
        BY <1>3
      <3> HIDE DEF h
      <3> QED BY <3>2, <3>3
    <2>2. h = [c \in C |-> h[c]]
      OBVIOUS
    <2> HIDE DEF h
    <2>3. Upto(h, k)
      BY <2>1, <2>2
    <2> QED BY <2>3
  <1>4. 0 \in T
    <2> DEFINE g == [c \in C |-> 0]
    <2>1. \A c \in C : Left(a, b, c) < 0 => g[c] = Cell(a, b, g, c)
      BY <1>2
    <2> QED BY <1>3, <2>1
  <1>5. ASSUME NEW k \in Nat, k \in T PROVE k + 1 \in T
    <2>1. PICK g : Upto(g, k)
      BY <1>5
    <2>2. \A c \in C : Left(a, b, c) < k + 1 => g[c] = Cell(a, b, g, c)
      BY <1>2, <2>1
    <2>3. k + 1 \in Nat /\ \E h : Upto(h, k + 1)
      BY <1>3, <2>2
    <2> QED BY <2>3
  <1>6. \A k \in Nat : \E g : Upto(g, k)
    <2> HIDE DEF T
    <2>1. Nat \subseteq T
      BY <1>4, <1>5, AllNaturals
    <2> QED BY <2>1 DEF T
  <1>7. PICK g : Upto(g, Len(a) + Len(b))
    <2>1. Len(a) + Len(b) \in Nat
      OBVIOUS
    <2> HIDE DEF Upto
    <2> QED BY <1>6, <2>1
  <1>8. \A c \in C : Left(a, b, c) <= Len(a) + Len(b)
    <2> SUFFICES ASSUME NEW c \in C PROVE Left(a, b, c) <= Len(a) + Len(b)
      OBVIOUS
    <2>1. c[1] \in 1 .. Len(a) + 1 /\ c[2] \in 1 .. Len(b) + 1
      BY CellNext DEF C
    <2>2. Len(a) \in Nat /\ Len(b) \in Nat
      OBVIOUS
    <2> QED BY ONLY <2>1, <2>2 DEF Left
  <1>9. g = [c \in C |-> Cell(a, b, g, c)]
    <2>1. g = [c \in C |-> g[c]] /\ \A c \in C : g[c] = Cell(a, b, g, c)
      BY <1>7, <1>8
    <2> QED BY <2>1
  <1>10. Lcs(a, b) = CHOOSE h : h = [c \in C |-> Cell(a, b, h, c)]
    BY DEF Lcs, Cell, C, Cells
  <1> QED BY <1>9, <1>10 DEF C

\* Induction on the lines left.
LEMMA CellInduction ==
  ASSUME NEW S, NEW a \in Seq(S), NEW b \in Seq(S), NEW G,
         \A c \in Cells(a, b) : (\A d \in Cells(a, b) : Left(a, b, d) < Left(a, b, c) => d \in G) => c \in G
  PROVE  Cells(a, b) \subseteq G
  <1> DEFINE C == Cells(a, b)
             L(c) == Left(a, b, c)
             T == {k \in Nat : \A c \in C : L(c) <= k => c \in G}
  <1>1. \A c \in C : L(c) \in Nat
    BY CellNext
  <1>2. \A c \in C : (\A d \in C : L(d) < L(c) => d \in G) => c \in G
    OBVIOUS
  <1> HIDE DEF C, L
  <1>3. 0 \in T
    BY <1>1, <1>2
  <1>4. ASSUME NEW k \in Nat, k \in T PROVE k + 1 \in T
    <2>1. ASSUME NEW c \in C, L(c) <= k + 1 PROVE c \in G
      <3>1. \A d \in C : L(d) < L(c) => L(d) <= k
        BY <1>1, <2>1
      <3>2. \A d \in C : L(d) < L(c) => d \in G
        BY <1>4, <3>1
      <3> QED BY <1>2, <3>2
    <2> QED BY <2>1
  <1> HIDE DEF T
  <1>5. Nat \subseteq T
    BY <1>3, <1>4, AllNaturals
  <1>6. ASSUME NEW c \in C PROVE c \in G
    <2>1. L(c) \in T
      BY <1>1, <1>5
    <2> QED BY <1>1, <2>1 DEF T
  <1> QED BY <1>6 DEF C

\* The table cell by cell.
CellRule(a, b, dp, i, j) ==
  /\ dp[<<i, j>>] \in Nat
  /\ (i > Len(a) \/ j > Len(b)) => dp[<<i, j>>] = 0
  /\ (i <= Len(a) /\ j <= Len(b) /\ a[i] = b[j]) => dp[<<i, j>>] = dp[<<i + 1, j + 1>>] + 1
  /\ (i <= Len(a) /\ j <= Len(b) /\ a[i] # b[j]) =>
       dp[<<i, j>>] = IF dp[<<i + 1, j>>] >= dp[<<i, j + 1>>] THEN dp[<<i + 1, j>>] ELSE dp[<<i, j + 1>>]

\* The table follows the rule at every cell.
LEMMA LcsCells ==
  ASSUME NEW S, NEW a \in Seq(S), NEW b \in Seq(S), NEW i \in 1 .. Len(a) + 1, NEW j \in 1 .. Len(b) + 1
  PROVE  CellRule(a, b, Lcs(a, b), i, j)
  <1> DEFINE C == Cells(a, b)
             dp == Lcs(a, b)
             G == {c \in C : dp[c] \in Nat}
  <1>1. \A c \in C : dp[c] = Cell(a, b, dp, c)
    BY LcsTable
  <1> HIDE DEF dp
  <1>2. ASSUME NEW c \in C, \A d \in C : Left(a, b, d) < Left(a, b, c) => d \in G PROVE c \in G
    <2>1. CASE c[1] <= Len(a) /\ c[2] <= Len(b)
      <3>1. \A d \in {<<c[1] + 1, c[2] + 1>>, <<c[1] + 1, c[2]>>, <<c[1], c[2] + 1>>} : dp[d] \in Nat
        BY <1>2, <2>1, CellNext
      <3>2. dp[<<c[1] + 1, c[2] + 1>>] \in Nat /\ dp[<<c[1] + 1, c[2]>>] \in Nat /\ dp[<<c[1], c[2] + 1>>] \in Nat
        BY <3>1
      <3>3. Cell(a, b, dp, c) \in Nat
        BY <3>2 DEF Cell
      <3> QED BY <1>1, <3>3
    <2>2. CASE ~(c[1] <= Len(a) /\ c[2] <= Len(b))
      <3>1. c[1] \in Int /\ c[2] \in Int /\ Len(a) \in Int /\ Len(b) \in Int
        <4>1. c[1] \in 1 .. Len(a) + 1 /\ c[2] \in 1 .. Len(b) + 1
          BY CellNext
        <4> QED BY <4>1
      <3>2. c[1] > Len(a) \/ c[2] > Len(b)
        BY ONLY <2>2, <3>1
      <3>3. Cell(a, b, dp, c) = 0
        BY <3>2 DEF Cell
      <3> QED BY <1>1, <3>3
    <2> QED BY <2>1, <2>2
  <1> HIDE DEF G
  <1>3. C \subseteq G
    BY <1>2, CellInduction
  <1>4. <<i, j>> \in C
    BY DEF Cells
  <1>5. dp[<<i, j>>] \in Nat
    BY <1>3, <1>4 DEF G
  <1>6. dp[<<i, j>>] = Cell(a, b, dp, <<i, j>>)
    BY <1>1, <1>4
  <1>7. Cell(a, b, dp, <<i, j>>) =
          IF i > Len(a) \/ j > Len(b) THEN 0
          ELSE IF a[i] = b[j] THEN dp[<<i + 1, j + 1>>] + 1
          ELSE IF dp[<<i + 1, j>>] >= dp[<<i, j + 1>>] THEN dp[<<i + 1, j>>] ELSE dp[<<i, j + 1>>]
    BY DEF Cell
  <1>8. i \in Int /\ j \in Int /\ Len(a) \in Int /\ Len(b) \in Int
    OBVIOUS
  <1>9. /\ (i > Len(a) \/ j > Len(b)) => dp[<<i, j>>] = 0
        /\ (i <= Len(a) /\ j <= Len(b) /\ a[i] = b[j]) => dp[<<i, j>>] = dp[<<i + 1, j + 1>>] + 1
        /\ (i <= Len(a) /\ j <= Len(b) /\ a[i] # b[j]) =>
             dp[<<i, j>>] = IF dp[<<i + 1, j>>] >= dp[<<i, j + 1>>] THEN dp[<<i + 1, j>>] ELSE dp[<<i, j + 1>>]
    BY ONLY <1>6, <1>7, <1>8
  <1> QED BY <1>5, <1>9 DEF CellRule, dp

\* Positions in order between two bounds, and a common subsequence of the rests
\* of two texts: positions in both with equal lines.
Ordered(e, lo, hi) ==
  /\ e \in Seq(Nat)
  /\ \A k \in DOMAIN e : lo <= e[k] /\ e[k] <= hi
  /\ \A x, y \in DOMAIN e : x < y => e[x] < e[y]

Common(a, b, e, f, i, j) ==
  /\ Ordered(e, i, Len(a)) /\ Ordered(f, j, Len(b)) /\ Len(e) = Len(f)
  /\ \A k \in DOMAIN e : a[e[k]] = b[f[k]]

\* The first of positions in order lies between the bounds,
LEMMA OrderedFirst ==
  ASSUME NEW e, NEW lo \in Nat, NEW hi \in Nat, Ordered(e, lo, hi), e # << >>
  PROVE  lo <= e[1] /\ e[1] <= hi /\ e[1] \in Nat
  <1>1. e \in Seq(Nat) /\ 1 \in DOMAIN e
    BY DEF Ordered
  <1> QED BY <1>1 DEF Ordered

\* the others lie above the lower bound,
LEMMA OrderedTail ==
  ASSUME NEW e, NEW lo \in Nat, NEW hi \in Nat, Ordered(e, lo, hi), e # << >>
  PROVE  Ordered(Tail(e), lo + 1, hi) /\ Len(Tail(e)) = Len(e) - 1 /\ \A k \in DOMAIN Tail(e) : k + 1 \in DOMAIN e /\ Tail(e)[k] = e[k + 1]
  <1> DEFINE t == Tail(e)
             l == Len(e)
  <1>1. e \in Seq(Nat) /\ l \in Nat \ {0} /\ DOMAIN e = 1 .. l
    BY DEF Ordered
  <1>2. t \in Seq(Nat) /\ Len(t) = l - 1 /\ DOMAIN t = 1 .. l - 1 /\ \A k \in 1 .. l - 1 : t[k] = e[k + 1]
    BY <1>1
  <1>3. \A k \in 1 .. l : e[k] \in Nat /\ lo <= e[k] /\ e[k] <= hi
    BY <1>1 DEF Ordered
  <1>4. \A x, y \in 1 .. l : x < y => e[x] < e[y]
    BY <1>1 DEF Ordered
  <1> HIDE DEF t, l
  <1>5. \A k \in 1 .. l - 1 : k + 1 \in 1 .. l /\ 1 \in 1 .. l /\ 1 < k + 1
    BY <1>1
  <1>6. \A k \in 1 .. l - 1 : lo + 1 <= t[k] /\ t[k] <= hi
    <2> SUFFICES ASSUME NEW k \in 1 .. l - 1 PROVE lo + 1 <= t[k] /\ t[k] <= hi
      OBVIOUS
    <2>1. k + 1 \in 1 .. l /\ 1 \in 1 .. l /\ 1 < k + 1
      BY <1>5
    <2>2. lo <= e[1] /\ e[1] < e[k + 1] /\ e[k + 1] <= hi /\ e[1] \in Nat /\ e[k + 1] \in Nat
      BY <1>3, <1>4, <2>1
    <2>3. t[k] = e[k + 1]
      BY <1>2
    <2> QED BY <2>2, <2>3
  <1>7. \A x, y \in 1 .. l - 1 : x < y => t[x] < t[y]
    BY <1>2, <1>4, <1>5
  <1>8. Ordered(t, lo + 1, hi)
    BY <1>2, <1>6, <1>7 DEF Ordered
  <1> QED BY <1>1, <1>2, <1>5, <1>8 DEF t, l

\* and all do when the first is not the lower bound.
LEMMA OrderedLater ==
  ASSUME NEW e, NEW lo \in Nat, NEW hi \in Nat, Ordered(e, lo, hi), e = << >> \/ e[1] # lo
  PROVE  Ordered(e, lo + 1, hi)
  <1> DEFINE l == Len(e)
  <1>1. e \in Seq(Nat) /\ l \in Nat /\ DOMAIN e = 1 .. l /\ (l # 0 => e[1] # lo)
    BY DEF Ordered
  <1>2. \A k \in 1 .. l : e[k] \in Nat /\ lo <= e[k] /\ e[k] <= hi
    BY <1>1 DEF Ordered
  <1>3. \A x, y \in 1 .. l : x < y => e[x] < e[y]
    BY <1>1 DEF Ordered
  <1> HIDE DEF l
  <1>4. \A k \in 1 .. l : lo + 1 <= e[k]
    <2> SUFFICES ASSUME NEW k \in 1 .. l PROVE lo + 1 <= e[k]
      OBVIOUS
    <2>1. 1 \in 1 .. l /\ e[1] # lo
      BY <1>1
    <2>2. k = 1 \/ 1 < k
      BY <1>1
    <2>3. lo + 1 <= e[1]
      BY <1>2, <2>1
    <2> QED BY <1>2, <1>3, <2>1, <2>2, <2>3
  <1> QED BY <1>1, <1>2, <1>3, <1>4 DEF Ordered

\* No common subsequence is longer than the table says.
LEMMA LcsBound ==
  ASSUME NEW S, NEW a \in Seq(S), NEW b \in Seq(S), NEW i \in 1 .. Len(a) + 1, NEW j \in 1 .. Len(b) + 1,
         NEW e, NEW f, Common(a, b, e, f, i, j)
  PROVE  Len(e) <= Lcs(a, b)[<<i, j>>]
  <1> DEFINE C == Cells(a, b)
             dp == Lcs(a, b)
             m == Len(a)
             n == Len(b)
             P(p, q) == \A g, h : Common(a, b, g, h, p, q) => Len(g) <= dp[<<p, q>>]
             G == {c \in C : P(c[1], c[2])}
  <1>1. m \in Nat /\ n \in Nat
    OBVIOUS
  <1>2. ASSUME NEW p \in 1 .. m + 1, NEW q \in 1 .. n + 1,
               (p <= m /\ q <= n) => P(p + 1, q + 1) /\ P(p + 1, q) /\ P(p, q + 1)
        PROVE  P(p, q)
    <2> SUFFICES ASSUME NEW g, NEW h, Common(a, b, g, h, p, q) PROVE Len(g) <= dp[<<p, q>>]
      OBVIOUS
    <2>1. /\ dp[<<p, q>>] \in Nat
          /\ (p <= m /\ q <= n /\ a[p] = b[q]) => dp[<<p, q>>] = dp[<<p + 1, q + 1>>] + 1
          /\ (p <= m /\ q <= n /\ a[p] # b[q]) =>
               dp[<<p, q>>] = IF dp[<<p + 1, q>>] >= dp[<<p, q + 1>>] THEN dp[<<p + 1, q>>] ELSE dp[<<p, q + 1>>]
      <3>1. CellRule(a, b, dp, p, q)
        BY LcsCells
      <3> HIDE DEF dp
      <3> QED BY <3>1 DEF CellRule
    <2>2. Ordered(g, p, m) /\ Ordered(h, q, n) /\ Len(g) = Len(h) /\ Len(g) \in Nat /\ p \in Nat /\ q \in Nat
          /\ g \in Seq(Nat) /\ h \in Seq(Nat) /\ \A k \in DOMAIN g : a[g[k]] = b[h[k]]
      BY DEF Common, Ordered
    <2> HIDE DEF dp, m, n, P
    <2>3. CASE Len(g) = 0
      BY <2>1, <2>3
    <2>4. CASE Len(g) # 0
      <3>1. 1 \in DOMAIN g /\ 1 \in DOMAIN h /\ g # << >> /\ h # << >>
        BY <2>2, <2>4
      <3>2. p <= g[1] /\ g[1] <= m /\ q <= h[1] /\ h[1] <= n /\ g[1] \in Nat /\ h[1] \in Nat
        <4>1. p <= g[1] /\ g[1] <= m /\ g[1] \in Nat
          BY <1>1, <2>2, <3>1, OrderedFirst
        <4>2. q <= h[1] /\ h[1] <= n /\ h[1] \in Nat
          BY <1>1, <2>2, <3>1, OrderedFirst
        <4> QED BY <4>1, <4>2
      <3>3. p <= m /\ q <= n
        <4> DEFINE x == g[1]
                   y == h[1]
        <4>1. m \in Nat /\ n \in Nat /\ p \in Nat /\ q \in Nat /\ x \in Nat /\ y \in Nat
              /\ p <= x /\ x <= m /\ q <= y /\ y <= n
          BY <1>1, <2>2, <3>2
        <4> HIDE DEF x, y
        <4> QED BY ONLY <4>1
      <3>4. p + 1 \in 1 .. m + 1 /\ q + 1 \in 1 .. n + 1
        BY <1>1, <3>3
      <3>5. dp[<<p + 1, q + 1>>] \in Nat /\ dp[<<p + 1, q>>] \in Nat /\ dp[<<p, q + 1>>] \in Nat
        <4>1. p \in 1 .. m + 1 /\ q \in 1 .. n + 1
          OBVIOUS
        <4>2. CellRule(a, b, dp, p + 1, q + 1) /\ CellRule(a, b, dp, p + 1, q) /\ CellRule(a, b, dp, p, q + 1)
          BY <3>4, <4>1, LcsCells DEF dp, m, n
        <4> QED BY <4>2 DEF CellRule
      <3>6. P(p + 1, q + 1) /\ P(p + 1, q) /\ P(p, q + 1)
        BY <1>2, <3>3
      <3>7. CASE a[p] = b[q]
        <4>1. Ordered(Tail(g), p + 1, m) /\ Len(Tail(g)) = Len(g) - 1
              /\ \A k \in DOMAIN Tail(g) : k + 1 \in DOMAIN g /\ Tail(g)[k] = g[k + 1]
          BY <1>1, <2>2, <3>1, OrderedTail
        <4>2. Ordered(Tail(h), q + 1, n) /\ Len(Tail(h)) = Len(h) - 1
              /\ \A k \in DOMAIN Tail(h) : k + 1 \in DOMAIN h /\ Tail(h)[k] = h[k + 1]
          BY <1>1, <2>2, <3>1, OrderedTail
        <4>3. DOMAIN Tail(g) = DOMAIN Tail(h)
          <5>1. Tail(g) \in Seq(Nat) /\ Tail(h) \in Seq(Nat)
            BY <4>1, <4>2 DEF Ordered
          <5>2. DOMAIN Tail(g) = 1 .. Len(Tail(g)) /\ DOMAIN Tail(h) = 1 .. Len(Tail(h))
            BY <5>1
          <5> QED BY <2>2, <4>1, <4>2, <5>2
        <4>4. Common(a, b, Tail(g), Tail(h), p + 1, q + 1)
          <5>1. \A k \in DOMAIN Tail(g) : a[Tail(g)[k]] = b[Tail(h)[k]]
            BY <2>2, <4>1, <4>2, <4>3
          <5>2. Len(Tail(g)) = Len(Tail(h))
            BY <2>2, <4>1, <4>2
          <5> QED BY <4>1, <4>2, <5>1, <5>2 DEF Common, m, n
        <4>5. Len(g) - 1 <= dp[<<p + 1, q + 1>>]
          BY <3>6, <4>1, <4>4 DEF P
        <4>6. dp[<<p, q>>] = dp[<<p + 1, q + 1>>] + 1
          BY <2>1, <3>3, <3>7
        <4> QED BY <2>2, <3>5, <4>5, <4>6
      <3>8. CASE a[p] # b[q]
        <4>1. g[1] # p \/ h[1] # q
          BY <2>2, <3>1, <3>8
        <4>2. g[1] # p => Len(g) <= dp[<<p + 1, q>>]
          <5> SUFFICES ASSUME g[1] # p PROVE Len(g) <= dp[<<p + 1, q>>]
            OBVIOUS
          <5>1. Ordered(g, p + 1, m)
            BY <1>1, <2>2, OrderedLater
          <5>2. Common(a, b, g, h, p + 1, q)
            BY <2>2, <5>1 DEF Common, m, n
          <5> QED BY <3>6, <5>2 DEF P
        <4>3. h[1] # q => Len(g) <= dp[<<p, q + 1>>]
          <5> SUFFICES ASSUME h[1] # q PROVE Len(g) <= dp[<<p, q + 1>>]
            OBVIOUS
          <5>1. Ordered(h, q + 1, n)
            BY <1>1, <2>2, OrderedLater
          <5>2. Common(a, b, g, h, p, q + 1)
            BY <2>2, <5>1 DEF Common, m, n
          <5> QED BY <3>6, <5>2 DEF P
        <4>4. dp[<<p, q>>] = IF dp[<<p + 1, q>>] >= dp[<<p, q + 1>>] THEN dp[<<p + 1, q>>] ELSE dp[<<p, q + 1>>]
          BY <2>1, <3>3, <3>8
        <4> DEFINE x == dp[<<p + 1, q>>]
                   y == dp[<<p, q + 1>>]
                   l == Len(g)
        <4>5. x \in Nat /\ y \in Nat /\ l \in Nat /\ (l <= x \/ l <= y) /\ dp[<<p, q>>] = IF x >= y THEN x ELSE y
          BY <2>2, <3>5, <4>1, <4>2, <4>3, <4>4
        <4> HIDE DEF x, y, l
        <4>6. l <= dp[<<p, q>>]
          BY ONLY <4>5
        <4> QED BY <4>6 DEF l
      <3> QED BY <3>7, <3>8
    <2> QED BY <2>3, <2>4
  <1> HIDE DEF P
  <1>3. ASSUME NEW c \in C, \A d \in C : Left(a, b, d) < Left(a, b, c) => d \in G PROVE c \in G
    <2>1. c[1] \in 1 .. m + 1 /\ c[2] \in 1 .. n + 1
      BY CellNext
    <2>2. ASSUME c[1] <= m, c[2] <= n
          PROVE  P(c[1] + 1, c[2] + 1) /\ P(c[1] + 1, c[2]) /\ P(c[1], c[2] + 1)
      <3>1. <<c[1] + 1, c[2] + 1>> \in G /\ <<c[1] + 1, c[2]>> \in G /\ <<c[1], c[2] + 1>> \in G
        BY <1>3, <2>2, CellNext
      <3> QED BY <3>1
    <2>3. P(c[1], c[2])
      BY <1>2, <2>1, <2>2
    <2> QED BY <2>3
  <1> HIDE DEF G
  <1>4. C \subseteq G
    BY <1>3, CellInduction
  <1>5. <<i, j>> \in C
    BY DEF Cells
  <1>6. P(i, j)
    BY <1>4, <1>5 DEF G
  <1> QED BY <1>6 DEF P

\* The loops of the code, turn by turn: the walk down the table,
IsWalk(a, b, loop) ==
  /\ loop[0] = [i |-> 1, j |-> 1, ops |-> << >>]
  /\ \A t \in 1 .. Len(a) + Len(b) : loop[t] = DiffTurn(a, b, Lcs(a, b), loop[t - 1])
  /\ DiffOps(a, b) = loop[Len(a) + Len(b)].ops

LEMMA WalkLoop ==
  ASSUME NEW S, NEW a \in Seq(S), NEW b \in Seq(S)
  PROVE  \E loop : IsWalk(a, b, loop)
  <1> DEFINE n == Len(a) + Len(b)
             N == 0 .. n
             Value(g, t) == IF t = 0 THEN [i |-> 1, j |-> 1, ops |-> << >>] ELSE DiffTurn(a, b, Lcs(a, b), g[t - 1])
             Upto(g, k) == g = [t \in N |-> g[t]] /\ \A t \in N : t <= k => g[t] = Value(g, t)
             T == {k \in Nat : \E g : Upto(g, k)}
  <1>1. n \in Nat
    OBVIOUS
  <1>2. ASSUME NEW g, NEW h, NEW t \in N, t # 0 => h[t - 1] = g[t - 1] PROVE Value(h, t) = Value(g, t)
    BY <1>2
  <1> HIDE DEF n, Value
  <1>3. ASSUME NEW k \in Nat, NEW g, \A t \in N : t < k => g[t] = Value(g, t)
        PROVE  \E h : Upto(h, k)
    <2> DEFINE h == [t \in N |-> IF t < k THEN g[t] ELSE Value(g, t)]
    <2>1. ASSUME NEW t \in N, t <= k PROVE h[t] = Value(h, t)
      <3>1. t # 0 => h[t - 1] = g[t - 1]
        BY <1>1, <2>1
      <3>2. Value(h, t) = Value(g, t)
        BY <1>2, <3>1
      <3>3. h[t] = Value(g, t)
        BY <1>3
      <3> HIDE DEF h
      <3> QED BY <3>2, <3>3
    <2>2. h = [t \in N |-> h[t]]
      OBVIOUS
    <2> HIDE DEF h
    <2>3. Upto(h, k)
      BY <2>1, <2>2
    <2> QED BY <2>3
  <1>4. 0 \in T
    <2> DEFINE g == [t \in N |-> 0]
    <2>1. \A t \in N : t < 0 => g[t] = Value(g, t)
      BY <1>1
    <2> HIDE DEF g
    <2>2. \E h : Upto(h, 0)
      BY <1>3, <2>1
    <2> QED BY <2>2
  <1>5. ASSUME NEW k \in Nat, k \in T PROVE k + 1 \in T
    <2>1. PICK g : Upto(g, k)
      BY <1>5
    <2>2. \A t \in N : t < k + 1 => g[t] = Value(g, t)
      BY <1>1, <2>1
    <2>3. k + 1 \in Nat /\ \E h : Upto(h, k + 1)
      BY <1>3, <2>2
    <2> QED BY <2>3
  <1>6. PICK g : Upto(g, n)
    <2> HIDE DEF T, Upto
    <2>1. Nat \subseteq T
      BY <1>4, <1>5, AllNaturals
    <2> QED BY <1>1, <2>1 DEF T
  <1>7. g = [t \in N |-> Value(g, t)]
    <2>1. g = [t \in N |-> g[t]] /\ \A t \in N : g[t] = Value(g, t)
      BY <1>1, <1>6
    <2> QED BY <2>1
  <1> DEFINE loop == CHOOSE h : h = [t \in N |-> Value(h, t)]
  <1>8. loop = [t \in N |-> Value(loop, t)]
    BY <1>7
  <1>9. DiffOps(a, b) = loop[n].ops
    BY DEF DiffOps, Value, n
  <1> HIDE DEF loop
  <1>10. \A t \in N : loop[t] = Value(loop, t)
    BY <1>8
  <1>11. loop[0] = [i |-> 1, j |-> 1, ops |-> << >>]
    <2>1. 0 \in N
      BY <1>1
    <2> QED BY <1>10, <2>1 DEF Value
  <1>12. \A t \in 1 .. n : loop[t] = DiffTurn(a, b, Lcs(a, b), loop[t - 1])
    <2> SUFFICES ASSUME NEW t \in 1 .. n PROVE loop[t] = DiffTurn(a, b, Lcs(a, b), loop[t - 1])
      OBVIOUS
    <2>1. t \in N /\ t # 0
      BY <1>1
    <2> QED BY <1>10, <2>1 DEF Value
  <1>13. IsWalk(a, b, loop)
    BY <1>9, <1>11, <1>12 DEF n, IsWalk
  <1> QED BY <1>13

\* the merging of operations into hunks,
IsMerge(ops, loop) ==
  /\ loop[0] = [at |-> 1, hunks |-> << >>]
  /\ \A t \in 1 .. Len(ops) : loop[t] = HunkTurn(ops, loop[t - 1])
  /\ Hunks(ops) = loop[Len(ops)].hunks

LEMMA HunkLoop ==
  ASSUME NEW S, NEW ops \in Seq(S)
  PROVE  \E loop : IsMerge(ops, loop)
  <1> DEFINE n == Len(ops)
             N == 0 .. n
             Value(g, t) == IF t = 0 THEN [at |-> 1, hunks |-> << >>] ELSE HunkTurn(ops, g[t - 1])
             Upto(g, k) == g = [t \in N |-> g[t]] /\ \A t \in N : t <= k => g[t] = Value(g, t)
             T == {k \in Nat : \E g : Upto(g, k)}
  <1>1. n \in Nat
    OBVIOUS
  <1>2. ASSUME NEW g, NEW h, NEW t \in N, t # 0 => h[t - 1] = g[t - 1] PROVE Value(h, t) = Value(g, t)
    BY <1>2
  <1> HIDE DEF n, Value
  <1>3. ASSUME NEW k \in Nat, NEW g, \A t \in N : t < k => g[t] = Value(g, t)
        PROVE  \E h : Upto(h, k)
    <2> DEFINE h == [t \in N |-> IF t < k THEN g[t] ELSE Value(g, t)]
    <2>1. ASSUME NEW t \in N, t <= k PROVE h[t] = Value(h, t)
      <3>1. t # 0 => h[t - 1] = g[t - 1]
        BY <1>1, <2>1
      <3>2. Value(h, t) = Value(g, t)
        BY <1>2, <3>1
      <3>3. h[t] = Value(g, t)
        BY <1>3
      <3> HIDE DEF h
      <3> QED BY <3>2, <3>3
    <2>2. h = [t \in N |-> h[t]]
      OBVIOUS
    <2> HIDE DEF h
    <2>3. Upto(h, k)
      BY <2>1, <2>2
    <2> QED BY <2>3
  <1>4. 0 \in T
    <2> DEFINE g == [t \in N |-> 0]
    <2>1. \A t \in N : t < 0 => g[t] = Value(g, t)
      BY <1>1
    <2> HIDE DEF g
    <2>2. \E h : Upto(h, 0)
      BY <1>3, <2>1
    <2> QED BY <2>2
  <1>5. ASSUME NEW k \in Nat, k \in T PROVE k + 1 \in T
    <2>1. PICK g : Upto(g, k)
      BY <1>5
    <2>2. \A t \in N : t < k + 1 => g[t] = Value(g, t)
      BY <1>1, <2>1
    <2>3. k + 1 \in Nat /\ \E h : Upto(h, k + 1)
      BY <1>3, <2>2
    <2> QED BY <2>3
  <1>6. PICK g : Upto(g, n)
    <2> HIDE DEF T, Upto
    <2>1. Nat \subseteq T
      BY <1>4, <1>5, AllNaturals
    <2> QED BY <1>1, <2>1 DEF T
  <1>7. g = [t \in N |-> Value(g, t)]
    <2>1. g = [t \in N |-> g[t]] /\ \A t \in N : g[t] = Value(g, t)
      BY <1>1, <1>6
    <2> QED BY <2>1
  <1> DEFINE loop == CHOOSE h : h = [t \in N |-> Value(h, t)]
  <1>8. loop = [t \in N |-> Value(loop, t)]
    BY <1>7
  <1>9. Hunks(ops) = loop[n].hunks
    BY DEF Hunks, Value, n
  <1> HIDE DEF loop
  <1>10. \A t \in N : loop[t] = Value(loop, t)
    BY <1>8
  <1>11. loop[0] = [at |-> 1, hunks |-> << >>]
    <2>1. 0 \in N
      BY <1>1
    <2> QED BY <1>10, <2>1 DEF Value
  <1>12. \A t \in 1 .. n : loop[t] = HunkTurn(ops, loop[t - 1])
    <2> SUFFICES ASSUME NEW t \in 1 .. n PROVE loop[t] = HunkTurn(ops, loop[t - 1])
      OBVIOUS
    <2>1. t \in N /\ t # 0
      BY <1>1
    <2> QED BY <1>10, <2>1 DEF Value
  <1>13. IsMerge(ops, loop)
    BY <1>9, <1>11, <1>12 DEF n, IsMerge
  <1> QED BY <1>13

\* and the application of the hunks.
IsPatch(old, hunks, loop) ==
  /\ loop[0] = [out |-> << >>, at |-> 1]
  /\ \A t \in 1 .. Len(hunks) : loop[t] = Apply(old, loop[t - 1], hunks[t])
  /\ Patched(old, hunks) = loop[Len(hunks)].out \o SubSeq(old, loop[Len(hunks)].at, Len(old))

LEMMA PatchLoop ==
  ASSUME NEW S, NEW hunks \in Seq(S), NEW old
  PROVE  \E loop : IsPatch(old, hunks, loop)
  <1> DEFINE n == Len(hunks)
             N == 0 .. n
             Value(g, t) == IF t = 0 THEN [out |-> << >>, at |-> 1] ELSE Apply(old, g[t - 1], hunks[t])
             Upto(g, k) == g = [t \in N |-> g[t]] /\ \A t \in N : t <= k => g[t] = Value(g, t)
             T == {k \in Nat : \E g : Upto(g, k)}
  <1>1. n \in Nat
    OBVIOUS
  <1>2. ASSUME NEW g, NEW h, NEW t \in N, t # 0 => h[t - 1] = g[t - 1] PROVE Value(h, t) = Value(g, t)
    BY <1>2
  <1> HIDE DEF n, Value
  <1>3. ASSUME NEW k \in Nat, NEW g, \A t \in N : t < k => g[t] = Value(g, t)
        PROVE  \E h : Upto(h, k)
    <2> DEFINE h == [t \in N |-> IF t < k THEN g[t] ELSE Value(g, t)]
    <2>1. ASSUME NEW t \in N, t <= k PROVE h[t] = Value(h, t)
      <3>1. t # 0 => h[t - 1] = g[t - 1]
        BY <1>1, <2>1
      <3>2. Value(h, t) = Value(g, t)
        BY <1>2, <3>1
      <3>3. h[t] = Value(g, t)
        BY <1>3
      <3> HIDE DEF h
      <3> QED BY <3>2, <3>3
    <2>2. h = [t \in N |-> h[t]]
      OBVIOUS
    <2> HIDE DEF h
    <2>3. Upto(h, k)
      BY <2>1, <2>2
    <2> QED BY <2>3
  <1>4. 0 \in T
    <2> DEFINE g == [t \in N |-> 0]
    <2>1. \A t \in N : t < 0 => g[t] = Value(g, t)
      BY <1>1
    <2> HIDE DEF g
    <2>2. \E h : Upto(h, 0)
      BY <1>3, <2>1
    <2> QED BY <2>2
  <1>5. ASSUME NEW k \in Nat, k \in T PROVE k + 1 \in T
    <2>1. PICK g : Upto(g, k)
      BY <1>5
    <2>2. \A t \in N : t < k + 1 => g[t] = Value(g, t)
      BY <1>1, <2>1
    <2>3. k + 1 \in Nat /\ \E h : Upto(h, k + 1)
      BY <1>3, <2>2
    <2> QED BY <2>3
  <1>6. PICK g : Upto(g, n)
    <2> HIDE DEF T, Upto
    <2>1. Nat \subseteq T
      BY <1>4, <1>5, AllNaturals
    <2> QED BY <1>1, <2>1 DEF T
  <1>7. g = [t \in N |-> Value(g, t)]
    <2>1. g = [t \in N |-> g[t]] /\ \A t \in N : g[t] = Value(g, t)
      BY <1>1, <1>6
    <2> QED BY <2>1
  <1> DEFINE loop == CHOOSE h : h = [t \in N |-> Value(h, t)]
  <1>8. loop = [t \in N |-> Value(loop, t)]
    BY <1>7
  <1>9. Patched(old, hunks) = loop[n].out \o SubSeq(old, loop[n].at, Len(old))
    BY DEF Patched, Value, n
  <1> HIDE DEF loop
  <1>10. \A t \in N : loop[t] = Value(loop, t)
    BY <1>8
  <1>11. loop[0] = [out |-> << >>, at |-> 1]
    <2>1. 0 \in N
      BY <1>1
    <2> QED BY <1>10, <2>1 DEF Value
  <1>12. \A t \in 1 .. n : loop[t] = Apply(old, loop[t - 1], hunks[t])
    <2> SUFFICES ASSUME NEW t \in 1 .. n PROVE loop[t] = Apply(old, loop[t - 1], hunks[t])
      OBVIOUS
    <2>1. t \in N /\ t # 0
      BY <1>1
    <2> QED BY <1>10, <2>1 DEF Value
  <1>13. IsPatch(old, hunks, loop)
    BY <1>9, <1>11, <1>12 DEF n, IsPatch
  <1> QED BY <1>13

\* An operation leads from the lines i and j to the lines i2 and j2.
EditAt(a, b, o, i, j, i2, j2) ==
  \/ o.kind = "equal" /\ i <= Len(a) /\ j <= Len(b) /\ a[i] = b[j] /\ i2 = i + 1 /\ j2 = j + 1
  \/ o.kind = "remove" /\ i <= Len(a) /\ o.line = i /\ o.text = a[i] /\ i2 = i + 1 /\ j2 = j
  \/ o.kind = "add" /\ j <= Len(b) /\ o.line = j /\ o.text = b[j] /\ i2 = i /\ j2 = j + 1

\* A list of operations, with the lines of the two texts before and after each.
Edits(a, b, ops, I, J) ==
  /\ I \in Seq(Nat) /\ J \in Seq(Nat) /\ Len(I) = Len(ops) + 1 /\ Len(J) = Len(ops) + 1
  /\ I[1] = 1 /\ J[1] = 1
  /\ \A k \in DOMAIN ops : EditAt(a, b, ops[k], I[k], J[k], I[k + 1], J[k + 1])

\* The same, with the lines i and j it leads to.
EditsTo(a, b, ops, I, J, i, j) == Edits(a, b, ops, I, J) /\ I[Len(ops) + 1] = i /\ J[Len(ops) + 1] = j

Equals(o) == IF o.kind = "equal" THEN 1 ELSE 0

Op(S) == [kind : {"equal", "remove", "add"}, line : Nat, text : S]

\* A turn at the lines i and j, to the lines i2 and j2.
TurnTo(a, b, w, ops, o, i, j, i2, j2) ==
  /\ DiffTurn(a, b, Lcs(a, b), w) = [i |-> i2, j |-> j2, ops |-> Append(ops, o)]
  /\ EditAt(a, b, o, i, j, i2, j2)
  /\ Lcs(a, b)[<<i, j>>] = Lcs(a, b)[<<i2, j2>>] + Equals(o)

\* A turn of the walk adds the operation of its lines, and the table tells how
\* many equal lines are still to come.
LEMMA WalkTurn ==
  ASSUME NEW S, NEW a \in Seq(S), NEW b \in Seq(S), NEW i \in 1 .. Len(a) + 1, NEW j \in 1 .. Len(b) + 1,
         NEW ops \in Seq(Op(S)), NEW w, w = [i |-> i, j |-> j, ops |-> ops], ~(i > Len(a) /\ j > Len(b))
  PROVE  \E o \in Op(S), i2 \in 1 .. Len(a) + 1, j2 \in 1 .. Len(b) + 1 :
           TurnTo(a, b, w, ops, o, i, j, i2, j2)
  <1> DEFINE dp == Lcs(a, b)
             m == Len(a)
             n == Len(b)
             o(kind, line, text) == [kind |-> kind, line |-> line, text |-> text]
  <1>1. m \in Nat /\ n \in Nat /\ w.i = i /\ w.j = j /\ w.ops = ops
    OBVIOUS
  <1>2. \A p \in 1 .. m + 1, q \in 1 .. n + 1 : CellRule(a, b, dp, p, q)
    BY LcsCells
  <1> HIDE DEF dp
  <1>3. CellRule(a, b, dp, i, j) /\ dp[<<i, j>>] \in Nat
    BY <1>2 DEF CellRule
  <1>4. (i <= m => a[i] \in S) /\ (j <= n => b[j] \in S)
    BY <1>1
  <1>5. CASE i <= m /\ j <= n /\ a[i] = b[j]
    <2> DEFINE x == o("equal", i, a[i])
    <2>1. DiffTurn(a, b, dp, w) = [i |-> i + 1, j |-> j + 1, ops |-> Append(ops, x)]
      BY <1>1, <1>5 DEF DiffTurn
    <2>2. x \in Op(S) /\ x.kind = "equal" /\ i + 1 \in 1 .. m + 1 /\ j + 1 \in 1 .. n + 1
      BY <1>1, <1>4, <1>5 DEF Op
    <2>3. EditAt(a, b, x, i, j, i + 1, j + 1)
      BY <1>5, <2>2 DEF EditAt
    <2>4. dp[<<i, j>>] = dp[<<i + 1, j + 1>>] + Equals(x)
      BY <1>3, <1>5, <2>2 DEF CellRule, Equals
    <2> HIDE DEF x
    <2> QED BY <2>1, <2>2, <2>3, <2>4 DEF dp, TurnTo
  <1>6. CASE i <= m /\ ~(j <= n /\ a[i] = b[j]) /\ (j > n \/ TakesRemove(dp, i, j))
    <2> DEFINE x == o("remove", i, a[i])
    <2>1. DiffTurn(a, b, dp, w) = [i |-> i + 1, j |-> j, ops |-> Append(ops, x)]
      <3>1. ~(i > m /\ j > n) /\ ~(i <= m /\ j <= n /\ a[i] = b[j]) /\ i <= m /\ (j > n \/ TakesRemove(dp, i, j))
        BY <1>1, <1>6
      <3> QED BY <1>1, <3>1 DEF DiffTurn
    <2>2. x \in Op(S) /\ x.kind = "remove" /\ x.line = i /\ x.text = a[i] /\ i + 1 \in 1 .. m + 1
      BY <1>1, <1>4, <1>6 DEF Op
    <2>3. EditAt(a, b, x, i, j, i + 1, j)
      BY <1>6, <2>2 DEF EditAt
    <2>4. dp[<<i, j>>] = dp[<<i + 1, j>>]
      <3>1. CASE j > n
        <4>1. dp[<<i, j>>] = 0 /\ dp[<<i + 1, j>>] = 0
          BY <1>2, <1>3, <2>2, <3>1 DEF CellRule
        <4> QED BY <4>1
      <3>2. CASE ~(j > n)
        <4>1. j <= n /\ a[i] # b[j] /\ dp[<<i + 1, j>>] >= dp[<<i, j + 1>>]
          BY <1>1, <1>6, <3>2 DEF TakesRemove
        <4> QED BY <1>3, <1>6, <4>1 DEF CellRule
      <3> QED BY <3>1, <3>2
    <2>5. dp[<<i, j>>] = dp[<<i + 1, j>>] + Equals(x)
      BY <1>3, <2>2, <2>4 DEF Equals
    <2> HIDE DEF x
    <2> QED BY <2>1, <2>2, <2>3, <2>5 DEF dp, TurnTo
  <1>7. CASE j <= n /\ ~(i <= m /\ a[i] = b[j]) /\ (i > m \/ ~TakesRemove(dp, i, j))
    <2> DEFINE x == o("add", j, b[j])
    <2>1. DiffTurn(a, b, dp, w) = [i |-> i, j |-> j + 1, ops |-> Append(ops, x)]
      <3>1. ~(i > m /\ j > n) /\ ~(i <= m /\ j <= n /\ a[i] = b[j]) /\ ~(i <= m /\ (j > n \/ TakesRemove(dp, i, j)))
        BY <1>1, <1>7
      <3> QED BY <1>1, <3>1 DEF DiffTurn
    <2>2. x \in Op(S) /\ x.kind = "add" /\ x.line = j /\ x.text = b[j] /\ j + 1 \in 1 .. n + 1
      BY <1>1, <1>4, <1>7 DEF Op
    <2>3. EditAt(a, b, x, i, j, i, j + 1)
      BY <1>7, <2>2 DEF EditAt
    <2>4. dp[<<i, j>>] = dp[<<i, j + 1>>]
      <3>1. CASE i > m
        <4>1. dp[<<i, j>>] = 0 /\ dp[<<i, j + 1>>] = 0
          BY <1>2, <1>3, <2>2, <3>1 DEF CellRule
        <4> QED BY <4>1
      <3>2. CASE ~(i > m)
        <4>1. i <= m /\ a[i] # b[j] /\ ~(dp[<<i + 1, j>>] >= dp[<<i, j + 1>>])
          BY <1>1, <1>7, <3>2 DEF TakesRemove
        <4> QED BY <1>3, <1>7, <4>1 DEF CellRule
      <3> QED BY <3>1, <3>2
    <2>5. dp[<<i, j>>] = dp[<<i, j + 1>>] + Equals(x)
      BY <1>3, <2>2, <2>4 DEF Equals
    <2> HIDE DEF x
    <2> QED BY <2>1, <2>2, <2>3, <2>5 DEF dp, TurnTo
  <1> HIDE DEF m, n
  <1>8. i \in Int /\ j \in Int /\ ~(i > m /\ j > n)
    BY DEF m, n
  <1>9. \/ i <= m /\ j <= n /\ a[i] = b[j]
        \/ i <= m /\ ~(j <= n /\ a[i] = b[j]) /\ (j > n \/ TakesRemove(dp, i, j))
        \/ j <= n /\ ~(i <= m /\ a[i] = b[j]) /\ (i > m \/ ~TakesRemove(dp, i, j))
    BY ONLY <1>1, <1>8
  <1> QED BY <1>5, <1>6, <1>7, <1>9

\* One more operation leads on from where the others lead.
LEMMA EditsAppend ==
  ASSUME NEW S, NEW a, NEW b, NEW ops \in Seq(S), NEW I, NEW J, NEW i, NEW j, EditsTo(a, b, ops, I, J, i, j),
         NEW o \in S, NEW i2 \in Nat, NEW j2 \in Nat, EditAt(a, b, o, i, j, i2, j2)
  PROVE  EditsTo(a, b, Append(ops, o), Append(I, i2), Append(J, j2), i2, j2)
  <1> DEFINE l == Len(ops)
             ops2 == Append(ops, o)
             I2 == Append(I, i2)
             J2 == Append(J, j2)
  <1>1. l \in Nat /\ DOMAIN ops = 1 .. l /\ I \in Seq(Nat) /\ J \in Seq(Nat) /\ Len(I) = l + 1 /\ Len(J) = l + 1
    BY DEF EditsTo, Edits
  <1>2. Len(ops2) = l + 1 /\ DOMAIN ops2 = 1 .. l + 1 /\ ops2[l + 1] = o /\ \A k \in 1 .. l : ops2[k] = ops[k]
    BY <1>1
  <1>3. I2 \in Seq(Nat) /\ Len(I2) = l + 2 /\ I2[l + 2] = i2 /\ \A k \in 1 .. l + 1 : I2[k] = I[k]
    BY <1>1
  <1>4. J2 \in Seq(Nat) /\ Len(J2) = l + 2 /\ J2[l + 2] = j2 /\ \A k \in 1 .. l + 1 : J2[k] = J[k]
    BY <1>1
  <1>5. I[1] = 1 /\ J[1] = 1 /\ (\A k \in 1 .. l : EditAt(a, b, ops[k], I[k], J[k], I[k + 1], J[k + 1]))
        /\ EditAt(a, b, o, I[l + 1], J[l + 1], i2, j2)
    BY <1>1 DEF EditsTo, Edits
  <1> HIDE DEF l, ops2, I2, J2
  <1>6. ASSUME NEW k \in 1 .. l + 1 PROVE EditAt(a, b, ops2[k], I2[k], J2[k], I2[k + 1], J2[k + 1])
    <2>1. CASE k \in 1 .. l
      <3>1. k + 1 \in 1 .. l + 1 /\ ops2[k] = ops[k]
        BY <1>1, <1>2, <2>1
      <3>2. I2[k] = I[k] /\ J2[k] = J[k] /\ I2[k + 1] = I[k + 1] /\ J2[k + 1] = J[k + 1]
        BY <1>3, <1>4, <3>1
      <3> QED BY <1>5, <2>1, <3>1, <3>2
    <2>2. CASE k = l + 1
      <3>1. k + 1 = l + 2 /\ k \in 1 .. l + 1 /\ ops2[k] = o
        BY <1>1, <1>2, <2>2
      <3>2. I2[k] = I[k] /\ J2[k] = J[k] /\ I2[k + 1] = i2 /\ J2[k + 1] = j2
        BY <1>3, <1>4, <3>1
      <3> QED BY <1>5, <2>2, <3>1, <3>2
    <2> QED BY <1>1, <2>1, <2>2
  <1>7. I2[1] = 1 /\ J2[1] = 1 /\ Len(I2) = Len(ops2) + 1 /\ Len(J2) = Len(ops2) + 1 /\ Len(ops2) + 1 = l + 2
    <2>1. 1 \in 1 .. l + 1 /\ (l + 1) + 1 = l + 2
      BY <1>1
    <2>2. I2[1] = I[1] /\ J2[1] = J[1]
      BY <1>3, <1>4, <2>1
    <2>3. Len(ops2) + 1 = l + 2
      BY <1>2, <2>1
    <2> QED BY <1>3, <1>4, <1>5, <2>2, <2>3
  <1>8. Edits(a, b, ops2, I2, J2)
    BY <1>2, <1>3, <1>4, <1>6, <1>7 DEF Edits
  <1> QED BY <1>3, <1>4, <1>7, <1>8 DEF ops2, I2, J2, EditsTo

\* One more operation keeps one more line when it is an equal line.
LEMMA UnchangedAppend ==
  ASSUME NEW S, NEW ops \in Seq(S), NEW o \in S
  PROVE  /\ Unchanged(ops) \in Nat
         /\ Unchanged(Append(ops, o)) = Unchanged(ops) + Equals(o)
  <1> DEFINE l == Len(ops)
             ops2 == Append(ops, o)
             E  == {k \in DOMAIN ops : ops[k].kind = "equal"}
             E2 == {k \in DOMAIN ops2 : ops2[k].kind = "equal"}
  <1>1. l \in Nat /\ DOMAIN ops = 1 .. l
    OBVIOUS
  <1>2. DOMAIN ops2 = 1 .. l + 1 /\ ops2[l + 1] = o /\ \A k \in 1 .. l : ops2[k] = ops[k]
    BY <1>1
  <1> HIDE DEF l, ops2
  <1>3. IsFiniteSet(1 .. l)
    BY <1>1, FS_Interval
  <1>4. E \in SUBSET (1 .. l) /\ l + 1 \notin E
    BY <1>1
  <1>5. E2 = IF o.kind = "equal" THEN E \cup {l + 1} ELSE E
    BY <1>1, <1>2
  <1>6. Unchanged(ops) = Cardinality(E) /\ Unchanged(ops2) = Cardinality(E2)
    BY DEF Unchanged
  <1> HIDE DEF E, E2
  <1>7. IsFiniteSet(E) /\ Cardinality(E) \in Nat
    BY <1>3, <1>4, FS_Subset, FS_CardinalityType
  <1>8. Cardinality(E \cup {l + 1}) = Cardinality(E) + 1
    BY <1>4, <1>7, FS_AddElement
  <1> QED BY <1>5, <1>6, <1>7, <1>8 DEF ops2, Equals

\* Positions in order can be continued above the upper bound,
LEMMA OrderedAppend ==
  ASSUME NEW e, NEW lo \in Nat, NEW hi \in Nat, Ordered(e, lo, hi), NEW x \in Nat, lo <= x, hi < x
  PROVE  Ordered(Append(e, x), lo, x) /\ Len(Append(e, x)) = Len(e) + 1
  <1> DEFINE l == Len(e)
             g == Append(e, x)
  <1>1. e \in Seq(Nat) /\ l \in Nat /\ DOMAIN e = 1 .. l
    BY DEF Ordered
  <1>2. g \in Seq(Nat) /\ Len(g) = l + 1 /\ DOMAIN g = 1 .. l + 1 /\ g[l + 1] = x /\ \A k \in 1 .. l : g[k] = e[k]
    BY <1>1
  <1>3. \A k \in 1 .. l : e[k] \in Nat /\ lo <= e[k] /\ e[k] <= hi
    BY <1>1 DEF Ordered
  <1>4. \A y, z \in 1 .. l : y < z => e[y] < e[z]
    BY <1>1 DEF Ordered
  <1> HIDE DEF l, g
  <1>5. \A k \in 1 .. l + 1 : k \in 1 .. l \/ k = l + 1
    BY <1>1
  <1>6. \A k \in 1 .. l + 1 : lo <= g[k] /\ g[k] <= x
    BY <1>2, <1>3, <1>5
  <1>7. ASSUME NEW y \in 1 .. l + 1, NEW z \in 1 .. l + 1, y < z PROVE g[y] < g[z]
    <2>1. y \in 1 .. l
      BY <1>1, <1>7
    <2>2. CASE z \in 1 .. l
      BY <1>2, <1>4, <1>7, <2>1, <2>2
    <2>3. CASE z = l + 1
      BY <1>2, <1>3, <2>1, <2>3
    <2> QED BY <1>5, <2>2, <2>3
  <1>8. Ordered(g, lo, x)
    BY <1>2, <1>6, <1>7 DEF Ordered
  <1> QED BY <1>2, <1>8 DEF g, l

\* and the upper bound can be raised.
LEMMA OrderedWiden ==
  ASSUME NEW e, NEW lo \in Nat, NEW hi \in Nat, Ordered(e, lo, hi), NEW h2 \in Nat, hi <= h2
  PROVE  Ordered(e, lo, h2)
  <1>1. e \in Seq(Nat) /\ \A k \in DOMAIN e : e[k] \in Nat /\ lo <= e[k] /\ e[k] <= hi
    BY DEF Ordered
  <1>2. \A k \in DOMAIN e : lo <= e[k] /\ e[k] <= h2
    BY <1>1
  <1> QED BY <1>1, <1>2 DEF Ordered

\* Positions of equal lines before the lines i and j.
Matched(a, b, e, f, i, j) ==
  /\ Ordered(e, 1, i - 1) /\ Ordered(f, 1, j - 1) /\ Len(e) = Len(f)
  /\ \A k \in DOMAIN e : a[e[k]] = b[f[k]]

\* An operation leads to one more equal line when it is one, and to no more
\* otherwise.
LEMMA MatchedNext ==
  ASSUME NEW a, NEW b, NEW i \in Nat \ {0}, NEW j \in Nat \ {0}, NEW e, NEW f, Matched(a, b, e, f, i, j),
         NEW o, NEW i2 \in Nat \ {0}, NEW j2 \in Nat \ {0}, EditAt(a, b, o, i, j, i2, j2)
  PROVE  \E e2, f2 : /\ Matched(a, b, e2, f2, i2, j2)
                     /\ Len(e2) = Len(e) + Equals(o)
  <1>1. Ordered(e, 1, i - 1) /\ Ordered(f, 1, j - 1) /\ Len(e) = Len(f) /\ (\A k \in DOMAIN e : a[e[k]] = b[f[k]])
        /\ i - 1 \in Nat /\ j - 1 \in Nat
    BY DEF Matched
  <1>2. e \in Seq(Nat) /\ f \in Seq(Nat)
    BY <1>1 DEF Ordered
  <1>3. CASE o.kind = "equal"
    <2>1. a[i] = b[j] /\ i2 = i + 1 /\ j2 = j + 1
      BY <1>3 DEF EditAt
    <2> DEFINE e2 == Append(e, i)
               f2 == Append(f, j)
    <2>2. Ordered(e2, 1, i) /\ Len(e2) = Len(e) + 1
      BY <1>1, OrderedAppend
    <2>3. Ordered(f2, 1, j) /\ Len(f2) = Len(f) + 1
      BY <1>1, OrderedAppend
    <2>4. \A k \in DOMAIN e2 : a[e2[k]] = b[f2[k]]
      <3> SUFFICES ASSUME NEW k \in DOMAIN e2 PROVE a[e2[k]] = b[f2[k]]
        OBVIOUS
      <3> DEFINE l == Len(e)
      <3>1. l \in Nat /\ DOMAIN e = 1 .. l /\ DOMAIN e2 = 1 .. l + 1 /\ Len(f) = l
        BY <1>1, <1>2
      <3>2. e2[l + 1] = i /\ \A x \in 1 .. l : e2[x] = e[x]
        BY <1>2
      <3>3. f2[l + 1] = j /\ \A x \in 1 .. l : f2[x] = f[x]
        BY <1>2, <3>1
      <3> HIDE DEF l, e2, f2
      <3>4. k \in 1 .. l \/ k = l + 1
        BY <3>1
      <3> QED BY <1>1, <2>1, <3>1, <3>2, <3>3, <3>4
    <2>5. i2 - 1 = i /\ j2 - 1 = j
      BY <2>1
    <2>6. Matched(a, b, e2, f2, i2, j2)
      BY <1>1, <2>2, <2>3, <2>4, <2>5 DEF Matched
    <2> HIDE DEF e2, f2
    <2> QED BY <1>3, <2>2, <2>6 DEF Equals
  <1>4. CASE o.kind # "equal"
    <2>1. i <= i2 /\ j <= j2 /\ i2 - 1 \in Nat /\ j2 - 1 \in Nat
      BY <1>4 DEF EditAt
    <2>2. Ordered(e, 1, i2 - 1) /\ Ordered(f, 1, j2 - 1)
      <3>1. i - 1 <= i2 - 1 /\ j - 1 <= j2 - 1
        BY <2>1
      <3> QED BY <1>1, <2>1, <3>1, OrderedWiden
    <2>3. Matched(a, b, e, f, i2, j2)
      BY <1>1, <2>2 DEF Matched
    <2>4. Len(e) = Len(e) + Equals(o)
      BY <1>2, <1>4 DEF Equals
    <2> QED BY <2>3, <2>4
  <1> QED BY <1>3, <1>4

\* What holds of the walk after t turns: it has reached the lines i and j, the
\* operations lead there and t turns cannot do less, the equal lines are a common
\* subsequence of what it has passed, and the table tells how many are to come.
WalkAt(S, a, b, w, t) ==
  \E i \in 1 .. Len(a) + 1, j \in 1 .. Len(b) + 1, ops \in Seq(Op(S)) :
    /\ w = [i |-> i, j |-> j, ops |-> ops]
    /\ (i > Len(a) /\ j > Len(b)) \/ i + j >= t + 2
    /\ \E I, J : EditsTo(a, b, ops, I, J, i, j)
    /\ \E e, f : Matched(a, b, e, f, i, j) /\ Len(e) = Unchanged(ops)
    /\ Lcs(a, b)[<<1, 1>>] = Lcs(a, b)[<<i, j>>] + Unchanged(ops)

\* The walk starts like this,
LEMMA WalkStart ==
  ASSUME NEW S, NEW a \in Seq(S), NEW b \in Seq(S)
  PROVE  WalkAt(S, a, b, [i |-> 1, j |-> 1, ops |-> << >>], 0)
  <1>1. 1 \in 1 .. Len(a) + 1 /\ 1 \in 1 .. Len(b) + 1 /\ << >> \in Seq(Op(S)) /\ 1 + 1 >= 0 + 2
    OBVIOUS
  <1>2. EditsTo(a, b, << >>, <<1>>, <<1>>, 1, 1)
    BY DEF EditsTo, Edits
  <1>3. Unchanged(<< >>) = 0
    <2>1. {k \in DOMAIN << >> : << >>[k].kind = "equal"} = {}
      OBVIOUS
    <2> QED BY <2>1, FS_EmptySet DEF Unchanged
  <1>4. Matched(a, b, << >>, << >>, 1, 1)
    BY DEF Matched, Ordered
  <1>5. Lcs(a, b)[<<1, 1>>] \in Nat
    BY <1>1, LcsCells DEF CellRule
  <1>6. Len(<< >>) = Unchanged(<< >>) /\ Lcs(a, b)[<<1, 1>>] = Lcs(a, b)[<<1, 1>>] + Unchanged(<< >>)
    BY <1>3, <1>5
  <1>7. \E I, J : EditsTo(a, b, << >>, I, J, 1, 1)
    BY <1>2
  <1>8. \E e, f : Matched(a, b, e, f, 1, 1) /\ Len(e) = Unchanged(<< >>)
    BY <1>4, <1>6
  <1> QED BY <1>1, <1>6, <1>7, <1>8 DEF WalkAt

\* and a turn keeps it so.
LEMMA WalkStep ==
  ASSUME NEW S, NEW a \in Seq(S), NEW b \in Seq(S), NEW w, NEW t \in Nat, WalkAt(S, a, b, w, t)
  PROVE  WalkAt(S, a, b, DiffTurn(a, b, Lcs(a, b), w), t + 1)
  <1> DEFINE m == Len(a)
             n == Len(b)
             M == 1 .. m + 1
             N == 1 .. n + 1
             dp == Lcs(a, b)
  <1>1. PICK i \in M, j \in N, ops \in Seq(Op(S)) :
          /\ w = [i |-> i, j |-> j, ops |-> ops]
          /\ (i > m /\ j > n) \/ i + j >= t + 2
          /\ \E I, J : EditsTo(a, b, ops, I, J, i, j)
          /\ \E e, f : Matched(a, b, e, f, i, j) /\ Len(e) = Unchanged(ops)
          /\ dp[<<1, 1>>] = dp[<<i, j>>] + Unchanged(ops)
    BY DEF WalkAt
  <1>2. m \in Nat /\ n \in Nat /\ i \in Nat \ {0} /\ j \in Nat \ {0} /\ i <= m + 1 /\ j <= n + 1
    OBVIOUS
  <1>3. CASE i > m /\ j > n
    <2>1. DiffTurn(a, b, dp, w) = w
      BY <1>1, <1>3 DEF DiffTurn
    <2>2. WalkAt(S, a, b, w, t + 1)
      BY <1>1, <1>3 DEF WalkAt
    <2> QED BY <2>1, <2>2
  <1>4. CASE ~(i > m /\ j > n)
    <2>1. PICK o \in Op(S), i2 \in M, j2 \in N : TurnTo(a, b, w, ops, o, i, j, i2, j2)
      <3>1. w = [i |-> i, j |-> j, ops |-> ops]
        BY <1>1
      <3> QED BY <1>4, <3>1, WalkTurn
    <2>2. PICK I, J : EditsTo(a, b, ops, I, J, i, j)
      BY <1>1
    <2>3. PICK e, f : Matched(a, b, e, f, i, j) /\ Len(e) = Unchanged(ops)
      BY <1>1
    <2>4. i2 \in Nat \ {0} /\ j2 \in Nat \ {0} /\ dp[<<i2, j2>>] \in Nat
      <3>1. CellRule(a, b, dp, i2, j2)
        BY LcsCells
      <3> QED BY <3>1 DEF CellRule
    <2> DEFINE u == Equals(o)
               ops2 == Append(ops, o)
    <2>5. ops2 \in Seq(Op(S)) /\ u \in Nat
      BY DEF Equals
    <2>6. Unchanged(ops) \in Nat /\ Unchanged(ops2) = Unchanged(ops) + u
      BY UnchangedAppend
    <2>7. /\ EditAt(a, b, o, i, j, i2, j2)
          /\ DiffTurn(a, b, dp, w) = [i |-> i2, j |-> j2, ops |-> ops2]
          /\ dp[<<i, j>>] = dp[<<i2, j2>>] + u
      BY <2>1 DEF TurnTo
    <2>8. \E I2, J2 : EditsTo(a, b, ops2, I2, J2, i2, j2)
      <3>1. i2 \in Nat /\ j2 \in Nat
        BY <2>4
      <3>2. EditsTo(a, b, ops2, Append(I, i2), Append(J, j2), i2, j2)
        BY <2>2, <2>7, <3>1, EditsAppend
      <3> QED BY <3>2
    <2> HIDE DEF ops2, M, N, dp, m, n
    <2>9. \E e2, f2 : Matched(a, b, e2, f2, i2, j2) /\ Len(e2) = Unchanged(ops2)
      <3>1. PICK e2, f2 : Matched(a, b, e2, f2, i2, j2) /\ Len(e2) = Len(e) + u
        BY <1>2, <2>3, <2>4, <2>7, MatchedNext
      <3> QED BY <2>3, <2>6, <3>1
    <2>10. dp[<<1, 1>>] = dp[<<i2, j2>>] + Unchanged(ops2)
      <3> HIDE DEF u
      <3>1. dp[<<i, j>>] = dp[<<i2, j2>>] + u
        BY <2>7
      <3> DEFINE x == dp[<<i2, j2>>]
                 y == Unchanged(ops)
                 z == dp[<<1, 1>>]
      <3>2. x \in Nat /\ y \in Nat /\ u \in Nat /\ z = (x + u) + y /\ Unchanged(ops2) = y + u
        BY <1>1, <2>4, <2>5, <2>6, <3>1
      <3> HIDE DEF x, y, z
      <3>3. z = x + Unchanged(ops2)
        BY ONLY <3>2
      <3> QED BY <3>3 DEF x, z
    <2>11. i2 + j2 >= (t + 1) + 2
      <3>1. i2 + j2 >= i + j + 1
        BY <1>2, <2>4, <2>7 DEF EditAt
      <3> QED BY <1>1, <1>2, <1>4, <2>4, <3>1
    <2>12. WalkAt(S, a, b, [i |-> i2, j |-> j2, ops |-> ops2], t + 1)
      BY <2>5, <2>8, <2>9, <2>10, <2>11 DEF WalkAt, M, N, m, n, dp
    <2> QED BY <2>7, <2>12 DEF dp
  <1> QED BY <1>3, <1>4

\* The walk as a whole: its operations lead through both texts, and their equal
\* lines are a common subsequence as long as the table says.
LEMMA WalkEnd ==
  ASSUME NEW S, NEW a \in Seq(S), NEW b \in Seq(S)
  PROVE  /\ DiffOps(a, b) \in Seq(Op(S))
         /\ \E I, J : EditsTo(a, b, DiffOps(a, b), I, J, Len(a) + 1, Len(b) + 1)
         /\ \E e, f : Matched(a, b, e, f, Len(a) + 1, Len(b) + 1) /\ Len(e) = Unchanged(DiffOps(a, b))
         /\ Unchanged(DiffOps(a, b)) = Lcs(a, b)[<<1, 1>>]
  <1> DEFINE m == Len(a)
             n == Len(b)
             l == m + n
             Turn(w) == DiffTurn(a, b, Lcs(a, b), w)
  <1>1. PICK loop : /\ loop[0] = [i |-> 1, j |-> 1, ops |-> << >>]
                    /\ \A t \in 1 .. l : loop[t] = Turn(loop[t - 1])
                    /\ DiffOps(a, b) = loop[l].ops
    BY WalkLoop DEF IsWalk
  <1>2. m \in Nat /\ n \in Nat /\ l \in Nat
    OBVIOUS
  <1> DEFINE T == {t \in Nat : t <= l => WalkAt(S, a, b, loop[t], t)}
  <1>3. 0 \in T
    BY <1>1, WalkStart
  <1>4. \A w, t \in Nat : WalkAt(S, a, b, w, t) => WalkAt(S, a, b, Turn(w), t + 1)
    BY WalkStep
  <1>5. ASSUME NEW t \in Nat, t \in T PROVE t + 1 \in T
    <2> SUFFICES ASSUME t + 1 <= l PROVE WalkAt(S, a, b, loop[t + 1], t + 1)
      OBVIOUS
    <2> HIDE DEF l, Turn, m, n
    <2>1. t + 1 \in 1 .. l /\ (t + 1) - 1 = t /\ t <= l
      BY <1>2
    <2>2. loop[t + 1] = Turn(loop[t])
      BY <1>1, <2>1
    <2>3. WalkAt(S, a, b, loop[t], t)
      BY <1>5, <2>1
    <2>4. WalkAt(S, a, b, Turn(loop[t]), t + 1)
      <3> DEFINE w == loop[t]
      <3> HIDE DEF w
      <3>1. WalkAt(S, a, b, w, t)
        BY <2>3 DEF w
      <3>2. WalkAt(S, a, b, Turn(w), t + 1)
        BY <3>1, WalkStep DEF Turn
      <3> QED BY <3>2 DEF w
    <2> QED BY <2>2, <2>4
  <1> HIDE DEF T, l, m, n, Turn
  <1>6. WalkAt(S, a, b, loop[l], l)
    <2>1. Nat \subseteq T
      BY <1>3, <1>5, AllNaturals
    <2> QED BY <1>2, <2>1 DEF T
  <1>7. PICK i \in 1 .. m + 1, j \in 1 .. n + 1, ops \in Seq(Op(S)) :
          /\ loop[l] = [i |-> i, j |-> j, ops |-> ops]
          /\ (i > m /\ j > n) \/ i + j >= l + 2
          /\ \E I, J : EditsTo(a, b, ops, I, J, i, j)
          /\ \E e, f : Matched(a, b, e, f, i, j) /\ Len(e) = Unchanged(ops)
          /\ Lcs(a, b)[<<1, 1>>] = Lcs(a, b)[<<i, j>>] + Unchanged(ops)
    BY <1>6 DEF WalkAt, m, n
  <1>8. i = m + 1 /\ j = n + 1
    BY <1>2, <1>7 DEF l
  <1>9. Lcs(a, b)[<<i, j>>] = 0
    <2>1. CellRule(a, b, Lcs(a, b), i, j)
      BY LcsCells DEF m, n
    <2> QED BY <1>2, <1>8, <2>1 DEF CellRule, m, n
  <1>10. Unchanged(ops) \in Nat
    <2>1. PICK e, f : Matched(a, b, e, f, i, j) /\ Len(e) = Unchanged(ops)
      BY <1>7
    <2> QED BY <2>1 DEF Matched, Ordered
  <1>11. Unchanged(ops) = Lcs(a, b)[<<1, 1>>]
    BY <1>7, <1>9, <1>10
  <1>12. DiffOps(a, b) = ops
    BY <1>1, <1>7
  <1> QED BY <1>7, <1>8, <1>11, <1>12 DEF m, n

\* Positions in order are no more than there are places, so they are the ones
\* that the reference definition lists.
LEMMA OrderedLength ==
  ASSUME NEW e, NEW hi \in Nat, Ordered(e, 1, hi)
  PROVE  Len(e) <= hi
  <1> DEFINE l == Len(e)
             T == {k \in Nat : k \in 1 .. l => k <= e[k]}
  <1>1. e \in Seq(Nat) /\ l \in Nat /\ DOMAIN e = 1 .. l
    BY DEF Ordered
  <1>2. \A k \in 1 .. l : e[k] \in Nat /\ 1 <= e[k] /\ e[k] <= hi
    BY <1>1 DEF Ordered
  <1>3. \A x, y \in 1 .. l : x < y => e[x] < e[y]
    BY <1>1 DEF Ordered
  <1> HIDE DEF l
  <1>4. 0 \in T
    BY <1>1
  <1>5. ASSUME NEW k \in Nat, k \in T PROVE k + 1 \in T
    <2> SUFFICES ASSUME k + 1 \in 1 .. l PROVE k + 1 <= e[k + 1]
      OBVIOUS
    <2>1. CASE k = 0
      BY <1>2, <2>1
    <2>2. CASE k # 0
      <3>1. k \in 1 .. l /\ k < k + 1
        BY <1>1, <2>2
      <3>2. k <= e[k] /\ e[k] < e[k + 1] /\ e[k] \in Nat /\ e[k + 1] \in Nat
        BY <1>2, <1>3, <1>5, <3>1
      <3> QED BY <3>2
    <2> QED BY <2>1, <2>2
  <1> HIDE DEF T
  <1>6. Nat \subseteq T
    BY <1>4, <1>5, AllNaturals
  <1>7. CASE l = 0
    BY <1>7 DEF l
  <1>8. CASE l # 0
    <2>1. l \in 1 .. l
      BY <1>1, <1>8
    <2>2. l <= e[l]
      BY <1>1, <1>6, <2>1 DEF T
    <2>3. l <= hi
      BY <1>1, <1>2, <2>1, <2>2
    <2> QED BY <2>3 DEF l
  <1> QED BY <1>7, <1>8

\* The reference definition and Ordered mean the same.
LEMMA IncreasingIsOrdered ==
  ASSUME NEW m \in Nat, NEW e
  PROVE  e \in Increasing(m) <=> Ordered(e, 1, m)
  <1>1. ASSUME e \in Increasing(m) PROVE Ordered(e, 1, m)
    <2>1. PICK l \in 0 .. m : e \in [1 .. l -> 1 .. m]
      BY <1>1 DEF Increasing, BoundedSeq, SeqOf
    <2>2. l \in Nat /\ 1 .. m \subseteq Nat
      OBVIOUS
    <2>3. e \in [1 .. l -> Nat] /\ DOMAIN e = 1 .. l
      BY <2>1
    <2>4. e \in Seq(Nat)
      BY <2>2, <2>3
    <2>5. \A k \in DOMAIN e : 1 <= e[k] /\ e[k] <= m
      BY <2>1, <2>3
    <2>6. \A x, y \in DOMAIN e : x < y => e[x] < e[y]
      BY <1>1 DEF Increasing
    <2> QED BY <2>4, <2>5, <2>6 DEF Ordered
  <1>2. ASSUME Ordered(e, 1, m) PROVE e \in Increasing(m)
    <2> DEFINE l == Len(e)
    <2>1. e \in Seq(Nat) /\ l \in Nat /\ DOMAIN e = 1 .. l
      BY <1>2 DEF Ordered
    <2>2. l <= m
      BY <1>2, OrderedLength
    <2>3. \A k \in 1 .. l : e[k] \in 1 .. m
      <3>1. \A k \in 1 .. l : e[k] \in Nat /\ 1 <= e[k] /\ e[k] <= m
        BY <1>2, <2>1 DEF Ordered
      <3> HIDE DEF l
      <3> QED BY <3>1
    <2>4. e = [k \in 1 .. l |-> e[k]]
      BY <2>1
    <2> HIDE DEF l
    <2>5. e \in [1 .. l -> 1 .. m] /\ l \in 0 .. m
      BY <2>1, <2>2, <2>3, <2>4
    <2>6. e \in BoundedSeq(1 .. m, m)
      BY <2>5 DEF BoundedSeq, SeqOf
    <2>7. \A x, y \in DOMAIN e : x < y => e[x] < e[y]
      BY <1>2 DEF Ordered
    <2> QED BY <2>6, <2>7 DEF Increasing
  <1> QED BY <1>1, <1>2

\* What a text has at positions in order.
LEMMA PickedLength ==
  ASSUME NEW S, NEW s \in Seq(S), NEW e, Ordered(e, 1, Len(s))
  PROVE  Len(Picked(s, e)) = Len(e) /\ DOMAIN Picked(s, e) = DOMAIN e /\ \A k \in DOMAIN e : Picked(s, e)[k] = s[e[k]]
  <1> DEFINE l == Len(e)
  <1>1. e \in Seq(Nat) /\ l \in Nat /\ DOMAIN e = 1 .. l
    BY DEF Ordered
  <1>2. \A k \in 1 .. l : e[k] \in 1 .. Len(s)
    <2>1. \A k \in 1 .. l : e[k] \in Nat /\ 1 <= e[k] /\ e[k] <= Len(s)
      BY <1>1 DEF Ordered
    <2> HIDE DEF l
    <2> QED BY <2>1
  <1>3. Picked(s, e) = [k \in 1 .. l |-> s[e[k]]]
    BY <1>1 DEF Picked
  <1> HIDE DEF l
  <1>4. \A k \in 1 .. l : s[e[k]] \in S
    BY <1>2
  <1>5. Picked(s, e) \in [1 .. l -> S]
    BY <1>3, <1>4
  <1>6. Len(Picked(s, e)) = l
    BY <1>1, <1>5
  <1> QED BY <1>1, <1>3, <1>6 DEF l

\* The equal lines of the walk are a longest common subsequence.
LEMMA DiffLongest ==
  ASSUME NEW S, NEW a \in Seq(S), NEW b \in Seq(S)
  PROVE  Unchanged(DiffOps(a, b)) = Max({Len(s) : s \in Sublists(a) \cap Sublists(b)})
  <1> DEFINE m == Len(a)
             n == Len(b)
             u == Unchanged(DiffOps(a, b))
             C == Sublists(a) \cap Sublists(b)
             L == {Len(s) : s \in C}
  <1>1. m \in Nat /\ n \in Nat /\ m + 1 - 1 = m /\ n + 1 - 1 = n
    OBVIOUS
  <1>2. PICK e, f : Matched(a, b, e, f, m + 1, n + 1) /\ Len(e) = u
    BY WalkEnd
  <1>3. Ordered(e, 1, m) /\ Ordered(f, 1, n) /\ Len(e) = Len(f) /\ \A k \in DOMAIN e : a[e[k]] = b[f[k]]
    BY <1>1, <1>2 DEF Matched
  <1>4. e \in Seq(Nat) /\ f \in Seq(Nat) /\ DOMAIN e = DOMAIN f
    BY <1>3 DEF Ordered
  <1>5. Picked(a, e) = Picked(b, f)
    BY <1>3, <1>4 DEF Picked
  <1>6. e \in Increasing(m) /\ f \in Increasing(n)
    BY <1>1, <1>3, IncreasingIsOrdered
  <1>7. Picked(a, e) \in C
    BY <1>5, <1>6 DEF Sublists
  <1>8. Len(Picked(a, e)) = u
    BY <1>2, <1>3, PickedLength
  <1>9. u \in L
    BY <1>7, <1>8
  <1>10. u \in Nat
    BY <1>2, <1>4
  <1>11. ASSUME NEW s \in C PROVE Len(s) \in Nat /\ Len(s) <= u
    <2>1. PICK g \in Increasing(m) : s = Picked(a, g)
      BY DEF Sublists
    <2>2. PICK h \in Increasing(n) : s = Picked(b, h)
      BY DEF Sublists
    <2>3. Ordered(g, 1, m) /\ Ordered(h, 1, n)
      BY <1>1, IncreasingIsOrdered
    <2>4. Len(s) = Len(g) /\ DOMAIN s = DOMAIN g /\ \A k \in DOMAIN g : s[k] = a[g[k]]
      BY <2>1, <2>3, PickedLength
    <2>5. Len(s) = Len(h) /\ DOMAIN s = DOMAIN h /\ \A k \in DOMAIN h : s[k] = b[h[k]]
      BY <2>2, <2>3, PickedLength
    <2>6. Common(a, b, g, h, 1, 1)
      BY <2>3, <2>4, <2>5 DEF Common
    <2>7. 1 \in 1 .. m + 1 /\ 1 \in 1 .. n + 1
      BY <1>1
    <2>8. Len(g) <= Lcs(a, b)[<<1, 1>>]
      BY <2>6, <2>7, LcsBound
    <2>9. u = Lcs(a, b)[<<1, 1>>]
      BY WalkEnd
    <2>10. Len(g) \in Nat
      BY <2>3 DEF Ordered
    <2> QED BY <2>4, <2>8, <2>9, <2>10
  <1> HIDE DEF u, C
  <1>12. \A y \in L : y \in Nat /\ u >= y
    BY <1>10, <1>11
  <1> HIDE DEF L
  <1>13. \A x \in L : (\A y \in L : x >= y) => x = u
    BY <1>9, <1>10, <1>12
  <1>14. Max(L) = u
    BY <1>9, <1>12, <1>13 DEF Max
  <1> QED BY <1>14 DEF L, C, u

\* The operations never lead out of the texts.
LEMMA EditsBound ==
  ASSUME NEW S, NEW a \in Seq(S), NEW b \in Seq(S), NEW ops \in Seq(Op(S)), NEW I, NEW J, Edits(a, b, ops, I, J)
  PROVE  \A k \in 1 .. Len(ops) + 1 : I[k] \in 1 .. Len(a) + 1 /\ J[k] \in 1 .. Len(b) + 1
  <1> DEFINE l == Len(ops)
             m == Len(a)
             n == Len(b)
             In(k) == I[k] \in 1 .. m + 1 /\ J[k] \in 1 .. n + 1
             T == {k \in Nat : k \in 1 .. l + 1 => In(k)}
  <1>1. l \in Nat /\ m \in Nat /\ n \in Nat /\ DOMAIN ops = 1 .. l /\ I[1] = 1 /\ J[1] = 1
    BY DEF Edits
  <1>2. ASSUME NEW k \in 1 .. l, In(k) PROVE In(k + 1)
    <2>1. EditAt(a, b, ops[k], I[k], J[k], I[k + 1], J[k + 1])
      BY <1>1 DEF Edits
    <2>2. \/ I[k] <= m /\ J[k] <= n /\ I[k + 1] = I[k] + 1 /\ J[k + 1] = J[k] + 1
          \/ I[k] <= m /\ I[k + 1] = I[k] + 1 /\ J[k + 1] = J[k]
          \/ J[k] <= n /\ I[k + 1] = I[k] /\ J[k + 1] = J[k] + 1
      BY <2>1 DEF EditAt
    <2> DEFINE p == I[k]
               q == J[k]
               p2 == I[k + 1]
               q2 == J[k + 1]
    <2>3. /\ m \in Nat /\ n \in Nat /\ p \in 1 .. m + 1 /\ q \in 1 .. n + 1
          /\ \/ p <= m /\ q <= n /\ p2 = p + 1 /\ q2 = q + 1
             \/ p <= m /\ p2 = p + 1 /\ q2 = q
             \/ q <= n /\ p2 = p /\ q2 = q + 1
      BY <1>1, <1>2, <2>2
    <2> HIDE DEF m, n, p, q, p2, q2
    <2>4. p2 \in 1 .. m + 1 /\ q2 \in 1 .. n + 1
      BY ONLY <2>3
    <2> QED BY <2>4 DEF p2, q2
  <1>3. In(1)
    BY <1>1
  <1> HIDE DEF l, In
  <1>4. 0 \in T
    OBVIOUS
  <1>5. ASSUME NEW k \in Nat, k \in T PROVE k + 1 \in T
    <2> SUFFICES ASSUME k + 1 \in 1 .. l + 1 PROVE In(k + 1)
      OBVIOUS
    <2>1. CASE k = 0
      BY <1>3, <2>1
    <2>2. CASE k # 0
      <3>1. k \in 1 .. l /\ k \in 1 .. l + 1
        BY <1>1, <2>2
      <3>2. In(k)
        BY <1>5, <3>1
      <3> QED BY <1>2, <3>1, <3>2
    <2> QED BY <2>1, <2>2
  <1> HIDE DEF T
  <1>6. Nat \subseteq T
    BY <1>4, <1>5, AllNaturals
  <1>7. \A k \in 1 .. l + 1 : In(k)
    BY <1>1, <1>6 DEF T
  <1> QED BY <1>7 DEF In, l, m, n

\* Operations of a kind from k up to r, at least one when k is of that kind.
IsRun(ops, k, r, kind) ==
  /\ r \in 1 .. Len(ops) + 1 /\ k <= r
  /\ \A x \in Nat : (k <= x /\ x < r) => x \in 1 .. Len(ops) /\ ops[x].kind = kind
  /\ (k <= Len(ops) /\ ops[k].kind = kind) => k < r
  /\ (k <= Len(ops) /\ ops[k].kind # kind) => k = r

\* RunEnd gives the end of a run.
LEMMA RunIs ==
  ASSUME NEW S, NEW ops \in Seq(S), NEW k \in 1 .. Len(ops) + 1, NEW kind
  PROVE  IsRun(ops, k, RunEnd(ops, k, kind), kind)
  <1> DEFINE l == Len(ops)
             E == {n \in k .. l + 1 : n = l + 1 \/ ops[n].kind # kind}
             r == RunEnd(ops, k, kind)
  <1>1. l \in Nat /\ k \in Nat /\ 1 <= k /\ k <= l + 1
    OBVIOUS
  <1>2. r = Min(E)
    BY DEF RunEnd
  <1> HIDE DEF l, r
  <1>3. E \in SUBSET Nat /\ l + 1 \in E
    BY <1>1
  <1>4. r \in E /\ \A y \in E : r <= y
    BY <1>2, <1>3, MinOf
  <1>5. r \in Nat /\ k <= r /\ r <= l + 1 /\ (r = l + 1 \/ ops[r].kind # kind)
    BY <1>1, <1>4
  <1>6. ASSUME NEW x \in Nat, k <= x, x < r PROVE x \in 1 .. l /\ ops[x].kind = kind
    <2>1. x \notin E
      BY <1>4, <1>5, <1>6
    <2>2. x \in k .. l + 1 /\ x \in 1 .. l
      BY <1>1, <1>5, <1>6
    <2> QED BY <2>1, <2>2
  <1>7. (k <= l /\ ops[k].kind = kind) => k < r
    BY <1>1, <1>5
  <1>8. (k <= l /\ ops[k].kind # kind) => k = r
    <2> SUFFICES ASSUME k <= l, ops[k].kind # kind PROVE k = r
      OBVIOUS
    <2>1. k \in E
      BY <1>1
    <2> QED BY <1>1, <1>4, <1>5, <2>1
  <1> HIDE DEF E
  <1> QED BY <1>1, <1>5, <1>6, <1>7, <1>8 DEF l, r, IsRun

\* Along a run of removes only the old text moves on, along a run of adds only
\* the new one.
RunMoves(I, J, k, r, kind) ==
  \A y \in Nat : y <= r - k =>
    /\ kind = "remove" => I[k + y] = I[k] + y /\ J[k + y] = J[k]
    /\ kind = "add"    => I[k + y] = I[k] /\ J[k + y] = J[k] + y

LEMMA RunLines ==
  ASSUME NEW S, NEW a \in Seq(S), NEW b \in Seq(S), NEW ops \in Seq(Op(S)), NEW I, NEW J, Edits(a, b, ops, I, J),
         NEW kind \in {"remove", "add"}, NEW k \in 1 .. Len(ops) + 1, NEW r, IsRun(ops, k, r, kind)
  PROVE  RunMoves(I, J, k, r, kind)
  <1> DEFINE l == Len(ops)
             At(y) == /\ kind = "remove" => I[k + y] = I[k] + y /\ J[k + y] = J[k]
                      /\ kind = "add"    => I[k + y] = I[k] /\ J[k + y] = J[k] + y
             T == {y \in Nat : y <= r - k => At(y)}
  <1>1. l \in Nat /\ k \in Nat /\ r \in Nat /\ DOMAIN ops = 1 .. l
    BY DEF IsRun
  <1>2. \A x \in 1 .. l + 1 : I[x] \in Nat /\ J[x] \in Nat
    BY EditsBound
  <1>3. I[k] \in Nat /\ J[k] \in Nat
    BY <1>2
  <1>4. ASSUME NEW y \in Nat, y + 1 <= r - k, At(y) PROVE At(y + 1)
    <2> DEFINE x == k + y
    <2>1. x \in Nat /\ k <= x /\ x < r /\ x + 1 = k + (y + 1)
      <3>1. k \in Nat /\ r \in Nat /\ y \in Nat /\ y + 1 <= r - k
        BY <1>1, <1>4
      <3> QED BY ONLY <3>1
    <2>2. x \in 1 .. l /\ ops[x].kind = kind
      BY <2>1 DEF IsRun
    <2>3. EditAt(a, b, ops[x], I[x], J[x], I[x + 1], J[x + 1])
      BY <1>1, <2>2 DEF Edits
    <2>4. /\ kind = "remove" => I[x + 1] = I[x] + 1 /\ J[x + 1] = J[x]
          /\ kind = "add" => I[x + 1] = I[x] /\ J[x + 1] = J[x] + 1
      BY <2>2, <2>3 DEF EditAt
    <2>5. /\ kind = "remove" => I[x] = I[k] + y /\ J[x] = J[k]
          /\ kind = "add" => I[x] = I[k] /\ J[x] = J[k] + y
      BY <1>4
    <2>6. (I[k] + y) + 1 = I[k] + (y + 1) /\ (J[k] + y) + 1 = J[k] + (y + 1)
      <3>1. \A p, q \in Nat : (p + q) + 1 = p + (q + 1)
        OBVIOUS
      <3> QED BY <1>3, <3>1
    <2> HIDE DEF x
    <2>7. /\ kind = "remove" => I[x + 1] = I[k] + (y + 1) /\ J[x + 1] = J[k]
          /\ kind = "add" => I[x + 1] = I[k] /\ J[x + 1] = J[k] + (y + 1)
      BY <2>4, <2>5, <2>6
    <2> QED BY <2>1, <2>7
  <1>5. At(0)
    BY <1>1, <1>3
  <1> HIDE DEF At, l
  <1>6. 0 \in T
    BY <1>5
  <1>7. ASSUME NEW y \in Nat, y \in T PROVE y + 1 \in T
    <2> SUFFICES ASSUME y + 1 <= r - k PROVE At(y + 1)
      OBVIOUS
    <2>1. y <= r - k
      BY <1>1
    <2> QED BY <1>4, <1>7, <2>1
  <1> HIDE DEF T
  <1>8. Nat \subseteq T
    BY <1>6, <1>7, AllNaturals
  <1>9. \A y \in Nat : y <= r - k => At(y)
    BY <1>8 DEF T
  <1> QED BY <1>9 DEF At, RunMoves

\* What holds of a patch applied up to the lines i and j: the new text so far, with
\* the lines of the old one that are still to be copied, is the new text up to j.
PatchAt(S, a, b, acc, i, j) ==
  \E out \in Seq(S), at \in Nat \ {0} :
    /\ acc = [out |-> out, at |-> at]
    /\ at <= i /\ i <= Len(a) + 1 /\ j <= Len(b) + 1 /\ Len(out) + (i - at) = j - 1
    /\ \A x \in 1 .. Len(out) : out[x] = b[x]
    /\ \A x \in at .. i - 1 : a[x] = b[Len(out) + (x - at) + 1]

\* A text that is another one up to a line.
AgreesTo(S, c, b, q) == c \in Seq(S) /\ Len(c) = q /\ \A x \in 1 .. q : c[x] = b[x]

\* With the lines still to be copied, the new text so far is the new text up to j.
LEMMA PatchCopied ==
  ASSUME NEW S, NEW a \in Seq(S), NEW b \in Seq(S), NEW acc, NEW i \in Nat \ {0}, NEW j \in Nat \ {0},
         PatchAt(S, a, b, acc, i, j)
  PROVE  AgreesTo(S, acc.out \o SubSeq(a, acc.at, i - 1), b, j - 1)
  <1>1. PICK out \in Seq(S), at \in Nat \ {0} :
          /\ acc = [out |-> out, at |-> at]
          /\ at <= i /\ i <= Len(a) + 1 /\ j <= Len(b) + 1 /\ Len(out) + (i - at) = j - 1
          /\ \A x \in 1 .. Len(out) : out[x] = b[x]
          /\ \A x \in at .. i - 1 : a[x] = b[Len(out) + (x - at) + 1]
    BY DEF PatchAt
  <1> DEFINE mid == SubSeq(a, at, i - 1)
             c == out \o mid
             p == Len(out)
             q == i - at
             m == Len(a)
  <1>2. m \in Nat /\ p \in Nat /\ at \in Nat \ {0} /\ i \in Nat \ {0} /\ at <= i /\ i <= m + 1 /\ q \in Nat
        /\ p + q = j - 1 /\ q = i - at
    BY <1>1
  <1>3. \A x \in at .. i - 1 : a[x] \in S
    <2> HIDE DEF m
    <2> SUFFICES ASSUME NEW x \in at .. i - 1 PROVE a[x] \in S
      OBVIOUS
    <2>1. x \in 1 .. m
      BY <1>2
    <2> QED BY <2>1 DEF m
  <1>4. /\ mid \in Seq(S)
        /\ Len(mid) = IF at <= i - 1 THEN (i - 1) - at + 1 ELSE 0
        /\ \A x \in 1 .. (i - 1) - at + 1 : mid[x] = a[at + x - 1]
    <2>1. at \in Int /\ i - 1 \in Int
      BY <1>2
    <2> QED BY <1>3, <2>1, SubSeqProperties
  <1> HIDE DEF m, mid, p, q
  <1>5. Len(mid) = q /\ (i - 1) - at + 1 = q
    BY <1>2, <1>4
  <1>6. c \in Seq(S) /\ Len(c) = p + q
        /\ \A x \in 1 .. p + q : c[x] = IF x <= p THEN out[x] ELSE mid[x - p]
    <2>1. /\ c \in Seq(S)
          /\ Len(c) = Len(out) + Len(mid)
          /\ \A x \in 1 .. Len(out) + Len(mid) : c[x] = IF x <= Len(out) THEN out[x] ELSE mid[x - Len(out)]
      BY <1>4, ConcatProperties
    <2> HIDE DEF c
    <2> QED BY <1>5, <2>1 DEF p
  <1> HIDE DEF c
  <1>7. ASSUME NEW x \in 1 .. p + q PROVE c[x] = b[x]
    <2>1. CASE x <= p
      <3>1. x \in 1 .. p
        BY <1>2, <2>1
      <3>2. out[x] = b[x]
        BY <1>1, <3>1 DEF p
      <3> QED BY <1>6, <2>1, <3>2
    <2>2. CASE ~(x <= p)
      <3> DEFINE y == x - p
      <3>1. y \in 1 .. q /\ at + y - 1 \in at .. i - 1 /\ p + ((at + y - 1) - at) + 1 = x
        BY <1>2, <2>2
      <3>2. mid[y] = a[at + y - 1]
        BY <1>4, <1>5, <3>1
      <3>3. a[at + y - 1] = b[p + ((at + y - 1) - at) + 1]
        <4> DEFINE z == at + y - 1
        <4>1. z \in at .. i - 1
          BY <3>1
        <4> HIDE DEF z
        <4>2. a[z] = b[p + (z - at) + 1]
          BY <1>1, <4>1 DEF p
        <4> QED BY <4>2 DEF z
      <3>4. c[x] = mid[y]
        BY <1>6, <2>2
      <3> HIDE DEF y
      <3> QED BY <3>1, <3>2, <3>3, <3>4
    <2> QED BY <2>1, <2>2
  <1>8. AgreesTo(S, c, b, j - 1)
    BY <1>2, <1>6, <1>7 DEF AgreesTo
  <1>9. acc.out = out /\ acc.at = at
    BY <1>1
  <1> QED BY <1>8, <1>9 DEF c, mid

\* An equal line is passed in both texts.
LEMMA PatchEqual ==
  ASSUME NEW S, NEW a \in Seq(S), NEW b \in Seq(S), NEW acc, NEW i \in Nat \ {0}, NEW j \in Nat \ {0},
         PatchAt(S, a, b, acc, i, j), i <= Len(a), j <= Len(b), a[i] = b[j]
  PROVE  PatchAt(S, a, b, acc, i + 1, j + 1)
  <1>1. PICK out \in Seq(S), at \in Nat \ {0} :
          /\ acc = [out |-> out, at |-> at]
          /\ at <= i /\ i <= Len(a) + 1 /\ j <= Len(b) + 1 /\ Len(out) + (i - at) = j - 1
          /\ \A x \in 1 .. Len(out) : out[x] = b[x]
          /\ \A x \in at .. i - 1 : a[x] = b[Len(out) + (x - at) + 1]
    BY DEF PatchAt
  <1> DEFINE m == Len(a)
             n == Len(b)
             p == Len(out)
  <1>2. m \in Nat /\ n \in Nat /\ p \in Nat /\ at <= i /\ i <= m /\ j <= n /\ p + (i - at) = j - 1
    BY <1>1
  <1>3. \A x \in at .. i - 1 : a[x] = b[p + (x - at) + 1]
    BY <1>1
  <1> HIDE DEF m, n, p
  <1>4. at <= i + 1 /\ i + 1 <= m + 1 /\ j + 1 <= n + 1 /\ p + ((i + 1) - at) = (j + 1) - 1
    BY <1>2
  <1>5. ASSUME NEW x \in at .. (i + 1) - 1 PROVE a[x] = b[p + (x - at) + 1]
    <2>1. CASE x \in at .. i - 1
      BY <1>3, <2>1
    <2>2. CASE x = i
      <3>1. p + (i - at) + 1 = j
        BY <1>2
      <3> QED BY <2>2, <3>1
    <2> QED BY <2>1, <2>2
  <1> QED BY <1>1, <1>4, <1>5 DEF PatchAt, m, n, p

\* A hunk takes its lines out of the old text and puts in those of the new one.
LEMMA PatchHunk ==
  ASSUME NEW S, NEW a \in Seq(S), NEW b \in Seq(S), NEW acc, NEW i \in Nat \ {0}, NEW j \in Nat \ {0},
         PatchAt(S, a, b, acc, i, j), NEW h, h.after \in Seq(S), h.before \in Seq(S),
         h.line = IF h.op = "add" THEN j ELSE i,
         i + Len(h.before) <= Len(a) + 1, j + Len(h.after) <= Len(b) + 1,
         \A x \in 1 .. Len(h.after) : h.after[x] = b[j + x - 1]
  PROVE  PatchAt(S, a, b, Apply(a, acc, h), i + Len(h.before), j + Len(h.after))
  <1>1. PICK out \in Seq(S), at \in Nat \ {0} :
          /\ acc = [out |-> out, at |-> at]
          /\ at <= i /\ i <= Len(a) + 1 /\ j <= Len(b) + 1 /\ Len(out) + (i - at) = j - 1
    BY DEF PatchAt
  <1> DEFINE copied == IF h.op = "add" THEN h.line - 1 - Len(acc.out) ELSE h.line - acc.at
             c == out \o SubSeq(a, at, i - 1)
             d == c \o h.after
             r == Len(h.before)
             s == Len(h.after)
             p == Len(out)
  <1>2. acc.out = out /\ acc.at = at /\ p \in Nat /\ r \in Nat /\ s \in Nat /\ at <= i /\ p + (i - at) = j - 1
    BY <1>1
  <1>3. copied = i - at
    <2> HIDE DEF p, r, s
    <2>1. CASE h.op = "add"
      <3>1. copied = j - 1 - p
        BY <1>2, <2>1 DEF p
      <3> HIDE DEF copied
      <3> QED BY <1>2, <3>1
    <2>2. CASE h.op # "add"
      BY <1>2, <2>2
    <2> QED BY <2>1, <2>2
  <1>4. at + (i - at) = i /\ at + (i - at) - 1 = i - 1
    BY <1>2
  <1>5. Apply(a, acc, h) = [out |-> d, at |-> i + r]
    <2>1. Apply(a, acc, h) = [out |-> acc.out \o SubSeq(a, acc.at, acc.at + copied - 1) \o h.after,
                              at |-> acc.at + copied + Len(h.before)]
      BY DEF Apply
    <2> HIDE DEF copied
    <2> QED BY <1>2, <1>3, <1>4, <2>1
  <1>6. AgreesTo(S, c, b, j - 1)
    BY <1>2, PatchCopied
  <1> HIDE DEF copied, c, p, r
  <1>7. c \in Seq(S) /\ Len(c) = j - 1 /\ \A x \in 1 .. j - 1 : c[x] = b[x]
    BY <1>6 DEF AgreesTo
  <1>8. d \in Seq(S) /\ Len(d) = (j - 1) + s
        /\ \A x \in 1 .. (j - 1) + s : d[x] = IF x <= j - 1 THEN c[x] ELSE h.after[x - (j - 1)]
    <2>1. /\ d \in Seq(S)
          /\ Len(d) = Len(c) + Len(h.after)
          /\ \A x \in 1 .. Len(c) + Len(h.after) : d[x] = IF x <= Len(c) THEN c[x] ELSE h.after[x - Len(c)]
      BY <1>7, ConcatProperties
    <2> HIDE DEF d
    <2> QED BY <1>7, <2>1
  <1>9. \A x \in 1 .. s : h.after[x] = b[j + x - 1]
    OBVIOUS
  <1> HIDE DEF d, s
  <1>10. ASSUME NEW x \in 1 .. (j - 1) + s PROVE d[x] = b[x]
    <2>1. CASE x <= j - 1
      <3>1. x \in 1 .. j - 1
        BY <2>1
      <3> QED BY <1>7, <1>8, <2>1, <3>1
    <2>2. CASE ~(x <= j - 1)
      <3> DEFINE y == x - (j - 1)
      <3>1. y \in 1 .. s /\ j + y - 1 = x
        BY <1>2, <2>2
      <3>2. d[x] = h.after[y]
        BY <1>8, <2>2
      <3> HIDE DEF y
      <3> QED BY <1>9, <3>1, <3>2
    <2> QED BY <2>1, <2>2
  <1>11. i + r \in Nat \ {0} /\ i + r <= Len(a) + 1 /\ j + s <= Len(b) + 1 /\ (j - 1) + s + ((i + r) - (i + r)) = (j + s) - 1
    <2>1. i + r <= Len(a) + 1 /\ j + s <= Len(b) + 1
      BY DEF r, s
    <2>2. i + r \in Nat \ {0} /\ (j - 1) + s + ((i + r) - (i + r)) = (j + s) - 1
      <3>1. i \in Nat \ {0} /\ j \in Nat \ {0} /\ r \in Nat /\ s \in Nat
        BY <1>2
      <3> QED BY ONLY <3>1
    <2> QED BY <2>1, <2>2
  <1>12. \A x \in i + r .. (i + r) - 1 : FALSE
    BY <1>2
  <1>13. PatchAt(S, a, b, [out |-> d, at |-> i + r], i + r, j + s)
    <2> DEFINE at2 == i + r
    <2>1. /\ at2 <= at2 /\ at2 <= Len(a) + 1 /\ j + s <= Len(b) + 1 /\ Len(d) + (at2 - at2) = (j + s) - 1
          /\ \A x \in 1 .. Len(d) : d[x] = b[x]
          /\ \A x \in at2 .. at2 - 1 : FALSE
      BY <1>8, <1>10, <1>11, <1>12
    <2>2. at2 \in Nat \ {0}
      BY <1>11
    <2> HIDE DEF at2
    <2>3. PatchAt(S, a, b, [out |-> d, at |-> at2], at2, j + s)
      BY <1>8, <2>1, <2>2 DEF PatchAt
    <2> QED BY <2>3 DEF at2
  <1> QED BY <1>5, <1>13 DEF r, s

\* Behind the last line the patch has made the new text.
LEMMA PatchEnd ==
  ASSUME NEW S, NEW a \in Seq(S), NEW b \in Seq(S), NEW acc, PatchAt(S, a, b, acc, Len(a) + 1, Len(b) + 1)
  PROVE  acc.out \o SubSeq(a, acc.at, Len(a)) = b
  <1> DEFINE m == Len(a)
             n == Len(b)
             c == acc.out \o SubSeq(a, acc.at, m)
  <1>1. m \in Nat /\ n \in Nat
    OBVIOUS
  <1>2. m + 1 \in Nat \ {0} /\ n + 1 \in Nat \ {0} /\ (m + 1) - 1 = m /\ (n + 1) - 1 = n
    BY <1>1
  <1>3. AgreesTo(S, acc.out \o SubSeq(a, acc.at, (m + 1) - 1), b, (n + 1) - 1)
    BY <1>2, PatchCopied
  <1>4. AgreesTo(S, c, b, n)
    BY <1>2, <1>3
  <1> HIDE DEF c
  <1>5. c \in Seq(S) /\ Len(c) = Len(b) /\ \A x \in 1 .. Len(c) : c[x] = b[x]
    BY <1>4 DEF AgreesTo
  <1>6. c = b
    BY <1>5, SeqEqual
  <1> QED BY <1>6 DEF c

\* What applying a list of hunks one after the other gives.
Folded(old, hs, acc) ==
  \E loop : /\ loop[0] = [out |-> << >>, at |-> 1]
            /\ \A t \in 1 .. Len(hs) : loop[t] = Apply(old, loop[t - 1], hs[t])
            /\ acc = loop[Len(hs)]

\* One more hunk is one more turn.
LEMMA FoldedAppend ==
  ASSUME NEW H, NEW hs \in Seq(H), NEW h \in H, NEW old, NEW acc, Folded(old, hs, acc)
  PROVE  Folded(old, Append(hs, h), Apply(old, acc, h))
  <1> DEFINE l == Len(hs)
             hs2 == Append(hs, h)
             Turn(g, x) == Apply(old, g, x)
  <1>1. PICK loop : /\ loop[0] = [out |-> << >>, at |-> 1]
                    /\ \A t \in 1 .. l : loop[t] = Turn(loop[t - 1], hs[t])
                    /\ acc = loop[l]
    BY DEF Folded
  <1>2. l \in Nat /\ Len(hs2) = l + 1 /\ hs2[l + 1] = h /\ \A t \in 1 .. l : hs2[t] = hs[t]
    OBVIOUS
  <1> DEFINE next == [t \in 0 .. l + 1 |-> IF t <= l THEN loop[t] ELSE Turn(acc, h)]
  <1> HIDE DEF l, hs2, Turn
  <1>3. next[0] = loop[0] /\ next[l + 1] = Turn(acc, h) /\ \A t \in 0 .. l : next[t] = loop[t]
    BY <1>2
  <1> HIDE DEF next
  <1>4. ASSUME NEW t \in 1 .. l + 1 PROVE next[t] = Turn(next[t - 1], hs2[t])
    <2>1. CASE t \in 1 .. l
      <3>1. t \in 0 .. l /\ t - 1 \in 0 .. l
        BY <1>2, <2>1
      <3> QED BY <1>1, <1>2, <1>3, <2>1, <3>1
    <2>2. CASE t = l + 1
      <3>1. t - 1 = l /\ l \in 0 .. l
        BY <1>2, <2>2
      <3> QED BY <1>1, <1>2, <1>3, <2>2, <3>1
    <2> QED BY <1>2, <2>1, <2>2
  <1>5. /\ next[0] = [out |-> << >>, at |-> 1]
        /\ \A t \in 1 .. Len(hs2) : next[t] = Apply(old, next[t - 1], hs2[t])
        /\ Apply(old, acc, h) = next[Len(hs2)]
    BY <1>1, <1>2, <1>3, <1>4 DEF Turn
  <1>6. Folded(old, hs2, Apply(old, acc, h))
    BY <1>5 DEF Folded
  <1> QED BY <1>6 DEF hs2

\* Patched is the last of the turns, with the rest of the old text.
LEMMA FoldedPatch ==
  ASSUME NEW H, NEW hs \in Seq(H), NEW old, NEW acc, Folded(old, hs, acc)
  PROVE  Patched(old, hs) = acc.out \o SubSeq(old, acc.at, Len(old))
  <1> DEFINE l == Len(hs)
             Turn(g, x) == Apply(old, g, x)
  <1>1. PICK loop : /\ loop[0] = [out |-> << >>, at |-> 1]
                    /\ \A t \in 1 .. l : loop[t] = Turn(loop[t - 1], hs[t])
                    /\ acc = loop[l]
    BY DEF Folded
  <1>2. PICK run : IsPatch(old, hs, run)
    BY PatchLoop
  <1>3. /\ run[0] = [out |-> << >>, at |-> 1]
        /\ \A t \in 1 .. l : run[t] = Turn(run[t - 1], hs[t])
        /\ Patched(old, hs) = run[l].out \o SubSeq(old, run[l].at, Len(old))
    BY <1>2 DEF IsPatch
  <1>4. l \in Nat
    OBVIOUS
  <1> DEFINE T == {t \in Nat : t <= l => run[t] = loop[t]}
  <1> HIDE DEF l, Turn
  <1>5. 0 \in T
    BY <1>1, <1>3
  <1>6. ASSUME NEW t \in Nat, t \in T PROVE t + 1 \in T
    <2> SUFFICES ASSUME t + 1 <= l PROVE run[t + 1] = loop[t + 1]
      OBVIOUS
    <2>1. t + 1 \in 1 .. l /\ (t + 1) - 1 = t /\ t <= l
      BY <1>4
    <2>2. run[t] = loop[t]
      BY <1>6, <2>1
    <2> QED BY <1>1, <1>3, <2>1, <2>2
  <1> HIDE DEF T
  <1>7. run[l] = loop[l]
    <2>1. Nat \subseteq T
      BY <1>5, <1>6, AllNaturals
    <2> QED BY <1>4, <2>1 DEF T
  <1> QED BY <1>1, <1>3, <1>7

Hunk(S) == [op : {"remove", "add", "modify"}, line : Nat, before : Seq(S), after : Seq(S)]

\* A hunk that leads from the lines i and j to the lines i2 and j2.
HunkFor(b, h, i, j, i2, j2) ==
  /\ h.line = IF h.op = "add" THEN j ELSE i
  /\ i2 = i + Len(h.before) /\ j2 = j + Len(h.after)
  /\ \A x \in 1 .. Len(h.after) : h.after[x] = b[j + x - 1]

\* The texts of a part of the operations, from k up to r.
TextsIn(S, ops, k, r, part) ==
  /\ Texts(part) \in Seq(S)
  /\ Len(Texts(part)) = r - k
  /\ \A x \in 1 .. r - k : Texts(part)[x] = ops[k + x - 1].text
  /\ part = << >> <=> k = r

\* SubSeq and Texts give them.
LEMMA TextsOf ==
  ASSUME NEW S, NEW ops \in Seq(Op(S)), NEW k \in 1 .. Len(ops) + 1, NEW r \in 1 .. Len(ops) + 1, k <= r
  PROVE  TextsIn(S, ops, k, r, SubSeq(ops, k, r - 1))
  <1> DEFINE part == SubSeq(ops, k, r - 1)
             l == Len(ops)
             q == r - k
  <1>1. l \in Nat /\ k \in Nat \ {0} /\ r \in Nat /\ r <= l + 1 /\ q \in Nat /\ DOMAIN ops = 1 .. l
    OBVIOUS
  <1>2. \A x \in k .. r - 1 : ops[x] \in Op(S)
    <2> SUFFICES ASSUME NEW x \in k .. r - 1 PROVE ops[x] \in Op(S)
      OBVIOUS
    <2>1. x \in 1 .. l
      <3> HIDE DEF l
      <3> QED BY <1>1
    <2> QED BY <2>1
  <1>3. /\ part \in Seq(Op(S))
        /\ Len(part) = IF k <= r - 1 THEN (r - 1) - k + 1 ELSE 0
        /\ \A x \in 1 .. (r - 1) - k + 1 : part[x] = ops[k + x - 1]
    <2>1. k \in Int /\ r - 1 \in Int
      BY <1>1
    <2> QED BY <1>2, <2>1, SubSeqProperties
  <1>4. Len(part) = q /\ (r - 1) - k + 1 = q
    BY <1>1, <1>3
  <1> HIDE DEF part, l
  <1>5. DOMAIN part = 1 .. q /\ \A x \in 1 .. q : part[x] = ops[k + x - 1] /\ part[x] \in Op(S)
    BY <1>3, <1>4
  <1>6. part = << >> <=> q = 0
    BY <1>3, <1>4
  <1>7. Texts(part) = [x \in 1 .. q |-> part[x].text]
    BY <1>5 DEF Texts
  <1>8. \A x \in 1 .. q : part[x].text \in S
    BY <1>5 DEF Op
  <1>9. Texts(part) \in [1 .. q -> S]
    BY <1>7, <1>8
  <1>10. Texts(part) \in Seq(S) /\ Len(Texts(part)) = q
    <2> HIDE DEF q
    <2>1. q \in Nat
      BY <1>1
    <2> QED BY <1>9, <2>1
  <1>11. \A x \in 1 .. q : Texts(part)[x] = ops[k + x - 1].text
    BY <1>5, <1>7
  <1>12. q = 0 <=> k = r
    BY <1>1
  <1> QED BY <1>6, <1>10, <1>11, <1>12 DEF part, q, TextsIn

\* A turn that makes the hunk h of the operations from k up to r.
HunkTo(b, ops, I, J, g, hs, h, k, r) ==
  /\ HunkTurn(ops, g) = [at |-> r, hunks |-> Append(hs, h)]
  /\ k < r /\ HunkFor(b, h, I[k], J[k], I[r], J[r])

\* The hunk made at an operation that is not an equal line.
LEMMA HunkMade ==
  ASSUME NEW S, NEW a \in Seq(S), NEW b \in Seq(S), NEW ops \in Seq(Op(S)), NEW I, NEW J, Edits(a, b, ops, I, J),
         NEW k \in 1 .. Len(ops), ops[k].kind # "equal", NEW hs, NEW g, g = [at |-> k, hunks |-> hs]
  PROVE  \E h \in Hunk(S), r \in 1 .. Len(ops) + 1 : HunkTo(b, ops, I, J, g, hs, h, k, r)
  <1> DEFINE l == Len(ops)
             mid == RunEnd(ops, k, "remove")
             r == RunEnd(ops, mid, "add")
             removed == SubSeq(ops, k, mid - 1)
             added == SubSeq(ops, mid, r - 1)
             before == Texts(removed)
             after == Texts(added)
             change == IF added = << >> THEN "remove" ELSE IF removed = << >> THEN "add" ELSE "modify"
             h == [op |-> change, line |-> ops[k].line, before |-> before, after |-> after]
  <1>1. l \in Nat /\ k \in Nat \ {0} /\ k <= l /\ k \in 1 .. l + 1 /\ ops[k] \in Op(S) /\ DOMAIN ops = 1 .. l
    OBVIOUS
  <1>2. g.at = k /\ g.hunks = hs
    OBVIOUS
  <1>3. HunkTurn(ops, g) = [at |-> r, hunks |-> Append(hs, h)]
    <2>1. ~(g.at > Len(ops)) /\ ops[g.at].kind # "equal"
      BY <1>1, <1>2
    <2> QED BY <1>2, <2>1 DEF HunkTurn
  <1>4. ops[k].kind = "remove" \/ ops[k].kind = "add"
    BY <1>1 DEF Op
  <1>5. IsRun(ops, k, mid, "remove")
    BY <1>1, RunIs
  <1>6. /\ mid \in 1 .. l + 1 /\ k <= mid
        /\ \A x \in Nat : (k <= x /\ x < mid) => x \in 1 .. l /\ ops[x].kind = "remove"
        /\ (k <= l /\ ops[k].kind = "remove") => k < mid
        /\ (k <= l /\ ops[k].kind # "remove") => k = mid
    BY <1>5 DEF IsRun
  <1> HIDE DEF mid
  <1>7. IsRun(ops, mid, r, "add")
    BY <1>6, RunIs
  <1>8. /\ r \in 1 .. l + 1 /\ mid <= r
        /\ \A x \in Nat : (mid <= x /\ x < r) => x \in 1 .. l /\ ops[x].kind = "add"
        /\ (mid <= l /\ ops[mid].kind = "add") => mid < r
    BY <1>7 DEF IsRun
  <1> HIDE DEF r
  <1>9. /\ before \in Seq(S) /\ Len(before) = mid - k
        /\ removed = << >> <=> k = mid
    <2>1. TextsIn(S, ops, k, mid, removed)
      BY <1>1, <1>6, TextsOf
    <2> QED BY <2>1 DEF TextsIn
  <1>10. /\ after \in Seq(S) /\ Len(after) = r - mid
         /\ added = << >> <=> mid = r
    <2>1. TextsIn(S, ops, mid, r, added)
      BY <1>6, <1>8, TextsOf
    <2> QED BY <2>1 DEF TextsIn
  <1>11. \A x \in 1 .. r - mid : after[x] = ops[mid + x - 1].text
    <2>1. TextsIn(S, ops, mid, r, added)
      BY <1>6, <1>8, TextsOf
    <2> QED BY <2>1 DEF TextsIn
  <1> HIDE DEF removed, added, before, after
  <1>12. \A y \in Nat : y <= mid - k => I[k + y] = I[k] + y /\ J[k + y] = J[k]
    <2>1. RunMoves(I, J, k, mid, "remove")
      BY <1>1, <1>5, RunLines
    <2> QED BY <2>1 DEF RunMoves
  <1>13. \A y \in Nat : y <= r - mid => I[mid + y] = I[mid] /\ J[mid + y] = J[mid] + y
    <2>1. RunMoves(I, J, mid, r, "add")
      BY <1>6, <1>7, RunLines
    <2> QED BY <2>1 DEF RunMoves
  <1> HIDE DEF l
  <1>14. mid \in Nat /\ r \in Nat /\ mid - k \in Nat /\ r - mid \in Nat /\ k + (mid - k) = mid /\ mid + (r - mid) = r
    BY <1>1, <1>6, <1>8
  <1>15. I[mid] = I[k] + (mid - k) /\ J[mid] = J[k]
    <2> DEFINE y == mid - k
    <2>1. y \in Nat /\ y <= mid - k /\ k + y = mid
      BY <1>14
    <2> HIDE DEF y
    <2>2. I[k + y] = I[k] + y /\ J[k + y] = J[k]
      BY <1>12, <2>1
    <2> QED BY <2>1, <2>2 DEF y
  <1>16. I[r] = I[mid] /\ J[r] = J[mid] + (r - mid)
    <2> DEFINE y == r - mid
    <2>1. y \in Nat /\ y <= r - mid /\ mid + y = r
      BY <1>14
    <2> HIDE DEF y
    <2>2. I[mid + y] = I[mid] /\ J[mid + y] = J[mid] + y
      BY <1>13, <2>1
    <2> QED BY <2>1, <2>2 DEF y
  <1>17. k < r
    <2>1. CASE k < mid
      BY <1>1, <1>8, <1>14, <2>1
    <2>2. CASE ~(k < mid)
      <3>1. ops[k].kind = "add" /\ k = mid /\ mid <= l
        BY <1>1, <1>4, <1>6, <2>2
      <3> QED BY <1>8, <3>1
    <2> QED BY <2>1, <2>2
  <1>18. /\ ops[k].kind = "remove" => ops[k].line = I[k]
         /\ ops[k].kind = "add" => ops[k].line = J[k]
    <2>1. EditAt(a, b, ops[k], I[k], J[k], I[k + 1], J[k + 1])
      BY DEF Edits
    <2> QED BY <2>1 DEF EditAt
  <1>19. ops[k].line = IF change = "add" THEN J[k] ELSE I[k]
    <2>1. CASE ops[k].kind = "remove"
      <3>1. k < mid
        BY <1>1, <1>6, <2>1
      <3>2. removed # << >>
        BY <1>1, <1>9, <1>14, <3>1
      <3>3. change # "add"
        BY <3>2
      <3> QED BY <1>18, <2>1, <3>3
    <2>2. CASE ops[k].kind = "add"
      <3>1. k = mid
        BY <1>1, <1>6, <2>2
      <3>2. mid # r
        BY <1>1, <1>14, <1>17, <3>1
      <3>3. removed = << >>
        BY <1>9, <3>1
      <3>4. added # << >>
        BY <1>10, <3>2
      <3>5. change = "add"
        BY <3>3, <3>4
      <3> QED BY <1>18, <2>2, <3>5
    <2> QED BY <1>4, <2>1, <2>2
  <1>20. ASSUME NEW x \in 1 .. r - mid PROVE after[x] = b[J[k] + x - 1]
    <2> DEFINE y == x - 1
    <2>1. y \in Nat /\ y <= r - mid /\ mid + x - 1 = mid + y /\ mid <= mid + y /\ mid + y < r /\ mid + y \in Nat
      <3>1. mid \in Nat /\ r \in Nat /\ x \in 1 .. r - mid
        BY <1>14
      <3> QED BY ONLY <3>1
    <2>2. ops[mid + y].kind = "add" /\ mid + y \in 1 .. l
      BY <1>8, <2>1
    <2>3. EditAt(a, b, ops[mid + y], I[mid + y], J[mid + y], I[mid + y + 1], J[mid + y + 1])
      BY <1>1, <2>2 DEF Edits
    <2>4. ops[mid + y].text = b[J[mid + y]]
      BY <2>2, <2>3 DEF EditAt
    <2>5. J[mid + y] = J[k] + y
      <3> HIDE DEF y
      <3> QED BY <1>13, <1>15, <2>1
    <2>6. J[k] \in Nat
      BY <1>1, EditsBound DEF l
    <2>7. J[k] + y = J[k] + x - 1
      <3>1. \A p, q \in Nat : p + (q - 1) = p + q - 1
        OBVIOUS
      <3>2. x \in Nat
        BY <1>14
      <3> QED BY <2>6, <3>1, <3>2
    <2>8. after[x] = ops[mid + y].text
      <3>1. after[x] = ops[mid + x - 1].text
        BY <1>11
      <3> QED BY <2>1, <3>1
    <2> QED BY <2>4, <2>5, <2>7, <2>8
  <1>21. h \in Hunk(S)
    <2>1. change \in {"remove", "add", "modify"}
      OBVIOUS
    <2>2. ops[k].line \in Nat
      BY <1>1 DEF Op
    <2> HIDE DEF change
    <2> QED BY <1>9, <1>10, <2>1, <2>2 DEF Hunk
  <1> HIDE DEF change
  <1>22. h.op = change /\ h.line = ops[k].line /\ h.before = before /\ h.after = after
    OBVIOUS
  <1> HIDE DEF h
  <1>23. HunkFor(b, h, I[k], J[k], I[r], J[r])
    <2>1. I[r] = I[k] + Len(h.before) /\ J[r] = J[k] + Len(h.after)
      BY <1>9, <1>10, <1>15, <1>16, <1>22
    <2>2. h.line = IF h.op = "add" THEN J[k] ELSE I[k]
      BY <1>19, <1>22
    <2>3. \A x \in 1 .. Len(h.after) : h.after[x] = b[J[k] + x - 1]
      BY <1>10, <1>20, <1>22
    <2> QED BY <2>1, <2>2, <2>3 DEF HunkFor
  <1>24. HunkTo(b, ops, I, J, g, hs, h, k, r)
    BY <1>3, <1>17, <1>23 DEF HunkTo
  <1> QED BY <1>8, <1>21, <1>24 DEF l

\* What holds of the merging after t turns: it has reached the operation k, and
\* the hunks made so far patch the old text up to it.
MergeAt(S, a, b, ops, I, J, g, t) ==
  \E k \in 1 .. Len(ops) + 1, hs \in Seq(Hunk(S)) :
    /\ g = [at |-> k, hunks |-> hs]
    /\ k > Len(ops) \/ k >= t + 1
    /\ \E acc : Folded(a, hs, acc) /\ PatchAt(S, a, b, acc, I[k], J[k])

\* A turn keeps it so: an equal line is passed in both texts, and a hunk takes the
\* patch to where its operations lead.
LEMMA MergeStep ==
  ASSUME NEW S, NEW a \in Seq(S), NEW b \in Seq(S), NEW ops \in Seq(Op(S)), NEW I, NEW J, Edits(a, b, ops, I, J),
         NEW g, NEW t \in Nat, MergeAt(S, a, b, ops, I, J, g, t)
  PROVE  MergeAt(S, a, b, ops, I, J, HunkTurn(ops, g), t + 1)
  <1> DEFINE l == Len(ops)
             K == 1 .. l + 1
             H == Seq(Hunk(S))
  <1>1. PICK k \in K, hs \in H : /\ g = [at |-> k, hunks |-> hs]
                                 /\ k > l \/ k >= t + 1
                                 /\ \E acc : Folded(a, hs, acc) /\ PatchAt(S, a, b, acc, I[k], J[k])
    BY DEF MergeAt
  <1>2. l \in Nat /\ k \in Nat \ {0} /\ DOMAIN ops = 1 .. l
    OBVIOUS
  <1>3. PICK acc : Folded(a, hs, acc) /\ PatchAt(S, a, b, acc, I[k], J[k])
    BY <1>1
  <1>4. g.at = k /\ g.hunks = hs
    BY <1>1
  <1>5. \A x \in K : I[x] \in 1 .. Len(a) + 1 /\ J[x] \in 1 .. Len(b) + 1
    BY EditsBound
  <1>6. \A x \in K : I[x] \in Nat \ {0} /\ J[x] \in Nat \ {0} /\ I[x] <= Len(a) + 1 /\ J[x] <= Len(b) + 1
    BY <1>5
  <1>7. CASE k > l
    <2>1. HunkTurn(ops, g) = g
      BY <1>4, <1>7 DEF HunkTurn
    <2>2. MergeAt(S, a, b, ops, I, J, g, t + 1)
      BY <1>1, <1>7 DEF MergeAt
    <2> QED BY <2>1, <2>2
  <1>8. CASE k <= l /\ ops[k].kind = "equal"
    <2>1. HunkTurn(ops, g) = [at |-> k + 1, hunks |-> hs]
      <3>1. HunkTurn(ops, g) = [g EXCEPT !.at = @ + 1]
        BY <1>2, <1>4, <1>8 DEF HunkTurn
      <3> QED BY <1>1, <3>1
    <2>2. k \in 1 .. l /\ k + 1 \in K
      BY <1>2, <1>8
    <2>3. EditAt(a, b, ops[k], I[k], J[k], I[k + 1], J[k + 1])
      BY <1>2, <2>2 DEF Edits
    <2>4. I[k] <= Len(a) /\ J[k] <= Len(b) /\ a[I[k]] = b[J[k]] /\ I[k + 1] = I[k] + 1 /\ J[k + 1] = J[k] + 1
      BY <1>8, <2>3 DEF EditAt
    <2>5. PatchAt(S, a, b, acc, I[k] + 1, J[k] + 1)
      BY <1>3, <1>6, <2>4, PatchEqual
    <2>6. PatchAt(S, a, b, acc, I[k + 1], J[k + 1])
      BY <2>4, <2>5
    <2>7. k + 1 >= (t + 1) + 1
      BY <1>1, <1>2, <1>8
    <2>8. MergeAt(S, a, b, ops, I, J, [at |-> k + 1, hunks |-> hs], t + 1)
      <3> DEFINE k2 == k + 1
      <3>1. k2 \in K /\ PatchAt(S, a, b, acc, I[k2], J[k2]) /\ k2 >= (t + 1) + 1
        BY <2>2, <2>6, <2>7
      <3> HIDE DEF k2
      <3>2. MergeAt(S, a, b, ops, I, J, [at |-> k2, hunks |-> hs], t + 1)
        BY <1>3, <3>1 DEF MergeAt
      <3> QED BY <3>2 DEF k2
    <2> QED BY <2>1, <2>8
  <1>9. CASE k <= l /\ ops[k].kind # "equal"
    <2>1. k \in 1 .. l
      BY <1>2, <1>9
    <2>2. g = [at |-> k, hunks |-> hs]
      BY <1>1
    <2>3. PICK h \in Hunk(S), r \in K : HunkTo(b, ops, I, J, g, hs, h, k, r)
      BY <1>9, <2>1, <2>2, HunkMade
    <2> DEFINE acc2 == Apply(a, acc, h)
               hs2 == Append(hs, h)
               i == I[k]
               j == J[k]
    <2>4. h.before \in Seq(S) /\ h.after \in Seq(S)
      BY DEF Hunk
    <2>5. /\ h.line = IF h.op = "add" THEN j ELSE i
          /\ I[r] = i + Len(h.before) /\ J[r] = j + Len(h.after)
          /\ \A x \in 1 .. Len(h.after) : h.after[x] = b[j + x - 1]
      BY <2>3 DEF HunkTo, HunkFor
    <2>6. i \in Nat \ {0} /\ j \in Nat \ {0} /\ I[r] <= Len(a) + 1 /\ J[r] <= Len(b) + 1
      BY <1>6
    <2>7. i + Len(h.before) <= Len(a) + 1 /\ j + Len(h.after) <= Len(b) + 1 /\ PatchAt(S, a, b, acc, i, j)
      BY <1>3, <2>5, <2>6
    <2> HIDE DEF i, j
    <2>8. PatchAt(S, a, b, acc2, i + Len(h.before), j + Len(h.after))
      BY <2>4, <2>5, <2>6, <2>7, PatchHunk
    <2>9. PatchAt(S, a, b, acc2, I[r], J[r])
      BY <2>5, <2>8
    <2>10. Folded(a, hs2, acc2)
      BY <1>3, FoldedAppend
    <2>11. hs2 \in H
      OBVIOUS
    <2>12. r >= (t + 1) + 1
      <3>1. r \in Nat /\ k >= t + 1 /\ k < r
        BY <1>1, <1>2, <1>9, <2>3 DEF HunkTo
      <3> QED BY <1>2, <3>1
    <2> HIDE DEF acc2, hs2
    <2>13. MergeAt(S, a, b, ops, I, J, [at |-> r, hunks |-> hs2], t + 1)
      BY <2>9, <2>10, <2>11, <2>12 DEF MergeAt
    <2> QED BY <2>3, <2>13 DEF hs2, HunkTo
  <1>10. k > l \/ k <= l
    BY <1>2
  <1> QED BY <1>7, <1>8, <1>9, <1>10

\* The hunks patch the old text to the new one.
LEMMA DiffPatches ==
  ASSUME NEW S, NEW a \in Seq(S), NEW b \in Seq(S)
  PROVE  Patched(a, Hunks(DiffOps(a, b))) = b
  <1> DEFINE ops == DiffOps(a, b)
             l == Len(ops)
             Turn(g) == HunkTurn(ops, g)
  <1>1. ops \in Seq(Op(S))
    BY WalkEnd
  <1>2. PICK I, J : EditsTo(a, b, ops, I, J, Len(a) + 1, Len(b) + 1)
    BY WalkEnd
  <1> HIDE DEF ops
  <1>3. Edits(a, b, ops, I, J) /\ I[l + 1] = Len(a) + 1 /\ J[l + 1] = Len(b) + 1 /\ I[1] = 1 /\ J[1] = 1
    BY <1>2 DEF EditsTo, Edits
  <1>4. PICK loop : IsMerge(ops, loop)
    BY <1>1, HunkLoop
  <1>5. /\ loop[0] = [at |-> 1, hunks |-> << >>]
        /\ \A t \in 1 .. l : loop[t] = Turn(loop[t - 1])
        /\ Hunks(ops) = loop[l].hunks
    BY <1>4 DEF IsMerge
  <1>6. l \in Nat
    BY <1>1
  <1> DEFINE At(g, t) == MergeAt(S, a, b, ops, I, J, g, t)
             T == {t \in Nat : t <= l => At(loop[t], t)}
  <1>7. At(loop[0], 0)
    <2> DEFINE acc == [out |-> << >>, at |-> 1]
               none == [t \in {0} |-> acc]
    <2>1. none[0] = acc /\ Len(<< >>) = 0 /\ \A t \in 1 .. Len(<< >>) : FALSE
      OBVIOUS
    <2>2. Folded(a, << >>, acc)
      <3> HIDE DEF none, acc
      <3> QED BY <2>1 DEF Folded, acc
    <2>3. PatchAt(S, a, b, acc, 1, 1)
      <3> DEFINE out == << >>
                 at == 1
      <3>1. /\ out \in Seq(S) /\ at \in Nat \ {0}
            /\ at <= 1 /\ 1 <= Len(a) + 1 /\ 1 <= Len(b) + 1 /\ Len(out) + (1 - at) = 1 - 1
            /\ (\A x \in 1 .. Len(out) : FALSE) /\ (\A x \in at .. 1 - 1 : FALSE)
            /\ acc = [out |-> out, at |-> at]
        OBVIOUS
      <3> HIDE DEF out, at, acc
      <3>2. \E o \in Seq(S), p \in Nat \ {0} :
              /\ acc = [out |-> o, at |-> p]
              /\ p <= 1 /\ 1 <= Len(a) + 1 /\ 1 <= Len(b) + 1 /\ Len(o) + (1 - p) = 1 - 1
              /\ \A x \in 1 .. Len(o) : o[x] = b[x]
              /\ \A x \in p .. 1 - 1 : a[x] = b[Len(o) + (x - p) + 1]
        BY <3>1
      <3> QED BY <3>2 DEF PatchAt
    <2> HIDE DEF acc
    <2>4. 1 \in 1 .. l + 1 /\ << >> \in Seq(Hunk(S)) /\ 1 >= 0 + 1
      BY <1>6
    <2> QED BY <1>3, <1>5, <2>2, <2>3, <2>4 DEF MergeAt
  <1>8. ASSUME NEW t \in Nat, NEW g, At(g, t) PROVE At(Turn(g), t + 1)
    BY <1>1, <1>3, <1>8, MergeStep
  <1> HIDE DEF l, Turn, At
  <1>9. 0 \in T
    BY <1>7
  <1>10. ASSUME NEW t \in Nat, t \in T PROVE t + 1 \in T
    <2> SUFFICES ASSUME t + 1 <= l PROVE At(loop[t + 1], t + 1)
      OBVIOUS
    <2>1. t + 1 \in 1 .. l /\ (t + 1) - 1 = t /\ t <= l
      BY <1>6
    <2>2. loop[t + 1] = Turn(loop[t])
      BY <1>5, <2>1
    <2>3. At(loop[t], t)
      BY <1>10, <2>1
    <2> QED BY <1>8, <2>2, <2>3
  <1> HIDE DEF T
  <1>11. At(loop[l], l)
    <2>1. Nat \subseteq T
      BY <1>9, <1>10, AllNaturals
    <2> QED BY <1>6, <2>1 DEF T
  <1>12. PICK k \in 1 .. l + 1, hs \in Seq(Hunk(S)) :
           /\ loop[l] = [at |-> k, hunks |-> hs]
           /\ k > l \/ k >= l + 1
           /\ \E acc : Folded(a, hs, acc) /\ PatchAt(S, a, b, acc, I[k], J[k])
    BY <1>11 DEF At, MergeAt, l
  <1>13. k = l + 1
    BY <1>6, <1>12
  <1>14. PICK acc : Folded(a, hs, acc) /\ PatchAt(S, a, b, acc, I[k], J[k])
    BY <1>12
  <1>15. PatchAt(S, a, b, acc, Len(a) + 1, Len(b) + 1)
    BY <1>3, <1>13, <1>14 DEF l
  <1>16. acc.out \o SubSeq(a, acc.at, Len(a)) = b
    BY <1>15, PatchEnd
  <1>17. Patched(a, hs) = acc.out \o SubSeq(a, acc.at, Len(a))
    BY <1>14, FoldedPatch
  <1>18. Hunks(ops) = hs
    BY <1>5, <1>12
  <1> QED BY <1>16, <1>17, <1>18 DEF ops

\* schemaTextDiff, for every two texts: applied to the old one the hunks give the
\* new one, and no common subsequence of the two is longer than the lines it keeps.
THEOREM DiffExact ==
  ASSUME NEW S, NEW a \in Seq(S), NEW b \in Seq(S)
  PROVE  /\ Patched(a, Hunks(DiffOps(a, b))) = b
         /\ Unchanged(DiffOps(a, b)) = Max({Len(s) : s \in Sublists(a) \cap Sublists(b)})
  BY DiffPatches, DiffLongest

\* The inputs of the run for a diff.
DiffGiven == given.kind = "diff" => given.old \in Seq(Lines) /\ given.new \in Seq(Lines)

LEMMA DiffStart == RulesInit => DiffGiven
  <1> SUFFICES ASSUME RulesInit, given.kind = "diff" PROVE given.old \in Seq(Lines) /\ given.new \in Seq(Lines)
    BY DEF DiffGiven
  <1>1. \A f, p, t, env : given # Setup(f, p, t, env)
    BY DEF Setup
  <1>2. \A s, n : given # [kind |-> "digest", times |-> s, limit |-> n]
    OBVIOUS
  <1>3. PICK a \in BoundedSeq(Lines, MaxLines), b \in BoundedSeq(Lines, MaxLines) :
          given = [kind |-> "diff", old |-> a, new |-> b]
    BY <1>1, <1>2 DEF RulesInit
  <1>4. given.old = a /\ given.new = b
    BY <1>3
  <1>5. ASSUME NEW s \in BoundedSeq(Lines, MaxLines) PROVE s \in Seq(Lines)
    <2>1. PICK m \in 0 .. MaxLines : s \in [1 .. m -> Lines]
      BY <1>5 DEF BoundedSeq, SeqOf
    <2>2. m \in Nat
      BY <2>1, RulesAssumption
    <2> QED BY ONLY <2>1, <2>2
  <1> QED BY <1>4, <1>5

\* schemaTextDiff: the run's invariant, as a case of DiffExact.
THEOREM RulesDiff == RulesSpec => []DiffIsMinimalPatch
  <1>1. DiffGiven /\ [RulesNext]_<<given, done>> => DiffGiven'
    BY DEF DiffGiven, RulesNext
  <1>2. DiffGiven => DiffIsMinimalPatch
    <2> SUFFICES ASSUME DiffGiven, given.kind = "diff" PROVE DiffIsMinimalPatch
      BY DEF DiffIsMinimalPatch
    <2> DEFINE a == given.old
               b == given.new
    <2>1. a \in Seq(Lines) /\ b \in Seq(Lines)
      BY DEF DiffGiven
    <2> HIDE DEF a, b
    <2>2. /\ Patched(a, Hunks(DiffOps(a, b))) = b
          /\ Unchanged(DiffOps(a, b)) = Max({Len(s) : s \in Sublists(a) \cap Sublists(b)})
      BY <2>1, DiffExact
    <2> QED BY <2>2 DEF DiffIsMinimalPatch, a, b
  <1> QED BY <1>1, <1>2, DiffStart, PTL DEF RulesSpec
===============================================================================
