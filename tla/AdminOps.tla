------------------------------- MODULE AdminOps -------------------------------
(***************************************************************************)
(* The workbench's management calls (topics.go, groups.go, acls.go), the   *)
(* shared admin client they use under the lock of a connection's entry     *)
(* (client.go), its replacement by Connect and Disconnect (service.go),    *)
(* and the presets with the JSON file they are kept in (service.go,        *)
(* store.go).                                                              *)
(*                                                                         *)
(* One connection id.  Entries are numbered in the order Connect made      *)
(* them; a call keeps the entry it looked up although the table has moved  *)
(* on.  The calls work on the partitions of one topic and on one group.    *)
(***************************************************************************)
EXTENDS Integers, Sequences, FiniteSets

CONSTANTS Calls,
          Parts,      \* partitions
          PresetIds,
          Policies,   \* policies a connection can have
          MaxEntries, \* bound: calls of Connect
          MaxEnd      \* bound: records per partition

ASSUME AdminAssumption ==
  /\ IsFiniteSet(Calls) /\ IsFiniteSet(Parts) /\ IsFiniteSet(PresetIds)
  /\ Policies \subseteq {"read_only", "write", "delete"}
  /\ MaxEntries \in Nat \ {0} /\ MaxEnd \in Nat

None    == "none"
Partial == {"partial"}  \* the content of a file that is being written
ASSUME PresetAssumption == "partial" \notin PresetIds /\ "first" \notin Calls /\ None \notin Calls

Entries == 1 .. MaxEntries

\* "read" and "write" are the calls of one request: topics/list, describe and
\* config/get; topics/create and config/alter, acls/create.  "delete" stands for
\* topics/delete, groups/delete and acls/delete.
AdminOp == {"read", "write", "delete", "partitions", "reset", "clear", "lag"}
PresetOp == {"save", "remove"}
NeedsWrite  == {"write", "partitions", "reset"}
NeedsDelete == {"delete", "clear"}

VARIABLES
  table,     \* Service.conns: the current entry, 0 without a connection
  made,      \* entries made so far
  policy,    \* policy[e]: "read_only", "write" or "delete"
  client,    \* client[e]: the entry has an open admin client
  status,    \* status[e]
  lock,      \* lock[e]: the call that holds entry.mu
  toClose,   \* entries taken out of the table that Connect or Disconnect still has to close
  late,      \* late[e]: history: a client was built after the entry was closed
  pc,
  op,        \* op[c]
  entry,     \* entry[c]: the entry withAdmin looked up
  todo,      \* todo[c]: requests of a partition update still to be sent
  goal,      \* goal[c]: offsets listed for a reset or a clear, committed ones for a lag
  backlog,   \* backlog[c]: history: backlog when the committed offsets were read
  lag,       \* lag[c]: the lag answered
  rowError,  \* rowError[c]: partitions whose row of a lag has an error
  unlisted,  \* unlisted[c]: history: partitions without an entry in the list of ends
  audit,     \* audit[c]: audit records
  start, end, committed, \* the cluster: per partition
  file, tmp, \* presets.json and presets.json.tmp: the inode a name stands for
  content,   \* content[i]: content of an inode
  doc,       \* doc[c]: the list a preset call has loaded, then the one it saves
  fd,        \* fd[c]: the inode it has open
  preset,    \* preset[c]: its preset
  expected,  \* history: the presets after every answered change, in their order
  crossed,   \* history: two preset calls overlapped
  phase      \* "running" or "exited"

connVars   == <<table, made, policy, client, status, lock, toClose, late>>
lagVars    == <<backlog, lag, rowError, unlisted>>
callVars   == <<op, entry, todo, goal, lagVars, audit>>
cluster    == <<start, end, committed>>
presetVars == <<file, tmp, content, doc, fd, preset, expected, crossed>>
vars == <<connVars, pc, callVars, cluster, presetVars, phase>>

PCs == {"idle", "lookup", "lock", "request", "second", "open", "write", "rename", "remove", "done"}
NoOffsets == [p \in Parts |-> -1]

Init ==
  /\ table = 0 /\ made = 0
  /\ policy = [e \in Entries |-> "read_only"]
  /\ client = [e \in Entries |-> FALSE]
  /\ status = [e \in Entries |-> "idle"]
  /\ lock = [e \in Entries |-> None]
  /\ toClose = {}
  /\ late = [e \in Entries |-> FALSE]
  /\ pc = [c \in Calls |-> "idle"]
  /\ op = [c \in Calls |-> None]
  /\ entry = [c \in Calls |-> 0]
  /\ todo = [c \in Calls |-> 0]
  /\ goal = [c \in Calls |-> NoOffsets]
  /\ backlog = [c \in Calls |-> NoOffsets]
  /\ lag = [c \in Calls |-> NoOffsets]
  /\ rowError = [c \in Calls |-> {}] /\ unlisted = [c \in Calls |-> {}]
  /\ audit = [c \in Calls |-> << >>]
  /\ start = [p \in Parts |-> 0] /\ end = [p \in Parts |-> 0] /\ committed = NoOffsets
  /\ file = "first" /\ tmp = None
  /\ content = [i \in Calls \cup {"first"} |-> {}]
  /\ doc = [c \in Calls |-> {}]
  /\ fd = [c \in Calls |-> None]
  /\ preset = [c \in Calls |-> None]
  /\ expected = {} /\ crossed = FALSE
  /\ phase = "running"

-----------------------------------------------------------------------------
\* The connection table.

closeLocked(e) ==
  /\ client' = [client EXCEPT ![e] = FALSE]
  /\ status' = [status EXCEPT ![e] = "closed"]

\* Mutant: the replaced entry is dropped as it is.
ConnectDropping ==
  /\ made < MaxEntries
  /\ made' = made + 1
  /\ table' = made + 1
  /\ \E p \in Policies : policy' = [policy EXCEPT ![made + 1] = p]
  /\ UNCHANGED <<client, status, lock, toClose, late, pc, callVars, cluster, presetVars, phase>>

\* Connect and Disconnect take the old entry out of the table and close it when
\* they get its lock.
Connect ==
  /\ made < MaxEntries
  /\ made' = made + 1
  /\ table' = made + 1
  /\ \E p \in Policies : policy' = [policy EXCEPT ![made + 1] = p]
  /\ toClose' = IF table = 0 THEN toClose ELSE toClose \cup {table}
  /\ UNCHANGED <<client, status, lock, late, pc, callVars, cluster, presetVars, phase>>

Disconnect ==
  /\ table # 0
  /\ table' = 0
  /\ toClose' = toClose \cup {table}
  /\ UNCHANGED <<made, policy, client, status, lock, late, pc, callVars, cluster, presetVars, phase>>

CloseOld(e) ==
  /\ e \in toClose /\ lock[e] = None
  /\ closeLocked(e)
  /\ toClose' = toClose \ {e}
  /\ UNCHANGED <<table, made, policy, lock, late, pc, callVars, cluster, presetVars, phase>>

\* CloseAll, when every request has been answered.
CloseAll ==
  /\ phase = "running"
  /\ \A c \in Calls : pc[c] = "done"
  /\ toClose = {}
  /\ IF table = 0 THEN UNCHANGED <<client, status>> ELSE closeLocked(table)
  /\ table' = 0
  /\ phase' = "exited"
  /\ UNCHANGED <<made, policy, lock, toClose, late, pc, callVars, cluster, presetVars>>

-----------------------------------------------------------------------------
\* A management call.

Goto(c, label) == pc' = [pc EXCEPT ![c] = label]
Audit(c, r) == audit' = IF op[c] \in {"read", "lag"} THEN audit ELSE [audit EXCEPT ![c] = Append(@, r)]

\* profileOf counts a missing connection as read-only.
Policy == IF table = 0 THEN "read_only" ELSE policy[table]

\* ensureWriteAllowed and ensureDeleteAllowed.
Allowed(o) == (o \in NeedsWrite => Policy \in {"write", "delete"}) /\ (o \in NeedsDelete => Policy = "delete")

\* The gate, and the parameters, whose errors are not audited: the group of a
\* delete or a reset is looked at before the gate, the rest after it.  A delete
\* that is not confirmed counts as blocked.
Gate(c) ==
  /\ pc[c] = "idle"
  /\ \E o \in AdminOp :
       /\ op' = [op EXCEPT ![c] = o]
       /\ \/ Allowed(o) /\ Goto(c, "lookup") /\ UNCHANGED audit
          \/ (Allowed(o) \/ o \in {"delete", "reset"}) /\ Goto(c, "done") /\ UNCHANGED audit
          \/ /\ ~Allowed(o) \/ o \in NeedsDelete
             /\ Goto(c, "done")
             /\ audit' = [audit EXCEPT ![c] = Append(@, "blocked")]
  /\ UNCHANGED <<connVars, entry, todo, goal, lagVars, cluster, presetVars, phase>>

\* withAdmin: look the entry up ...
Lookup(c) ==
  /\ pc[c] = "lookup"
  /\ IF table = 0 THEN Audit(c, "error") /\ Goto(c, "done") ELSE Goto(c, "lock") /\ UNCHANGED audit
  /\ entry' = [entry EXCEPT ![c] = table]  \* 0 ends the call
  /\ UNCHANGED <<connVars, op, todo, goal, lagVars, cluster, presetVars, phase>>

\* ... lock it and take its client, or build one (adminClientLocked) ...
Lock(c) ==
  /\ pc[c] = "lock"
  /\ lock[entry[c]] = None
  /\ lock' = [lock EXCEPT ![entry[c]] = c]
  /\ client' = [client EXCEPT ![entry[c]] = TRUE]
  /\ late' = [late EXCEPT ![entry[c]] = @ \/ (entry[c] # table /\ entry[c] \notin toClose)]
  /\ Goto(c, "request")
  /\ todo' = [todo EXCEPT ![c] = IF op[c] = "partitions" THEN 2 ELSE 1]
  /\ UNCHANGED <<table, made, policy, status, toClose, op, entry, goal, lagVars, audit, cluster, presetVars, phase>>

\* ... which fails for an unreachable ZooKeeper or bad certificates.
LockFails(c) ==
  /\ pc[c] = "lock"
  /\ lock[entry[c]] = None /\ ~client[entry[c]]
  /\ status' = [status EXCEPT ![entry[c]] = "error"]
  /\ Audit(c, "error") /\ Goto(c, "done")
  /\ UNCHANGED <<table, made, policy, client, lock, toClose, late, op, entry, todo, goal, lagVars, cluster, presetVars, phase>>

\* The end of the callback: status, unlock, audit.
Finish(c, r) ==
  /\ status' = [status EXCEPT ![entry[c]] = IF r = "success" THEN "connected" ELSE "error"]
  /\ lock' = [lock EXCEPT ![entry[c]] = None]
  /\ Audit(c, r) /\ Goto(c, "done")
  /\ entry' = [entry EXCEPT ![c] = 0]
  /\ goal' = [goal EXCEPT ![c] = NoOffsets]
  /\ todo' = [todo EXCEPT ![c] = 0]
  /\ UNCHANGED <<table, made, policy, client, toClose, late, op>>

\* Any request may fail; a partition update then leaves its earlier requests
\* applied.
RequestFails(c) ==
  /\ pc[c] \in {"request", "second"}
  /\ Finish(c, "error")
  /\ UNCHANGED <<lagVars, cluster, presetVars, phase>>

\* One request per distinct partition count, or one request in all.
Request(c) ==
  /\ pc[c] = "request" /\ op[c] \in {"read", "write", "delete", "partitions"}
  /\ IF todo[c] > 1 THEN /\ todo' = [todo EXCEPT ![c] = @ - 1]
                         /\ UNCHANGED <<connVars, pc, op, entry, goal, audit>>
     ELSE Finish(c, "success")
  /\ UNCHANGED <<lagVars, cluster, presetVars, phase>>

\* ResetGroupOffsets: list the earliest or latest offsets, the first ones after
\* a time, or take the ones the caller names, then commit them.
ListTargets(c) ==
  /\ pc[c] = "request" /\ op[c] \in {"reset", "clear"}
  /\ \/ op[c] = "reset" /\ \E at \in [Parts -> 0 .. MaxEnd] : goal' = [goal EXCEPT ![c] = at]
     \/ op[c] = "clear" /\ goal' = [goal EXCEPT ![c] = end]
  /\ Goto(c, "second")
  /\ UNCHANGED <<connVars, op, entry, todo, lagVars, audit, cluster, presetVars, phase>>

\* A partition that was refused, or is missing in the answer, fails the call.
offsetResetRows(accepted) == IF accepted = Parts THEN "success" ELSE "error"

CommitTargets(c) ==
  /\ pc[c] = "second" /\ op[c] = "reset"
  /\ \E accepted \in SUBSET Parts :
       /\ committed' = [p \in Parts |-> IF p \in accepted THEN goal[c][p] ELSE committed[p]]
       /\ Finish(c, offsetResetRows(accepted))
  /\ UNCHANGED <<lagVars, start, end, presetVars, phase>>

\* ClearTopicRecords: delete up to the offsets listed; refused partitions are
\* errors of their rows only.
DeleteRecords(c) ==
  /\ pc[c] = "second" /\ op[c] = "clear"
  /\ \E accepted \in SUBSET Parts :
       start' = [p \in Parts |-> IF p \in accepted /\ goal[c][p] > start[p] THEN goal[c][p] ELSE start[p]]
  /\ Finish(c, "success")
  /\ UNCHANGED <<lagVars, end, committed, presetVars, phase>>

\* Without a committed offset everything counts.
groupLag(e, at) == IF at < 0 THEN e ELSE IF e <= at THEN 0 ELSE e - at

\* GetGroupOffsets: committed offsets, then start and end offsets.  A partition
\* without a committed offset, or with an error instead of one, counts as not
\* consumed at all.
FetchOffsets(c) ==
  /\ pc[c] = "request" /\ op[c] = "lag"
  /\ \E failed \in SUBSET Parts :
       /\ goal' = [goal EXCEPT ![c] = [p \in Parts |-> IF p \in failed THEN -1 ELSE committed[p]]]
       /\ rowError' = [rowError EXCEPT ![c] = failed]
  /\ backlog' = [backlog EXCEPT ![c] = [p \in Parts |-> groupLag(end[p], committed[p])]]
  /\ Goto(c, "second")
  /\ UNCHANGED <<connVars, op, entry, todo, lag, unlisted, audit, cluster, presetVars, phase>>

\* Mutant: the log start offsets are taken for the end offsets.
groupOffsetRowsEarly(c, listed) == [p \in Parts |-> groupLag(IF p \in listed THEN start[p] ELSE 0, goal[c][p])]

\* The lag of each row.  The end offset of a partition that came with an error,
\* or did not come, is 0.
groupOffsetRows(c, listed) == [p \in Parts |-> groupLag(IF p \in listed THEN end[p] ELSE 0, goal[c][p])]

\* Partitions whose end offset came, and among the others those for which an
\* error came instead.  An error of a start offset marks the row as well.
ListEnds(c) ==
  /\ pc[c] = "second" /\ op[c] = "lag"
  /\ \E listed, failed, noStart \in SUBSET Parts :
       /\ listed \cap failed = {}
       /\ lag' = [lag EXCEPT ![c] = groupOffsetRows(c, listed)]
       /\ rowError' = [rowError EXCEPT ![c] = @ \cup failed \cup noStart]
       /\ unlisted' = [unlisted EXCEPT ![c] = Parts \ (listed \cup failed)]
  /\ Finish(c, "success")
  /\ UNCHANGED <<backlog, cluster, presetVars, phase>>

\* Producers append and consumers commit meanwhile.
Produced(p) ==
  /\ end[p] < MaxEnd
  /\ end' = [end EXCEPT ![p] = @ + 1]
  /\ UNCHANGED <<connVars, pc, callVars, start, committed, presetVars, phase>>

Consumed(p) ==
  /\ committed[p] < end[p]
  /\ committed' = [committed EXCEPT ![p] = end[p]]
  /\ UNCHANGED <<connVars, pc, callVars, start, end, presetVars, phase>>

-----------------------------------------------------------------------------
\* SavePreset and RemovePreset: load, change, save.

Saving == {c \in Calls : pc[c] \in {"open", "write", "rename", "remove"}}

\* LoadPresets; a file that cannot be parsed fails the call.
LoadPresets(c) ==
  /\ pc[c] = "idle"
  /\ \E o \in PresetOp, i \in PresetIds :
       /\ op' = [op EXCEPT ![c] = o]
       /\ LET list == content[file]
              bad  == list = Partial \/ (o = "remove" /\ i \notin list)
          IN /\ doc' = [doc EXCEPT ![c] = IF bad THEN {} ELSE IF o = "save" THEN list \cup {i} ELSE list \ {i}]
             /\ preset' = [preset EXCEPT ![c] = IF bad THEN None ELSE i]
             /\ Goto(c, IF bad THEN "done" ELSE "open")
             /\ crossed' = (crossed \/ (~bad /\ Saving # {}))
  /\ UNCHANGED <<connVars, entry, todo, goal, lagVars, audit, cluster, file, tmp, content, fd, expected, phase>>

\* Mutant: the file is written in place.
OpenInPlace(c) ==
  /\ pc[c] = "open"
  /\ fd' = [fd EXCEPT ![c] = file] /\ tmp' = file
  /\ content' = [content EXCEPT ![file] = Partial]
  /\ Goto(c, "write")
  /\ UNCHANGED <<connVars, callVars, cluster, file, doc, preset, expected, crossed, phase>>

\* SaveJSON: the temporary file is created, or truncated if it is there ...
Open(c) ==
  /\ pc[c] = "open"
  /\ LET i == IF tmp = None THEN c ELSE tmp
     IN /\ fd' = [fd EXCEPT ![c] = i] /\ tmp' = i
        /\ content' = [content EXCEPT ![i] = Partial]
  /\ Goto(c, "write")
  /\ UNCHANGED <<connVars, callVars, cluster, file, doc, preset, expected, crossed, phase>>

\* ... written, over what another call has written there since ...
Write(c) ==
  /\ pc[c] = "write"
  /\ \E result \in {doc[c]} \cup (IF content[fd[c]] = Partial THEN {} ELSE {Partial}) :
       content' = [content EXCEPT ![fd[c]] = result]
  /\ Goto(c, "rename")
  /\ UNCHANGED <<connVars, callVars, cluster, file, tmp, doc, fd, preset, expected, crossed, phase>>

Forget(c) ==
  /\ Goto(c, "done")
  /\ doc' = [doc EXCEPT ![c] = {}] /\ fd' = [fd EXCEPT ![c] = None] /\ preset' = [preset EXCEPT ![c] = None]

\* ... unless it cannot be opened or written, which leaves a part of it behind ...
WriteFails(c) ==
  /\ \/ pc[c] = "open" /\ UNCHANGED content
     \/ pc[c] = "write" /\ content' = [content EXCEPT ![fd[c]] = Partial]
  /\ Forget(c)
  /\ UNCHANGED <<connVars, callVars, cluster, file, tmp, expected, crossed, phase>>

\* ... and renamed ...
Rename(c) ==
  /\ pc[c] = "rename" /\ tmp # None
  /\ file' = tmp /\ tmp' = None
  /\ expected' = IF op[c] = "save" THEN expected \cup {preset[c]} ELSE expected \ {preset[c]}
  /\ Forget(c)
  /\ UNCHANGED <<connVars, callVars, cluster, content, crossed, phase>>

\* ... which fails if another call has renamed it, or for its own reasons; then
\* whatever has the name is removed.
RenameFails(c) ==
  /\ pc[c] = "rename"
  /\ Goto(c, "remove")
  /\ UNCHANGED <<connVars, callVars, cluster, presetVars, phase>>

RemoveTmp(c) ==
  /\ pc[c] = "remove"
  /\ tmp' = None
  /\ Forget(c)
  /\ UNCHANGED <<connVars, callVars, cluster, file, content, expected, crossed, phase>>

-----------------------------------------------------------------------------
AdminStep(c) ==
  \/ Gate(c) \/ Lookup(c) \/ Lock(c) \/ LockFails(c) \/ Request(c) \/ RequestFails(c)
  \/ ListTargets(c) \/ CommitTargets(c) \/ DeleteRecords(c) \/ FetchOffsets(c) \/ ListEnds(c)

PresetStep(c) == LoadPresets(c) \/ Open(c) \/ Write(c) \/ WriteFails(c) \/ Rename(c) \/ RenameFails(c) \/ RemoveTmp(c)

Next ==
  \/ phase = "running" /\ ( \/ \E c \in Calls : AdminStep(c) \/ PresetStep(c)
                            \/ Connect \/ Disconnect \/ (\E e \in Entries : CloseOld(e))
                            \/ CloseAll
                            \/ \E p \in Parts : Produced(p) \/ Consumed(p) )
  \/ phase = "exited" /\ UNCHANGED vars

Spec == Init /\ [][Next]_vars

-----------------------------------------------------------------------------
\* Properties.

\* Types of the variables of connections and calls: what client.go declares of
\* an entry, and the labels of this model.
TypeOK ==
  /\ made \in 0 .. MaxEntries /\ table \in 0 .. made
  /\ toClose \subseteq 1 .. made
  /\ client \in [Entries -> BOOLEAN] /\ late \in [Entries -> BOOLEAN]
  /\ lock \in [Entries -> Calls \cup {None}]
  /\ pc \in [Calls -> PCs]
  /\ entry \in [Calls -> 0 .. made]

\* withAdmin: while a call is in its requests it is the only one on its entry
\* and the entry's client is open, whatever Connect and Disconnect do meanwhile.
ClientOpenInUse ==
  \A c \in Calls : pc[c] \in {"request", "second"} => lock[entry[c]] = c /\ client[entry[c]]

\* closeLocked: a client that is open belongs to the entry in the table or to
\* one that is about to be closed.  The one way to leave a client behind is to
\* build it on an entry that was closed between a call's lookup and its lock.
LeakOnlyIfRaced ==
  \A e \in Entries : client[e] /\ ~late[e] => e = table \/ e \in toClose

\* GetGroupOffsets: the lag answered is at least the backlog there was when the
\* committed offsets were read, although the three lists are read one after the
\* other while others produce, consume, reset and clear.  A row that understates
\* it says so with an error, unless the list of ends left its partition out: such
\* a row has the lag 0 and no error.
LagNotUnderstated ==
  \A c \in Calls, p \in Parts :
    lag[c][p] # -1 /\ lag[c][p] < backlog[c][p] => p \in rowError[c] \cup unlisted[c]

\* SaveJSON: at any moment, so also if the process dies, presets.json is a whole
\* document that has every answered change and nothing else; calls that
\* overlapped are the only exception.
PresetFileExact == ~crossed => content[file] = expected
=============================================================================
