---------------------------- MODULE ConfirmedWrite ----------------------------
(***************************************************************************)
(* The writes an MCP client must confirm (topics/delete, groups/offsets/   *)
(* reset, topics/records/clear): the policy gate and two-phase skeleton of *)
(* mcp/server.go, the tokens of mcp/confirm.go, the policy gate, the       *)
(* withAdmin call and the audit record of kafkaconn, and the settings that *)
(* give tokens their life time.                                            *)
(*                                                                         *)
(* Every tool call is a process.  A token has the name of the call that    *)
(* was given it.  The hash of the arguments is taken to be injective.      *)
(***************************************************************************)
EXTENDS Integers, Sequences

CONSTANTS Calls,       \* tool calls, and the tokens issued to them
          NoToken,     \* a call without confirmToken
          Conns,       \* connection ids
          Deletes,     \* writes that also need allow_delete
          Duplicates,  \* the deletes that name a topic twice
          Resets,      \* writes that need a writable connection only
          Setters,     \* mcp/settings/set requests
          DefaultTTL,  \* ConfirmTTL
          TTLs,        \* values confirmTtlSecs is set to
          MaxNow,      \* bound: clock ticks
          MaxGen,      \* bound: number of Connect calls
          MaxRestarts  \* bound: number of process restarts

ASSUME ConfirmAssumption ==
  /\ NoToken \notin Calls
  /\ Deletes \cap Resets = {}
  /\ Duplicates \subseteq Deletes
  /\ DefaultTTL \in Nat \ {0}
  /\ TTLs \subseteq Nat \ {0}
  /\ MaxNow \in Nat
  /\ MaxGen \in Nat
  /\ MaxRestarts \in Nat

VARIABLES
  conns,     \* Service.conns: generation (0: absent) and policy
  gen,       \* number of configurations handed to Connect so far
  items,     \* ConfirmStore.items
  ttl,       \* ConfirmStore.ttl
  settings,  \* Server.settings.ConfirmTtlSecs
  disk,      \* confirmTtlSecs in mcp-settings.json, 0 without a file
  setter,    \* where each settings/set stands, and its value
  now,       \* the clock
  restarts,  \* number of restarts so far
  pc,        \* where each call stands
  args,      \* its connection and write
  token,     \* its confirmToken
  entry,     \* the table entry withAdmin works on, until it returns
  written,   \* the cluster has applied the write
  audit,     \* results audited for the call
  preview,   \* history: what the call's token was issued for, and its expiry
  granted,   \* history: when Consume accepted the call
  gatedGen   \* history, as long: the generation the service's gate looked at

connVars  == <<conns, gen>>
storeVars == <<items, ttl, settings, disk, setter>>
callVars  == <<pc, args, token, entry, written, audit>>
histVars  == <<preview, granted, gatedGen>>
vars      == <<connVars, storeVars, now, restarts, callVars, histVars>>

Writes  == Deletes \cup Resets
Args    == [conn: Conns, write: Writes]
Profile == [gen: Nat, policy: {"read_only", "no_delete", "full"}]
Item    == [args: Args, expiresAt: Nat]
NoItem  == [args |-> NoToken, expiresAt |-> 0]
NoSet   == [at |-> "idle", value |-> 0]
Final   == {"denied", "previewed", "refused", "blocked", "done", "failed", "lost"}
PCs     == {"idle", "gate", "confirm", "execute", "admin", "running"} \cup Final

\* profileOf: an unknown connection counts as read-only.
Absent  == [gen |-> 0, policy |-> "read_only"]

\* ensureWriteAllowed and ensureDeleteAllowed, on either side.  On a read-only
\* connection allow_delete has no effect, so three policies stand for all.
Allows(profile, w) == /\ profile.policy # "read_only"
                      /\ w \in Deletes => profile.policy = "full"

Init ==
  /\ conns = [c \in Conns |-> Absent]
  /\ gen = 0
  /\ items = [t \in Calls |-> NoItem]
  /\ ttl = DefaultTTL
  /\ settings = DefaultTTL
  /\ disk = 0
  /\ setter = [u \in Setters |-> NoSet]
  /\ now = 0
  /\ restarts = 0
  /\ pc = [k \in Calls |-> "idle"]
  /\ args \in [Calls -> Args]
  /\ token = [k \in Calls |-> NoToken]
  /\ entry = [k \in Calls |-> Absent]
  /\ written = [k \in Calls |-> FALSE]
  /\ audit = [k \in Calls |-> <<>>]
  /\ preview = [t \in Calls |-> NoItem]
  /\ granted = [k \in Calls |-> 0]
  /\ gatedGen = [k \in Calls |-> 0]

Goto(k, label) == pc' = [pc EXCEPT ![k] = label]
Record(k, result) == audit' = [audit EXCEPT ![k] = Append(@, result)]

-----------------------------------------------------------------------------
\* mcp/server.go: the tool and twoPhase.

\* A call arrives, with a token some earlier call was given or without one.
Begin(k, t) ==
  /\ pc[k] = "idle"
  /\ t \in {NoToken} \cup {m \in Calls : pc[m] = "previewed"}
  /\ token' = [token EXCEPT ![k] = t]
  /\ Goto(k, "gate")
  /\ UNCHANGED <<connVars, storeVars, now, restarts, args, entry, written, audit, histVars>>

\* The tool's own policy gate; a refusal is only returned to the caller.
Gate(k) ==
  /\ pc[k] = "gate"
  /\ Goto(k, IF Allows(conns[args[k].conn], args[k].write) THEN "confirm" ELSE "denied")
  /\ UNCHANGED <<connVars, storeVars, now, restarts, args, token, entry, written, audit, histVars>>

\* First phase: expired tokens are pruned and a new one is issued.
Issue(k) ==
  LET item == [args |-> args[k], expiresAt |-> now + ttl]
  IN /\ pc[k] = "confirm"
     /\ token[k] = NoToken
     /\ items' = [t \in Calls |-> IF t = k THEN item
                                  ELSE IF now >= items[t].expiresAt THEN NoItem
                                  ELSE items[t]]
     /\ preview' = [preview EXCEPT ![k] = item]
     /\ Goto(k, "previewed")
     /\ UNCHANGED <<connVars, ttl, settings, disk, setter, now, restarts,
                    args, token, entry, written, audit, granted, gatedGen>>

Known(t)    == items[t] # NoItem
\* Mutant: the arguments are not compared.
AcceptsAnyArgs(k) == Known(token[k]) /\ now < items[token[k]].expiresAt

\* Consume's checks: known, not expired, same arguments.
Accepts(k) ==
  /\ Known(token[k])
  /\ now < items[token[k]].expiresAt
  /\ items[token[k]].args = args[k]

\* Mutant: only an accepted token is removed, and after the write.
ConsumeKeeping(k) ==
  /\ pc[k] = "confirm"
  /\ token[k] # NoToken
  /\ Goto(k, IF Accepts(k) THEN "execute" ELSE "refused")
  /\ granted' = IF Accepts(k) THEN [granted EXCEPT ![k] = now] ELSE granted
  /\ UNCHANGED <<connVars, storeVars, now, restarts,
                 args, token, entry, written, audit, preview, gatedGen>>

\* Second phase: the token is removed whatever the outcome.
Consume(k) ==
  /\ pc[k] = "confirm"
  /\ token[k] # NoToken
  /\ items' = [items EXCEPT ![token[k]] = NoItem]
  /\ Goto(k, IF Accepts(k) THEN "execute" ELSE "refused")
  /\ granted' = IF Accepts(k) THEN [granted EXCEPT ![k] = now] ELSE granted
  /\ UNCHANGED <<connVars, ttl, settings, disk, setter, now, restarts,
                 args, token, entry, written, audit, preview, gatedGen>>

-----------------------------------------------------------------------------
\* kafkaconn: DeleteTopics, ResetGroupOffsets, ClearTopicRecords.

\* Mutant: the service relies on the tool's gate.
ServiceGateOpen(k) ==
  /\ pc[k] = "execute"
  /\ gatedGen' = [gatedGen EXCEPT ![k] = conns[args[k].conn].gen]
  /\ Goto(k, "admin")
  /\ UNCHANGED <<connVars, storeVars, now, restarts, args, token, entry, written,
                 audit, preview, granted>>

\* The service's gates: the policy, on the profile of the moment, and the guard
\* that every topic to delete is confirmed by name (ensureTopicDeleteConfirm),
\* which counts the names the tool passed against the distinct topics.
Passes(k) == /\ Allows(conns[args[k].conn], args[k].write)
             /\ args[k].write \notin Duplicates

ServiceGate(k) ==
  /\ pc[k] = "execute"
  /\ \/ /\ Passes(k)
        /\ gatedGen' = [gatedGen EXCEPT ![k] = conns[args[k].conn].gen]
        /\ Goto(k, "admin")
        /\ UNCHANGED audit
     \/ ~Passes(k) /\ Goto(k, "blocked") /\ Record(k, "blocked") /\ UNCHANGED gatedGen
  /\ UNCHANGED <<connVars, storeVars, now, restarts, args, token, entry, written,
                 preview, granted>>

\* withAdmin looks the connection up again and takes its client.
Admin(k) ==
  /\ pc[k] = "admin"
  /\ conns[args[k].conn] # Absent
  /\ entry' = [entry EXCEPT ![k] = conns[args[k].conn]]
  /\ Goto(k, "running")
  /\ UNCHANGED <<connVars, storeVars, now, restarts, args, token, written, audit, histVars>>

\* withAdmin returns, with an error or without.
AdminReturns(k) ==
  /\ entry' = [entry EXCEPT ![k] = Absent]
  /\ gatedGen' = [gatedGen EXCEPT ![k] = 0]

\* Not connected any more, or no client.
AdminFails(k) ==
  /\ pc[k] = "admin"
  /\ Goto(k, "failed")
  /\ Record(k, "error")
  /\ AdminReturns(k)
  /\ UNCHANGED <<connVars, storeVars, now, restarts, args, token, written,
                 preview, granted>>

\* The cluster applies the write, or part of it; the answer is still to come.  A
\* write it applies after the call has given up is taken to come just before:
\* nothing here tells the two apart.
Apply(k) ==
  /\ pc[k] = "running"
  /\ ~written[k]
  /\ written' = [written EXCEPT ![k] = TRUE]
  /\ UNCHANGED <<connVars, storeVars, now, restarts, pc, args, token, entry, audit, histVars>>

\* The call returns without an error.  A delete does so also when the cluster
\* refuses the topic or the partition: the refusal is a row of the result.
Succeed(k) ==
  /\ pc[k] = "running"
  /\ written[k] \/ args[k].write \in Deletes
  /\ Goto(k, "done")
  /\ Record(k, "success")
  /\ AdminReturns(k)
  /\ UNCHANGED <<connVars, storeVars, now, restarts, args, token, written,
                 preview, granted>>

\* Mutant: an error of the admin call is returned without an audit record.
FailUnaudited(k) ==
  /\ pc[k] = "running"
  /\ Goto(k, "failed")
  /\ AdminReturns(k)
  /\ UNCHANGED <<connVars, storeVars, now, restarts, args, token, written, audit,
                 preview, granted>>

\* Refused by the cluster, or a lost or late answer: the write may have been
\* applied all the same.
Fail(k) ==
  /\ pc[k] = "running"
  /\ Goto(k, "failed")
  /\ Record(k, "error")
  /\ AdminReturns(k)
  /\ UNCHANGED <<connVars, storeVars, now, restarts, args, token, written,
                 preview, granted>>

-----------------------------------------------------------------------------
\* The surroundings: the connection table, settings, time and restarts.

Connect(c, policy) ==
  /\ gen < MaxGen
  /\ gen' = gen + 1
  /\ conns' = [conns EXCEPT ![c] = [gen |-> gen + 1, policy |-> policy]]
  /\ UNCHANGED <<storeVars, now, restarts, callVars, histVars>>

Disconnect(c) ==
  /\ conns[c] # Absent
  /\ conns' = [conns EXCEPT ![c] = Absent]
  /\ UNCHANGED <<gen, storeVars, now, restarts, callVars, histVars>>

\* SettingsSet, under the server's lock ...
SettingsChange(u, v) ==
  /\ setter[u].at = "idle"
  /\ settings' = v
  /\ setter' = [setter EXCEPT ![u] = [at |-> "apply", value |-> v]]
  /\ UNCHANGED <<connVars, items, ttl, disk, now, restarts, callVars, histVars>>

\* ... then SetTTL of the running store ...
SettingsApply(u) ==
  /\ setter[u].at = "apply"
  /\ ttl' = setter[u].value
  /\ setter' = [setter EXCEPT ![u].at = "save"]
  /\ UNCHANGED <<connVars, items, settings, disk, now, restarts, callVars, histVars>>

\* ... then SaveSettings, which may fail.
SettingsSave(u) ==
  /\ setter[u].at = "save"
  /\ disk' \in {disk, setter[u].value}
  /\ setter' = [setter EXCEPT ![u] = NoSet]
  /\ UNCHANGED <<connVars, items, ttl, settings, now, restarts, callVars, histVars>>

\* The process ends and NewServer starts afresh: LoadSettings reads the file,
\* NewConfirmStore has its default life time, calls under way are lost.
Restart ==
  /\ restarts < MaxRestarts
  /\ restarts' = restarts + 1
  /\ conns' = [c \in Conns |-> Absent]
  /\ items' = [t \in Calls |-> NoItem]
  /\ ttl' = DefaultTTL
  /\ settings' = IF disk # 0 THEN disk ELSE DefaultTTL
  /\ setter' = [u \in Setters |-> NoSet]
  /\ pc' = [k \in Calls |-> IF pc[k] \in Final \cup {"idle"} THEN pc[k] ELSE "lost"]
  /\ entry' = [k \in Calls |-> Absent]
  /\ gatedGen' = [k \in Calls |-> 0]
  /\ UNCHANGED <<gen, disk, now, args, token, written, audit, preview, granted>>

Tick ==
  /\ now < MaxNow
  /\ now' = now + 1
  /\ UNCHANGED <<connVars, storeVars, restarts, callVars, histVars>>

-----------------------------------------------------------------------------
Next ==
  \/ \E k \in Calls :
       \/ \E t \in Calls \cup {NoToken} : Begin(k, t)
       \/ Gate(k) \/ Issue(k) \/ Consume(k) \/ ServiceGate(k)
       \/ Admin(k) \/ AdminFails(k) \/ Apply(k) \/ Succeed(k) \/ Fail(k)
  \/ \E c \in Conns : \/ \E policy \in {"read_only", "no_delete", "full"} : Connect(c, policy)
                      \/ Disconnect(c)
  \/ \E u \in Setters : \/ \E v \in TTLs : SettingsChange(u, v)
                        \/ SettingsApply(u) \/ SettingsSave(u)
  \/ Restart
  \/ Tick

Spec == Init /\ [][Next]_vars

-----------------------------------------------------------------------------
\* Types of all variables (confirm.go's entries, the Profile's policy fields).
TypeOK ==
  /\ conns \in [Conns -> Profile]
  /\ gen \in Nat
  /\ items \in [Calls -> Item \cup {NoItem}]
  /\ ttl \in Nat
  /\ settings \in Nat
  /\ disk \in Nat
  /\ setter \in [Setters -> [at: {"idle", "apply", "save"}, value: Nat]]
  /\ now \in Nat
  /\ restarts \in Nat
  /\ pc \in [Calls -> PCs]
  /\ args \in [Calls -> Args]
  /\ token \in [Calls -> Calls \cup {NoToken}]
  /\ entry \in [Calls -> Profile]
  /\ written \in [Calls -> BOOLEAN]
  /\ audit \in [Calls -> Seq({"blocked", "error", "success"})]
  /\ preview \in [Calls -> Item \cup {NoItem}]
  /\ granted \in [Calls -> Nat]
  /\ gatedGen \in [Calls -> Nat]

\* The call got past Consume.
Confirmed(k) == pc[k] \in {"execute", "admin", "running", "blocked", "done", "failed"}
                \/ written[k]

\* One token confirms one call, however often and however concurrently it is
\* presented, and across restarts.
OneWritePerToken ==
  \A k, m \in Calls : Confirmed(k) /\ Confirmed(m) /\ token[k] = token[m] => k = m

\* What is executed is what was previewed, and the confirmation came within the
\* life time promised when the token was issued, whatever settings have changed
\* since.
ConfirmsThePreview ==
  \A k \in Calls : Confirmed(k) =>
    /\ token[k] # NoToken
    /\ preview[token[k]].args = args[k]
    /\ granted[k] < preview[token[k]].expiresAt

\* A write reaches a connection whose policy forbids it only if the connection was
\* replaced after the service's gate had looked at it.
ForbiddenOnlyAfterReconnect ==
  \A k \in Calls :
    pc[k] = "running" /\ ~Allows(entry[k], args[k].write) => entry[k].gen > gatedGen[k]

\* Every confirmed call that has returned left exactly one audit record, also when
\* the cluster's answer was lost, and a write without one can only come from a
\* call that a restart cut short.
EveryOutcomeAudited ==
  \A k \in Calls :
    /\ pc[k] \in {"blocked", "failed", "done"} => Len(audit[k]) = 1
    /\ written[k] /\ audit[k] = <<>> => pc[k] \in {"running", "lost"}

=============================================================================
