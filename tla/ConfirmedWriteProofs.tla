------------------------- MODULE ConfirmedWriteProofs -------------------------
(***************************************************************************)
(* Proofs about confirmed writes, for any number of tool calls,            *)
(* connections and settings requests and without a bound on time.          *)
(***************************************************************************)
EXTENDS ConfirmedWrite, TLAPS

Ended == {"blocked", "done", "failed"}

\* A call writes between Consume and its end, and is audited when it ends.
Progress ==
  \A k \in Calls :
    /\ written[k] => pc[k] \in {"running", "done", "failed", "lost"}
    /\ IF pc[k] \in Ended THEN Len(audit[k]) = 1 ELSE audit[k] = <<>>

\* A token is presented after it was issued, and is issued once; while it is in
\* the store it is what was previewed; a confirmed call has used its token up.
TokenUse ==
  /\ \A k \in Calls : token[k] # NoToken => pc[token[k]] = "previewed"
  /\ \A t \in Calls : Known(t) => items[t] = preview[t]
  /\ \A k \in Calls : Confirmed(k) => token[k] # NoToken /\ ~Known(token[k])

\* A profile that forbids the write has come after the gate looked.
GateUse ==
  /\ \A c \in Conns : conns[c].gen <= gen
  /\ \A k \in Calls : pc[k] = "admin" =>
       /\ gatedGen[k] <= gen
       /\ conns[args[k].conn] # Absent /\ ~Allows(conns[args[k].conn], args[k].write)
            => conns[args[k].conn].gen > gatedGen[k]

\* Every step keeps the types.
LEMMA ConfirmTypeStep ==
  ASSUME TypeOK, [Next]_vars
  PROVE  TypeOK'
  <1> USE ConfirmAssumption DEF TypeOK, PCs, Final
  <1>1. CASE \E k \in Calls, t \in Calls \cup {NoToken} : Begin(k, t)
    BY <1>1 DEF Begin, Goto, connVars, storeVars, callVars, histVars, Profile, Item, NoItem, NoSet, Absent
  <1>2. CASE \E k \in Calls : Gate(k)
    BY <1>2 DEF Gate, Goto, connVars, storeVars, callVars, histVars, Profile, Item, NoItem, NoSet, Absent
  <1>3. CASE \E k \in Calls : Issue(k)
    BY <1>3 DEF Issue, Goto, connVars, storeVars, callVars, histVars, Profile, Item, NoItem, NoSet, Absent
  <1>4. CASE \E k \in Calls : Consume(k)
    BY <1>4 DEF Consume, Goto, connVars, storeVars, callVars, histVars, Profile, Item, NoItem, NoSet, Absent
  <1>5. CASE \E k \in Calls : ServiceGate(k)
    <2>1. PICK k \in Calls : ServiceGate(k)
      BY <1>5
    <2>2. conns[args[k].conn].gen \in Nat
      BY DEF Args, Profile
    <2>3. CASE Passes(k)
      BY <2>1, <2>2, <2>3 DEF ServiceGate, Goto, connVars, storeVars
    <2>4. CASE ~Passes(k)
      <3>1. Append(audit[k], "blocked") \in Seq({"blocked", "error", "success"})
        BY <2>1
      <3>2. /\ pc' = [pc EXCEPT ![k] = "blocked"] /\ gatedGen' = gatedGen
            /\ audit' = [audit EXCEPT ![k] = Append(audit[k], "blocked")]
        BY <2>1, <2>4 DEF ServiceGate, Record, Goto
      <3>3. pc' \in [Calls -> PCs] /\ gatedGen' \in [Calls -> Nat]
        BY <3>2
      <3>4. audit' \in [Calls -> Seq({"blocked", "error", "success"})]
        BY <3>1, <3>2
      <3> QED BY <2>1, <3>3, <3>4 DEF ServiceGate, connVars, storeVars
    <2> QED BY <2>3, <2>4
  <1>6. CASE \E k \in Calls : Admin(k)
    <2>1. PICK k \in Calls : Admin(k)
      BY <1>6
    <2>2. conns[args[k].conn] \in Profile
      BY DEF Args
    <2>3. entry' \in [Calls -> Profile] /\ pc' \in [Calls -> PCs]
      BY <2>1, <2>2 DEF Admin, Goto
    <2> QED BY <2>1, <2>3 DEF Admin, connVars, storeVars, histVars
  <1>7. CASE \E k \in Calls : AdminFails(k)
    BY <1>7 DEF AdminFails, Goto, Record, AdminReturns, connVars, storeVars, callVars, histVars, Profile, Item, NoItem, NoSet, Absent
  <1>8. CASE \E k \in Calls : Apply(k)
    BY <1>8 DEF Apply, connVars, storeVars, callVars, histVars, Profile, Item, NoItem, NoSet, Absent
  <1>9. CASE \E k \in Calls : Succeed(k)
    BY <1>9 DEF Succeed, Goto, Record, AdminReturns, connVars, storeVars, callVars, histVars, Profile, Item, NoItem, NoSet, Absent
  <1>10. CASE \E k \in Calls : Fail(k)
    BY <1>10 DEF Fail, Goto, Record, AdminReturns, connVars, storeVars, callVars, histVars, Profile, Item, NoItem, NoSet, Absent
  <1>11. CASE \E c \in Conns, policy \in {"read_only", "no_delete", "full"} : Connect(c, policy)
    BY <1>11 DEF Connect, connVars, storeVars, callVars, histVars, Profile, Item, NoItem, NoSet, Absent
  <1>12. CASE \E c \in Conns : Disconnect(c)
    BY <1>12 DEF Disconnect, connVars, storeVars, callVars, histVars, Profile, Item, NoItem, NoSet, Absent
  <1>13. CASE \E u \in Setters : (\E v \in TTLs : SettingsChange(u, v)) \/ SettingsApply(u) \/ SettingsSave(u)
    <2>1. PICK u \in Setters : (\E v \in TTLs : SettingsChange(u, v)) \/ SettingsApply(u) \/ SettingsSave(u)
      BY <1>13
    <2>2. CASE \E v \in TTLs : SettingsChange(u, v)
      <3>1. PICK v \in TTLs : SettingsChange(u, v)
        BY <2>2
      <3>2. v \in Nat \ {0} /\ [at |-> "apply", value |-> v] \in [at: {"idle", "apply", "save"}, value: Nat]
        BY <3>1
      <3> QED BY <3>1, <3>2 DEF SettingsChange, connVars, callVars, histVars
    <2>3. CASE SettingsApply(u)
      <3>1. setter[u].value \in Nat /\ setter' \in [Setters -> [at: {"idle", "apply", "save"}, value: Nat]]
        BY <2>3 DEF SettingsApply
      <3> QED BY <2>3, <3>1 DEF SettingsApply, connVars, callVars, histVars
    <2>4. CASE SettingsSave(u)
      BY <2>4 DEF SettingsSave, NoSet, connVars, callVars, histVars
    <2> QED BY <2>1, <2>2, <2>3, <2>4
  <1>14. CASE Restart
    BY <1>14 DEF Restart, connVars, storeVars, callVars, histVars, Profile, Item, NoItem, NoSet, Absent
  <1>15. CASE Tick \/ UNCHANGED vars
    BY <1>15 DEF Tick, vars, connVars, storeVars, callVars, histVars, Profile, Item, NoItem, NoSet, Absent
  <1> QED BY <1>1, <1>2, <1>3, <1>4, <1>5, <1>6, <1>7, <1>8, <1>9, <1>10, <1>11, <1>12, <1>13, <1>14, <1>15 DEF Next

\* Every step keeps the order of a call's steps and its audit records.
LEMMA ProgressStep ==
  ASSUME TypeOK, Progress, [Next]_vars
  PROVE  Progress'
  <1> USE DEF TypeOK, Progress, Ended, Final
  <1>1. CASE \E k \in Calls, t \in Calls \cup {NoToken} : Begin(k, t)
    BY <1>1 DEF Begin, Goto, connVars, storeVars, callVars, histVars
  <1>2. CASE \E k \in Calls : Gate(k)
    BY <1>2 DEF Gate, Goto, connVars, storeVars, callVars, histVars
  <1>3. CASE \E k \in Calls : Issue(k)
    BY <1>3 DEF Issue, Goto, connVars, storeVars, callVars, histVars
  <1>4. CASE \E k \in Calls : Consume(k)
    BY <1>4 DEF Consume, Goto, connVars, storeVars, callVars, histVars
  <1>5. CASE \E k \in Calls : ServiceGate(k)
    <2>1. PICK k \in Calls : ServiceGate(k)
      BY <1>5
    <2>2. audit[k] = <<>> /\ ~written[k]
      BY <2>1 DEF ServiceGate
    <2>3. Len(Append(<<>>, "blocked")) = 1
      OBVIOUS
    <2>4. \/ pc' = [pc EXCEPT ![k] = "admin"] /\ audit' = audit
          \/ pc' = [pc EXCEPT ![k] = "blocked"] /\ audit' = [audit EXCEPT ![k] = Append(audit[k], "blocked")]
      BY <2>1 DEF ServiceGate, Goto, Record
    <2>5. written' = written
      BY <2>1 DEF ServiceGate
    <2>6. CASE pc' = [pc EXCEPT ![k] = "admin"] /\ audit' = audit
      BY <2>1, <2>2, <2>5, <2>6
    <2>7. CASE pc' = [pc EXCEPT ![k] = "blocked"] /\ audit' = [audit EXCEPT ![k] = Append(audit[k], "blocked")]
      <3>1. audit'[k] = Append(<<>>, "blocked") /\ pc'[k] = "blocked" /\ ~written'[k]
        BY <2>1, <2>2, <2>5, <2>7
      <3>2. \A m \in Calls \ {k} : pc'[m] = pc[m] /\ audit'[m] = audit[m] /\ written'[m] = written[m]
        BY <2>1, <2>5, <2>7
      <3> QED BY <2>3, <3>1, <3>2
    <2> QED BY <2>4, <2>6, <2>7
  <1>6. CASE \E k \in Calls : Admin(k)
    BY <1>6 DEF Admin, Goto, connVars, storeVars, callVars, histVars
  <1>7. CASE \E k \in Calls : AdminFails(k)
    BY <1>7 DEF AdminFails, Goto, Record, AdminReturns, connVars, storeVars, callVars, histVars
  <1>8. CASE \E k \in Calls : Apply(k)
    BY <1>8 DEF Apply, connVars, storeVars, callVars, histVars
  <1>9. CASE \E k \in Calls : Succeed(k)
    BY <1>9 DEF Succeed, Goto, Record, AdminReturns, connVars, storeVars, callVars, histVars
  <1>10. CASE \E k \in Calls : Fail(k)
    BY <1>10 DEF Fail, Goto, Record, AdminReturns, connVars, storeVars, callVars, histVars
  <1>11. CASE \E c \in Conns, policy \in {"read_only", "no_delete", "full"} : Connect(c, policy)
    BY <1>11 DEF Connect, connVars, storeVars, callVars, histVars
  <1>12. CASE \E c \in Conns : Disconnect(c)
    BY <1>12 DEF Disconnect, connVars, storeVars, callVars, histVars
  <1>13. CASE \E u \in Setters : (\E v \in TTLs : SettingsChange(u, v)) \/ SettingsApply(u) \/ SettingsSave(u)
    BY <1>13 DEF SettingsChange, SettingsApply, SettingsSave, connVars, storeVars, callVars, histVars
  <1>14. CASE Restart
    BY <1>14 DEF Restart, connVars, storeVars, callVars, histVars
  <1>15. CASE Tick \/ UNCHANGED vars
    BY <1>15 DEF Tick, vars, connVars, storeVars, callVars, histVars
  <1> QED BY <1>1, <1>2, <1>3, <1>4, <1>5, <1>6, <1>7, <1>8, <1>9, <1>10, <1>11, <1>12, <1>13, <1>14, <1>15 DEF Next

\* The service's gate comes after Consume and confirms nothing itself.
LEMMA GateConfirmed ==
  ASSUME pc \in [Calls -> PCs], NEW k \in Calls, ServiceGate(k)
  PROVE  /\ \A m \in Calls : Confirmed(m)' <=> Confirmed(m)
         /\ \A m \in Calls : pc[m] = "previewed" => pc'[m] = "previewed"
  <1>1. pc[k] = "execute" /\ written' = written
    BY DEF ServiceGate
  <1>2. pc' = [pc EXCEPT ![k] = "admin"] \/ pc' = [pc EXCEPT ![k] = "blocked"]
    BY DEF ServiceGate, Goto
  <1>3. pc'[k] \in {"admin", "blocked"} /\ \A m \in Calls \ {k} : pc'[m] = pc[m]
    BY <1>2
  <1> QED BY <1>1, <1>3 DEF Confirmed

\* Every step keeps the tokens in order.
LEMMA TokenStep ==
  ASSUME TypeOK, TypeOK', Progress, TokenUse, [Next]_vars
  PROVE  TokenUse'
  <1> USE ConfirmAssumption DEF TypeOK, Progress, TokenUse, Known, Confirmed, Final
  <1>1. CASE \E k \in Calls, t \in Calls \cup {NoToken} : Begin(k, t)
    BY <1>1 DEF Begin, Goto, connVars, storeVars, callVars, histVars
  <1>2. CASE \E k \in Calls : Gate(k)
    BY <1>2 DEF Gate, Goto, connVars, storeVars, callVars, histVars
  <1>3. CASE \E k \in Calls : Issue(k)
    BY <1>3 DEF Issue, Goto, connVars, storeVars, callVars, histVars
  <1>4. CASE \E k \in Calls : Consume(k)
    BY <1>4 DEF Consume, Goto, connVars, storeVars, callVars, histVars
  <1>5. CASE \E k \in Calls : ServiceGate(k)
    <2>1. PICK k \in Calls : ServiceGate(k)
      BY <1>5
    <2>2. UNCHANGED <<items, args, token, preview, granted>>
      BY <2>1 DEF ServiceGate, storeVars
    <2>3. /\ \A m \in Calls : Confirmed(m)' <=> Confirmed(m)
          /\ \A m \in Calls : pc[m] = "previewed" => pc'[m] = "previewed"
      BY <2>1, GateConfirmed
    <2> HIDE DEF Confirmed
    <2> QED BY <2>2, <2>3
  <1>6. CASE \E k \in Calls : Admin(k)
    BY <1>6 DEF Admin, Goto, connVars, storeVars, callVars, histVars
  <1>7. CASE \E k \in Calls : AdminFails(k)
    BY <1>7 DEF AdminFails, Goto, Record, AdminReturns, connVars, storeVars, callVars, histVars
  <1>8. CASE \E k \in Calls : Apply(k)
    BY <1>8 DEF Apply, connVars, storeVars, callVars, histVars
  <1>9. CASE \E k \in Calls : Succeed(k)
    BY <1>9 DEF Succeed, Goto, Record, AdminReturns, connVars, storeVars, callVars, histVars
  <1>10. CASE \E k \in Calls : Fail(k)
    BY <1>10 DEF Fail, Goto, Record, AdminReturns, connVars, storeVars, callVars, histVars
  <1>11. CASE \E c \in Conns, policy \in {"read_only", "no_delete", "full"} : Connect(c, policy)
    BY <1>11 DEF Connect, connVars, storeVars, callVars, histVars
  <1>12. CASE \E c \in Conns : Disconnect(c)
    BY <1>12 DEF Disconnect, connVars, storeVars, callVars, histVars
  <1>13. CASE \E u \in Setters : (\E v \in TTLs : SettingsChange(u, v)) \/ SettingsApply(u) \/ SettingsSave(u)
    <2>1. UNCHANGED <<items, callVars, histVars>>
      BY <1>13 DEF SettingsChange, SettingsApply, SettingsSave
    <2> QED BY <2>1 DEF callVars, histVars
  <1>14. CASE Restart
    BY <1>14 DEF Restart, connVars, storeVars, callVars, histVars
  <1>15. CASE Tick \/ UNCHANGED vars
    BY <1>15 DEF Tick, vars, connVars, storeVars, callVars, histVars
  <1> QED BY <1>1, <1>2, <1>3, <1>4, <1>5, <1>6, <1>7, <1>8, <1>9, <1>10, <1>11, <1>12, <1>13, <1>14, <1>15 DEF Next

\* Every step keeps a gate's answer good for the profile it looked at.
LEMMA GateStep ==
  ASSUME TypeOK, GateUse, [Next]_vars
  PROVE  GateUse'
  <1> USE DEF TypeOK, GateUse, Args, Profile
  <1>1. CASE \E k \in Calls, t \in Calls \cup {NoToken} : Begin(k, t)
    BY <1>1 DEF Begin, Goto, Allows, Absent, Final, connVars, storeVars, callVars, histVars
  <1>2. CASE \E k \in Calls : Gate(k)
    BY <1>2 DEF Gate, Goto, Allows, Absent, Final, connVars, storeVars, callVars, histVars
  <1>3. CASE \E k \in Calls : Issue(k)
    BY <1>3 DEF Issue, Goto, Allows, Absent, Final, connVars, storeVars, callVars, histVars
  <1>4. CASE \E k \in Calls : Consume(k)
    BY <1>4 DEF Consume, Goto, Allows, Absent, Final, connVars, storeVars, callVars, histVars
  <1>5. CASE \E k \in Calls : ServiceGate(k)
    <2>1. PICK k \in Calls : ServiceGate(k)
      BY <1>5
    <2>2. pc' = [pc EXCEPT ![k] = "admin"] \/ pc' = [pc EXCEPT ![k] = "blocked"]
      BY <2>1 DEF ServiceGate, Goto
    <2>3. UNCHANGED <<conns, gen, args>>
      BY <2>1 DEF ServiceGate, connVars
    <2>4. \A m \in Calls \ {k} : pc'[m] = pc[m] /\ gatedGen'[m] = gatedGen[m]
      BY <2>1, <2>2 DEF ServiceGate
    <2>5. pc'[k] = "admin" => /\ Allows(conns[args[k].conn], args[k].write)
                              /\ gatedGen'[k] = conns[args[k].conn].gen
      BY <2>1 DEF ServiceGate, Passes, Goto
    <2>6. args[k].conn \in Conns /\ conns[args[k].conn].gen <= gen
      BY <2>1
    <2> QED BY <2>1, <2>3, <2>4, <2>5, <2>6 DEF Allows
  <1>6. CASE \E k \in Calls : Admin(k)
    BY <1>6 DEF Admin, Goto, Allows, Absent, Final, connVars, storeVars, callVars, histVars
  <1>7. CASE \E k \in Calls : AdminFails(k)
    BY <1>7 DEF AdminFails, Goto, Record, AdminReturns, Allows, Absent, Final, connVars, storeVars, callVars, histVars
  <1>8. CASE \E k \in Calls : Apply(k)
    BY <1>8 DEF Apply, Allows, Absent, Final, connVars, storeVars, callVars, histVars
  <1>9. CASE \E k \in Calls : Succeed(k)
    BY <1>9 DEF Succeed, Goto, Record, AdminReturns, Allows, Absent, Final, connVars, storeVars, callVars, histVars
  <1>10. CASE \E k \in Calls : Fail(k)
    BY <1>10 DEF Fail, Goto, Record, AdminReturns, Allows, Absent, Final, connVars, storeVars, callVars, histVars
  <1>11. CASE \E c \in Conns, policy \in {"read_only", "no_delete", "full"} : Connect(c, policy)
    BY <1>11 DEF Connect, Allows, Absent, Final, connVars, storeVars, callVars, histVars
  <1>12. CASE \E c \in Conns : Disconnect(c)
    BY <1>12 DEF Disconnect, Allows, Absent, Final, connVars, storeVars, callVars, histVars
  <1>13. CASE \E u \in Setters : (\E v \in TTLs : SettingsChange(u, v)) \/ SettingsApply(u) \/ SettingsSave(u)
    BY <1>13 DEF SettingsChange, SettingsApply, SettingsSave, Allows, Absent, Final, connVars, storeVars, callVars, histVars
  <1>14. CASE Restart
    BY <1>14 DEF Restart, Allows, Absent, Final, connVars, storeVars, callVars, histVars
  <1>15. CASE Tick \/ UNCHANGED vars
    BY <1>15 DEF Tick, vars, Allows, Absent, Final, connVars, storeVars, callVars, histVars
  <1> QED BY <1>1, <1>2, <1>3, <1>4, <1>5, <1>6, <1>7, <1>8, <1>9, <1>10, <1>11, <1>12, <1>13, <1>14, <1>15 DEF Next

\* No step confirms a second call with a token.
LEMMA OneWriteStep ==
  ASSUME TypeOK, Progress, TokenUse, OneWritePerToken, [Next]_vars
  PROVE  OneWritePerToken'
  <1> USE DEF TypeOK, Progress, TokenUse, OneWritePerToken, Known, Confirmed, Final
  <1>1. CASE \E k \in Calls, t \in Calls \cup {NoToken} : Begin(k, t)
    BY <1>1 DEF Begin, Goto, connVars, storeVars, callVars, histVars
  <1>2. CASE \E k \in Calls : Gate(k)
    BY <1>2 DEF Gate, Goto, connVars, storeVars, callVars, histVars
  <1>3. CASE \E k \in Calls : Issue(k)
    BY <1>3 DEF Issue, Goto, connVars, storeVars, callVars, histVars
  <1>4. CASE \E k \in Calls : Consume(k)
    <2>1. PICK k \in Calls : Consume(k)
      BY <1>4
    <2>2. \A m \in Calls \ {k} : Confirmed(m)' <=> Confirmed(m)
      BY <2>1 DEF Consume, Goto
    <2>3. Confirmed(k)' => Accepts(k)
      BY <2>1 DEF Consume, Goto
    <2>4. Accepts(k) => \A m \in Calls : Confirmed(m) => token[m] # token[k]
      BY <2>1 DEF Consume, Accepts
    <2>5. token' = token
      BY <2>1 DEF Consume
    <2> HIDE DEF Confirmed
    <2> QED BY <2>1, <2>2, <2>3, <2>4, <2>5
  <1>5. CASE \E k \in Calls : ServiceGate(k)
    <2>1. PICK k \in Calls : ServiceGate(k)
      BY <1>5
    <2>2. UNCHANGED <<items, args, token, preview, granted>>
      BY <2>1 DEF ServiceGate, storeVars
    <2>3. /\ \A m \in Calls : Confirmed(m)' <=> Confirmed(m)
          /\ \A m \in Calls : pc[m] = "previewed" => pc'[m] = "previewed"
      BY <2>1, GateConfirmed
    <2> HIDE DEF Confirmed
    <2> QED BY <2>2, <2>3
  <1>6. CASE \E k \in Calls : Admin(k)
    BY <1>6 DEF Admin, Goto, connVars, storeVars, callVars, histVars
  <1>7. CASE \E k \in Calls : AdminFails(k)
    BY <1>7 DEF AdminFails, Goto, Record, AdminReturns, connVars, storeVars, callVars, histVars
  <1>8. CASE \E k \in Calls : Apply(k)
    BY <1>8 DEF Apply, connVars, storeVars, callVars, histVars
  <1>9. CASE \E k \in Calls : Succeed(k)
    BY <1>9 DEF Succeed, Goto, Record, AdminReturns, connVars, storeVars, callVars, histVars
  <1>10. CASE \E k \in Calls : Fail(k)
    BY <1>10 DEF Fail, Goto, Record, AdminReturns, connVars, storeVars, callVars, histVars
  <1>11. CASE \E c \in Conns, policy \in {"read_only", "no_delete", "full"} : Connect(c, policy)
    BY <1>11 DEF Connect, connVars, storeVars, callVars, histVars
  <1>12. CASE \E c \in Conns : Disconnect(c)
    BY <1>12 DEF Disconnect, connVars, storeVars, callVars, histVars
  <1>13. CASE \E u \in Setters : (\E v \in TTLs : SettingsChange(u, v)) \/ SettingsApply(u) \/ SettingsSave(u)
    <2>1. UNCHANGED <<items, callVars, histVars>>
      BY <1>13 DEF SettingsChange, SettingsApply, SettingsSave
    <2> QED BY <2>1 DEF callVars, histVars
  <1>14. CASE Restart
    BY <1>14 DEF Restart, connVars, storeVars, callVars, histVars
  <1>15. CASE Tick \/ UNCHANGED vars
    BY <1>15 DEF Tick, vars, connVars, storeVars, callVars, histVars
  <1> QED BY <1>1, <1>2, <1>3, <1>4, <1>5, <1>6, <1>7, <1>8, <1>9, <1>10, <1>11, <1>12, <1>13, <1>14, <1>15 DEF Next

\* No step confirms anything but the preview, nor changes a preview in use.
LEMMA PreviewStep ==
  ASSUME TypeOK, Progress, TokenUse, ConfirmsThePreview, [Next]_vars
  PROVE  ConfirmsThePreview'
  <1> USE DEF TypeOK, Progress, TokenUse, ConfirmsThePreview, Known, Accepts, Confirmed, Final
  <1>1. CASE \E k \in Calls, t \in Calls \cup {NoToken} : Begin(k, t)
    BY <1>1 DEF Begin, Goto, connVars, storeVars, callVars, histVars
  <1>2. CASE \E k \in Calls : Gate(k)
    BY <1>2 DEF Gate, Goto, connVars, storeVars, callVars, histVars
  <1>3. CASE \E k \in Calls : Issue(k)
    BY <1>3 DEF Issue, Goto, connVars, storeVars, callVars, histVars
  <1>4. CASE \E k \in Calls : Consume(k)
    BY <1>4 DEF Consume, Goto, connVars, storeVars, callVars, histVars
  <1>5. CASE \E k \in Calls : ServiceGate(k)
    <2>1. PICK k \in Calls : ServiceGate(k)
      BY <1>5
    <2>2. UNCHANGED <<items, args, token, preview, granted>>
      BY <2>1 DEF ServiceGate, storeVars
    <2>3. /\ \A m \in Calls : Confirmed(m)' <=> Confirmed(m)
          /\ \A m \in Calls : pc[m] = "previewed" => pc'[m] = "previewed"
      BY <2>1, GateConfirmed
    <2> HIDE DEF Confirmed
    <2> QED BY <2>2, <2>3
  <1>6. CASE \E k \in Calls : Admin(k)
    BY <1>6 DEF Admin, Goto, connVars, storeVars, callVars, histVars
  <1>7. CASE \E k \in Calls : AdminFails(k)
    BY <1>7 DEF AdminFails, Goto, Record, AdminReturns, connVars, storeVars, callVars, histVars
  <1>8. CASE \E k \in Calls : Apply(k)
    BY <1>8 DEF Apply, connVars, storeVars, callVars, histVars
  <1>9. CASE \E k \in Calls : Succeed(k)
    BY <1>9 DEF Succeed, Goto, Record, AdminReturns, connVars, storeVars, callVars, histVars
  <1>10. CASE \E k \in Calls : Fail(k)
    BY <1>10 DEF Fail, Goto, Record, AdminReturns, connVars, storeVars, callVars, histVars
  <1>11. CASE \E c \in Conns, policy \in {"read_only", "no_delete", "full"} : Connect(c, policy)
    BY <1>11 DEF Connect, connVars, storeVars, callVars, histVars
  <1>12. CASE \E c \in Conns : Disconnect(c)
    BY <1>12 DEF Disconnect, connVars, storeVars, callVars, histVars
  <1>13. CASE \E u \in Setters : (\E v \in TTLs : SettingsChange(u, v)) \/ SettingsApply(u) \/ SettingsSave(u)
    <2>1. UNCHANGED <<items, callVars, histVars>>
      BY <1>13 DEF SettingsChange, SettingsApply, SettingsSave
    <2> QED BY <2>1 DEF callVars, histVars
  <1>14. CASE Restart
    BY <1>14 DEF Restart, connVars, storeVars, callVars, histVars
  <1>15. CASE Tick \/ UNCHANGED vars
    BY <1>15 DEF Tick, vars, connVars, storeVars, callVars, histVars
  <1> QED BY <1>1, <1>2, <1>3, <1>4, <1>5, <1>6, <1>7, <1>8, <1>9, <1>10, <1>11, <1>12, <1>13, <1>14, <1>15 DEF Next

\* No step runs a write on a profile that forbade it at the gate.
LEMMA ForbiddenStep ==
  ASSUME TypeOK, GateUse, ForbiddenOnlyAfterReconnect, [Next]_vars
  PROVE  ForbiddenOnlyAfterReconnect'
  <1> USE DEF TypeOK, GateUse, ForbiddenOnlyAfterReconnect, Args
  <1>1. CASE \E k \in Calls, t \in Calls \cup {NoToken} : Begin(k, t)
    BY <1>1 DEF Begin, Goto, Allows, Final, connVars, storeVars, callVars, histVars
  <1>2. CASE \E k \in Calls : Gate(k)
    BY <1>2 DEF Gate, Goto, Allows, Final, connVars, storeVars, callVars, histVars
  <1>3. CASE \E k \in Calls : Issue(k)
    BY <1>3 DEF Issue, Goto, Allows, Final, connVars, storeVars, callVars, histVars
  <1>4. CASE \E k \in Calls : Consume(k)
    BY <1>4 DEF Consume, Goto, Allows, Final, connVars, storeVars, callVars, histVars
  <1>5. CASE \E k \in Calls : ServiceGate(k)
    BY <1>5 DEF ServiceGate, Passes, Goto, Record, Allows, Final, connVars, storeVars, callVars, histVars
  <1>6. CASE \E k \in Calls : Admin(k)
    BY <1>6 DEF Admin, Goto, Allows, Final, connVars, storeVars, callVars, histVars
  <1>7. CASE \E k \in Calls : AdminFails(k)
    BY <1>7 DEF AdminFails, Goto, Record, AdminReturns, Allows, Final, connVars, storeVars, callVars, histVars
  <1>8. CASE \E k \in Calls : Apply(k)
    BY <1>8 DEF Apply, Allows, Final, connVars, storeVars, callVars, histVars
  <1>9. CASE \E k \in Calls : Succeed(k)
    BY <1>9 DEF Succeed, Goto, Record, AdminReturns, Allows, Final, connVars, storeVars, callVars, histVars
  <1>10. CASE \E k \in Calls : Fail(k)
    BY <1>10 DEF Fail, Goto, Record, AdminReturns, Allows, Final, connVars, storeVars, callVars, histVars
  <1>11. CASE \E c \in Conns, policy \in {"read_only", "no_delete", "full"} : Connect(c, policy)
    BY <1>11 DEF Connect, Allows, Final, connVars, storeVars, callVars, histVars
  <1>12. CASE \E c \in Conns : Disconnect(c)
    BY <1>12 DEF Disconnect, Allows, Final, connVars, storeVars, callVars, histVars
  <1>13. CASE \E u \in Setters : (\E v \in TTLs : SettingsChange(u, v)) \/ SettingsApply(u) \/ SettingsSave(u)
    BY <1>13 DEF SettingsChange, SettingsApply, SettingsSave, Allows, Final, connVars, storeVars, callVars, histVars
  <1>14. CASE Restart
    BY <1>14 DEF Restart, Allows, Final, connVars, storeVars, callVars, histVars
  <1>15. CASE Tick \/ UNCHANGED vars
    BY <1>15 DEF Tick, vars, Allows, Final, connVars, storeVars, callVars, histVars
  <1> QED BY <1>1, <1>2, <1>3, <1>4, <1>5, <1>6, <1>7, <1>8, <1>9, <1>10, <1>11, <1>12, <1>13, <1>14, <1>15 DEF Next

\* The inductive invariant.
ConfirmInv ==
  /\ TypeOK /\ Progress /\ TokenUse /\ GateUse
  /\ OneWritePerToken /\ ConfirmsThePreview /\ ForbiddenOnlyAfterReconnect

\* No call has begun at the start.
LEMMA ConfirmInit == Init => ConfirmInv
  <1> SUFFICES ASSUME Init PROVE ConfirmInv
    OBVIOUS
  <1>1. TypeOK
    BY ConfirmAssumption DEF Init, TypeOK, PCs, Profile, Absent, NoItem, NoSet
  <1>2. Progress /\ TokenUse /\ OneWritePerToken /\ ConfirmsThePreview
    BY DEF Init, Progress, TokenUse, OneWritePerToken, ConfirmsThePreview, Known, Confirmed, Ended
  <1>3. GateUse /\ ForbiddenOnlyAfterReconnect
    BY DEF Init, GateUse, ForbiddenOnlyAfterReconnect, Absent
  <1> QED BY <1>1, <1>2, <1>3 DEF ConfirmInv

\* The invariant holds for any number of calls, connections and restarts.
THEOREM ConfirmInvariance == Spec => []ConfirmInv
  <1>1. ConfirmInv /\ [Next]_vars => ConfirmInv'
    BY ConfirmTypeStep, ProgressStep, TokenStep, GateStep, OneWriteStep, PreviewStep, ForbiddenStep
    DEF ConfirmInv
  <1> QED BY <1>1, ConfirmInit, PTL DEF Spec

\* The variables of the two-phase writes keep their types.
THEOREM ConfirmTyping == Spec => []TypeOK
  <1>1. ConfirmInv => TypeOK
    BY DEF ConfirmInv
  <1> QED BY <1>1, ConfirmInvariance, PTL

\* ConfirmStore.Consume: a token confirms at most one call, ever.
THEOREM ConfirmOneWrite == Spec => []OneWritePerToken
  <1>1. ConfirmInv => OneWritePerToken
    BY DEF ConfirmInv
  <1> QED BY <1>1, ConfirmInvariance, PTL

\* twoPhase: what is executed was previewed, and confirmed in time.
THEOREM ConfirmPreview == Spec => []ConfirmsThePreview
  <1>1. ConfirmInv => ConfirmsThePreview
    BY DEF ConfirmInv
  <1> QED BY <1>1, ConfirmInvariance, PTL

\* ensureWriteAllowed, ensureDeleteAllowed: a forbidden write runs only on a
\* connection that replaced the one the gate looked at.
THEOREM ConfirmPolicy == Spec => []ForbiddenOnlyAfterReconnect
  <1>1. ConfirmInv => ForbiddenOnlyAfterReconnect
    BY DEF ConfirmInv
  <1> QED BY <1>1, ConfirmInvariance, PTL

\* emitAudit: a confirmed call that has returned left one audit record.
THEOREM ConfirmAudit == Spec => []EveryOutcomeAudited
  <1>1. ConfirmInv => EveryOutcomeAudited
    <2> SUFFICES ASSUME ConfirmInv, NEW k \in Calls
                 PROVE  /\ pc[k] \in Ended => Len(audit[k]) = 1
                        /\ written[k] /\ audit[k] = <<>> => pc[k] \in {"running", "lost"}
      BY DEF EveryOutcomeAudited, Ended
    <2>1. audit[k] = <<>> => Len(audit[k]) = 0
      OBVIOUS
    <2>2. /\ written[k] => pc[k] \in {"running", "done", "failed", "lost"}
          /\ pc[k] \in Ended => Len(audit[k]) = 1
      BY DEF ConfirmInv, Progress
    <2> QED BY <2>1, <2>2 DEF Ended
  <1> QED BY <1>1, ConfirmInvariance, PTL
=============================================================================
