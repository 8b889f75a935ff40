------------------------- MODULE SchemaRegistryProofs -------------------------
(***************************************************************************)
(* Proofs about the schema methods of SchemaRegistry, for any number of    *)
(* calls, schemas and versions and any set of profiles.  What a call has   *)
(* in hand (CallInv) speaks of the registry and of the topic, which others *)
(* change: Frame says what they may do without disturbing it.              *)
(***************************************************************************)
EXTENDS SchemaRegistry, TLAPS, WellFoundedInduction

\* A set of naturals that is not empty has a least element.
LEMMA Least ==
  ASSUME NEW T \in SUBSET Nat, T # {}
  PROVE  \E x \in T : \A y \in T : x <= y
  <1> DEFINE R == {ss \in Nat \X Nat : ss[1] < ss[2]}
  <1>1. IsWellFoundedOn(R, Nat)
    BY NatLessThanWellFounded DEF OpToRel
  <1>2. \A x, y \in Nat : y < x => <<y, x>> \in R
    OBVIOUS
  <1> HIDE DEF R
  <1>3. PICK x \in T : \A y \in T : ~ (<<y, x>> \in R)
    BY <1>1, WFMin
  <1>4. \A y \in T : ~(y < x)
    BY <1>2, <1>3
  <1> QED BY <1>3, <1>4

\* Max of a bounded set is one of its members.
LEMMA MaxIn ==
  ASSUME NEW n \in Nat, NEW S \in SUBSET (1 .. n), S # {}
  PROVE  Max(S) \in S
  <1> DEFINE T == {m \in Nat : \E x \in S : m = n - x}
  <1>1. T \in SUBSET Nat /\ T # {}
    <2>1. PICK x \in S : TRUE
      OBVIOUS
    <2>2. n - x \in Nat
      OBVIOUS
    <2> QED BY <2>2
  <1>2. PICK m \in T : \A k \in T : m <= k
    <2> HIDE DEF T
    <2> QED BY <1>1, Least
  <1>3. PICK x \in S : m = n - x
    OBVIOUS
  <1>4. \A y \in S : x >= y
    <2> SUFFICES ASSUME NEW y \in S PROVE x >= y
      OBVIOUS
    <2>1. n - y \in T
      OBVIOUS
    <2>2. m <= n - y
      BY <1>2, <2>1
    <2> QED BY <1>3, <2>2
  <1>5. \E z \in S : \A y \in S : z >= y
    BY <1>4
  <1> QED BY <1>5 DEF Max

-----------------------------------------------------------------------------
\* Types.

PCs == {"idle", "backend", "probe", "post", "readback", "create", "add", "checkpoint", "put", "remove",
        "mount", "client", "encode", "decode", "done"}
Results == {"blocked", "error", "success"}

\* The registries and the topic: a live version is one that was registered.
RegTypes ==
  /\ versions \in [Backends -> Seq(Schemas)]
  /\ live \in [Backends -> SUBSET Nat] /\ \A b \in Backends : live[b] \subseteq 1 .. Len(versions[b])
  /\ topic \in Seq(Schemas)

\* The calls.
CallTypes ==
  /\ pc \in [Calls -> PCs]
  /\ job \in [Calls -> Job \cup {NoJob}]
  /\ backend \in [Calls -> Backends \cup {None}]
  /\ result \in [Calls -> [version : Nat, schema : Schemas \cup {None}]]
  /\ byID \in [Calls -> [Schemas -> Schemas \cup {None}]]
  /\ bySubject \in [Calls -> Schemas \cup {None}]
  /\ decoded \in [Calls -> SUBSET (Nat \X Schemas)]
  /\ moved \in [Calls -> BOOLEAN] /\ applied \in [Calls -> BOOLEAN]
  /\ audit \in [Calls -> Seq(Results)]

-----------------------------------------------------------------------------
\* The inductive invariant.

\* A call that has not ended has neither answered nor audited, and has changed a
\* registry only when it is about to read its version back.
OutcomeInv(c) ==
  /\ pc[c] # "done" => audit[c] = << >> /\ result[c] = NoResult
  /\ applied[c] => pc[c] \in {"readback", "done"}
  /\ pc[c] = "done" /\ applied[c] => Len(audit[c]) = 1 /\ audit[c][1] # "blocked"

\* A running call has a job that fits its place.
JobInv(c) ==
  /\ pc[c] # "idle" => job[c] \in Job /\ (job[c].op = "register" => job[c].schema \in Schemas)
  /\ pc[c] \in {"probe", "post", "readback", "create", "add"} => job[c].op = "register"
  /\ pc[c] \in {"checkpoint", "put", "remove"} => backend[c] \in Backends

\* Until the read-back nothing has moved: the latest version is the schema posted.
VersionInv(c) ==
  /\ pc[c] = "readback" /\ ~moved[c] =>
       LatestText(versions["confluent"], live["confluent"]) = job[c].schema
  /\ result[c].version # 0 /\ ~moved[c] => result[c].schema = job[c].schema

\* The cache has a schema under its own id; the schema of the session's subject
\* is the one every record so far was decoded with.
CacheInv(c) ==
  /\ \A s \in Schemas : byID[c][s] \in {None, s}
  /\ decoded[c] # {} => pc[c] \in {"decode", "done"}
  /\ \A d \in decoded[c] :
       /\ d[1] \in 1 .. Len(topic)
       /\ ~job[c].bySubject => d[2] = topic[d[1]]
       /\ job[c].bySubject => d[2] = bySubject[c]

CallInv(c) == OutcomeInv(c) /\ JobInv(c) /\ VersionInv(c) /\ CacheInv(c)
SchemaInv == RegTypes /\ CallTypes /\ \A c \in Calls : CallInv(c)

\* Nobody has begun.
LEMMA SchemaInit == Init => SchemaInv
  <1> SUFFICES ASSUME Init PROVE SchemaInv
    OBVIOUS
  <1>1. RegTypes
    BY DEF Init, RegTypes
  <1>2. CallTypes
    <2>1. NoResult \in [version : Nat, schema : Schemas \cup {None}]
      BY DEF NoResult
    <2> QED BY <2>1 DEF Init, CallTypes, PCs
  <1>3. ASSUME NEW c \in Calls PROVE CallInv(c)
    <2>1. /\ pc[c] = "idle" /\ audit[c] = << >> /\ result[c] = NoResult /\ ~applied[c]
          /\ decoded[c] = {} /\ byID[c] = [t \in Schemas |-> None]
      BY DEF Init
    <2> QED BY <2>1 DEF CallInv, OutcomeInv, JobInv, VersionInv, CacheInv, NoResult
  <1> QED BY <1>1, <1>2, <1>3 DEF SchemaInv

\* Records are only added to the topic.
TopicGrows ==
  Len(topic) <= Len(topic') /\ \A i \in 1 .. Len(topic) : topic'[i] = topic[i]

\* Either Confluent's subject stays as it is or its change is tracked.
TracksFor(c) ==
  \/ UNCHANGED <<versions["confluent"], live["confluent"]>> /\ moved'[c] = moved[c]
  \/ moved'[c] = (moved[c] \/ Moves(c))

\* What the steps of others leave a call.
LEMMA Frame ==
  ASSUME SchemaInv, NEW c \in Calls, TopicGrows, TracksFor(c),
         UNCHANGED <<pc[c], job[c], backend[c], result[c], byID[c], bySubject[c], decoded[c], applied[c], audit[c]>>
  PROVE  CallInv(c)'
  <1>1. CallInv(c)
    BY DEF SchemaInv
  <1>2. OutcomeInv(c)' /\ JobInv(c)'
    BY <1>1 DEF CallInv, OutcomeInv, JobInv, NoResult
  <1>3. VersionInv(c)'
    BY <1>1 DEF CallInv, VersionInv, TracksFor, Moves
  <1>4. CacheInv(c)'
    <2>1. \A d \in decoded[c] : d[1] \in 1 .. Len(topic) /\ d[1] \in Int
      BY <1>1 DEF CallInv, CacheInv
    <2>2. Len(topic) \in Nat
      BY DEF SchemaInv, RegTypes
    <2>3. Len(topic)' \in Int
      BY DEF TopicGrows
    <2> QED BY <1>1, <2>1, <2>2 DEF CallInv, CacheInv, TopicGrows
  <1> QED BY <1>2, <1>3, <1>4 DEF CallInv

\* A finished call's job keeps its type, its schema and its kind.
LEMMA RestJob ==
  ASSUME NEW j \in Job
  PROVE  Rest(j) \in Job /\ Rest(j).schema = j.schema /\ Rest(j).op = j.op /\ Rest(j).bySubject = j.bySubject
  <1>1. 0 \in 0 .. MaxVersion
    BY SchemaAssumption
  <1>2. Rest(j) \in Job
    BY <1>1 DEF Job, Rest, Levels
  <1>3. Rest(j).bySubject = j.bySubject
    BY DEF Job, Rest
  <1>4. Rest(j).op = j.op /\ Rest(j).schema = j.schema
    BY DEF Job, Rest
  <1> QED BY <1>2, <1>3, <1>4

\* The version a call asks for.
LEMMA JobVersion ==
  ASSUME NEW j \in Job
  PROVE  j.version \in Nat
  <1>1. j.version \in 0 .. MaxVersion
    BY DEF Job
  <1>2. MaxVersion \in Nat
    BY SchemaAssumption
  <1> QED BY <1>1, <1>2

\* The versions of a subject a registration leaves.
LEMMA RegistersTypes ==
  ASSUME RegTypes, NEW b \in Backends, NEW s \in Schemas, Registers(b, s), UNCHANGED topic
  PROVE  RegTypes'
  <1>1. CASE UNCHANGED <<versions, live>>
    BY <1>1 DEF RegTypes
  <1>2. CASE /\ versions' = [versions EXCEPT ![b] = Append(@, s)]
             /\ live' = [live EXCEPT ![b] = @ \cup {Len(versions[b]) + 1}]
    <2>1. /\ versions[b] \in Seq(Schemas) /\ Len(versions[b]) \in Nat
          /\ live[b] \in SUBSET Nat /\ live[b] \subseteq 1 .. Len(versions[b])
      BY DEF RegTypes
    <2>2. Append(versions[b], s) \in Seq(Schemas) /\ Len(Append(versions[b], s)) = Len(versions[b]) + 1
      BY <2>1
    <2>3. versions' \in [Backends -> Seq(Schemas)] /\ live' \in [Backends -> SUBSET Nat]
      BY <1>2, <2>1, <2>2 DEF RegTypes
    <2>4. ASSUME NEW d \in Backends PROVE live'[d] \subseteq 1 .. Len(versions'[d])
      <3>1. CASE d = b
        <4>1. live'[d] = live[b] \cup {Len(versions[b]) + 1} /\ Len(versions'[d]) = Len(versions[b]) + 1
          BY <1>2, <2>2, <3>1 DEF RegTypes
        <4> QED BY <2>1, <4>1
      <3>2. CASE d # b
        <4>1. live'[d] = live[d] /\ versions'[d] = versions[d]
          BY <1>2, <3>2 DEF RegTypes
        <4> QED BY <4>1 DEF RegTypes
      <3> QED BY <3>1, <3>2
    <2> QED BY <2>3, <2>4 DEF RegTypes
  <1> QED BY <1>1, <1>2 DEF Registers

\* A text that can be read is a schema.
LEMMA TextTypes ==
  ASSUME RegTypes, NEW b \in Backends, NEW v \in Nat, Has(b, v)
  PROVE  Text(b, v) \in Schemas /\ Latest(b) \in Nat
  <1>1. /\ live[b] \in SUBSET (1 .. Len(versions[b])) /\ Len(versions[b]) \in Nat
        /\ versions[b] \in Seq(Schemas)
    BY DEF RegTypes
  <1>2. live[b] # {}
    BY DEF Has
  <1>3. Max(live[b]) \in live[b]
    BY <1>1, <1>2, MaxIn
  <1>4. Latest(b) = Max(live[b])
    BY <1>2 DEF Latest
  <1>5. (IF v = 0 THEN Latest(b) ELSE v) \in 1 .. Len(versions[b])
    BY <1>1, <1>3, <1>4 DEF Has
  <1> QED BY <1>1, <1>3, <1>4, <1>5 DEF Text

\* The version Glue answers with.
LEMMA HoldingTypes ==
  ASSUME NEW vs \in Seq(Schemas), NEW lv \in SUBSET (1 .. Len(vs)), NEW s
  PROVE  HoldingIn(vs, lv, s) \in Nat
  <1> DEFINE hs == {v \in lv : vs[v] = s}
  <1>1. hs \in SUBSET (1 .. Len(vs))
    OBVIOUS
  <1>2. HoldingIn(vs, lv, s) = IF hs = {} THEN 0 ELSE Max(hs)
    BY DEF HoldingIn
  <1>3. Len(vs) \in Nat
    OBVIOUS
  <1> HIDE DEF hs
  <1>4. CASE hs = {}
    BY <1>4, <1>2
  <1>5. CASE hs # {}
    <2>1. Max(hs) \in hs
      BY <1>1, <1>3, <1>5, MaxIn
    <2>2. \A v \in hs : v \in Nat
      BY <1>1, <1>3
    <2>3. Max(hs) \in Nat
      BY <2>1, <2>2
    <2> QED BY <1>2, <1>5, <2>3
  <1> QED BY <1>4, <1>5

-----------------------------------------------------------------------------
\* The shapes of a step.

\* All that call c itself has in hand is as it was.
Still(c) ==
  UNCHANGED <<pc[c], job[c], backend[c], result[c], byID[c], bySubject[c], decoded[c], applied[c], audit[c]>>

\* A step of one call.
LEMMA ActorStep ==
  ASSUME SchemaInv, NEW c \in Calls, RegTypes', CallTypes', CallInv(c)', TopicGrows,
         \A d \in Calls \ {c} : TracksFor(d) /\ Still(d)
  PROVE  SchemaInv'
  <1>1. ASSUME NEW d \in Calls PROVE CallInv(d)'
    <2>1. CASE d = c
      BY <2>1
    <2>2. CASE d # c
      BY <2>2, Frame DEF Still
    <2> QED BY <2>1, <2>2
  <1> QED BY <1>1 DEF SchemaInv

\* A topic that is left alone has not shrunk, and has schemas.
LEMMA TopicSame ==
  ASSUME RegTypes, UNCHANGED topic
  PROVE  TopicGrows
  BY DEF RegTypes, TopicGrows

\* A call goes on to another place.
LEMMA GotoStep ==
  ASSUME SchemaInv, NEW c \in Calls, NEW label \in PCs \ {"idle", "done"},
         pc[c] \notin {"idle", "done", "decode", "readback"}, pc' = [pc EXCEPT ![c] = label],
         UNCHANGED <<job, result, cacheVars, audit, topic>>, RegTypes',
         backend' \in [Calls -> Backends \cup {None}], moved' \in [Calls -> BOOLEAN],
         \A d \in Calls \ {c} : backend'[d] = backend[d] /\ TracksFor(d),
         applied' = applied \/ (label = "readback" /\ applied' = [applied EXCEPT ![c] = TRUE]),
         label \in {"probe", "post", "readback", "create", "add"} => job[c].op = "register",
         label \in {"checkpoint", "put", "remove"} => backend'[c] \in Backends,
         label = "readback" /\ ~moved'[c] => LatestText(versions'["confluent"], live'["confluent"]) = job[c].schema
  PROVE  SchemaInv'
  <1>1. CallInv(c) /\ CallTypes
    BY DEF SchemaInv
  <1>2. pc'[c] = label /\ \A d \in Calls \ {c} : pc'[d] = pc[d] /\ applied'[d] = applied[d]
    BY <1>1 DEF CallTypes
  <1>3. CallTypes'
    BY <1>1 DEF CallTypes, cacheVars
  <1>4. OutcomeInv(c)'
    <2>1. audit[c] = << >> /\ result[c] = NoResult /\ ~applied[c]
      BY <1>1 DEF CallInv, OutcomeInv
    <2>2. applied'[c] => label = "readback"
      BY <1>1, <2>1 DEF CallTypes
    <2> QED BY <1>2, <2>1, <2>2 DEF OutcomeInv, NoResult
  <1>5. JobInv(c)'
    BY <1>1, <1>2 DEF CallInv, JobInv
  <1>6. VersionInv(c)'
    <2>1. result[c].version = 0
      BY <1>1 DEF CallInv, OutcomeInv, NoResult
    <2> QED BY <1>2, <2>1 DEF VersionInv
  <1>7. CacheInv(c)'
    BY <1>1, <1>2 DEF CallInv, CacheInv, cacheVars
  <1>8. \A d \in Calls \ {c} : TracksFor(d) /\ Still(d)
    BY <1>2 DEF Still, cacheVars
  <1>9. TopicGrows
    BY TopicSame DEF SchemaInv
  <1> QED BY <1>3, <1>4, <1>5, <1>6, <1>7, <1>8, <1>9, ActorStep DEF CallInv

\* A call ends: with one audit record, or with none if it has changed nothing.
LEMMA EndStep ==
  ASSUME SchemaInv, NEW c \in Calls, pc[c] \notin {"idle", "done"}, End(c), RegTypes', TopicGrows,
         \A d \in Calls \ {c} : TracksFor(d), moved' \in [Calls -> BOOLEAN], UNCHANGED cacheVars,
         NEW res \in [version : Nat, schema : Schemas \cup {None}], result' = [result EXCEPT ![c] = res],
         res = NoResult \/ moved'[c] \/ res.schema = job[c].schema,
         \/ /\ \E r \in {"error", "success"} : Audit(c, r)
            /\ applied' = applied \/ applied' = [applied EXCEPT ![c] = TRUE]
         \/ UNCHANGED <<audit, applied>> /\ pc[c] # "readback"
  PROVE  SchemaInv'
  <1>1. CallInv(c) /\ CallTypes
    BY DEF SchemaInv
  <1>2. /\ pc' = [pc EXCEPT ![c] = "done"] /\ job' = [job EXCEPT ![c] = Rest(job[c])]
        /\ backend' = [backend EXCEPT ![c] = None]
    BY DEF End
  <1>3. job[c] \in Job
    BY <1>1 DEF CallInv, JobInv
  <1>4. /\ Rest(job[c]) \in Job /\ Rest(job[c]).schema = job[c].schema /\ Rest(job[c]).op = job[c].op
        /\ Rest(job[c]).bySubject = job[c].bySubject
    BY <1>3, RestJob
  <1>5. /\ pc'[c] = "done" /\ job'[c] = Rest(job[c]) /\ result'[c] = res
        /\ \A d \in Calls \ {c} : /\ pc'[d] = pc[d] /\ job'[d] = job[d] /\ backend'[d] = backend[d]
                                 /\ result'[d] = result[d] /\ applied'[d] = applied[d]
    BY <1>1, <1>2 DEF CallTypes
  <1>6. audit[c] = << >> /\ audit \in [Calls -> Seq(Results)]
    BY <1>1 DEF CallInv, OutcomeInv, CallTypes
  <1>7. /\ audit' \in [Calls -> Seq(Results)]
        /\ \A d \in Calls \ {c} : audit'[d] = audit[d]
        /\ applied'[c] => Len(audit'[c]) = 1 /\ audit'[c][1] # "blocked"
    <2>1. CASE UNCHANGED <<audit, applied>> /\ pc[c] # "readback"
      <3>1. ~applied[c]
        BY <1>1, <2>1 DEF CallInv, OutcomeInv
      <3> QED BY <1>6, <2>1, <3>1
    <2>2. ASSUME NEW r \in {"error", "success"}, Audit(c, r)
          PROVE  /\ audit' \in [Calls -> Seq(Results)]
                 /\ \A d \in Calls \ {c} : audit'[d] = audit[d]
                 /\ Len(audit'[c]) = 1 /\ audit'[c][1] # "blocked"
      <3>1. audit' = [audit EXCEPT ![c] = Append(audit[c], r)] /\ r \in Results
        BY <2>2 DEF Audit, Results
      <3>2. Append(audit[c], r) \in Seq(Results) /\ Append(audit[c], r) = <<r>>
        BY <1>6, <3>1
      <3> QED BY <1>6, <3>1, <3>2
    <2> QED BY <2>1, <2>2
  <1>8. CallTypes'
    <2>1. job' \in [Calls -> Job \cup {NoJob}]
      BY <1>1, <1>2, <1>4 DEF CallTypes
    <2>2. applied' \in [Calls -> BOOLEAN]
      BY <1>1 DEF CallTypes
    <2> QED BY <1>1, <1>2, <1>7, <2>1, <2>2 DEF CallTypes, PCs, cacheVars
  <1>9. OutcomeInv(c)'
    BY <1>5, <1>7 DEF OutcomeInv
  <1>10. JobInv(c)'
    BY <1>1, <1>4, <1>5 DEF CallInv, JobInv
  <1>11. VersionInv(c)'
    BY <1>4, <1>5 DEF VersionInv, NoResult
  <1>12. CacheInv(c)'
    <2>1. \A d \in decoded[c] : /\ d[1] \in 1 .. Len(topic)
                                /\ ~job[c].bySubject => d[2] = topic[d[1]]
                                /\ job[c].bySubject => d[2] = bySubject[c]
      BY <1>1 DEF CallInv, CacheInv
    <2>2. \A i \in 1 .. Len(topic) : i \in 1 .. Len(topic') /\ topic'[i] = topic[i]
      <3>1. topic \in Seq(Schemas) /\ topic' \in Seq(Schemas)
        BY DEF SchemaInv, RegTypes
      <3>2. Len(topic) \in Nat /\ Len(topic') \in Nat
        BY <3>1
      <3> QED BY <3>2 DEF TopicGrows
    <2>3. \A t \in Schemas : byID[c][t] \in {None, t}
      BY <1>1 DEF CallInv, CacheInv
    <2> QED BY <1>4, <1>5, <2>1, <2>2, <2>3 DEF CacheInv, cacheVars
  <1>13. \A d \in Calls \ {c} : TracksFor(d) /\ Still(d)
    BY <1>5, <1>7 DEF Still, cacheVars
  <1> QED BY <1>8, <1>9, <1>10, <1>11, <1>12, <1>13, ActorStep DEF CallInv

-----------------------------------------------------------------------------
\* The operations.

\* Without an answer the result stays what it was.
LEMMA NoAnswer ==
  ASSUME SchemaInv, NEW c \in Calls, pc[c] # "done", UNCHANGED result
  PROVE  result' = [result EXCEPT ![c] = NoResult]
  <1>1. result[c] = NoResult /\ result \in [Calls -> [version : Nat, schema : Schemas \cup {None}]]
    BY DEF SchemaInv, CallInv, OutcomeInv, CallTypes
  <1> QED BY <1>1

LEMMA NoResultType == NoResult \in [version : Nat, schema : Schemas \cup {None}]
  BY DEF NoResult

\* The gate and the parameters: nothing was done yet, so a refusal is all there
\* is in the audit.
LEMMA StartStep ==
  ASSUME SchemaInv, NEW c \in Calls, Start(c)
  PROVE  SchemaInv'
  <1>1. CallInv(c) /\ CallTypes /\ RegTypes
    BY DEF SchemaInv
  <1>2. PICK j \in Job :
          /\ (j.op = "register") = (j.schema # None)
          /\ LET blocked == j.op # "consume" /\ ~Allowed(j.op)
                 on == ~blocked /\ j.valid
             IN /\ job' = [job EXCEPT ![c] = IF on THEN j ELSE Rest(j)]
                /\ pc' = [pc EXCEPT ![c] = IF on THEN (IF j.op \in Writes THEN "backend" ELSE "mount") ELSE "done"]
                /\ audit' = IF blocked THEN [audit EXCEPT ![c] = Append(@, "blocked")] ELSE audit
    BY DEF Start
  <1>3. /\ pc[c] = "idle"
        /\ UNCHANGED <<versions, live, topic, backend, result, byID, bySubject, decoded, moved, applied>>
    BY DEF Start, regVars, cacheVars
  <1>4. /\ Rest(j) \in Job /\ Rest(j).schema = j.schema /\ Rest(j).op = j.op
    BY RestJob
  <1>5. PICK k \in Job, label \in {"backend", "mount", "done"} :
          /\ job' = [job EXCEPT ![c] = k] /\ pc' = [pc EXCEPT ![c] = label]
          /\ k.op = j.op /\ k.schema = j.schema
    BY <1>2, <1>4
  <1>6. k.op = "register" => k.schema \in Schemas
    <2>1. j.schema \in Schemas \cup {None}
      BY DEF Job
    <2> QED BY <1>2, <1>5, <2>1
  <1>7. audit' = audit \/ (label = "done" /\ audit' = [audit EXCEPT ![c] = Append(@, "blocked")])
    <2> DEFINE blocked == j.op # "consume" /\ ~Allowed(j.op)
    <2>1. CASE blocked
      <3>1. audit' = [audit EXCEPT ![c] = Append(@, "blocked")] /\ pc' = [pc EXCEPT ![c] = "done"]
        BY <1>2, <2>1
      <3>2. label = "done"
        BY <1>1, <1>5, <3>1 DEF CallTypes
      <3> QED BY <3>1, <3>2
    <2>2. CASE ~blocked
      BY <1>2, <2>2
    <2> QED BY <2>1, <2>2
  <1>8. /\ audit' \in [Calls -> Seq(Results)] /\ \A d \in Calls \ {c} : audit'[d] = audit[d]
        /\ label # "done" => audit'[c] = audit[c]
    <2>1. audit \in [Calls -> Seq(Results)] /\ "blocked" \in Results
      BY <1>1 DEF CallTypes, Results
    <2>2. Append(audit[c], "blocked") \in Seq(Results)
      BY <2>1
    <2> QED BY <1>7, <2>1, <2>2
  <1>9. /\ pc'[c] = label /\ job'[c] = k
        /\ \A d \in Calls \ {c} : pc'[d] = pc[d] /\ job'[d] = job[d]
    BY <1>1, <1>5 DEF CallTypes
  <1>10. CallTypes'
    BY <1>1, <1>3, <1>5, <1>8 DEF CallTypes, PCs
  <1>11. /\ audit[c] = << >> /\ result[c] = NoResult /\ ~applied[c] /\ decoded[c] = {}
    BY <1>1, <1>3 DEF CallInv, OutcomeInv, CacheInv
  <1>12. OutcomeInv(c)'
    BY <1>3, <1>8, <1>9, <1>11 DEF OutcomeInv, NoResult
  <1>13. JobInv(c)'
    BY <1>6, <1>9 DEF JobInv
  <1>14. VersionInv(c)'
    BY <1>3, <1>9, <1>11 DEF VersionInv, NoResult
  <1>15. CacheInv(c)'
    BY <1>1, <1>3, <1>11 DEF CallInv, CacheInv
  <1>16. RegTypes' /\ TopicGrows
    BY <1>1, <1>3, TopicSame DEF RegTypes
  <1>17. \A d \in Calls \ {c} : TracksFor(d) /\ Still(d)
    BY <1>3, <1>8, <1>9 DEF Still, TracksFor
  <1> QED BY <1>10, <1>12, <1>13, <1>14, <1>15, <1>16, <1>17, ActorStep DEF CallInv

\* A step that leaves registries, topic and history alone.
LEMMA Quiet ==
  ASSUME SchemaInv, UNCHANGED <<regVars, topic, moved>>
  PROVE  RegTypes' /\ TopicGrows /\ moved' \in [Calls -> BOOLEAN] /\ \A d \in Calls : TracksFor(d)
  <1>1. RegTypes /\ moved \in [Calls -> BOOLEAN]
    BY DEF SchemaInv, CallTypes
  <1>2. RegTypes' /\ TopicGrows
    BY <1>1, TopicSame DEF RegTypes, regVars
  <1>3. \A d \in Calls : TracksFor(d)
    BY DEF TracksFor, regVars
  <1> QED BY <1>1, <1>2, <1>3

\* The selection of the registry.
LEMMA BackendStep ==
  ASSUME SchemaInv, NEW c \in Calls, Backend(c)
  PROVE  SchemaInv'
  <1> DEFINE b == schemaBackendFor(c)
  <1>1. /\ pc[c] = "backend"
        /\ UNCHANGED <<regVars, topic, result, cacheVars, moved, applied>>
    BY DEF Backend
  <1>2. /\ RegTypes' /\ TopicGrows /\ moved' \in [Calls -> BOOLEAN] /\ \A d \in Calls : TracksFor(d)
        /\ backend \in [Calls -> Backends \cup {None}]
    BY <1>1, Quiet DEF SchemaInv, CallTypes
  <1>3. b \in Backends \cup {None}
    BY DEF schemaBackendFor
  <1>4. CASE b = None
    <2>1. Audit(c, "error") /\ End(c)
      BY <1>4 DEF Backend
    <2> QED BY <1>1, <1>2, <2>1, NoAnswer, NoResultType, EndStep
  <1>5. CASE b # None
    <2>1. PICK label \in PCs \ {"idle", "done"} :
            /\ pc' = [pc EXCEPT ![c] = label]
            /\ label \in {"probe", "post", "checkpoint", "put", "remove"}
            /\ label \in {"probe", "post"} => job[c].op = "register"
      BY <1>5 DEF Backend, PCs
    <2>2. backend' = [backend EXCEPT ![c] = b] /\ UNCHANGED <<job, audit>>
      BY <1>5 DEF Backend
    <2> HIDE DEF b
    <2>3. /\ backend' \in [Calls -> Backends \cup {None}] /\ backend'[c] \in Backends
          /\ \A d \in Calls \ {c} : backend'[d] = backend[d]
      BY <1>2, <1>3, <1>5, <2>2
    <2> QED BY <1>1, <1>2, <2>1, <2>2, <2>3, GotoStep
  <1> QED BY <1>4, <1>5

\* A step that only changes registrations, tracked for every call.
LEMMA Registered ==
  ASSUME SchemaInv, NEW b \in Backends, NEW s \in Schemas, Registers(b, s), UNCHANGED topic
  PROVE  /\ RegTypes' /\ TopicGrows
         /\ b = "glue" => UNCHANGED <<versions["confluent"], live["confluent"]>>
  <1>1. RegTypes
    BY DEF SchemaInv
  <1>2. b = "glue" => UNCHANGED <<versions["confluent"], live["confluent"]>>
    BY <1>1 DEF Registers, RegTypes, Backends
  <1> QED BY <1>1, <1>2, RegistersTypes, TopicSame

\* registerSchema of Confluent: the post, after which the schema is the latest or
\* the call is marked.
LEMMA PostStep ==
  ASSUME SchemaInv, NEW c \in Calls, Post(c)
  PROVE  SchemaInv'
  <1> DEFINE last == LatestText(versions'["confluent"], live'["confluent"])
  <1>1. /\ pc[c] = "post" /\ Registers("confluent", job[c].schema)
        /\ applied' = [applied EXCEPT ![c] = TRUE]
        /\ moved' = [d \in Calls |-> IF d = c THEN last # job[c].schema ELSE moved[d] \/ Moves(d)]
        /\ UNCHANGED <<topic, result, cacheVars>>
    BY DEF Post
  <1>2. job[c].op = "register" /\ job[c].schema \in Schemas
    BY <1>1 DEF SchemaInv, CallInv, JobInv
  <1>3. RegTypes' /\ TopicGrows
    BY <1>1, <1>2, Registered DEF Backends
  <1> HIDE DEF last
  <1>4. /\ moved' \in [Calls -> BOOLEAN] /\ (~moved'[c] => last = job[c].schema)
        /\ \A d \in Calls \ {c} : moved'[d] = (moved[d] \/ Moves(d))
    <2>1. \A d \in Calls : moved[d] \in BOOLEAN /\ Moves(d) \in BOOLEAN
      BY DEF SchemaInv, CallTypes, Moves
    <2> QED BY <1>1, <2>1
  <1>5. \A d \in Calls \ {c} : TracksFor(d)
    BY <1>4 DEF TracksFor
  <1>6. CASE Goto(c, "readback") /\ UNCHANGED audit
    <2>1. pc' = [pc EXCEPT ![c] = "readback"] /\ UNCHANGED <<job, backend, audit>>
      BY <1>6 DEF Goto
    <2>2. "readback" \in PCs \ {"idle", "done"} /\ backend' \in [Calls -> Backends \cup {None}]
      BY <2>1 DEF PCs, SchemaInv, CallTypes
    <2>3. ~moved'[c] => LatestText(versions'["confluent"], live'["confluent"]) = job[c].schema
      BY <1>4 DEF last
    <2> QED BY <1>1, <1>2, <1>3, <1>4, <1>5, <2>1, <2>2, <2>3, GotoStep
  <1>7. CASE Audit(c, "error") /\ End(c)
    BY <1>1, <1>3, <1>4, <1>5, <1>7, NoAnswer, NoResultType, EndStep
  <1> QED BY <1>6, <1>7 DEF Post

\* ... and the read-back of the latest version.
LEMMA ReadBackStep ==
  ASSUME SchemaInv, NEW c \in Calls, ReadBack(c)
  PROVE  SchemaInv'
  <1>1. /\ pc[c] = "readback" /\ Audit(c, "success") /\ End(c)
        /\ UNCHANGED <<regVars, topic, cacheVars, moved, applied>>
    BY DEF ReadBack
  <1>2. RegTypes' /\ TopicGrows /\ moved' \in [Calls -> BOOLEAN] /\ \A d \in Calls : TracksFor(d)
    BY <1>1, Quiet
  <1>3. CASE UNCHANGED result
    BY <1>1, <1>2, <1>3, NoAnswer, NoResultType, EndStep
  <1>4. CASE /\ Has("confluent", 0)
             /\ result' = [result EXCEPT ![c] = [version |-> Latest("confluent"), schema |-> Text("confluent", 0)]]
    <2> DEFINE res == [version |-> Latest("confluent"), schema |-> Text("confluent", 0)]
    <2>1. Text("confluent", 0) \in Schemas /\ Latest("confluent") \in Nat
      BY <1>4, TextTypes DEF SchemaInv, Backends
    <2>2. res \in [version : Nat, schema : Schemas \cup {None}]
      BY <2>1
    <2>3. Text("confluent", 0) = LatestText(versions["confluent"], live["confluent"])
      <3>1. live["confluent"] # {}
        BY <1>4 DEF Has
      <3>2. Latest("confluent") = Max(live["confluent"])
        BY <3>1 DEF Latest
      <3> QED BY <3>1, <3>2 DEF Text, LatestText
    <2>4. moved'[c] \/ res.schema = job[c].schema
      BY <1>1, <2>3 DEF SchemaInv, CallInv, VersionInv
    <2>5. result' = [result EXCEPT ![c] = res]
      BY <1>4
    <2> HIDE DEF res
    <2> QED BY <1>1, <1>2, <2>2, <2>4, <2>5, EndStep
  <1> QED BY <1>3, <1>4 DEF ReadBack

\* registerSchema of Glue, whose answer names the version it has registered.
LEMMA GlueStep ==
  ASSUME SchemaInv, NEW c \in Calls, Create(c) \/ AddVersion(c)
  PROVE  SchemaInv'
  <1>1. /\ pc[c] \in {"create", "add"} /\ Registers("glue", job[c].schema)
        /\ GlueAnswers(c)
    BY DEF Create, AddVersion
  <1>2. /\ End(c) /\ applied' = [applied EXCEPT ![c] = TRUE]
        /\ UNCHANGED <<topic, cacheVars, moved>>
    BY <1>1 DEF GlueAnswers
  <1>3. job[c].schema \in Schemas
    BY <1>1 DEF SchemaInv, CallInv, JobInv
  <1>4. RegTypes' /\ TopicGrows /\ UNCHANGED <<versions["confluent"], live["confluent"]>>
    BY <1>1, <1>2, <1>3, Registered DEF Backends
  <1>5. moved' \in [Calls -> BOOLEAN] /\ \A d \in Calls \ {c} : TracksFor(d)
    BY <1>2, <1>4 DEF SchemaInv, CallTypes, TracksFor
  <1>6. CASE Audit(c, "error") /\ UNCHANGED result
    BY <1>1, <1>2, <1>4, <1>5, <1>6, NoAnswer, NoResultType, EndStep
  <1>7. CASE /\ result' = [result EXCEPT ![c] = [version |-> HoldingIn(versions'["glue"], live'["glue"], job[c].schema),
                                                 schema |-> job[c].schema]]
             /\ Audit(c, "success")
    <2> DEFINE v == HoldingIn(versions'["glue"], live'["glue"], job[c].schema)
    <2>1. v \in Nat
      <3>1. versions'["glue"] \in Seq(Schemas) /\ live'["glue"] \in SUBSET (1 .. Len(versions'["glue"]))
        BY <1>4 DEF RegTypes, Backends
      <3> QED BY <3>1, HoldingTypes
    <2> HIDE DEF v
    <2> DEFINE res == [version |-> v, schema |-> job[c].schema]
    <2>2. res \in [version : Nat, schema : Schemas \cup {None}] /\ res.schema = job[c].schema
      BY <1>3, <2>1
    <2>3. result' = [result EXCEPT ![c] = res]
      BY <1>7 DEF v
    <2> HIDE DEF res
    <2> QED BY <1>1, <1>2, <1>4, <1>5, <1>7, <2>2, <2>3, EndStep
  <1> QED BY <1>1, <1>6, <1>7 DEF GlueAnswers

\* deleteSchema, tracked like a registration.
LEMMA RemoveStep ==
  ASSUME SchemaInv, NEW c \in Calls, Remove(c)
  PROVE  SchemaInv'
  <1> DEFINE b == backend[c]
             gone == IF job[c].version = 0 THEN live[b] ELSE live[b] \cap {job[c].version}
  <1>1. /\ pc[c] = "remove" /\ applied' = [applied EXCEPT ![c] = TRUE]
        /\ End(c) /\ Track /\ \E r \in {"error", "success"} : Audit(c, r)
        /\ live' = [live EXCEPT ![b] = @ \ gone]
        /\ versions' = IF b = "glue" /\ job[c].version = 0 THEN [versions EXCEPT ![b] = << >>] ELSE versions
        /\ UNCHANGED <<topic, result, cacheVars>>
    BY DEF Remove
  <1>2. b \in Backends
    BY <1>1 DEF SchemaInv, CallInv, JobInv
  <1>3. RegTypes /\ TopicGrows
    BY <1>1, TopicSame DEF SchemaInv
  <1>4. RegTypes'
    <2>1. versions' \in [Backends -> Seq(Schemas)] /\ live' \in [Backends -> SUBSET Nat]
      BY <1>1, <1>2, <1>3 DEF RegTypes
    <2>2. ASSUME NEW d \in Backends PROVE live'[d] \subseteq 1 .. Len(versions'[d])
      <3>1. live[d] \subseteq 1 .. Len(versions[d]) /\ live'[d] \subseteq live[d]
        BY <1>1, <1>2, <1>3 DEF RegTypes
      <3>2. CASE versions'[d] = versions[d]
        BY <3>1, <3>2
      <3>3. CASE versions'[d] # versions[d]
        <4>1. d = b /\ job[c].version = 0
          BY <1>1, <1>2, <1>3, <3>3 DEF RegTypes
        <4>2. live'[d] = {}
          BY <1>1, <1>2, <1>3, <4>1 DEF RegTypes
        <4> QED BY <4>2
      <3> QED BY <3>2, <3>3
    <2> QED BY <1>1, <1>3, <2>1, <2>2 DEF RegTypes
  <1>5. moved' \in [Calls -> BOOLEAN] /\ \A d \in Calls : TracksFor(d)
    <2>1. \A d \in Calls : moved[d] \in BOOLEAN /\ Moves(d) \in BOOLEAN
      BY DEF SchemaInv, CallTypes, Moves
    <2> QED BY <1>1, <2>1 DEF Track, TracksFor
  <1> QED BY <1>1, <1>3, <1>4, <1>5, NoAnswer, NoResultType, EndStep

\* The remaining steps of a write: failures, Glue's probe and checkpoint, and the
\* compatibility level.
LEMMA WriteStep ==
  ASSUME SchemaInv, NEW c \in Calls, Fails(c) \/ Probe(c) \/ Checkpoint(c) \/ PutLevel(c)
  PROVE  SchemaInv'
  <1>1. /\ pc[c] \in {"probe", "post", "create", "add", "checkpoint", "put", "remove"}
        /\ UNCHANGED <<versions, live, topic, result, cacheVars, moved>>
    BY DEF Fails, Probe, Checkpoint, PutLevel, regVars
  <1>2. /\ RegTypes' /\ TopicGrows /\ moved' \in [Calls -> BOOLEAN] /\ \A d \in Calls : TracksFor(d)
        /\ backend \in [Calls -> Backends \cup {None}]
    <2>1. RegTypes /\ moved \in [Calls -> BOOLEAN] /\ backend \in [Calls -> Backends \cup {None}]
      BY DEF SchemaInv, CallTypes
    <2> QED BY <1>1, <2>1, TopicSame DEF RegTypes, TracksFor
  <1>3. CASE \/ End(c) /\ (\E r \in {"error", "success"} : Audit(c, r))
                /\ (applied' = applied \/ applied' = [applied EXCEPT ![c] = TRUE])
    BY <1>1, <1>2, <1>3, NoAnswer, NoResultType, EndStep
  <1>4. CASE Probe(c)
    <2>1. /\ pc' = [pc EXCEPT ![c] = IF live["glue"] = {} THEN "create" ELSE "add"]
          /\ UNCHANGED <<job, backend, audit, applied>> /\ pc[c] = "probe"
      BY <1>4 DEF Probe, Goto
    <2>2. job[c].op = "register"
      BY <2>1 DEF SchemaInv, CallInv, JobInv
    <2>3. \E label \in PCs \ {"idle", "done"} : label \in {"create", "add"} /\ pc' = [pc EXCEPT ![c] = label]
      BY <2>1 DEF PCs
    <2> QED BY <1>1, <1>2, <2>1, <2>2, <2>3, GotoStep
  <1>5. CASE pc[c] = "checkpoint" /\ Goto(c, "put") /\ UNCHANGED <<audit, applied>>
    <2>1. pc' = [pc EXCEPT ![c] = "put"] /\ UNCHANGED <<job, backend>> /\ "put" \in PCs \ {"idle", "done"}
      BY <1>5 DEF Goto, PCs
    <2>2. backend[c] \in Backends
      BY <1>5 DEF SchemaInv, CallInv, JobInv
    <2> QED BY <1>1, <1>2, <1>5, <2>1, <2>2, GotoStep
  <1>6. Fails(c) \/ PutLevel(c) => \/ End(c) /\ (\E r \in {"error", "success"} : Audit(c, r))
                                      /\ (applied' = applied \/ applied' = [applied EXCEPT ![c] = TRUE])
    BY DEF Fails, PutLevel
  <1>7. Checkpoint(c) => \/ End(c) /\ Audit(c, "error") /\ applied' = applied
                         \/ pc[c] = "checkpoint" /\ Goto(c, "put") /\ UNCHANGED <<audit, applied>>
    BY DEF Checkpoint
  <1> QED BY <1>3, <1>4, <1>5, <1>6, <1>7

\* produce and consume up to their records.
LEMMA MountStep ==
  ASSUME SchemaInv, NEW c \in Calls, Mount(c) \/ Client(c) \/ ConsumeEnds(c)
  PROVE  SchemaInv'
  <1>1. /\ pc[c] \in {"mount", "client", "decode"}
        /\ UNCHANGED <<regVars, topic, result, cacheVars, moved, applied, audit>>
    BY DEF Mount, Client, ConsumeEnds
  <1>2. /\ RegTypes' /\ TopicGrows /\ moved' \in [Calls -> BOOLEAN] /\ \A d \in Calls : TracksFor(d)
        /\ backend \in [Calls -> Backends \cup {None}]
    BY <1>1, Quiet DEF SchemaInv, CallTypes
  <1>3. CASE End(c)
    BY <1>1, <1>2, <1>3, NoAnswer, NoResultType, EndStep
  <1>4. CASE ~End(c)
    <2>1. /\ pc[c] # "decode" /\ UNCHANGED <<job, backend>>
          /\ \E label \in {"client", "encode", "decode"} : pc' = [pc EXCEPT ![c] = label]
      BY <1>4 DEF Mount, Client, ConsumeEnds, Goto
    <2>2. {"client", "encode", "decode"} \subseteq PCs \ {"idle", "done"}
      BY DEF PCs
    <2> QED BY <1>1, <1>2, <2>1, <2>2, GotoStep
  <1> QED BY <1>3, <1>4

\* A record added to the topic.
LEMMA Appended ==
  ASSUME RegTypes, NEW s \in Schemas, topic' = Append(topic, s), UNCHANGED <<versions, live>>
  PROVE  RegTypes' /\ TopicGrows
  <1>1. topic \in Seq(Schemas) /\ Len(topic) \in Nat
    BY DEF RegTypes
  <1>2. topic' \in Seq(Schemas) /\ Len(topic') = Len(topic) + 1 /\ \A i \in 1 .. Len(topic) : topic'[i] = topic[i]
    BY <1>1
  <1> QED BY <1>1, <1>2 DEF RegTypes, TopicGrows

\* encodeForProduce.
LEMMA EncodeStep ==
  ASSUME SchemaInv, NEW c \in Calls, Encode(c)
  PROVE  SchemaInv'
  <1>1. /\ pc[c] = "encode" /\ End(c) /\ UNCHANGED <<versions, live, result, cacheVars, moved, applied>>
        /\ \E r \in {"error", "success"} : Audit(c, r)
    BY DEF Encode, regVars
  <1>2. RegTypes /\ moved' \in [Calls -> BOOLEAN] /\ \A d \in Calls : TracksFor(d)
    BY <1>1 DEF SchemaInv, CallTypes, TracksFor
  <1>3. RegTypes' /\ TopicGrows
    <2>1. CASE UNCHANGED topic
      BY <1>1, <1>2, <2>1, TopicSame DEF RegTypes
    <2>2. CASE Has("confluent", job[c].version) /\ topic' = Append(topic, Text("confluent", job[c].version))
      <3>1. job[c] \in Job
        BY <1>1 DEF SchemaInv, CallInv, JobInv
      <3>2. job[c].version \in Nat
        BY <3>1, JobVersion
      <3>3. Text("confluent", job[c].version) \in Schemas
        BY <1>2, <2>2, <3>2, TextTypes DEF Backends
      <3> QED BY <1>1, <1>2, <2>2, <3>3, Appended
    <2> QED BY <2>1, <2>2 DEF Encode
  <1> QED BY <1>1, <1>2, <1>3, NoAnswer, NoResultType, EndStep

\* decode: the cache answers with the schema of the id, or of the session's
\* subject, and is filled with no other.
LEMMA DecodeStep ==
  ASSUME SchemaInv, NEW c \in Calls, Decode(c)
  PROVE  SchemaInv'
  <1>1. /\ pc[c] = "decode"
        /\ UNCHANGED <<versions, live, topic, job, pc, backend, result, moved, applied, audit>>
    BY DEF Decode, regVars
  <1>2. CallInv(c) /\ CallTypes /\ RegTypes /\ job[c] \in Job
    BY <1>1 DEF SchemaInv, CallInv, JobInv
  <1>3. PICK i \in DOMAIN topic : DecodeBySubject(c, i) \/ DecodeByID(c, i)
    BY DEF Decode
  <1>4. i \in 1 .. Len(topic) /\ i \in Nat /\ topic[i] \in Schemas
    BY <1>2, <1>3 DEF RegTypes
  <1>5. PICK s \in Schemas :
          /\ decoded' = [decoded EXCEPT ![c] = @ \cup {<<i, s>>}]
          /\ byID' = byID \/ byID' = [byID EXCEPT ![c][s] = s]
          /\ bySubject' = bySubject \/ (bySubject[c] = None /\ bySubject' = [bySubject EXCEPT ![c] = s])
          /\ ~job[c].bySubject => s = topic[i]
          /\ job[c].bySubject => s = bySubject'[c]
    <2>1. CASE DecodeByID(c, i)
      <3>1. byID[c][topic[i]] \in {None, topic[i]}
        BY <1>2, <1>4 DEF CallInv, CacheInv
      <3>2. /\ ~job[c].bySubject /\ decoded' = [decoded EXCEPT ![c] = @ \cup {<<i, topic[i]>>}]
            /\ byID' = byID \/ byID' = [byID EXCEPT ![c][topic[i]] = topic[i]]
            /\ bySubject' = bySubject
        BY <2>1, <3>1 DEF DecodeByID, DecodesWith, lookupByID, store
      <3> QED BY <1>4, <3>2
    <2>2. CASE DecodeBySubject(c, i)
      <3>1. CASE bySubject[c] # None
        <4>1. bySubject[c] \in Schemas
          BY <1>2, <3>1 DEF CallTypes
        <4>2. /\ job[c].bySubject /\ decoded' = [decoded EXCEPT ![c] = @ \cup {<<i, bySubject[c]>>}]
              /\ byID' = byID /\ bySubject' = bySubject
          BY <2>2, <3>1 DEF DecodeBySubject, DecodesWith, lookupBySubjectVersion
        <4> QED BY <4>1, <4>2
      <3>2. CASE bySubject[c] = None
        <4> DEFINE t == Text("confluent", job[c].version)
        <4>1. /\ job[c].bySubject /\ Has("confluent", job[c].version)
              /\ decoded' = [decoded EXCEPT ![c] = @ \cup {<<i, t>>}]
              /\ byID' = [byID EXCEPT ![c][t] = t] /\ bySubject' = [bySubject EXCEPT ![c] = t]
          BY <2>2, <3>2 DEF DecodeBySubject, DecodesWith, lookupBySubjectVersion, storeSubjectLookup
        <4>2. t \in Schemas
          BY <1>2, <4>1, JobVersion, TextTypes DEF Backends
        <4> HIDE DEF t
        <4>3. bySubject'[c] = t
          BY <1>2, <4>1 DEF CallTypes
        <4> QED BY <3>2, <4>1, <4>2, <4>3
      <3> QED BY <3>1, <3>2
    <2> QED BY <1>3, <2>1, <2>2
  <1>6. CallTypes'
    <2>1. byID' \in [Calls -> [Schemas -> Schemas \cup {None}]]
      <3>1. byID \in [Calls -> [Schemas -> Schemas \cup {None}]]
        BY <1>2 DEF CallTypes
      <3>2. [byID[c] EXCEPT ![s] = s] \in [Schemas -> Schemas \cup {None}]
        BY <3>1
      <3> QED BY <1>5, <3>1, <3>2
    <2>2. bySubject' \in [Calls -> Schemas \cup {None}]
      BY <1>2, <1>5 DEF CallTypes
    <2>3. decoded' \in [Calls -> SUBSET (Nat \X Schemas)]
      <3>1. <<i, s>> \in Nat \X Schemas
        BY <1>4
      <3>2. decoded[c] \cup {<<i, s>>} \in SUBSET (Nat \X Schemas)
        BY <1>2, <3>1 DEF CallTypes
      <3> QED BY <1>2, <1>5, <3>2 DEF CallTypes
    <2> QED BY <1>1, <1>2, <2>1, <2>2, <2>3 DEF CallTypes
  <1>7. /\ decoded'[c] = decoded[c] \cup {<<i, s>>}
        /\ \A d \in Calls \ {c} : /\ decoded'[d] = decoded[d] /\ byID'[d] = byID[d]
                                 /\ bySubject'[d] = bySubject[d]
    BY <1>2, <1>5 DEF CallTypes
  <1>8. CacheInv(c)'
    <2>1. \A t \in Schemas : byID'[c][t] \in {None, t}
      <3>1. \A t \in Schemas : byID[c][t] \in {None, t}
        BY <1>2 DEF CallInv, CacheInv
      <3>2. \A t \in Schemas : byID'[c][t] = byID[c][t] \/ byID'[c][t] = t
        BY <1>2, <1>5 DEF CallTypes
      <3> QED BY <3>1, <3>2
    <2>2. ASSUME NEW d \in decoded[c]
          PROVE  /\ d[1] \in 1 .. Len(topic)
                 /\ ~job[c].bySubject => d[2] = topic[d[1]]
                 /\ job[c].bySubject => d[2] = bySubject'[c]
      <3>1. /\ d[1] \in 1 .. Len(topic)
            /\ ~job[c].bySubject => d[2] = topic[d[1]]
            /\ job[c].bySubject => d[2] = bySubject[c]
        BY <1>2 DEF CallInv, CacheInv
      <3>2. d[2] \in Schemas
        BY <1>2 DEF CallTypes
      <3>3. job[c].bySubject => bySubject' = bySubject
        BY <1>5, <3>1, <3>2, SchemaAssumption
      <3> QED BY <3>1, <3>3
    <2>3. ASSUME NEW d \in decoded'[c]
          PROVE  /\ d[1] \in 1 .. Len(topic)
                 /\ ~job[c].bySubject => d[2] = topic[d[1]]
                 /\ job[c].bySubject => d[2] = bySubject'[c]
      <3>1. CASE d \in decoded[c]
        BY <2>2, <3>1
      <3>2. CASE d = <<i, s>>
        <4>1. d[1] = i /\ d[2] = s
          BY <3>2
        <4> QED BY <1>4, <1>5, <4>1
      <3> QED BY <1>7, <3>1, <3>2
    <2> QED BY <1>1, <2>1, <2>3 DEF CacheInv
  <1>9. OutcomeInv(c)' /\ JobInv(c)' /\ VersionInv(c)'
    BY <1>1, <1>2 DEF CallInv, OutcomeInv, JobInv, VersionInv, NoResult
  <1>10. RegTypes' /\ TopicGrows
    BY <1>1, <1>2, TopicSame DEF RegTypes
  <1>11. \A d \in Calls \ {c} : TracksFor(d) /\ Still(d)
    BY <1>1, <1>7 DEF TracksFor, Still
  <1> QED BY <1>6, <1>8, <1>9, <1>10, <1>11, ActorStep DEF CallInv

\* Other programs, and Connect and Disconnect.
LEMMA OthersStep ==
  ASSUME SchemaInv, OthersRegister \/ OthersProduce \/ Reconnect \/ UNCHANGED vars
  PROVE  SchemaInv'
  <1>1. UNCHANGED <<job, pc, backend, result, byID, bySubject, decoded, applied, audit>>
    BY DEF OthersRegister, OthersProduce, Reconnect, vars, cacheVars
  <1>2. RegTypes /\ CallTypes
    BY DEF SchemaInv
  <1>3. RegTypes' /\ TopicGrows /\ moved' \in [Calls -> BOOLEAN] /\ \A d \in Calls : TracksFor(d)
    <2>1. CASE OthersRegister
      <3>1. \A d \in Calls : moved[d] \in BOOLEAN /\ Moves(d) \in BOOLEAN
        BY <1>2 DEF CallTypes, Moves
      <3>2. RegTypes' /\ TopicGrows
        BY <2>1, Registered DEF OthersRegister, Backends
      <3> QED BY <2>1, <3>1, <3>2 DEF OthersRegister, Track, TracksFor
    <2>2. CASE OthersProduce
      <3>1. UNCHANGED <<versions, live, moved>> /\ topic' = Append(topic, Text("confluent", 0))
        BY <2>2 DEF OthersProduce, regVars
      <3>2. Text("confluent", 0) \in Schemas
        BY <1>2, <2>2, TextTypes DEF OthersProduce, Backends
      <3>3. RegTypes' /\ TopicGrows
        BY <1>2, <3>1, <3>2, Appended
      <3> QED BY <1>2, <3>1, <3>3 DEF CallTypes, TracksFor
    <2>3. CASE Reconnect \/ UNCHANGED vars
      BY <2>3, Quiet DEF Reconnect, vars
    <2> QED BY <2>1, <2>2, <2>3
  <1>4. CallTypes'
    BY <1>1, <1>2, <1>3 DEF CallTypes
  <1>5. \A d \in Calls : CallInv(d)'
    BY <1>1, <1>3, Frame
  <1> QED BY <1>3, <1>4, <1>5 DEF SchemaInv

\* The invariant is inductive.
LEMMA SchemaNext == SchemaInv /\ [Next]_vars => SchemaInv'
  <1> SUFFICES ASSUME SchemaInv, [Next]_vars PROVE SchemaInv'
    OBVIOUS
  <1>1. CASE \E c \in Calls : CallStep(c)
    <2>1. PICK c \in Calls : CallStep(c)
      BY <1>1
    <2> QED BY <2>1, StartStep, BackendStep, WriteStep, PostStep, ReadBackStep, GlueStep, RemoveStep,
               MountStep, EncodeStep, DecodeStep DEF CallStep
  <1>2. CASE OthersRegister \/ OthersProduce \/ Reconnect \/ UNCHANGED vars
    BY <1>2, OthersStep
  <1> QED BY <1>1, <1>2 DEF Next, Finished

\* The invariant holds for any number of calls, schemas and versions.
THEOREM SchemaInvariance == Spec => []SchemaInv
  BY SchemaInit, SchemaNext, PTL DEF Spec

\* registerSchema answers with a version that holds the schema, unless another
\* registration or a deletion came between its post and its read-back, or the
\* schema was an old one.
THEOREM SchemaVersion == Spec => []VersionHoldsSchema
  <1>1. SchemaInv => VersionHoldsSchema
    BY DEF SchemaInv, CallInv, VersionInv, VersionHoldsSchema
  <1> QED BY <1>1, SchemaInvariance, PTL

\* decode by id uses the schema the record was encoded with.
THEOREM SchemaDecoding == Spec => []DecodedAsWritten
  <1>1. SchemaInv => DecodedAsWritten
    BY DEF SchemaInv, CallInv, CacheInv, DecodedAsWritten
  <1> QED BY <1>1, SchemaInvariance, PTL

\* decode by subject uses one schema in a session.
THEOREM SchemaSession == Spec => []OneSchemaPerSession
  <1>1. SchemaInv => OneSchemaPerSession
    BY DEF SchemaInv, CallInv, CacheInv, OneSchemaPerSession
  <1> QED BY <1>1, SchemaInvariance, PTL

\* A change of a registry has one audit record, and not that of a refusal.
THEOREM SchemaAudit == Spec => []ChangesAudited
  <1>1. SchemaInv => ChangesAudited
    BY DEF SchemaInv, CallInv, OutcomeInv, ChangesAudited
  <1> QED BY <1>1, SchemaInvariance, PTL
=============================================================================
