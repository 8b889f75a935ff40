---------------------------- MODULE SchemaRegistry ----------------------------
(***************************************************************************)
(* The schema methods (schema.go, glue.go): selection of the registry,     *)
(* registration, deletion and compatibility level of a subject, encoding   *)
(* of produced records and decoding of consumed ones with a cache per      *)
(* session.  Calls run concurrently against registries that other calls,   *)
(* of this and of other programs, change between two requests.             *)
(*                                                                         *)
(* One subject.  A schema stands for its text and, in Confluent, for its   *)
(* id: the registry gives equal texts equal ids.  Version v is the v-th    *)
(* registration; version 0 means "latest" in a request and "unknown" in an *)
(* answer.                                                                 *)
(***************************************************************************)
EXTENDS Integers, Sequences, FiniteSets, FiniteSetsExt

CONSTANTS Calls,       \* running requests and streams
          Schemas,
          Profiles,    \* the configurations a connection can have
          MaxVersion,  \* bound: registrations of the subject
          MaxMsgs,     \* bound: records in the topic
          MaxConnects  \* bound: connect and disconnect

None == "none"
Backends == {"confluent", "glue"}
Levels   == {"NONE", "FULL"}
Profile  == [switch : {"", "none", "confluent", "aws_glue"}, sr : BOOLEAN, glue : BOOLEAN,
             readOnly : BOOLEAN, allowDelete : BOOLEAN]

\* No connection: for profileOf it is read-only.
NoProfile == [switch |-> "absent", sr |-> FALSE, glue |-> FALSE, readOnly |-> TRUE, allowDelete |-> FALSE]

ASSUME SchemaAssumption ==
  /\ IsFiniteSet(Calls) /\ None \notin Schemas
  /\ Profiles \subseteq Profile
  /\ MaxVersion \in Nat \ {0} /\ MaxMsgs \in Nat /\ MaxConnects \in Nat

Ops == {"register", "delete", "level", "produce", "consume"}
Writes == {"register", "delete", "level"}

\* The parameters of a call: the explicit registry, the schema to register, the
\* version to delete, to encode or to decode with (0: latest, or all), the
\* level, whether the record is decoded by subject, and whether the remaining
\* parameters pass validation.
Job == [op : Ops, registry : {"", "confluent", "glue", "other"}, schema : Schemas \cup {None}, version : 0 .. MaxVersion,
        level : Levels, bySubject : BOOLEAN, valid : BOOLEAN]

VARIABLES
  prof,      \* the connection's profile, NoProfile without a connection
  connects,
  versions,  \* versions[b]: schemas registered in backend b, in order
  live,      \* live[b]: versions that are not deleted
  level,     \* level[b]: compatibility of the subject
  topic,     \* records: the schema each was encoded with
  job,       \* job[c]: parameters of the call
  pc,
  backend,   \* backend[c]: the registry the call talks to
  result,    \* result[c]: [version, schema] as answered to a registration
  byID,      \* byID[c]: schemaMetaCache.byID of a session
  bySubject, \* bySubject[c]: schemaMetaCache.bySubjectVersion of its subject and version
  moved,     \* moved[c]: history: the latest version was not the registered one at some time since
  applied,   \* applied[c]: history: the call has changed a registry
  decoded,   \* decoded[c]: history: <<position, schema it was decoded with>>
  audit      \* audit[c]: results of audit records of the call

regVars  == <<versions, live, level>>
connVars == <<prof, connects>>
cacheVars == <<byID, bySubject, decoded>>
vars == <<connVars, regVars, topic, job, pc, backend, result, cacheVars, moved, applied, audit>>

NoJob == [op |-> None]
NoResult == [version |-> 0, schema |-> None]

Init ==
  /\ prof \in Profiles /\ connects = 0
  /\ versions = [b \in Backends |-> << >>]
  /\ live = [b \in Backends |-> {}]
  /\ level = [b \in Backends |-> "NONE"]
  /\ topic = << >>
  /\ job = [c \in Calls |-> NoJob]
  /\ pc = [c \in Calls |-> "idle"]
  /\ backend = [c \in Calls |-> None]
  /\ result = [c \in Calls |-> NoResult]
  /\ byID = [c \in Calls |-> [s \in Schemas |-> None]]
  /\ bySubject = [c \in Calls |-> None]
  /\ moved = [c \in Calls |-> FALSE]
  /\ applied = [c \in Calls |-> FALSE]
  /\ decoded = [c \in Calls |-> {}]
  /\ audit = [c \in Calls |-> << >>]

-----------------------------------------------------------------------------
\* The profile and the registry it selects.

srEnabled(p)   == p.switch = "confluent" \/ (p.switch = "" /\ p.sr)
glueEnabled(p) == p.switch = "aws_glue" \/ (p.switch = "" /\ p.glue)

schemaProviderConfigured(p) ==
  CASE srEnabled(p) /\ glueEnabled(p) -> "both"
    [] srEnabled(p)                   -> "confluent"
    [] glueEnabled(p)                 -> "glue"
    [] OTHER                          -> "none"

\* An explicit registry has to agree with the switch, except on a connection
\* without one; without an explicit registry two configured ones are ambiguous.
resolveSchemaProvider(p, registry) ==
  CASE registry = "other" -> "invalid"
    [] registry = "confluent" -> IF p.switch \in {"none", "aws_glue"} THEN "invalid" ELSE "confluent"
    [] registry = "glue" -> IF p.switch \in {"none", "confluent"} THEN "invalid" ELSE "glue"
    [] OTHER -> IF schemaProviderConfigured(p) = "both" THEN "invalid" ELSE schemaProviderConfigured(p)

\* newSchemaRegistryClient needs srUrl, newGlueClient a region and the calls a
\* registry name.
Usable(p, b) == IF b = "confluent" THEN p.sr ELSE p.glue

\* ensureWriteAllowed and ensureDeleteAllowed.
Allowed(op) == ~prof.readOnly /\ (op = "delete" => prof.allowDelete)

\* The backend a call gets, or None where schemaBackendFor fails.
schemaBackendFor(c) ==
  IF prof = NoProfile THEN None
  ELSE LET b == resolveSchemaProvider(prof, job[c].registry)
       IN IF b \in Backends /\ Usable(prof, b) THEN b ELSE None

-----------------------------------------------------------------------------
\* What the registries do (Confluent REST, AWS Glue).

Latest(b) == IF live[b] = {} THEN 0 ELSE Max(live[b])
LatestText(vs, lv) == IF lv = {} THEN None ELSE vs[Max(lv)]
Has(b, v) == IF v = 0 THEN live[b] # {} ELSE v \in live[b]
Text(b, v) == versions[b][IF v = 0 THEN Latest(b) ELSE v]

\* The version that holds a schema already, 0 if none.
HoldingIn(vs, lv, s) == LET hs == {v \in lv : vs[v] = s} IN IF hs = {} THEN 0 ELSE Max(hs)
Holding(b, s) == HoldingIn(versions[b], live[b], s)

\* A registration: equal text is not registered again.
Registers(b, s) ==
  \/ /\ Holding(b, s) # 0
     /\ UNCHANGED <<versions, live>>
  \/ /\ Holding(b, s) = 0 /\ Len(versions[b]) < MaxVersion
     /\ versions' = [versions EXCEPT ![b] = Append(@, s)]
     /\ live' = [live EXCEPT ![b] = @ \cup {Len(versions[b]) + 1}]

\* The latest version is no longer the one c has registered and is about to read.
Moves(c) == pc[c] = "readback" /\ LatestText(versions'["confluent"], live'["confluent"]) # job[c].schema

-----------------------------------------------------------------------------
\* Calls.

\* A finished call keeps what its answer was about.
Rest(j) == [j EXCEPT !.registry = "", !.version = 0, !.level = "NONE"]

End(c) ==
  /\ pc' = [pc EXCEPT ![c] = "done"]
  /\ job' = [job EXCEPT ![c] = Rest(@)]
  /\ backend' = [backend EXCEPT ![c] = None]

Goto(c, label) == pc' = [pc EXCEPT ![c] = label] /\ UNCHANGED <<job, backend>>
Audit(c, r)    == audit' = [audit EXCEPT ![c] = Append(@, r)]
Track == moved' = [c \in Calls |-> moved[c] \/ Moves(c)]

\* A write first passes its gate, which is audited; its parameters, which are
\* not, come after it.  A produce has the same gate; a consume has none.
Start(c) ==
  /\ pc[c] = "idle"
  /\ \E j \in Job :
       /\ (j.op = "register") = (j.schema # None)
       /\ j.op # "consume" => ~j.bySubject
       /\ j.op \notin {"register", "level"} => j.level = "NONE"
       /\ j.op \in {"register", "level"} => j.version = 0
       /\ ~j.valid => j.registry = ""
       /\ LET blocked == j.op # "consume" /\ ~Allowed(j.op)
              on == ~blocked /\ j.valid
          IN /\ job' = [job EXCEPT ![c] = IF on THEN j ELSE Rest(j)]
             /\ pc' = [pc EXCEPT ![c] = IF on THEN (IF j.op \in Writes THEN "backend" ELSE "mount") ELSE "done"]
             /\ audit' = IF blocked THEN [audit EXCEPT ![c] = Append(@, "blocked")] ELSE audit
  /\ UNCHANGED <<connVars, regVars, topic, backend, result, cacheVars, moved, applied>>

\* schemaBackendFor, with a lookup of its own.
Backend(c) ==
  /\ pc[c] = "backend"
  /\ LET b == schemaBackendFor(c)
     IN IF b = None THEN Audit(c, "error") /\ End(c)
        ELSE /\ pc' = [pc EXCEPT ![c] = CASE job[c].op = "register" -> IF b = "glue" THEN "probe" ELSE "post"
                                          [] job[c].op = "level"    -> IF b = "glue" THEN "checkpoint" ELSE "put"
                                          [] OTHER                  -> "remove"]
             /\ backend' = [backend EXCEPT ![c] = b]
             /\ UNCHANGED <<job, audit>>
  /\ UNCHANGED <<connVars, regVars, topic, result, cacheVars, moved, applied>>

\* Any request may fail, before or after the registry has applied it.
Fails(c) ==
  /\ pc[c] \in {"probe", "post", "create", "add", "checkpoint", "put", "remove"}
  /\ Audit(c, "error") /\ End(c)
  /\ UNCHANGED <<connVars, regVars, topic, result, cacheVars, moved, applied>>

\* registerSchema of the Confluent backend: post, then read the latest version
\* for its number; without an answer the version stays unknown.
Post(c) ==
  /\ pc[c] = "post"
  /\ Registers("confluent", job[c].schema)
  /\ applied' = [applied EXCEPT ![c] = TRUE]
  /\ \/ Goto(c, "readback") /\ UNCHANGED audit
     \/ Audit(c, "error") /\ End(c)
  /\ moved' = [d \in Calls |-> IF d = c THEN LatestText(versions'["confluent"], live'["confluent"]) # job[c].schema ELSE moved[d] \/ Moves(d)]
  /\ UNCHANGED <<connVars, level, topic, result, cacheVars>>

\* Mutant: the first version is read back.
ReadBackFirst(c) ==
  /\ pc[c] = "readback"
  /\ result' = [result EXCEPT ![c] = IF live["confluent"] = {} THEN NoResult
                                     ELSE [version |-> Min(live["confluent"]), schema |-> Text("confluent", Min(live["confluent"]))]]
  /\ Audit(c, "success") /\ End(c)
  /\ UNCHANGED <<connVars, regVars, topic, cacheVars, moved, applied>>

ReadBack(c) ==
  /\ pc[c] = "readback"
  /\ \/ /\ Has("confluent", 0)
        /\ result' = [result EXCEPT ![c] = [version |-> Latest("confluent"), schema |-> Text("confluent", 0)]]
     \/ UNCHANGED result
  /\ Audit(c, "success") /\ End(c)
  /\ UNCHANGED <<connVars, regVars, topic, cacheVars, moved, applied>>

\* registerSchema of the Glue backend: look whether the schema exists, then
\* create it or add a version.
Probe(c) ==
  /\ pc[c] = "probe"
  /\ Goto(c, IF live["glue"] = {} THEN "create" ELSE "add")
  /\ UNCHANGED <<connVars, regVars, topic, result, cacheVars, moved, applied, audit>>

GlueAnswers(c) ==
  /\ applied' = [applied EXCEPT ![c] = TRUE]
  /\ \/ /\ result' = [result EXCEPT ![c] = [version |-> HoldingIn(versions'["glue"], live'["glue"], job[c].schema), schema |-> job[c].schema]]
        /\ Audit(c, "success")
     \/ Audit(c, "error") /\ UNCHANGED result
  /\ End(c)
  /\ UNCHANGED <<connVars, topic, cacheVars, moved>>

\* CreateSchema fails when another call created it since the probe; the
\* requested level is that of a new schema only.
Create(c) ==
  /\ pc[c] = "create"
  /\ live["glue"] = {}
  /\ Registers("glue", job[c].schema)
  /\ level' = [level EXCEPT !["glue"] = job[c].level]
  /\ GlueAnswers(c)

\* RegisterSchemaVersion fails when the schema was deleted since.
AddVersion(c) ==
  /\ pc[c] = "add"
  /\ live["glue"] # {}
  /\ Registers("glue", job[c].schema)
  /\ UNCHANGED level
  /\ GlueAnswers(c)

\* setCompatibility.  Glue needs a version to check against, the latest unless
\* given, and the level in effect is read back (NONE if that fails).
Checkpoint(c) ==
  /\ pc[c] = "checkpoint"
  /\ IF Latest("glue") = 0 THEN Audit(c, "error") /\ End(c) ELSE Goto(c, "put") /\ UNCHANGED audit
  /\ UNCHANGED <<connVars, regVars, topic, result, cacheVars, moved, applied>>

\* Mutant: a change whose answer is lost is not audited.
PutLevelQuiet(c) ==
  /\ pc[c] = "put"
  /\ level' = [level EXCEPT ![backend[c]] = job[c].level]
  /\ applied' = [applied EXCEPT ![c] = TRUE]
  /\ (Audit(c, "success") \/ UNCHANGED audit)
  /\ End(c)
  /\ UNCHANGED <<connVars, versions, live, topic, result, cacheVars, moved>>

PutLevel(c) ==
  /\ pc[c] = "put"
  /\ backend[c] = "glue" => live["glue"] # {}
  /\ level' = [level EXCEPT ![backend[c]] = job[c].level]
  /\ applied' = [applied EXCEPT ![c] = TRUE]
  /\ \E r \in {"success", "error"} : Audit(c, r)
  /\ End(c)
  /\ UNCHANGED <<connVars, versions, live, topic, result, cacheVars, moved>>

\* deleteSchema: one version or all.  Glue starts to number anew after the
\* schema is gone.
Remove(c) ==
  /\ pc[c] = "remove"
  /\ LET b == backend[c]
         gone == IF job[c].version = 0 THEN live[b] ELSE live[b] \cap {job[c].version}
     IN /\ gone # {}
        /\ live' = [live EXCEPT ![b] = @ \ gone]
        /\ versions' = IF b = "glue" /\ job[c].version = 0 THEN [versions EXCEPT ![b] = << >>] ELSE versions
  /\ applied' = [applied EXCEPT ![c] = TRUE]
  /\ \E r \in {"success", "error"} : Audit(c, r)
  /\ End(c)
  /\ Track
  /\ UNCHANGED <<connVars, level, topic, result, cacheVars>>

\* Another program registers a schema or produces a record with the latest one.
OthersRegister ==
  /\ \E s \in Schemas : Registers("confluent", s)
  /\ Track
  /\ UNCHANGED <<connVars, level, topic, job, pc, backend, result, cacheVars, applied, audit>>

OthersProduce ==
  /\ Has("confluent", 0) /\ Len(topic) < MaxMsgs
  /\ topic' = Append(topic, Text("confluent", 0))
  /\ UNCHANGED <<connVars, regVars, job, pc, backend, result, cacheVars, moved, applied, audit>>

-----------------------------------------------------------------------------
\* produce and consume with a schema: only Confluent's format is supported, and
\* the client is made from the profile as it is after that check.

schemaMountSupported(c) == prof # NoProfile /\ resolveSchemaProvider(prof, job[c].registry) = "confluent"

Mount(c) ==
  /\ pc[c] = "mount"
  /\ IF schemaMountSupported(c) THEN Goto(c, "client") ELSE End(c)
  /\ UNCHANGED <<connVars, regVars, topic, result, cacheVars, moved, applied, audit>>

Client(c) ==
  /\ pc[c] = "client"
  /\ IF prof # NoProfile /\ Usable(prof, "confluent") THEN Goto(c, IF job[c].op = "produce" THEN "encode" ELSE "decode")
     ELSE End(c)
  /\ UNCHANGED <<connVars, regVars, topic, result, cacheVars, moved, applied, audit>>

\* encodeForProduce: the frame carries the id of the schema it was encoded with.
Encode(c) ==
  /\ pc[c] = "encode"
  /\ \/ /\ Has("confluent", job[c].version) /\ Len(topic) < MaxMsgs
        /\ topic' = Append(topic, Text("confluent", job[c].version))
        /\ Audit(c, "success")
     \/ Audit(c, "error") /\ UNCHANGED topic
  /\ End(c)
  /\ UNCHANGED <<connVars, regVars, result, cacheVars, moved, applied>>

\* The two lookups of the cache.
lookupByID(c, id) == byID[c][id]
lookupBySubjectVersion(c) == bySubject[c]

\* Mutant: the lookup stores the schema under its id alone.
storeSubjectLookupByID(c, s) == /\ byID' = [byID EXCEPT ![c][s] = s]
                                /\ UNCHANGED bySubject

\* Mutant: the schema is stored under the id of the record at hand.
storeUnderLast(c, s) == /\ byID' = [byID EXCEPT ![c] = [i \in Schemas |-> s]]
                        /\ UNCHANGED bySubject

store(c, s) == /\ byID' = [byID EXCEPT ![c][s] = s]
               /\ UNCHANGED bySubject

storeSubjectLookup(c, s) == /\ byID' = [byID EXCEPT ![c][s] = s]
                            /\ bySubject' = [bySubject EXCEPT ![c] = s]

DecodesWith(c, i, s) == decoded' = [decoded EXCEPT ![c] = @ \cup {<<i, s>>}]

\* A subject in the request decides over the id in the record.
DecodeBySubject(c, i) ==
  /\ job[c].bySubject
  /\ \/ /\ lookupBySubjectVersion(c) # None
        /\ DecodesWith(c, i, lookupBySubjectVersion(c))
        /\ UNCHANGED <<byID, bySubject>>
     \/ /\ lookupBySubjectVersion(c) = None
        /\ Has("confluent", job[c].version)
        /\ DecodesWith(c, i, Text("confluent", job[c].version))
        /\ storeSubjectLookup(c, Text("confluent", job[c].version))

\* An id stays resolvable after its subject is deleted.
DecodeByID(c, i) ==
  /\ ~job[c].bySubject
  /\ \/ /\ lookupByID(c, topic[i]) # None
        /\ DecodesWith(c, i, lookupByID(c, topic[i]))
        /\ UNCHANGED <<byID, bySubject>>
     \/ /\ lookupByID(c, topic[i]) = None
        /\ DecodesWith(c, i, topic[i])
        /\ store(c, topic[i])

\* A record is decoded, or is passed on undecoded after a failed request.
Decode(c) ==
  /\ pc[c] = "decode"
  /\ \E i \in DOMAIN topic :
       /\ \A d \in decoded[c] : d[1] # i
       /\ DecodeBySubject(c, i) \/ DecodeByID(c, i)
  /\ UNCHANGED <<connVars, regVars, topic, job, pc, backend, result, moved, applied, audit>>

ConsumeEnds(c) ==
  /\ pc[c] = "decode"
  /\ End(c)
  /\ UNCHANGED <<connVars, regVars, topic, result, cacheVars, moved, applied, audit>>

-----------------------------------------------------------------------------
\* Connect replaces the profile under the running calls, Disconnect removes it.
Reconnect ==
  /\ connects < MaxConnects
  /\ connects' = connects + 1
  /\ prof' \in Profiles \cup {NoProfile}
  /\ UNCHANGED <<regVars, topic, job, pc, backend, result, cacheVars, moved, applied, audit>>

Finished == (\A c \in Calls : pc[c] = "done") /\ UNCHANGED vars

CallStep(c) ==
  \/ Start(c) \/ Backend(c) \/ Fails(c) \/ Post(c) \/ ReadBack(c)
  \/ Probe(c) \/ Create(c) \/ AddVersion(c) \/ Checkpoint(c) \/ PutLevel(c) \/ Remove(c)
  \/ Mount(c) \/ Client(c) \/ Encode(c) \/ Decode(c) \/ ConsumeEnds(c)

Next == (\E c \in Calls : CallStep(c)) \/ OthersRegister \/ OthersProduce \/ Reconnect \/ Finished
Spec == Init /\ [][Next]_vars

-----------------------------------------------------------------------------
\* Properties.

\* registerSchema: the version answered for a registration holds the registered
\* schema.  In Confluent that needs the registered schema to be the latest from
\* the post to the read-back: an old schema registered again, or a registration
\* in between, is answered with another schema's version.
VersionHoldsSchema ==
  \A c \in Calls : result[c].version # 0 /\ ~moved[c] => result[c].schema = job[c].schema

\* decode without a subject: whatever happens to the registry during the session,
\* a record is decoded with the schema it was encoded with.
DecodedAsWritten ==
  \A c \in Calls : job[c].op = "consume" /\ ~job[c].bySubject => \A d \in decoded[c] : d[2] = topic[d[1]]

\* decode with a subject: a session decodes all its records with one schema,
\* although "latest" moves on while it runs.
OneSchemaPerSession ==
  \A c \in Calls : job[c].op = "consume" /\ job[c].bySubject =>
     \A d, e \in decoded[c] : d[2] = e[2]

\* A call that has changed a registry is audited once when it ends, with
\* "blocked" never: an answer that is lost is audited as an error.
ChangesAudited ==
  \A c \in Calls : pc[c] = "done" /\ applied[c] => Len(audit[c]) = 1 /\ audit[c][1] # "blocked"
=============================================================================
