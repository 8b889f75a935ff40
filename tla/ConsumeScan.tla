------------------------------ MODULE ConsumeScan ------------------------------
(***************************************************************************)
(* The inside of a one-shot consume or export (consumeMessages,            *)
(* messages.go): parameter checks, the position a client starts from, the  *)
(* scan loop with its limits, the commit, and what the caller gets.        *)
(*                                                                         *)
(* A caller makes one request after the other; it may feed the             *)
(* nextPartitionOffsets of an answer into its next request.  Meanwhile     *)
(* producers append to the partitions and old records are removed.  How    *)
(* concurrent requests share the pool is ConsumePool's subject; here the   *)
(* pool is the set of shapes for which an idle client is waiting.          *)
(*                                                                         *)
(* A record is <<partition, offset>>.  Whether it passes the filters       *)
(* depends on the record alone.  Its timestamp grows with its offset, so   *)
(* that a time is given here as the offset of the first record not older.  *)
(***************************************************************************)
EXTENDS Integers, FiniteSets, Sequences

CONSTANTS Partitions,   \* the topic's partitions
          MaxEnd,       \* bound: records ever written to a partition
          MaxLo,        \* bound: records removed from a partition
          Hits,         \* the records that pass the filters
          Requests,     \* the requests a caller makes
          MaxRequests,  \* bound: requests made one after the other
          DefaultLimit, \* consumeMessages: limit when none is given
          ScanFloor,    \* consumeMaxScanRecords: its floor ...
          ScanFactor,   \* ... and the records looked at per wanted one
          ExportLimit,  \* exportRecordLimit: its default ...
          ExportMax,    \* ... and its ceiling
          MaxBatch      \* consumeScanBatchSize: records per poll

Offsets == 0 .. MaxEnd
Records == Partitions \X (0 .. MaxEnd - 1)
Strategies == {"default", "earliest", "latest", "recent", "timestamp", "committed", "offset"}

\* The parameters of a request that matter here.  resume: partitionOffsets is
\* the nextPartitionOffsets of the previous answer.
Request == [export: BOOLEAN, strategy: Strategies, limit: Int, maxScan: Int, at: Int, commit: BOOLEAN,
            group: BOOLEAN, filter: BOOLEAN, parts: SUBSET Int, resume: BOOLEAN]

ASSUME ScanAssumption ==
  /\ IsFiniteSet(Partitions)
  /\ Partitions \subseteq Nat
  /\ MaxEnd \in Nat
  /\ MaxLo \in Nat
  /\ Hits \subseteq Records
  /\ Requests \subseteq Request
  /\ MaxRequests \in Nat
  /\ {DefaultLimit, ScanFloor, ScanFactor, ExportLimit, ExportMax, MaxBatch} \subseteq Nat \ {0}

VARIABLES
  lo, hi,     \* first and next offset of every partition, at the brokers
  group,      \* committed offsets of the consumer group
  pool,       \* shapes with an idle pooled client
  pc, req,    \* where the call stands, and its parameters
  offs,       \* its partitionOffsets
  pos,        \* position of its client in the partitions it reads
  from,       \* history: where those positions started
  seen,       \* history: the records scanned
  todo,       \* records of the last poll still to be looked at
  err,        \* the error of the last poll
  expired,    \* the scan window (timeoutMs) is over
  scanned, matched, msgs, next,
  answer,     \* what the last call returned
  served,     \* history: messages returned since the last request that did not resume
  calls       \* calls made

brokerVars == <<lo, hi, group>>
scanVars   == <<pos, from, seen, todo, err, expired, scanned, matched, msgs, next>>
callVars   == <<pc, req, offs, pool>>
vars       == <<brokerVars, scanVars, callVars, answer, served, calls>>

None   == << >>
NoPage == [ok |-> FALSE, why |-> "none"]
Least(m, n) == IF m <= n THEN m ELSE n
Most(m, n)  == IF m >= n THEN m ELSE n

-----------------------------------------------------------------------------
\* Parameters.

\* The wanted number of messages: Export turns a missing limit into its own
\* default and caps it.
Limit(r) ==
  IF r.export THEN Least(IF r.limit = 0 THEN ExportLimit ELSE r.limit, ExportMax)
  ELSE IF r.limit <= 0 THEN DefaultLimit ELSE r.limit

MaxScanOf(limit, maxScan) == IF maxScan > 0 THEN maxScan ELSE Most(limit * ScanFactor, ScanFloor)
MaxScan(r) == MaxScanOf(Limit(r), r.maxScan)

Commits(r) == r.commit /\ ~r.export

\* Partitions read directly, without the group: the ones named, or the ones
\* that partitionOffsets names.
Direct(r, o) == IF r.parts # {} THEN r.parts ELSE DOMAIN o

Exact(r, o) == o # None \/ r.strategy = "offset"

\* validateConsumeParams, normalizeConsumePartitions, buildConsumeOpts and
\* exportRecordLimit: every reason to refuse a request.
Valid(r, o) ==
  /\ r.export => r.limit >= 0
  /\ r.maxScan >= 0
  /\ Commits(r) => r.group /\ ~r.filter
  /\ \A p \in r.parts : p >= 0
  /\ r.strategy = "offset" => Direct(r, o) # {} /\ Direct(r, o) \subseteq DOMAIN o
  /\ r.strategy = "timestamp" /\ ~(Direct(r, o) # {} /\ Exact(r, o)) => r.at >= 0
  /\ r.strategy = "committed" /\ ~Exact(r, o) => r.group /\ Direct(r, o) = {}

\* consumeReusePolicy: what the strategy's name says, whatever the offsets.
Pools(r) == ~r.group /\ r.strategy \in {"default", "earliest", "latest"}

\* consumeClientSignature.
Shape(r, o) == <<r.strategy, Direct(r, o)>>

-----------------------------------------------------------------------------
\* Positions.

\* consumeOffset: the start a strategy stands for.
StrategyStart(r, p) ==
  CASE r.strategy = "latest"    -> hi[p]
    [] r.strategy = "recent"    -> Most(lo[p], hi[p] - Most(1, MaxScanOf(IF r.export THEN Limit(r) ELSE r.limit, r.maxScan)))
    [] r.strategy = "timestamp" -> Least(Most(lo[p], r.at), hi[p])
    [] OTHER                    -> lo[p]

\* ConsumeResetOffset: an offset that is not in the log is replaced by the
\* strategy's when the client reads the topic, by the start when it reads
\* partitions directly.
InLog(r, o, p, offset) ==
  IF lo[p] <= offset /\ offset <= hi[p] THEN offset
  ELSE IF Direct(r, o) # {} THEN lo[p] ELSE StrategyStart(r, p)

\* buildConsumeOpts: the start of a client made for the request.  A group
\* goes on from its committed offsets; "committed" reads nothing without one.
NewClientStart(r, o) ==
  IF Direct(r, o) # {}
  THEN [p \in Direct(r, o) \cap Partitions |->
          IF Exact(r, o) THEN IF p \in DOMAIN o THEN InLog(r, o, p, o[p]) ELSE lo[p]
          ELSE StrategyStart(r, p)]
  ELSE [p \in {q \in Partitions : r.strategy = "committed" => q \in DOMAIN group} |->
          IF r.group /\ p \in DOMAIN group THEN InLog(r, o, p, group[p]) ELSE StrategyStart(r, p)]

\* resetConsumeClientForReuse: a pooled client is set to the start or the end
\* of the partitions it reads.
ReusedStart(r, o) ==
  [p \in (IF Direct(r, o) # {} THEN Direct(r, o) \cap Partitions ELSE Partitions) |->
     IF r.strategy = "latest" THEN hi[p] ELSE lo[p]]

-----------------------------------------------------------------------------
Init ==
  /\ lo = [p \in Partitions |-> 0]
  /\ hi \in [Partitions -> Offsets]
  /\ group = None
  /\ pool = {}
  /\ pc = "idle"
  /\ req = CHOOSE r \in Requests : TRUE
  /\ offs = None
  /\ pos = None /\ from = None /\ seen = {} /\ todo = None /\ err = "none"
  /\ expired = FALSE
  /\ scanned = 0 /\ matched = 0 /\ msgs = << >> /\ next = None
  /\ answer = NoPage
  /\ served = {}
  /\ calls = 0

\* Producers and retention.
Append1 ==
  /\ \E p \in Partitions : hi[p] < MaxEnd /\ hi' = [hi EXCEPT ![p] = @ + 1]
  /\ UNCHANGED <<lo, group, scanVars, callVars, answer, served, calls>>

Truncate ==
  /\ \E p \in Partitions : lo[p] < hi[p] /\ lo[p] < MaxLo /\ lo' = [lo EXCEPT ![p] = @ + 1]
  /\ UNCHANGED <<hi, group, scanVars, callVars, answer, served, calls>>

\* A call ends with an answer; its local variables are gone.
Return(a) ==
  /\ answer' = a
  /\ served' = IF ~a.ok THEN served
               ELSE {a.msgs[i] : i \in DOMAIN a.msgs} \cup (IF offs # None THEN served ELSE {})
  /\ pc' = "idle"
  /\ pos' = None /\ from' = None /\ seen' = {} /\ todo' = None /\ err' = "none"
  /\ expired' = FALSE
  /\ scanned' = 0 /\ matched' = 0 /\ msgs' = << >> /\ next' = None

\* A request arrives; one that is not valid is refused before any client exists.
Call ==
  /\ pc = "idle"
  /\ calls < MaxRequests
  /\ \E r \in Requests :
       LET o == IF r.resume /\ answer.ok THEN answer.next ELSE None
       IN /\ req' = r
          /\ offs' = o
          /\ IF Valid(r, o) THEN pc' = "client" /\ answer' = NoPage
             ELSE pc' = "idle" /\ answer' = [ok |-> FALSE, why |-> "invalid"]
  /\ calls' = calls + 1
  /\ UNCHANGED <<brokerVars, pool, scanVars, served>>

\* Take the idle client of this shape and reset it ...
Reuse ==
  /\ pc = "client"
  /\ Pools(req)
  /\ Shape(req, offs) \in pool
  /\ pos' = ReusedStart(req, offs)
  /\ from' = pos'
  /\ pool' = pool \ {Shape(req, offs)}
  /\ pc' = "scan"
  /\ UNCHANGED <<brokerVars, req, offs, seen, todo, err, expired, scanned, matched, msgs, next, answer, served, calls>>

\* ... or make one, when there is none or its reset fails.  The Kafka client
\* refuses a group together with partitions.
NewClient ==
  /\ pc = "client"
  /\ req.group => Direct(req, offs) = {}
  /\ pos' = NewClientStart(req, offs)
  /\ from' = pos'
  /\ pool' = IF Pools(req) THEN pool \ {Shape(req, offs)} ELSE pool
  /\ pc' = "scan"
  /\ UNCHANGED <<brokerVars, req, offs, seen, todo, err, expired, scanned, matched, msgs, next, answer, served, calls>>

\* No client, or the cluster does not answer its Ping: the client is not kept.
NoClient ==
  /\ pc = "client"
  /\ Return([ok |-> FALSE, why |-> "unavailable"])
  /\ pool' = IF Pools(req) THEN pool \ {Shape(req, offs)} ELSE pool
  /\ UNCHANGED <<brokerVars, req, offs, calls>>

\* consumeCtx reaches its deadline.
TimeOut ==
  /\ pc \in {"scan", "iter", "commit"}
  /\ ~expired
  /\ expired' = TRUE
  /\ UNCHANGED <<brokerVars, callVars, pos, from, seen, todo, err, scanned, matched, msgs, next, answer, served, calls>>

-----------------------------------------------------------------------------
\* The scan loop.

Goes == scanned < MaxScan(req) /\ matched < Limit(req)

BatchSize(remaining) == IF remaining > 0 THEN Least(remaining, MaxBatch) ELSE 1

\* A partition is read from its position, as far as that is still in the log.
Here(p) == InLog(req, offs, p, pos[p])
Count(c) == LET sum[S \in SUBSET DOMAIN c] ==
                  IF S = {} THEN 0 ELSE LET p == CHOOSE p \in S : TRUE IN c[p] + sum[S \ {p}]
            IN sum[DOMAIN c]

\* PollRecords returns some of the records there are, an error, or both; with
\* neither it would go on waiting.
Poll ==
  /\ pc = "scan"
  /\ Goes
  /\ \E c \in [DOMAIN pos -> 0 .. MaxBatch], e \in {"none", "deadline", "fetch"} :
       /\ \A p \in DOMAIN pos : Here(p) + c[p] <= hi[p]
       /\ Count(c) <= BatchSize(MaxScan(req) - scanned)
       /\ e = "none" => Count(c) > 0
       /\ e = "deadline" => expired
       /\ todo' = c
       /\ err' = e
  /\ pos' = [p \in DOMAIN pos |-> Here(p)]
  /\ pc' = "iter"
  /\ UNCHANGED <<brokerVars, req, offs, pool, from, seen, expired, scanned, matched, msgs, next, answer, served, calls>>

\* Mutant: the offset of the record, not of the one after it.
NextOffsetLate(n, p, o) == [q \in DOMAIN n \cup {p} |-> IF q = p THEN IF p \in DOMAIN n THEN Most(n[p], o) ELSE o ELSE n[q]]

\* nextPartitionOffset.
NextOffset(n, p, o) ==
  [q \in DOMAIN n \cup {p} |-> IF q = p THEN IF p \in DOMAIN n THEN Most(n[p], o + 1) ELSE o + 1 ELSE n[q]]

\* recordMatches: a request without filters takes every record.
Matches(r) == r \in Hits \/ ~req.filter

\* Mutant: a match beyond the limit is not counted.
ScanRecordUncounted(p) ==
  LET r == <<p, pos[p]>>
      hit == Matches(r)
  IN /\ matched' = IF hit /\ Len(msgs) < Limit(req) THEN matched + 1 ELSE matched
     /\ msgs' = IF hit /\ Len(msgs) < Limit(req) THEN Append(msgs, r) ELSE msgs

\* A match is counted; it is kept while there is room.
ScanRecord(p) ==
  LET r == <<p, pos[p]>>
      hit == Matches(r)
  IN /\ matched' = IF hit THEN matched + 1 ELSE matched
     /\ msgs' = IF hit /\ Len(msgs) < Limit(req) THEN Append(msgs, r) ELSE msgs

\* One record of the batch, of any partition that has one left.
Iter ==
  /\ pc = "iter"
  /\ \E p \in DOMAIN todo :
       /\ todo[p] > 0
       /\ todo' = [todo EXCEPT ![p] = @ - 1]
       /\ pos' = [pos EXCEPT ![p] = @ + 1]
       /\ seen' = seen \cup {<<p, pos[p]>>}
       /\ next' = NextOffset(next, p, pos[p])
       /\ ScanRecord(p)
  /\ scanned' = scanned + 1
  /\ UNCHANGED <<brokerVars, callVars, from, err, expired, answer, served, calls>>

BatchDone == pc = "iter" /\ \A p \in DOMAIN todo : todo[p] = 0

\* Mutant: the loop takes the end of its window for an empty poll.
IterEndsExpired ==
  /\ BatchDone
  /\ err # "fetch"
  /\ pc' = "scan"
  /\ UNCHANGED <<brokerVars, scanVars, req, offs, pool, answer, served, calls>>

\* The batch is through: the loop goes on unless it failed or time is up.
IterEnds ==
  /\ BatchDone
  /\ err = "none"
  /\ ~expired
  /\ pc' = "scan"
  /\ UNCHANGED <<brokerVars, scanVars, req, offs, pool, answer, served, calls>>

\* Any other error discards what was read, and the client.
ScanFails ==
  /\ BatchDone
  /\ err = "fetch"
  /\ Return([ok |-> FALSE, why |-> "fetch"])
  /\ UNCHANGED <<brokerVars, req, offs, pool, calls>>

\* The loop is over: enough records, enough matches, or no time.
LoopOver ==
  \/ pc = "scan" /\ ~Goes
  \/ BatchDone /\ (err = "deadline" \/ (err = "none" /\ expired))

Page(timedOut) ==
  [ok |-> TRUE, req |-> req, from |-> from, seen |-> seen, msgs |-> msgs, scanned |-> scanned, matched |-> matched,
   limited |-> matched >= Limit(req), next |-> next,
   hasMore |-> matched >= Limit(req) \/ scanned >= MaxScan(req) \/ timedOut]

\* A healthy client goes back to the pool.
Keep == pool' = IF Pools(req) THEN pool \cup {Shape(req, offs)} ELSE pool

\* Without commit the call returns the page.
ScanReturns ==
  /\ LoopOver
  /\ ~Commits(req)
  /\ Return(Page(pc = "iter"))
  /\ Keep
  /\ UNCHANGED <<brokerVars, req, offs, calls>>

ToCommit ==
  /\ LoopOver
  /\ Commits(req)
  /\ pc' = "commit"
  /\ UNCHANGED <<brokerVars, scanVars, req, offs, pool, answer, served, calls>>

\* CommitUncommittedOffsets commits the position after the last polled record
\* of every partition, under the context of the scan.
Committed(g) == [p \in DOMAIN g \cup DOMAIN next |-> IF p \in DOMAIN next THEN next[p] ELSE g[p]]
InGroup == Direct(req, offs) = {}

\* The group's coordinator takes the offsets; its answer may be lost.
CommitApplies ==
  /\ pc = "commit"
  /\ InGroup
  /\ ~expired \/ next = None
  /\ group' = Committed(group)
  /\ \/ Return(Page(expired))
     \/ Return([ok |-> FALSE, why |-> "commit"])
  /\ UNCHANGED <<lo, hi, req, offs, pool, calls>>

\* Mutant: a failed commit is ignored.
CommitFailsQuietly ==
  /\ pc = "commit"
  /\ Return(Page(expired))
  /\ UNCHANGED <<brokerVars, req, offs, pool, calls>>

\* The commit fails, always so when time is up or the client has no group: the
\* records already read are not returned.
CommitFails ==
  /\ pc = "commit"
  /\ Return([ok |-> FALSE, why |-> "commit"])
  /\ UNCHANGED <<brokerVars, req, offs, pool, calls>>

\* No call is under way and the caller makes no more.
Done == pc = "idle" /\ calls = MaxRequests /\ UNCHANGED vars

ScanStep == Reuse \/ NewClient \/ NoClient \/ Poll \/ Iter \/ IterEnds \/ ScanFails \/ ScanReturns \/ ToCommit
            \/ CommitApplies \/ CommitFails
Next == Append1 \/ Truncate \/ Call \/ TimeOut \/ ScanStep \/ Done

\* The call runs on, and its deadline passes.
Spec == Init /\ [][Next]_vars /\ WF_vars(ScanStep) /\ WF_vars(TimeOut)

-----------------------------------------------------------------------------
\* Properties.

\* Pages read with strategy "offset" from the nextPartitionOffsets of the page
\* before never return a message twice, also when records are removed or
\* appended in between and calls fail.
ResumeNeverRepeats ==
  [][(pc # "idle" /\ pc' = "idle" /\ answer'.ok /\ req.strategy = "offset")
       => \A i \in DOMAIN answer'.msgs : answer'.msgs[i] \notin served]_vars

\* A call with commit=true that returns messages has moved the group past all
\* of them: a commit that did not happen is an error of the call.
CommitCoversPage ==
  [][(pc = "commit" /\ answer'.ok) => \A i \in DOMAIN msgs :
        msgs[i][1] \in DOMAIN group' /\ group'[msgs[i][1]] > msgs[i][2]]_vars

\* Every call ends: with its answer, or with an error once its window is over.
CallEnds == (pc # "idle") ~> (pc = "idle")

\* nextPartitionOffsets can be used to go on reading: a request that carries
\* partitionOffsets starts at them (a removed record aside).
ResumeStartsAtCursor ==
  (pc = "scan" /\ seen = {}) =>
     \A p \in DOMAIN offs \cap DOMAIN pos : from[p] >= offs[p]

\* A call's answer is its page; while the call runs there is none.
Pages == INSTANCE PagedRead WITH page <- IF pc = "idle" THEN answer ELSE NoPage,
                                 Wanted <- {Limit(r) : r \in Requests}

\* consumeMessages: a page is what an atomic read of the partitions would give,
\* although it is put together poll by poll while records come and go.
ReadsPages == Pages!Spec
=============================================================================
