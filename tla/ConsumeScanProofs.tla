--------------------------- MODULE ConsumeScanProofs ---------------------------
(***************************************************************************)
(* The one-shot consume, for every topic, request and interleaving with    *)
(* producers and retention: a page is an atomic read of a stretch of the   *)
(* partitions (ConsumeScan implements PagedRead), pages resumed from       *)
(* nextPartitionOffsets never repeat a message, and a commit that is       *)
(* reported covers the page.                                               *)
(***************************************************************************)
EXTENDS ConsumeScan, TLAPS, FiniteSetTheorems

Labels == {"idle", "client", "scan", "iter", "commit"}

\* The records among s that pass the filters of the request.
Hit(s) == IF req.filter THEN s \cap Hits ELSE s

LogInv ==
  /\ lo \in [Partitions -> Nat]
  /\ hi \in [Partitions -> Nat]
  /\ \A p \in Partitions : lo[p] <= hi[p]
  /\ \A p \in DOMAIN group : group[p] \in Nat

\* Offsets a page ended with: they were in the log, whose end only grows.
Cursor(n) ==
  /\ DOMAIN n \subseteq Partitions
  /\ \A p \in DOMAIN n : n[p] \in Nat /\ n[p] <= hi[p]

\* A call that is under way was accepted and has not answered; before it has a
\* client it has read nothing.
CallInv ==
  /\ pc \in Labels
  /\ pc # "idle" => req \in Requests /\ Valid(req, offs) /\ ~answer.ok
  /\ Cursor(offs)
  /\ answer.ok => Cursor(answer.next)
  /\ pc \in {"idle", "client"} =>
       pos = None /\ from = None /\ seen = {} /\ next = None /\ scanned = 0 /\ matched = 0 /\ msgs = << >>

\* The client stands between where it started and the end of the log, and what
\* is left of a poll lies before that end.
PosInv ==
  /\ DOMAIN pos \subseteq Partitions
  /\ DOMAIN from = DOMAIN pos
  /\ \A p \in DOMAIN pos : pos[p] \in Nat /\ from[p] \in Nat /\ from[p] <= pos[p] /\ pos[p] <= hi[p]
  /\ pc = "iter" => /\ DOMAIN todo = DOMAIN pos
                    /\ \A p \in DOMAIN pos : todo[p] \in Nat /\ pos[p] + todo[p] <= hi[p]

\* What was scanned lies between the start and the position, without a gap unless
\* the start has been removed from the log.
SeenInv ==
  /\ IsFiniteSet(seen)
  /\ seen \subseteq (DOMAIN pos) \X Nat
  /\ \A r \in seen : from[r[1]] <= r[2] /\ r[2] < pos[r[1]]
  /\ \A n \in DOMAIN pos : lo[n] <= from[n] => \A o \in from[n] .. pos[n] - 1 : <<n, o>> \in seen

\* nextPartitionOffsets is the offset after the last record scanned.
NextInv ==
  /\ DOMAIN next = {r[1] : r \in seen}
  /\ \A n \in DOMAIN next : /\ next[n] \in Nat
                            /\ <<n, next[n] - 1>> \in seen
                            /\ \A r \in seen : r[1] = n => r[2] < next[n]

\* The counters count sets, and the messages are some of the hits, each once, as
\* many as the limit allows.
CountInv ==
  /\ scanned = Cardinality(seen)
  /\ msgs \in Seq(Partitions \X Nat)
  /\ Pages!Kept(msgs) \subseteq seen
  /\ IsFiniteSet(Pages!Kept(msgs))
  /\ Len(msgs) = Cardinality(Pages!Kept(msgs))
  /\ pc # "idle" => /\ Pages!Kept(msgs) \subseteq Hit(seen)
                    /\ matched = Cardinality(Hit(seen))
                    /\ Len(msgs) = Least(matched, Limit(req))

ScanInv == LogInv /\ CallInv /\ PosInv /\ SeenInv /\ NextInv /\ CountInv

-----------------------------------------------------------------------------
\* Parameters and positions.

\* A request that is valid wants a natural number of messages.
LEMMA LimitNat ==
  ASSUME NEW r \in Requests, NEW o, Valid(r, o)
  PROVE  Limit(r) \in Nat
  <1>1. /\ r.export \in BOOLEAN /\ r.limit \in Int
        /\ DefaultLimit \in Nat /\ ExportLimit \in Nat /\ ExportMax \in Nat
    BY ScanAssumption DEF Request
  <1>2. r.export => r.limit >= 0
    BY DEF Valid
  <1> QED BY <1>1, <1>2 DEF Limit, Least

\* A strategy stands for a position in the log.
LEMMA StrategyStartInLog ==
  ASSUME LogInv, NEW r \in Requests, NEW p \in Partitions
  PROVE  StrategyStart(r, p) \in lo[p] .. hi[p]
  <1>1. lo[p] \in Nat /\ hi[p] \in Nat /\ lo[p] <= hi[p]
    BY DEF LogInv
  <1>2. r.at \in Int /\ r.limit \in Int /\ r.maxScan \in Int /\ r.export \in BOOLEAN
    BY ScanAssumption DEF Request
  <1> DEFINE n == IF r.export THEN Limit(r) ELSE r.limit
  <1>3. n \in Int
    <2>1. Limit(r) \in Int
      BY <1>2, ScanAssumption DEF Limit, Least
    <2> QED BY <1>2, <2>1
  <1>4. MaxScanOf(n, r.maxScan) \in Int
    <2> HIDE DEF n
    <2>1. n * ScanFactor \in Int
      BY <1>3, ScanAssumption
    <2> QED BY <1>2, <2>1, ScanAssumption DEF MaxScanOf, Most
  <1> DEFINE m == MaxScanOf(n, r.maxScan)
  <1>5. Most(lo[p], hi[p] - Most(1, m)) \in lo[p] .. hi[p]
    <2> HIDE DEF m
    <2> QED BY <1>1, <1>4 DEF Most, m
  <1>6. Least(Most(lo[p], r.at), hi[p]) \in lo[p] .. hi[p]
    BY <1>1, <1>2 DEF Least, Most
  <1>7. lo[p] \in lo[p] .. hi[p] /\ hi[p] \in lo[p] .. hi[p]
    BY <1>1
  <1> HIDE DEF m, n
  <1>8. CASE r.strategy = "latest"
    BY <1>7, <1>8 DEF StrategyStart
  <1>9. CASE r.strategy = "recent"
    <2>1. StrategyStart(r, p) = Most(lo[p], hi[p] - Most(1, m))
      BY <1>9 DEF StrategyStart, m, n
    <2> QED BY <1>5, <2>1
  <1>10. CASE r.strategy = "timestamp"
    BY <1>6, <1>10 DEF StrategyStart
  <1>11. CASE r.strategy \notin {"latest", "recent", "timestamp"}
    BY <1>7, <1>11 DEF StrategyStart
  <1> QED BY <1>8, <1>9, <1>10, <1>11

\* ConsumeResetOffset: an offset that has been removed is replaced by a later one,
\* and one that is in the log is kept.
LEMMA InLogForward ==
  ASSUME LogInv, NEW r \in Requests, NEW o, NEW p \in Partitions, NEW x \in Nat
  PROVE  /\ InLog(r, o, p, x) \in lo[p] .. hi[p]
         /\ x <= hi[p] => x <= InLog(r, o, p, x)
         /\ lo[p] <= x /\ x <= hi[p] => InLog(r, o, p, x) = x
  <1>1. lo[p] \in Nat /\ hi[p] \in Nat /\ lo[p] <= hi[p]
    BY DEF LogInv
  <1>2. StrategyStart(r, p) \in lo[p] .. hi[p]
    BY StrategyStartInLog
  <1> QED BY <1>1, <1>2 DEF InLog

\* Wherever a client starts.
Starts(f) ==
  /\ DOMAIN f \subseteq Partitions
  /\ \A p \in DOMAIN f : f[p] \in lo[p] .. hi[p]

\* A new client starts in the log; one that resumes starts at the offsets it was
\* given or after them.
LEMMA NewClientStarts ==
  ASSUME LogInv, NEW r \in Requests, NEW o, Cursor(o), Valid(r, o)
  PROVE  /\ Starts(NewClientStart(r, o))
         /\ r.strategy = "offset" => \A p \in DOMAIN NewClientStart(r, o) :
              p \in DOMAIN o /\ o[p] <= NewClientStart(r, o)[p]
  <1> DEFINE f == NewClientStart(r, o)
  <1>1. \A p \in Partitions : lo[p] \in Nat /\ hi[p] \in Nat /\ lo[p] <= hi[p]
    BY DEF LogInv
  <1>2. CASE Direct(r, o) # {}
    <2>1. f = [p \in Direct(r, o) \cap Partitions |->
                 IF Exact(r, o) THEN IF p \in DOMAIN o THEN InLog(r, o, p, o[p]) ELSE lo[p]
                 ELSE StrategyStart(r, p)]
      BY <1>2 DEF NewClientStart
    <2>2. ASSUME NEW p \in DOMAIN f
          PROVE  /\ p \in Partitions /\ f[p] \in lo[p] .. hi[p]
                 /\ r.strategy = "offset" => p \in DOMAIN o /\ o[p] <= f[p]
      <3>1. p \in Direct(r, o) /\ p \in Partitions
        BY <2>1
      <3>2. f[p] = IF Exact(r, o) THEN IF p \in DOMAIN o THEN InLog(r, o, p, o[p]) ELSE lo[p]
                   ELSE StrategyStart(r, p)
        BY <2>1, <3>1
      <3> HIDE DEF f
      <3>3. r.strategy = "offset" => Exact(r, o) /\ p \in DOMAIN o
        BY <3>1 DEF Exact, Valid
      <3>4. CASE Exact(r, o) /\ p \in DOMAIN o
        <4>1. o[p] \in Nat /\ o[p] <= hi[p]
          BY <3>4 DEF Cursor
        <4>2. f[p] = InLog(r, o, p, o[p])
          BY <3>2, <3>4
        <4> QED BY <3>1, <3>4, <4>1, <4>2, InLogForward
      <3>5. CASE ~(Exact(r, o) /\ p \in DOMAIN o)
        <4>1. lo[p] \in lo[p] .. hi[p] /\ StrategyStart(r, p) \in lo[p] .. hi[p]
          BY <1>1, <3>1, StrategyStartInLog
        <4> QED BY <3>1, <3>2, <3>3, <3>5, <4>1
      <3> QED BY <3>4, <3>5
    <2> HIDE DEF f
    <2>3. Starts(f) /\ (r.strategy = "offset" => \A p \in DOMAIN f : p \in DOMAIN o /\ o[p] <= f[p])
      BY <2>2 DEF Starts
    <2> QED BY <2>3 DEF f
  <1>3. CASE Direct(r, o) = {}
    <2> DEFINE P == {q \in Partitions : r.strategy = "committed" => q \in DOMAIN group}
    <2>1. f = [p \in P |-> IF r.group /\ p \in DOMAIN group THEN InLog(r, o, p, group[p])
                           ELSE StrategyStart(r, p)]
      BY <1>3 DEF NewClientStart
    <2>2. r.strategy # "offset"
      BY <1>3 DEF Valid
    <2>3. ASSUME NEW p \in DOMAIN f
          PROVE  p \in Partitions /\ f[p] \in lo[p] .. hi[p]
      <3>1. p \in Partitions /\ p \in P
        BY <2>1
      <3>2. f[p] = IF r.group /\ p \in DOMAIN group THEN InLog(r, o, p, group[p])
                   ELSE StrategyStart(r, p)
        BY <2>1, <3>1
      <3> HIDE DEF f
      <3>3. CASE r.group /\ p \in DOMAIN group
        <4>1. group[p] \in Nat
          BY <3>3 DEF LogInv
        <4>2. InLog(r, o, p, group[p]) \in lo[p] .. hi[p]
          BY <3>1, <4>1, InLogForward
        <4> QED BY <3>1, <3>2, <3>3, <4>2
      <3>4. CASE ~(r.group /\ p \in DOMAIN group)
        BY <3>1, <3>2, <3>4, StrategyStartInLog
      <3> QED BY <3>3, <3>4
    <2> HIDE DEF f
    <2>4. Starts(f)
      BY <2>3 DEF Starts
    <2> QED BY <2>2, <2>4 DEF f
  <1> QED BY <1>2, <1>3

\* A pooled client is set to the start or the end of the log; it is never one that
\* resumes with strategy "offset".
LEMMA ReusedStarts ==
  ASSUME LogInv, NEW r, NEW o
  PROVE  Starts(ReusedStart(r, o)) /\ (Pools(r) => r.strategy # "offset")
  <1>1. \A p \in Partitions : lo[p] \in Nat /\ hi[p] \in Nat /\ lo[p] <= hi[p]
    BY DEF LogInv
  <1>2. \A p \in Partitions : lo[p] \in lo[p] .. hi[p] /\ hi[p] \in lo[p] .. hi[p]
    BY <1>1
  <1> QED BY <1>2 DEF Starts, ReusedStart, Pools

-----------------------------------------------------------------------------
\* The call.

\* At the start no call is under way.
LEMMA ScanStart == Init => ScanInv
  <1> SUFFICES ASSUME Init PROVE ScanInv
    OBVIOUS
  <1>1. /\ pc = "idle" /\ offs = << >> /\ group = << >> /\ pos = << >> /\ from = << >> /\ next = << >>
        /\ seen = {} /\ scanned = 0 /\ matched = 0 /\ msgs = << >> /\ ~answer.ok
    BY DEF Init, None, NoPage
  <1>2. LogInv
    <2>1. lo = [p \in Partitions |-> 0] /\ hi \in [Partitions -> Offsets]
      BY DEF Init
    <2> QED BY <1>1, <2>1, ScanAssumption DEF LogInv, Offsets
  <1>3. CallInv /\ PosInv
    BY <1>1 DEF CallInv, PosInv, Cursor, Labels, None
  <1>4. IsFiniteSet({}) /\ Cardinality({}) = 0
    BY FS_EmptySet
  <1>5. SeenInv /\ NextInv
    BY <1>1, <1>4 DEF SeenInv, NextInv
  <1>6. CountInv
    <2>1. << >> \in Seq(Partitions \X Nat) /\ Len(<< >>) = 0 /\ Pages!Kept(<< >>) = {}
      BY DEF Pages!Kept
    <2> QED BY <1>1, <1>4, <2>1 DEF CountInv
  <1> QED BY <1>2, <1>3, <1>5, <1>6 DEF ScanInv

\* A step that changes nothing but what the invariant does not speak of.
LEMMA ScanSame ==
  ASSUME ScanInv,
         UNCHANGED <<brokerVars, req, offs, answer, pos, from, seen, scanned, matched, msgs, next>>,
         \/ UNCHANGED <<pc, todo>>
         \/ pc \in {"scan", "iter"} /\ pc' \in {"scan", "commit"}
  PROVE  ScanInv'
  <1>1. UNCHANGED <<lo, hi, group, req, offs, answer, pos, from, seen, scanned, matched, msgs, next>>
    BY DEF brokerVars
  <1>2. LogInv'
    BY <1>1 DEF ScanInv, LogInv
  <1>3. CallInv'
    BY <1>1 DEF ScanInv, CallInv, Labels, Cursor
  <1>4. PosInv'
    BY <1>1 DEF ScanInv, PosInv
  <1>5. SeenInv' /\ NextInv'
    BY <1>1 DEF ScanInv, SeenInv, NextInv
  <1>6. CountInv'
    BY <1>1 DEF ScanInv, CountInv, Hit
  <1> QED BY <1>2, <1>3, <1>4, <1>5, <1>6 DEF ScanInv

\* Producers and retention: both ends of the log only grow.
LEMMA ScanBroker ==
  ASSUME ScanInv, Append1 \/ Truncate
  PROVE  ScanInv'
  <1>1. UNCHANGED <<group, req, offs, pc, answer, pos, from, seen, todo, scanned, matched, msgs, next>>
    BY DEF Append1, Truncate, scanVars, callVars
  <1>2. LogInv
    BY DEF ScanInv
  <1>3. LogInv' /\ \A p \in Partitions : hi[p] <= hi'[p] /\ lo[p] <= lo'[p]
    <2>1. CASE Append1
      <3>1. PICK p \in Partitions : hi' = [hi EXCEPT ![p] = @ + 1]
        BY <2>1 DEF Append1
      <3>2. lo' = lo
        BY <2>1 DEF Append1
      <3> QED BY <1>1, <1>2, <3>1, <3>2 DEF LogInv
    <2>2. CASE Truncate
      <3>1. PICK p \in Partitions : lo[p] < hi[p] /\ lo' = [lo EXCEPT ![p] = @ + 1]
        BY <2>2 DEF Truncate
      <3>2. hi' = hi
        BY <2>2 DEF Truncate
      <3> QED BY <1>1, <1>2, <3>1, <3>2 DEF LogInv
    <2> QED BY <2>1, <2>2
  <1>4. \A p \in Partitions : lo[p] \in Nat /\ hi[p] \in Nat /\ lo'[p] \in Nat /\ hi'[p] \in Nat
    BY <1>2, <1>3 DEF LogInv
  <1>6. CallInv'
    <2>1. Cursor(offs) /\ (answer.ok => Cursor(answer.next))
      BY DEF ScanInv, CallInv
    <2>2. Cursor(offs)' /\ (answer'.ok => Cursor(answer.next)')
      BY <1>1, <1>3, <1>4, <2>1 DEF Cursor
    <2> QED BY <1>1, <2>2 DEF ScanInv, CallInv
  <1>7. PosInv'
    BY <1>1, <1>3, <1>4 DEF ScanInv, PosInv
  <1>8. SeenInv'
    <2>1. \A n \in DOMAIN pos : n \in Partitions /\ from[n] \in Nat
      BY DEF ScanInv, PosInv
    <2>2. \A n \in DOMAIN pos : lo'[n] <= from[n] => lo[n] <= from[n]
      BY <1>3, <1>4, <2>1
    <2> QED BY <1>1, <2>2 DEF ScanInv, SeenInv
  <1>9. NextInv' /\ CountInv'
    BY <1>1 DEF ScanInv, NextInv, CountInv, Hit
  <1> QED BY <1>3, <1>6, <1>7, <1>8, <1>9 DEF ScanInv

\* A request arrives.
LEMMA ScanCall ==
  ASSUME ScanInv, Call
  PROVE  ScanInv'
  <1>1. PICK r \in Requests :
          /\ req' = r
          /\ offs' = IF r.resume /\ answer.ok THEN answer.next ELSE None
          /\ IF Valid(r, offs') THEN pc' = "client" /\ answer' = NoPage
             ELSE pc' = "idle" /\ answer' = [ok |-> FALSE, why |-> "invalid"]
    BY DEF Call
  <1>2. /\ pc = "idle"
        /\ UNCHANGED <<lo, hi, group, pos, from, seen, scanned, matched, msgs, next>>
    BY DEF Call, brokerVars, scanVars
  <1>3. /\ pos = None /\ from = None /\ seen = {} /\ next = None
        /\ scanned = 0 /\ matched = 0 /\ msgs = << >>
    BY <1>2 DEF ScanInv, CallInv
  <1>4. ~answer'.ok /\ pc' \in {"idle", "client"} /\ (pc' # "idle" => Valid(r, offs'))
    BY <1>1 DEF NoPage
  <1>5. LogInv'
    BY <1>2 DEF ScanInv, LogInv
  <1>6. CallInv'
    <2>1. Cursor(None)
      BY DEF Cursor, None
    <2>2. Cursor(offs')
      BY <1>1, <2>1 DEF ScanInv, CallInv
    <2>3. Cursor(offs)'
      BY <1>2, <2>2 DEF Cursor
    <2> QED BY <1>1, <1>2, <1>3, <1>4, <2>3 DEF CallInv, Labels
  <1>7. PosInv' /\ SeenInv' /\ NextInv'
    BY <1>2, <1>4 DEF ScanInv, PosInv, SeenInv, NextInv
  <1>8. CountInv'
    <2>1. Hit(seen)' = {} /\ Cardinality({}) = 0 /\ Pages!Kept(msgs) = {}
      BY <1>2, <1>3, FS_EmptySet DEF Hit, Pages!Kept
    <2>2. pc' # "idle" => Limit(req') \in Nat
      BY <1>1, <1>4, LimitNat
    <2>3. /\ Pages!Kept(msgs') = {} /\ Len(msgs') = 0 /\ matched' = 0
          /\ pc' # "idle" => Least(matched', Limit(req')) = 0
      BY <1>2, <1>3, <2>1, <2>2 DEF Least
    <2>4. /\ scanned' = Cardinality(seen') /\ msgs' \in Seq(Partitions \X Nat)
          /\ Pages!Kept(msgs') \subseteq seen' /\ IsFiniteSet(Pages!Kept(msgs'))
          /\ Len(msgs') = Cardinality(Pages!Kept(msgs'))
      BY <1>2 DEF ScanInv, CountInv
    <2> QED BY <2>1, <2>3, <2>4 DEF CountInv
  <1> QED BY <1>5, <1>6, <1>7, <1>8 DEF ScanInv

\* The call has its client, which has read nothing.
LEMMA ScanBegins ==
  ASSUME ScanInv, Reuse \/ NewClient
  PROVE  ScanInv'
  <1>1. /\ pc = "client" /\ pc' = "scan" /\ from' = pos'
        /\ UNCHANGED <<lo, hi, group, req, offs, answer, seen, scanned, matched, msgs, next>>
    BY DEF Reuse, NewClient, brokerVars
  <1>2. /\ LogInv /\ req \in Requests /\ Valid(req, offs) /\ Cursor(offs)
        /\ seen = {} /\ next = None
    BY <1>1 DEF ScanInv, CallInv
  <1>3. Starts(pos')
    <2>1. CASE Reuse
      BY <1>2, <2>1, ReusedStarts DEF Reuse
    <2>2. CASE NewClient
      BY <1>2, <2>2, NewClientStarts DEF NewClient
    <2> QED BY <2>1, <2>2
  <1>4. LogInv' /\ CallInv'
    BY <1>1 DEF ScanInv, LogInv, CallInv, Labels, Cursor
  <1>5. PosInv'
    <2>1. \A p \in DOMAIN pos' : /\ p \in Partitions /\ lo[p] \in Nat /\ hi[p] \in Nat
                                 /\ pos'[p] \in lo[p] .. hi[p]
      BY <1>2, <1>3 DEF Starts, LogInv
    <2>2. \A p \in DOMAIN pos' : pos'[p] \in Nat /\ pos'[p] <= pos'[p] /\ pos'[p] <= hi[p]
      BY <2>1
    <2> QED BY <1>1, <2>1, <2>2 DEF PosInv
  <1>6. SeenInv'
    <2>1. \A n \in DOMAIN pos' : from'[n] .. pos'[n] - 1 = {}
      BY <1>1, <1>5 DEF PosInv
    <2>2. seen' = {} /\ IsFiniteSet(seen')
      BY <1>1, <1>2 DEF ScanInv, SeenInv
    <2> QED BY <2>1, <2>2 DEF SeenInv
  <1>7. NextInv' /\ CountInv'
    BY <1>1 DEF ScanInv, NextInv, CountInv, Hit
  <1> QED BY <1>4, <1>5, <1>6, <1>7 DEF ScanInv

\* A call ends: with an error, or with the offsets after what it read.
LEMMA ScanReturn ==
  ASSUME ScanInv, NEW a, Return(a), a.ok => Cursor(a.next), UNCHANGED <<lo, hi, offs>>,
         \A p \in DOMAIN group' : group'[p] \in Nat
  PROVE  ScanInv'
  <1>1. /\ answer' = a /\ pc' = "idle" /\ pos' = << >> /\ from' = << >> /\ seen' = {}
        /\ scanned' = 0 /\ matched' = 0 /\ msgs' = << >> /\ next' = << >>
    BY DEF Return, None
  <1>2. LogInv'
    BY DEF ScanInv, LogInv
  <1>3. CallInv'
    <2>1. Cursor(offs)' /\ (a.ok => Cursor(answer.next)')
      BY <1>1 DEF ScanInv, CallInv, Cursor
    <2> QED BY <1>1, <2>1 DEF CallInv, Labels, None
  <1>4. IsFiniteSet({}) /\ Cardinality({}) = 0
    BY FS_EmptySet
  <1>5. PosInv' /\ SeenInv' /\ NextInv'
    BY <1>1, <1>4 DEF PosInv, SeenInv, NextInv
  <1>6. CountInv'
    <2>1. << >> \in Seq(Partitions \X Nat) /\ Len(<< >>) = 0 /\ Pages!Kept(<< >>) = {}
      BY DEF Pages!Kept
    <2> QED BY <1>1, <1>4, <2>1 DEF CountInv
  <1> QED BY <1>2, <1>3, <1>5, <1>6 DEF ScanInv

\* A poll: the client goes on from its position, or from a later one when that has
\* been removed.
LEMMA ScanPoll ==
  ASSUME ScanInv, Poll
  PROVE  ScanInv'
  <1>1. /\ pc = "scan" /\ pc' = "iter" /\ pos' = [p \in DOMAIN pos |-> Here(p)]
        /\ UNCHANGED <<lo, hi, group, req, offs, answer, from, seen, scanned, matched, msgs, next>>
    BY DEF Poll, brokerVars
  <1>2. LogInv /\ PosInv /\ SeenInv /\ req \in Requests
    BY <1>1 DEF ScanInv, CallInv
  <1>3. ASSUME NEW p \in DOMAIN pos
        PROVE  /\ p \in Partitions /\ Here(p) \in Nat /\ pos[p] <= Here(p) /\ Here(p) <= hi[p]
               /\ lo[p] <= from[p] => Here(p) = pos[p]
               /\ from[p] \in Nat /\ pos[p] \in Nat /\ from[p] <= Here(p)
    <2>1. /\ p \in Partitions /\ pos[p] \in Nat /\ pos[p] <= hi[p] /\ from[p] \in Nat /\ from[p] <= pos[p]
          /\ lo[p] \in Nat /\ hi[p] \in Nat
      BY <1>2 DEF PosInv, LogInv
    <2>2. /\ Here(p) \in lo[p] .. hi[p] /\ pos[p] <= Here(p)
          /\ lo[p] <= pos[p] => Here(p) = pos[p]
      BY <1>2, <2>1, InLogForward DEF Here
    <2> QED BY <2>1, <2>2
  <1>4. PICK c \in [DOMAIN pos -> 0 .. MaxBatch] :
          todo' = c /\ \A p \in DOMAIN pos : Here(p) + c[p] <= hi[p]
    BY DEF Poll
  <1>5. DOMAIN pos' = DOMAIN pos /\ \A p \in DOMAIN pos : pos'[p] = Here(p)
    BY <1>1
  <1>6. LogInv' /\ CallInv'
    BY <1>1 DEF ScanInv, LogInv, CallInv, Labels, Cursor
  <1>7. PosInv'
    <2>1. DOMAIN todo' = DOMAIN pos /\ \A p \in DOMAIN pos : todo'[p] \in Nat /\ Here(p) + todo'[p] <= hi[p]
      BY <1>4, ScanAssumption
    <2> HIDE DEF Here
    <2> QED BY <1>1, <1>2, <1>3, <1>5, <2>1 DEF PosInv
  <1>8. SeenInv'
    <2>1. \A r \in seen : from[r[1]] <= r[2] /\ r[2] < pos'[r[1]]
      <3> SUFFICES ASSUME NEW r \in seen PROVE from[r[1]] <= r[2] /\ r[2] < pos'[r[1]]
        OBVIOUS
      <3>1. r[1] \in DOMAIN pos /\ r[2] \in Nat /\ from[r[1]] <= r[2] /\ r[2] < pos[r[1]]
        BY <1>2 DEF SeenInv
      <3> QED BY <1>3, <1>5, <3>1
    <2>2. ASSUME NEW n \in DOMAIN pos, lo[n] <= from[n], NEW o \in from[n] .. pos'[n] - 1
          PROVE  <<n, o>> \in seen
      <3>1. pos'[n] = pos[n]
        BY <1>3, <1>5, <2>2
      <3> QED BY <1>2, <2>2, <3>1 DEF SeenInv
    <2> QED BY <1>1, <1>2, <1>5, <2>1, <2>2 DEF SeenInv
  <1>9. NextInv' /\ CountInv'
    BY <1>1 DEF ScanInv, NextInv, CountInv, Hit
  <1> QED BY <1>6, <1>7, <1>8, <1>9 DEF ScanInv

\* The rules for a record that has not been seen before: the counters and the
\* messages still count sets.
LEMMA CountsOn ==
  ASSUME ScanInv, pc = "iter", NEW p \in DOMAIN pos, <<p, pos[p]>> \notin seen,
         seen' = seen \cup {<<p, pos[p]>>}, ScanRecord(p), scanned' = scanned + 1,
         UNCHANGED <<pc, req>>
  PROVE  CountInv'
  <1> DEFINE r == <<p, pos[p]>>
             room == Len(msgs) < Limit(req)
  <1>1. CountInv /\ SeenInv /\ PosInv /\ req \in Requests /\ Valid(req, offs) /\ Hits \subseteq Records
    BY ScanAssumption DEF ScanInv, CallInv
  <1>2. r \in Partitions \X Nat /\ IsFiniteSet(seen) /\ Limit(req) \in Nat /\ req.filter \in BOOLEAN
    BY <1>1, LimitNat, ScanAssumption DEF PosInv, SeenInv, Request
  <1>3. /\ msgs \in Seq(Partitions \X Nat) /\ Len(msgs) \in Nat
        /\ Pages!Kept(msgs) \subseteq Hit(seen) /\ IsFiniteSet(Pages!Kept(msgs))
        /\ Len(msgs) = Cardinality(Pages!Kept(msgs))
        /\ matched = Cardinality(Hit(seen)) /\ Len(msgs) = Least(matched, Limit(req))
    BY <1>1 DEF CountInv
  <1>4. Hit(seen) \subseteq seen /\ IsFiniteSet(Hit(seen)) /\ matched \in Nat
    <2>1. Hit(seen) \subseteq seen
      BY DEF Hit
    <2> QED BY <1>2, <1>3, <2>1, FS_Subset, FS_CardinalityType
  <1>5. scanned' = Cardinality(seen')
    BY <1>1, <1>2, FS_AddElement DEF CountInv
  <1>6. /\ matched' = IF Matches(r) THEN matched + 1 ELSE matched
        /\ msgs' = IF Matches(r) /\ room THEN Append(msgs, r) ELSE msgs
    BY DEF ScanRecord
  <1>7. Hit(seen)' = IF Matches(r) THEN Hit(seen) \cup {r} ELSE Hit(seen)
    BY <1>2 DEF Hit, Matches
  <1>8. matched' = Cardinality(Hit(seen)')
    <2>1. r \notin Hit(seen)
      BY <1>4
    <2> HIDE DEF r
    <2>2. CASE Matches(r)
      <3>1. Cardinality(Hit(seen) \cup {r}) = Cardinality(Hit(seen)) + 1
        BY <1>4, <2>1, FS_AddElement
      <3> QED BY <1>3, <1>6, <1>7, <2>2, <3>1
    <2>3. CASE ~Matches(r)
      BY <1>3, <1>6, <1>7, <2>3
    <2> QED BY <2>2, <2>3
  <1>9. CASE Matches(r) /\ room
    <2>1. msgs' = Append(msgs, r) /\ matched' = matched + 1
      BY <1>6, <1>9
    <2> HIDE DEF r
    <2>2. /\ msgs' \in Seq(Partitions \X Nat) /\ Len(msgs') = Len(msgs) + 1
          /\ DOMAIN msgs' = 1 .. Len(msgs) + 1 /\ msgs'[Len(msgs) + 1] = r
          /\ \A i \in 1 .. Len(msgs) : msgs'[i] = msgs[i]
      BY <1>2, <1>3, <2>1
    <2>3. Pages!Kept(msgs') = Pages!Kept(msgs) \cup {r}
      <3>1. \A i \in DOMAIN msgs' : msgs'[i] \in Pages!Kept(msgs) \cup {r}
        <4> SUFFICES ASSUME NEW i \in DOMAIN msgs' PROVE msgs'[i] \in Pages!Kept(msgs) \cup {r}
          OBVIOUS
        <4>1. CASE i = Len(msgs) + 1
          BY <2>2, <4>1
        <4>2. CASE i # Len(msgs) + 1
          <5>1. i \in 1 .. Len(msgs) /\ DOMAIN msgs = 1 .. Len(msgs)
            BY <1>3, <2>2, <4>2
          <5>2. i \in DOMAIN msgs /\ msgs'[i] = msgs[i]
            BY <2>2, <5>1
          <5> QED BY <5>2 DEF Pages!Kept
        <4> QED BY <4>1, <4>2
      <3>2. \A i \in DOMAIN msgs : msgs[i] \in Pages!Kept(msgs')
        <4> SUFFICES ASSUME NEW i \in DOMAIN msgs PROVE msgs[i] \in Pages!Kept(msgs')
          OBVIOUS
        <4>1. i \in DOMAIN msgs' /\ msgs'[i] = msgs[i]
          BY <1>3, <2>2
        <4> QED BY <4>1 DEF Pages!Kept
      <3>3. r \in Pages!Kept(msgs')
        <4>1. Len(msgs) + 1 \in DOMAIN msgs'
          BY <1>3, <2>2
        <4> QED BY <2>2, <4>1 DEF Pages!Kept
      <3>4. Pages!Kept(msgs') \subseteq Pages!Kept(msgs) \cup {r}
        BY <3>1 DEF Pages!Kept
      <3>5. Pages!Kept(msgs) \subseteq Pages!Kept(msgs')
        BY <3>2 DEF Pages!Kept
      <3> QED BY <3>3, <3>4, <3>5
    <2>4. r \notin Pages!Kept(msgs)
      BY <1>3, <1>4 DEF r
    <2>5. /\ IsFiniteSet(Pages!Kept(msgs')) /\ Len(msgs') = Cardinality(Pages!Kept(msgs'))
      <3>1. /\ Cardinality(Pages!Kept(msgs) \cup {r}) = Cardinality(Pages!Kept(msgs)) + 1
            /\ IsFiniteSet(Pages!Kept(msgs) \cup {r})
        BY <1>3, <2>4, FS_AddElement
      <3> QED BY <1>3, <2>2, <2>3, <3>1
    <2>6. Pages!Kept(msgs') \subseteq Hit(seen)' /\ Pages!Kept(msgs') \subseteq seen'
      BY <1>3, <1>4, <1>7, <1>9, <2>3 DEF r
    <2>7. Len(msgs') = Least(matched', Limit(req'))
      BY <1>2, <1>3, <1>4, <1>9, <2>1, <2>2 DEF Least
    <2> QED BY <1>5, <1>8, <2>2, <2>5, <2>6, <2>7 DEF CountInv
  <1>10. CASE ~(Matches(r) /\ room)
    <2>1. msgs' = msgs
      BY <1>6, <1>10
    <2>2. Pages!Kept(msgs) \subseteq Hit(seen)' /\ Pages!Kept(msgs) \subseteq seen'
      BY <1>3, <1>4, <1>7
    <2>3. Len(msgs) = Least(matched', Limit(req'))
      <3> HIDE DEF r
      <3> QED BY <1>2, <1>3, <1>4, <1>6, <1>10 DEF Least
    <2> QED BY <1>3, <1>5, <1>8, <2>1, <2>2, <2>3 DEF CountInv
  <1> QED BY <1>9, <1>10

\* One record of the batch.
LEMMA ScanIter ==
  ASSUME ScanInv, Iter
  PROVE  ScanInv'
  <1>1. PICK p \in DOMAIN todo :
          /\ todo[p] > 0 /\ todo' = [todo EXCEPT ![p] = @ - 1] /\ pos' = [pos EXCEPT ![p] = @ + 1]
          /\ seen' = seen \cup {<<p, pos[p]>>} /\ next' = NextOffset(next, p, pos[p])
          /\ ScanRecord(p)
    BY DEF Iter
  <1>2. /\ pc = "iter" /\ pc' = "iter" /\ scanned' = scanned + 1
        /\ UNCHANGED <<lo, hi, group, req, offs, answer, from>>
    BY DEF Iter, brokerVars, callVars
  <1>3. LogInv /\ PosInv /\ SeenInv /\ NextInv
    BY DEF ScanInv
  <1>4. /\ p \in DOMAIN pos /\ p \in Partitions /\ pos[p] \in Nat /\ from[p] \in Nat /\ from[p] <= pos[p]
        /\ todo[p] \in Nat /\ pos[p] + todo[p] <= hi[p] /\ hi[p] \in Nat /\ lo[p] \in Nat
        /\ DOMAIN todo = DOMAIN pos
    BY <1>1, <1>2, <1>3 DEF PosInv, LogInv
  <1> DEFINE r == <<p, pos[p]>>
  <1>5. r \notin seen
    BY <1>3, <1>4 DEF SeenInv
  <1>6. /\ DOMAIN pos' = DOMAIN pos /\ pos'[p] = pos[p] + 1
        /\ \A n \in DOMAIN pos \ {p} : pos'[n] = pos[n]
        /\ DOMAIN todo' = DOMAIN todo /\ todo'[p] = todo[p] - 1
        /\ \A n \in DOMAIN pos \ {p} : todo'[n] = todo[n]
    BY <1>1, <1>4
  <1>7. LogInv' /\ CallInv'
    BY <1>2 DEF ScanInv, LogInv, CallInv, Labels, Cursor
  <1>8. PosInv'
    <2>1. ASSUME NEW n \in DOMAIN pos
          PROVE  /\ pos'[n] \in Nat /\ from[n] \in Nat /\ from[n] <= pos'[n] /\ pos'[n] <= hi[n]
                 /\ todo'[n] \in Nat /\ pos'[n] + todo'[n] <= hi[n]
      <3>1. CASE n = p
        BY <1>1, <1>4, <1>6, <3>1
      <3>2. CASE n # p
        BY <1>2, <1>3, <1>6, <3>2 DEF PosInv
      <3> QED BY <3>1, <3>2
    <2> QED BY <1>2, <1>3, <1>4, <1>6, <2>1 DEF PosInv
  <1>9. SeenInv'
    <2>1. IsFiniteSet(seen')
      BY <1>1, <1>3, FS_AddElement DEF SeenInv
    <2>2. seen' \subseteq (DOMAIN pos') \X Nat
      BY <1>1, <1>3, <1>4, <1>6 DEF SeenInv
    <2>3. ASSUME NEW q \in seen'
          PROVE  from[q[1]] <= q[2] /\ q[2] < pos'[q[1]]
      <3>1. CASE q = r
        <4>1. q[1] = p /\ q[2] = pos[p]
          BY <3>1
        <4> QED BY <1>4, <1>6, <4>1
      <3>2. CASE q \in seen
        <4>1. q[1] \in DOMAIN pos /\ q[2] \in Nat /\ from[q[1]] <= q[2] /\ q[2] < pos[q[1]]
          BY <1>3, <3>2 DEF SeenInv
        <4>2. pos'[q[1]] = pos[q[1]] \/ (q[1] = p /\ pos'[q[1]] = pos[q[1]] + 1)
          BY <1>6, <4>1
        <4> QED BY <1>4, <4>1, <4>2
      <3> QED BY <1>1, <3>1, <3>2
    <2>4. ASSUME NEW n \in DOMAIN pos, lo[n] <= from[n], NEW o \in from[n] .. pos'[n] - 1
          PROVE  <<n, o>> \in seen'
      <3>1. CASE n = p /\ o = pos[p]
        BY <1>1, <3>1
      <3>2. CASE ~(n = p /\ o = pos[p])
        <4>1. o \in from[n] .. pos[n] - 1
          <5>1. CASE n = p
            BY <1>4, <1>6, <2>4, <3>2, <5>1
          <5>2. CASE n # p
            BY <1>6, <2>4, <5>2
          <5> QED BY <5>1, <5>2
        <4> QED BY <1>1, <1>3, <2>4, <4>1 DEF SeenInv
      <3> QED BY <3>1, <3>2
    <2> QED BY <1>2, <1>6, <2>1, <2>2, <2>3, <2>4 DEF SeenInv
  <1>10. NextInv'
    <2>1. DOMAIN next = {q[1] : q \in seen}
      BY <1>3 DEF NextInv
    <2>2. /\ DOMAIN next' = DOMAIN next \cup {p}
          /\ next'[p] = IF p \in DOMAIN next THEN Most(next[p], pos[p] + 1) ELSE pos[p] + 1
          /\ \A n \in DOMAIN next \ {p} : next'[n] = next[n]
      BY <1>1 DEF NextOffset
    <2>3. r \in seen' /\ r[1] = p /\ r[2] = pos[p]
      BY <1>1
    <2>4. DOMAIN next' = {q[1] : q \in seen'}
      <3>1. \A q \in seen' : q[1] \in DOMAIN next'
        BY <1>1, <2>1, <2>2, <2>3
      <3>2. ASSUME NEW n \in DOMAIN next' PROVE \E q \in seen' : q[1] = n
        BY <1>1, <2>1, <2>2, <2>3
      <3> QED BY <3>1, <3>2
    <2>5. \A q \in seen : q[1] = p => q[2] \in Nat /\ q[2] < pos[p]
      BY <1>3, <1>4 DEF SeenInv
    <2>6. next'[p] = pos[p] + 1
      <3>1. p \in DOMAIN next => next[p] \in Nat /\ next[p] - 1 < pos[p]
        <4> SUFFICES ASSUME p \in DOMAIN next PROVE next[p] \in Nat /\ next[p] - 1 < pos[p]
          OBVIOUS
        <4>1. next[p] \in Nat /\ <<p, next[p] - 1>> \in seen
          BY <1>3 DEF NextInv
        <4> QED BY <2>5, <4>1
      <3> QED BY <1>4, <2>2, <3>1 DEF Most
    <2>7. ASSUME NEW n \in DOMAIN next'
          PROVE  /\ next'[n] \in Nat /\ <<n, next'[n] - 1>> \in seen'
                 /\ \A q \in seen' : q[1] = n => q[2] < next'[n]
      <3>1. CASE n = p
        <4>1. next'[n] - 1 = pos[p] /\ next'[n] \in Nat
          BY <1>4, <2>6, <3>1
        <4>2. \A q \in seen' : q[1] = n => q[2] < next'[n]
          BY <1>1, <1>4, <2>3, <2>5, <2>6, <3>1
        <4> QED BY <2>3, <3>1, <4>1, <4>2
      <3>2. CASE n # p
        <4>1. n \in DOMAIN next /\ next'[n] = next[n]
          BY <2>2, <3>2
        <4>2. \A q \in seen' : q[1] = n => q \in seen
          BY <1>1, <2>3, <3>2
        <4> QED BY <1>1, <1>3, <4>1, <4>2 DEF NextInv
      <3> QED BY <3>1, <3>2
    <2> QED BY <2>4, <2>7 DEF NextInv
  <1>11. CountInv'
    BY <1>1, <1>2, <1>4, <1>5, CountsOn
  <1> QED BY <1>7, <1>8, <1>9, <1>10, <1>11 DEF ScanInv

\* The offsets after what was read are in the log.
LEMMA NextIsCursor ==
  ASSUME ScanInv
  PROVE  /\ Cursor(next)
         /\ \A n \in DOMAIN next : n \in DOMAIN pos /\ from[n] < next[n] /\ next[n] <= pos[n]
  <1> SUFFICES ASSUME NEW n \in DOMAIN next
               PROVE  /\ n \in DOMAIN pos /\ n \in Partitions /\ from[n] < next[n] /\ next[n] <= pos[n]
                      /\ next[n] \in Nat /\ next[n] <= hi[n]
    BY DEF Cursor
  <1>1. next[n] \in Nat /\ <<n, next[n] - 1>> \in seen
    BY DEF ScanInv, NextInv
  <1> DEFINE q == <<n, next[n] - 1>>
  <1>2. q \in seen /\ q[1] = n /\ q[2] = next[n] - 1
    BY <1>1
  <1>3. n \in DOMAIN pos /\ from[n] <= next[n] - 1 /\ next[n] - 1 < pos[n]
    <2> HIDE DEF q
    <2>1. q[1] \in DOMAIN pos /\ from[q[1]] <= q[2] /\ q[2] < pos[q[1]]
      BY <1>2 DEF ScanInv, SeenInv
    <2> QED BY <1>2, <2>1
  <1>4. n \in Partitions /\ pos[n] \in Nat /\ from[n] \in Nat /\ pos[n] <= hi[n] /\ hi[n] \in Nat
    BY <1>3 DEF ScanInv, PosInv, LogInv
  <1> QED BY <1>1, <1>3, <1>4

\* How a call ends: with an error or with its page, and a commit leaves offsets.
LEMMA Returns ==
  ASSUME ScanInv, NoClient \/ ScanFails \/ ScanReturns \/ CommitApplies \/ CommitFails
  PROVE  /\ pc # "idle" /\ UNCHANGED <<lo, hi, offs, req>>
         /\ \A p \in DOMAIN group' : group'[p] \in Nat
         /\ \E a : Return(a) /\ (a.ok => \E t : a = Page(t))
  <1>1. \A p \in DOMAIN group : group[p] \in Nat
    BY DEF ScanInv, LogInv
  <1>2. CASE NoClient \/ ScanFails \/ CommitFails
    <2>1. \E w : Return([ok |-> FALSE, why |-> w])
      BY <1>2 DEF NoClient, ScanFails, CommitFails
    <2>2. PICK w : Return([ok |-> FALSE, why |-> w])
      BY <2>1
    <2>3. ~[ok |-> FALSE, why |-> w].ok
      OBVIOUS
    <2>4. \E a : Return(a) /\ (a.ok => \E t : a = Page(t))
      <3> HIDE DEF Return
      <3> QED BY <2>2, <2>3
    <2> QED BY <1>1, <1>2, <2>4 DEF NoClient, ScanFails, CommitFails, BatchDone, brokerVars
  <1>3. CASE ScanReturns
    <2>1. Return(Page(pc = "iter"))
      BY <1>3 DEF ScanReturns
    <2>2. \E a : Return(a) /\ (a.ok => \E t : a = Page(t))
      <3> HIDE DEF Return, Page
      <3> QED BY <2>1
    <2> QED BY <1>1, <1>3, <2>2 DEF ScanReturns, LoopOver, BatchDone, brokerVars
  <1>4. CASE CommitApplies
    <2>1. Return(Page(expired)) \/ Return([ok |-> FALSE, why |-> "commit"])
      BY <1>4 DEF CommitApplies
    <2>2. ~[ok |-> FALSE, why |-> "commit"].ok
      OBVIOUS
    <2>3. \E a : Return(a) /\ (a.ok => \E t : a = Page(t))
      <3> HIDE DEF Return, Page
      <3> QED BY <2>1, <2>2
    <2>4. \A p \in DOMAIN group' : group'[p] \in Nat
      <3>1. group' = [p \in DOMAIN group \cup DOMAIN next |-> IF p \in DOMAIN next THEN next[p] ELSE group[p]]
        BY <1>4 DEF CommitApplies, Committed
      <3>2. \A p \in DOMAIN next : next[p] \in Nat
        BY DEF ScanInv, NextInv
      <3> QED BY <1>1, <3>1, <3>2
    <2> QED BY <1>4, <2>3, <2>4 DEF CommitApplies
  <1> QED BY <1>2, <1>3, <1>4

\* Every step of the call, of its clock and of the brokers.
LEMMA ScanInvStep ==
  ASSUME ScanInv, [Next]_vars
  PROVE  ScanInv'
  <1>1. CASE Append1 \/ Truncate
    BY <1>1, ScanBroker
  <1>2. CASE Call
    BY <1>2, ScanCall
  <1>3. CASE Reuse \/ NewClient
    BY <1>3, ScanBegins
  <1>4. CASE Poll
    BY <1>4, ScanPoll
  <1>5. CASE Iter
    BY <1>5, ScanIter
  <1>6. CASE IterEnds \/ ToCommit
    <2>1. /\ UNCHANGED <<brokerVars, scanVars, req, offs, answer>>
          /\ pc \in {"scan", "iter"} /\ pc' \in {"scan", "commit"}
      BY <1>6 DEF IterEnds, ToCommit, LoopOver, BatchDone
    <2>2. UNCHANGED <<brokerVars, req, offs, answer, pos, from, seen, scanned, matched, msgs, next>>
      BY <2>1 DEF scanVars
    <2> QED BY <2>1, <2>2, ScanSame
  <1>7. CASE TimeOut \/ Done \/ UNCHANGED vars
    <2>1. UNCHANGED <<brokerVars, req, offs, answer, pos, from, seen, scanned, matched, msgs, next, pc, todo>>
      BY <1>7 DEF TimeOut, Done, vars, callVars, scanVars
    <2> QED BY <2>1, ScanSame
  <1>8. CASE NoClient \/ ScanFails \/ ScanReturns \/ CommitApplies \/ CommitFails
    <2>1. PICK a : Return(a) /\ (a.ok => \E t : a = Page(t))
      BY <1>8, Returns
    <2>2. a.ok => Cursor(a.next)
      <3> SUFFICES ASSUME NEW t, a = Page(t) PROVE Cursor(a.next)
        BY <2>1
      <3>1. a.next = next
        BY DEF Page
      <3> QED BY <3>1, NextIsCursor
    <2> HIDE DEF Return
    <2> QED BY <1>8, <2>1, <2>2, Returns, ScanReturn
  <1> QED BY <1>1, <1>2, <1>3, <1>4, <1>5, <1>6, <1>7, <1>8 DEF Next, ScanStep

\* The inductive invariant of the call holds in every state.
THEOREM ScanInvariance == Spec => []ScanInv
  <1>1. Init => ScanInv
    BY ScanStart
  <1>2. ScanInv /\ [Next]_vars => ScanInv'
    BY ScanInvStep
  <1> QED BY <1>1, <1>2, PTL DEF Spec

-----------------------------------------------------------------------------
\* The page as an atomic read.

\* PagedRead counts as ConsumeScan does.
LEMMA SameCardinality == \A S : Pages!Cardinality(S) = Cardinality(S)
  BY DEF Cardinality, Pages!Cardinality

\* What the call has put together is a page of the partitions as they are now.
LEMMA PageIsPage ==
  ASSUME ScanInv, pc # "idle", NEW t
  PROVE  Pages!IsPage(Page(t))
  <1> DEFINE P == Page(t)
  <1>1. /\ P.seen = seen /\ P.next = next /\ P.from = from /\ P.msgs = msgs /\ P.req = req
        /\ P.scanned = scanned /\ P.matched = matched /\ P.limited = (matched >= Limit(req))
    BY DEF Page
  <1> HIDE DEF P
  <1>2. LogInv /\ PosInv /\ SeenInv /\ NextInv /\ CountInv /\ req \in Requests /\ Valid(req, offs)
    BY DEF ScanInv, CallInv
  <1>3. \A r \in seen : r[2] < hi[r[1]]
    <2> SUFFICES ASSUME NEW r \in seen PROVE r[2] < hi[r[1]]
      OBVIOUS
    <2>1. r[1] \in DOMAIN pos /\ r[2] \in Nat /\ r[2] < pos[r[1]]
      BY <1>2 DEF SeenInv
    <2>2. pos[r[1]] \in Nat /\ pos[r[1]] <= hi[r[1]] /\ hi[r[1]] \in Nat
      BY <1>2, <2>1 DEF PosInv, LogInv
    <2> QED BY <2>1, <2>2
  <1>4. DOMAIN next = {r[1] : r \in seen}
    BY <1>2 DEF NextInv
  <1>5. ASSUME NEW n \in DOMAIN next
        PROVE  next[n] \in Pages!NextOf(P, n) /\ \A o \in Pages!NextOf(P, n) : o <= next[n]
    <2>1. /\ next[n] \in Nat /\ <<n, next[n] - 1>> \in seen
          /\ \A r \in seen : r[1] = n => r[2] < next[n] /\ r[2] \in Nat
      BY <1>2 DEF NextInv, SeenInv
    <2> DEFINE S == {q \in seen : q[1] = n}
    <2>2. Pages!NextOf(P, n) = {r[2] + 1 : r \in S}
      BY <1>1 DEF Pages!NextOf
    <2>3. \A r \in S : r[2] + 1 <= next[n]
      BY <2>1
    <2>4. \E r \in S : next[n] = r[2] + 1
      <3> DEFINE q == <<n, next[n] - 1>>
      <3>1. q \in S /\ q[2] = next[n] - 1
        BY <2>1
      <3>2. next[n] = q[2] + 1
        BY <2>1, <3>1
      <3> QED BY <3>1, <3>2
    <2> HIDE DEF S
    <2> QED BY <2>2, <2>3, <2>4
  <1>6. Pages!Stretch(P)
    <2> SUFFICES ASSUME NEW n \in DOMAIN next, lo[n] <= from[n], NEW o \in from[n] .. next[n] - 1
                 PROVE  <<n, o>> \in seen
      BY <1>1 DEF Pages!Stretch
    <2>1. n \in DOMAIN pos /\ next[n] <= pos[n]
      BY NextIsCursor
    <2>2. o \in from[n] .. pos[n] - 1
      <3>1. from[n] \in Nat /\ pos[n] \in Nat /\ next[n] \in Nat
        BY <1>2, <2>1 DEF PosInv, NextInv
      <3> QED BY <2>1, <3>1
    <2> QED BY <1>2, <2>1, <2>2 DEF SeenInv
  <1>7. /\ scanned = Cardinality(seen) /\ matched = Cardinality(Hit(seen))
        /\ Pages!Kept(msgs) \subseteq Hit(seen)
        /\ Len(msgs) = Cardinality(Pages!Kept(msgs)) /\ Len(msgs) = Least(matched, Limit(req))
    BY <1>2 DEF CountInv
  <1>8. \E w \in {Limit(r) : r \in Requests} :
          P.limited = (matched >= w) /\ Len(msgs) = (IF P.limited THEN w ELSE matched)
    <2>1. Limit(req) \in {Limit(r) : r \in Requests}
      BY <1>2
    <2>2. Limit(req) \in Nat /\ matched \in Nat
      <3>1. IsFiniteSet(Hit(seen))
        <4>1. Hit(seen) \subseteq seen
          BY DEF Hit
        <4> QED BY <1>2, <4>1, FS_Subset DEF SeenInv
      <3> QED BY <1>2, <1>7, <3>1, LimitNat, FS_CardinalityType
    <2>3. Len(msgs) = IF matched >= Limit(req) THEN Limit(req) ELSE matched
      BY <1>7, <2>2 DEF Least
    <2>4. Len(msgs) = IF P.limited THEN Limit(req) ELSE matched
      BY <1>1, <2>3
    <2> QED BY <1>1, <2>1, <2>4
  <1>9. Hit(seen) = IF P.req.filter THEN P.seen \cap Hits ELSE P.seen
    BY <1>1 DEF Hit
  <1> DEFINE hits == IF P.req.filter THEN P.seen \cap Hits ELSE P.seen
  <1>10. /\ \A r \in P.seen : r[2] < hi[r[1]]
         /\ DOMAIN P.next = {r[1] : r \in P.seen}
         /\ \A n \in DOMAIN P.next : P.next[n] \in Pages!NextOf(P, n) /\ \A o \in Pages!NextOf(P, n) : o <= P.next[n]
    BY <1>1, <1>3, <1>4, <1>5
  <1>11. /\ P.scanned = Cardinality(P.seen) /\ P.matched = Cardinality(hits)
         /\ Pages!Kept(P.msgs) \subseteq hits
         /\ Len(P.msgs) = Cardinality(Pages!Kept(P.msgs))
    BY <1>1, <1>7, <1>9
  <1>12. \E w \in {Limit(r) : r \in Requests} :
           P.limited = (P.matched >= w) /\ Len(P.msgs) = (IF P.limited THEN w ELSE P.matched)
    BY <1>1, <1>8
  <1>13. /\ P.scanned = Pages!Cardinality(P.seen) /\ P.matched = Pages!Cardinality(hits)
         /\ Len(P.msgs) = Pages!Cardinality(Pages!Kept(P.msgs))
    BY <1>11, SameCardinality
  <1>14. Pages!IsPage(P)
    BY <1>6, <1>10, <1>11, <1>12, <1>13, Zenon DEF Pages!IsPage
  <1> QED BY <1>14 DEF P

\* What the caller has in hand: the answer, and no page while a call is under way.
shown == IF pc = "idle" THEN answer ELSE NoPage

\* Every step of the call, of its clock and of the brokers is a step of PagedRead:
\* the brokers' are its brokers', the one that answers is its answer, and all
\* others leave what is shown alone.
LEMMA PagesStep ==
  ASSUME ScanInv, [Next]_vars
  PROVE  [Pages!Next]_<<lo, hi, shown>>
  <1>1. CASE Append1 \/ Truncate
    <2>1. shown' = shown
      BY <1>1 DEF Append1, Truncate, callVars, shown
    <2>2. \E p \in Partitions :
            \/ hi[p] < MaxEnd /\ hi' = [hi EXCEPT ![p] = @ + 1] /\ UNCHANGED lo
            \/ lo[p] < hi[p] /\ lo' = [lo EXCEPT ![p] = @ + 1] /\ UNCHANGED hi
      <3>1. CASE Append1
        BY <3>1 DEF Append1
      <3>2. CASE Truncate
        BY <3>2 DEF Truncate
      <3> QED BY <1>1, <3>1, <3>2
    <2> QED BY <2>1, <2>2 DEF Pages!Next, Pages!Broker, shown
  <1>2. CASE ~(Append1 \/ Truncate)
    <2>1. SUFFICES UNCHANGED <<lo, hi>> /\ (shown' # shown /\ shown'.ok => Pages!IsPage(shown'))
      BY DEF Pages!Next, Pages!Answer, shown
    <2>2. CASE Call
      <3>1. UNCHANGED <<lo, hi>> /\ ~shown'.ok
        BY <2>2 DEF Call, brokerVars, shown, NoPage
      <3> QED BY <3>1
    <2>3. CASE Reuse \/ NewClient \/ Poll \/ Iter \/ IterEnds \/ ToCommit \/ TimeOut
      <3>1. UNCHANGED <<lo, hi>> /\ pc # "idle" /\ pc' # "idle"
        BY <2>3 DEF Reuse, NewClient, Poll, Iter, IterEnds, ToCommit, TimeOut, BatchDone, LoopOver,
                    brokerVars, callVars
      <3> QED BY <3>1 DEF shown
    <2>4. CASE Done \/ UNCHANGED vars
      BY <2>4 DEF Done, vars, brokerVars, callVars, shown
    <2>5. CASE NoClient \/ ScanFails \/ ScanReturns \/ CommitApplies \/ CommitFails
      <3>1. PICK a : Return(a) /\ (a.ok => \E t : a = Page(t))
        BY <2>5, Returns
      <3>2. UNCHANGED <<lo, hi>> /\ pc # "idle"
        BY <2>5, Returns
      <3>3. shown' = a
        BY <3>1 DEF Return, shown
      <3>4. a.ok => Pages!IsPage(a)
        <4> HIDE DEF Return
        <4> QED BY <3>1, <3>2, PageIsPage
      <3> QED BY <3>2, <3>3, <3>4
    <2> QED BY <1>2, <2>2, <2>3, <2>4, <2>5 DEF Next, ScanStep
  <1> QED BY <1>1, <1>2

\* consumeMessages implements PagedRead: although a page is put together poll by
\* poll while records come and go, the caller sees an atomic read.
THEOREM ScanReadsPages == Spec => ReadsPages
  <1>1. Init => Pages!Init
    <2> SUFFICES ASSUME Init PROVE Pages!Init
      OBVIOUS
    <2>1. pc = "idle" /\ ~answer.ok
      BY DEF Init, NoPage
    <2> QED BY <2>1 DEF Init, Offsets, Pages!Init
  <1>2. ScanInv /\ [Next]_vars => [Pages!Next]_<<lo, hi, IF pc = "idle" THEN answer ELSE NoPage>>
    BY PagesStep DEF shown
  <1> QED BY <1>1, <1>2, ScanInvariance, PTL DEF Spec, ReadsPages, Pages!Spec

-----------------------------------------------------------------------------
\* Commit.

\* A commit that is reported has moved the group past every message of the page.
LEMMA CommitCovers ==
  ASSUME ScanInv, [Next]_vars, pc = "commit", answer'.ok, NEW i \in DOMAIN msgs
  PROVE  msgs[i][1] \in DOMAIN group' /\ group'[msgs[i][1]] > msgs[i][2]
  <1>1. ~answer.ok
    BY DEF ScanInv, CallInv
  <1>2. CommitApplies
    <2>1. CASE CommitFails
      BY <2>1 DEF CommitFails, Return
    <2>2. CASE Append1 \/ Truncate \/ TimeOut \/ UNCHANGED vars
      BY <1>1, <2>2 DEF Append1, Truncate, TimeOut, vars
    <2> QED BY <2>1, <2>2 DEF Next, ScanStep, Call, Done, Reuse, NewClient, NoClient, Poll, Iter, IterEnds,
                              ScanFails, ScanReturns, ToCommit, LoopOver, BatchDone
  <1>3. group' = [p \in DOMAIN group \cup DOMAIN next |-> IF p \in DOMAIN next THEN next[p] ELSE group[p]]
    BY <1>2 DEF CommitApplies, Committed
  <1>4. msgs[i] \in seen
    BY DEF ScanInv, CountInv, Pages!Kept
  <1>5. /\ msgs[i][1] \in DOMAIN next /\ next[msgs[i][1]] \in Nat /\ msgs[i][2] \in Nat
        /\ msgs[i][2] < next[msgs[i][1]]
    BY <1>4 DEF ScanInv, NextInv, SeenInv
  <1> QED BY <1>3, <1>5

\* commit=true: a page is returned only when the group stands after all of it.
THEOREM ScanCommit == Spec => CommitCoversPage
  <1>1. ScanInv /\ [Next]_vars => [(pc = "commit" /\ answer'.ok) => \A i \in DOMAIN msgs :
          msgs[i][1] \in DOMAIN group' /\ group'[msgs[i][1]] > msgs[i][2]]_vars
    BY CommitCovers
  <1> QED BY <1>1, ScanInvariance, PTL DEF Spec, CommitCoversPage

-----------------------------------------------------------------------------
\* Resumed pages.

\* Callers that use nextPartitionOffsets do so with strategy "offset".
ResumesExactly == \A r \in Requests : r.resume => r.strategy = "offset"

\* What was served lies before the offsets a page is resumed from, and so before
\* everything the resumed call reads.
ResumeInv ==
  /\ served \subseteq Partitions \X Nat
  /\ answer.ok => \A r \in served : r[1] \in DOMAIN answer.next => r[2] < answer.next[r[1]]
  /\ pc # "idle" /\ offs # None =>
       /\ req.strategy = "offset"
       /\ \A r \in served : r[1] \in DOMAIN offs => r[2] < offs[r[1]]
  /\ pc # "idle" /\ req.strategy = "offset" =>
       \A p \in DOMAIN pos : p \in DOMAIN offs /\ offs[p] <= from[p]

\* Nothing has been served at the start.
LEMMA ResumeStart == Init => ResumeInv
  BY DEF Init, ResumeInv, NoPage

\* A step within a call, or of the brokers: what is read lies where it did.
LEMMA ResumeSame ==
  ASSUME ResumeInv, UNCHANGED <<req, offs, from, answer, served>>, DOMAIN pos' = DOMAIN pos,
         pc' # "idle" => pc # "idle"
  PROVE  ResumeInv'
  BY DEF ResumeInv

\* The call is given a client: with strategy "offset" never a pooled one.
LEMMA ResumeBegins ==
  ASSUME ScanInv, ResumeInv, Reuse \/ NewClient
  PROVE  ResumeInv'
  <1>1. /\ pc = "client" /\ from' = pos' /\ UNCHANGED <<req, offs, answer, served>>
    BY DEF Reuse, NewClient
  <1>2. LogInv /\ req \in Requests /\ Cursor(offs) /\ Valid(req, offs)
    BY <1>1 DEF ScanInv, CallInv
  <1>3. req.strategy = "offset" => \A p \in DOMAIN pos' : p \in DOMAIN offs /\ offs[p] <= from'[p]
    <2>1. CASE Reuse
      BY <1>2, <2>1, ReusedStarts DEF Reuse
    <2>2. CASE NewClient
      BY <1>1, <1>2, <2>2, NewClientStarts DEF NewClient
    <2> QED BY <2>1, <2>2
  <1> QED BY <1>1, <1>3 DEF ResumeInv

\* What a call with strategy "offset" has read comes after all that was served
\* before it.
LEMMA ResumeReadsOn ==
  ASSUME ScanInv, ResumeInv, pc # "idle", offs # None, NEW r \in served
  PROVE  /\ r \notin seen
         /\ r[1] \in DOMAIN next => r[2] < next[r[1]]
  <1>1. /\ \A p \in DOMAIN pos : p \in DOMAIN offs /\ offs[p] <= from[p]
        /\ r[1] \in DOMAIN offs => r[2] < offs[r[1]]
    BY DEF ResumeInv
  <1>2. r[2] \in Nat /\ \A p \in DOMAIN offs : offs[p] \in Nat
    BY DEF ResumeInv, ScanInv, CallInv, Cursor
  <1>3. \A p \in DOMAIN pos : from[p] \in Nat
    BY DEF ScanInv, PosInv
  <1>4. r \in seen => r[1] \in DOMAIN pos /\ from[r[1]] <= r[2]
    BY DEF ScanInv, SeenInv
  <1>5. r[1] \in DOMAIN next => r[1] \in DOMAIN pos /\ from[r[1]] < next[r[1]] /\ next[r[1]] \in Nat
    BY NextIsCursor DEF Cursor
  <1> QED BY <1>1, <1>2, <1>3, <1>4, <1>5

\* A call ends: what it returns lies before the offsets it returns.
LEMMA ResumeReturn ==
  ASSUME ScanInv, ResumeInv, pc # "idle", UNCHANGED offs, NEW a, Return(a),
         a.ok => \E t : a = Page(t)
  PROVE  ResumeInv'
  <1>1. /\ answer' = a /\ pc' = "idle"
        /\ served' = IF ~a.ok THEN served
                     ELSE {a.msgs[i] : i \in DOMAIN a.msgs} \cup (IF offs # None THEN served ELSE {})
    BY DEF Return
  <1>2. CASE ~a.ok
    BY <1>1, <1>2 DEF ResumeInv
  <1>3. CASE a.ok
    <2>1. PICK t : a = Page(t)
      BY <1>3
    <2>2. a.msgs = msgs /\ a.next = next
      BY <2>1 DEF Page
    <2>3. served' = {msgs[i] : i \in DOMAIN msgs} \cup (IF offs # None THEN served ELSE {})
      BY <1>1, <1>3, <2>2
    <2>4. ASSUME NEW i \in DOMAIN msgs
          PROVE  /\ msgs[i] \in Partitions \X Nat
                 /\ msgs[i][1] \in DOMAIN next => msgs[i][2] < next[msgs[i][1]]
      <3>1. msgs[i] \in seen
        BY DEF ScanInv, CountInv, Pages!Kept
      <3> QED BY <3>1 DEF ScanInv, NextInv, SeenInv, PosInv
    <2>5. ASSUME NEW r \in served'
          PROVE  r \in Partitions \X Nat /\ (r[1] \in DOMAIN next => r[2] < next[r[1]])
      <3>1. CASE r \in {msgs[i] : i \in DOMAIN msgs}
        BY <2>4, <3>1
      <3>2. CASE offs # None /\ r \in served
        BY <3>2, ResumeReadsOn DEF ResumeInv
      <3> QED BY <2>3, <3>1, <3>2
    <2> QED BY <1>1, <2>2, <2>5 DEF ResumeInv
  <1> QED BY <1>2, <1>3

\* A request arrives; it resumes only from a page, and with strategy "offset".
LEMMA ResumeCall ==
  ASSUME ResumesExactly, ScanInv, ResumeInv, Call
  PROVE  ResumeInv'
  <1>1. PICK r \in Requests :
          /\ req' = r
          /\ offs' = IF r.resume /\ answer.ok THEN answer.next ELSE None
          /\ IF Valid(r, offs') THEN pc' = "client" /\ answer' = NoPage
             ELSE pc' = "idle" /\ answer' = [ok |-> FALSE, why |-> "invalid"]
    BY DEF Call
  <1>2. pc = "idle" /\ UNCHANGED <<pos, served>>
    BY DEF Call, scanVars
  <1>3. ~answer'.ok /\ pos' = << >>
    BY <1>1, <1>2 DEF NoPage, ScanInv, CallInv, None
  <1>4. offs' # None => /\ req'.strategy = "offset"
                        /\ \A q \in served : q[1] \in DOMAIN offs' => q[2] < offs'[q[1]]
    BY <1>1 DEF ResumesExactly, ResumeInv
  <1>5. DOMAIN pos' = {}
    BY <1>3
  <1> QED BY <1>2, <1>3, <1>4, <1>5 DEF ResumeInv

\* Every step.
LEMMA ResumeStep ==
  ASSUME ResumesExactly, ScanInv, ResumeInv, [Next]_vars
  PROVE  ResumeInv'
  <1>1. CASE Call
    BY <1>1, ResumeCall
  <1>2. CASE Reuse \/ NewClient
    BY <1>2, ResumeBegins
  <1>3. CASE NoClient \/ ScanFails \/ ScanReturns \/ CommitApplies \/ CommitFails
    <2>1. PICK a : Return(a) /\ (a.ok => \E t : a = Page(t))
      BY <1>3, Returns
    <2> HIDE DEF Return
    <2> QED BY <1>3, <2>1, Returns, ResumeReturn
  <1>4. CASE Append1 \/ Truncate \/ TimeOut \/ IterEnds \/ ToCommit \/ Done \/ UNCHANGED vars
    <2>1. UNCHANGED <<req, offs, from, answer, served, pos>> /\ (pc' # "idle" => pc # "idle")
      BY <1>4 DEF Append1, Truncate, TimeOut, IterEnds, ToCommit, Done, BatchDone, LoopOver,
                  vars, scanVars, callVars
    <2> QED BY <2>1, ResumeSame
  <1>5. CASE Poll
    <2>1. UNCHANGED <<req, offs, from, answer, served>> /\ pc = "scan" /\ DOMAIN pos' = DOMAIN pos
      BY <1>5 DEF Poll
    <2> QED BY <2>1, ResumeSame
  <1>6. CASE Iter
    <2>1. UNCHANGED <<req, offs, from, answer, served>> /\ pc = "iter" /\ DOMAIN pos' = DOMAIN pos
      BY <1>6 DEF Iter, callVars
    <2> QED BY <2>1, ResumeSame
  <1> QED BY <1>1, <1>2, <1>3, <1>4, <1>5, <1>6 DEF Next, ScanStep

\* The call that resumes returns nothing that was served before.
LEMMA ResumeNew ==
  ASSUME ScanInv, ResumeInv, [Next]_vars, pc # "idle", pc' = "idle", answer'.ok,
         req.strategy = "offset", NEW i \in DOMAIN answer'.msgs
  PROVE  answer'.msgs[i] \notin served
  <1>1. ~answer.ok /\ Valid(req, offs)
    BY DEF ScanInv, CallInv
  <1>2. offs # None
    <2>1. Direct(req, offs) # {} /\ Direct(req, offs) \subseteq DOMAIN offs
      BY <1>1 DEF Valid
    <2> QED BY <2>1 DEF None
  <1>3. NoClient \/ ScanFails \/ ScanReturns \/ CommitApplies \/ CommitFails
    BY DEF Next, ScanStep, Append1, Truncate, Call, TimeOut, Done, Reuse, NewClient, Poll, Iter, IterEnds,
           ToCommit, callVars, vars
  <1>4. PICK a : Return(a) /\ (a.ok => \E t : a = Page(t))
    BY <1>3, Returns
  <1>5. answer' = a
    BY <1>4 DEF Return
  <1>6. answer'.msgs = msgs
    BY <1>4, <1>5 DEF Page
  <1>7. msgs[i] \in seen
    BY <1>6 DEF ScanInv, CountInv, Pages!Kept
  <1> QED BY <1>2, <1>6, <1>7, ResumeReadsOn

\* Pages resumed from nextPartitionOffsets with strategy "offset" never return a
\* message twice, for callers that resume in no other way.
THEOREM ScanResumes ==
  ASSUME ResumesExactly
  PROVE  Spec => ResumeNeverRepeats
  <1>1. Init => ResumeInv
    BY ResumeStart
  <1>2. ScanInv /\ ResumeInv /\ [Next]_vars => ResumeInv'
    BY ResumeStep
  <1>3. ScanInv /\ ResumeInv /\ [Next]_vars =>
          [(pc # "idle" /\ pc' = "idle" /\ answer'.ok /\ req.strategy = "offset")
             => \A i \in DOMAIN answer'.msgs : answer'.msgs[i] \notin served]_vars
    BY ResumeNew
  <1> QED BY <1>1, <1>2, <1>3, ScanInvariance, PTL DEF Spec, ResumeNeverRepeats

=============================================================================
