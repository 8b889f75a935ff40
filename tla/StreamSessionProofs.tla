-------------------------- MODULE StreamSessionProofs --------------------------
(***************************************************************************)
(* One streaming session, for every topic, filter, batch size and ring      *)
(* capacity: the ring buffer keeps exactly the latest messages and a page  *)
(* is the same stretch of them; on the way from the poll to the ring and   *)
(* to the events no match is lost, doubled or put out of order.            *)
(***************************************************************************)
EXTENDS StreamSession, TLAPS, WellFoundedInduction

-----------------------------------------------------------------------------
\* The ring buffer.

\* The remainders the index arithmetic needs.
LEMMA ModInRange ==
  ASSUME NEW C \in Nat \ {0}, NEW x \in 0 .. C - 1
  PROVE  x % C = x
  OBVIOUS

\* One wrap of an index that ran past the last slot.
LEMMA ModWrapped ==
  ASSUME NEW C \in Nat \ {0}, NEW x \in C .. 2 * C - 1
  PROVE  x % C = x - C
  OBVIOUS

\* The slot d places before slot a, going round at 0.
LEMMA SlotBefore ==
  ASSUME NEW C \in Nat \ {0}, NEW a \in 0 .. C - 1, NEW d \in 0 .. C
  PROVE  (a - d + C) % C = IF d <= a THEN a - d ELSE a - d + C
  <1>1. CASE d <= a
    <2>1. a - d + C \in C .. 2 * C - 1
      BY <1>1
    <2>2. (a - d + C) % C = (a - d + C) - C
      BY <2>1, ModWrapped
    <2> QED BY <1>1, <2>2
  <1>2. CASE ~(d <= a)
    <2>1. a - d + C \in 0 .. C - 1
      BY <1>2
    <2>2. (a - d + C) % C = a - d + C
      BY <2>1, ModInRange
    <2> QED BY <1>2, <2>2
  <1> QED BY <1>1, <1>2

\* Page's slot arithmetic: p places after the oldest message is sz - p places
\* before the next write.
LEMMA SlotAfterOldest ==
  ASSUME NEW C \in Nat \ {0}, NEW a \in 0 .. C - 1, NEW sz \in 0 .. C,
         NEW p \in 0 .. sz - 1
  PROVE  (((a - sz + C) % C) + p) % C = (a - (sz - p) + C) % C
  <1>1. (a - sz + C) % C = IF sz <= a THEN a - sz ELSE a - sz + C
    BY SlotBefore
  <1>2. sz - p \in 0 .. C
    OBVIOUS
  <1>3. (a - (sz - p) + C) % C = IF sz - p <= a THEN a - (sz - p) ELSE a - (sz - p) + C
    BY <1>2, SlotBefore
  <1> DEFINE x == ((a - sz + C) % C) + p
  <1>4. CASE x < C
    <2>1. x \in 0 .. C - 1
      BY <1>1, <1>4
    <2>2. x % C = x
      BY <2>1, ModInRange
    <2> QED BY <1>1, <1>3, <1>4, <2>2
  <1>5. CASE ~(x < C)
    <2>1. x \in C .. 2 * C - 1
      BY <1>1, <1>5
    <2>2. x % C = x - C
      BY <2>1, ModWrapped
    <2> QED BY <1>1, <1>3, <1>5, <2>2
  <1> QED BY <1>1, <1>4, <1>5

\* A new ring stands for the empty history.
THEOREM RingEmpty == Represents(newRingBuffer, <<>>)
  <1>1. newRingBuffer \in Ring
    BY RingAssumption DEF newRingBuffer, Ring, Slots
  <1> QED BY <1>1, RingAssumption DEF Represents, newRingBuffer

\* append, on a ring with room and on a full one: what the ring stands for grows
\* by the message, and the only message lost is the oldest.
THEOREM RingAppendKeepsLatest ==
  ASSUME NEW h \in Seq(Messages), NEW rb, Represents(rb, h), NEW m \in Messages
  PROVE  Represents(RingAppend(rb, m), Append(h, m))
  <1> DEFINE n  == RingAppend(rb, m)
             g  == Append(h, m)
             at(hd, j) == (hd - j + Capacity) % Capacity
  <1>1. /\ rb \in Ring
        /\ rb.size = IF Len(h) <= Capacity THEN Len(h) ELSE Capacity
        /\ \A j \in 1 .. rb.size : rb.data[at(rb.head, j)] = h[Len(h) - j + 1]
    BY DEF Represents
  <1>2. /\ Capacity \in Nat \ {0} /\ rb.head \in 0 .. Capacity - 1
        /\ rb.size \in 0 .. Capacity /\ Len(h) \in Nat
        /\ rb.data \in [Slots -> Messages \cup {NoMessage}]
    BY <1>1, RingAssumption DEF Ring, Slots
  <1>3. n.head = IF rb.head + 1 = Capacity THEN 0 ELSE rb.head + 1
    <2>1. CASE rb.head + 1 = Capacity
      BY <2>1, <1>2, ModWrapped DEF RingAppend
    <2>2. CASE rb.head + 1 # Capacity
      <3>1. rb.head + 1 \in 0 .. Capacity - 1
        BY <2>2, <1>2
      <3> QED BY <3>1, <2>2, <1>2, ModInRange DEF RingAppend
    <2> QED BY <2>1, <2>2
  <1>4. /\ n.data = [rb.data EXCEPT ![rb.head] = m]
        /\ n.size = IF rb.size < Capacity THEN rb.size + 1 ELSE rb.size
    BY DEF RingAppend
  <1>5. n \in Ring
    <2>1. n.data \in [Slots -> Messages \cup {NoMessage}]
      BY <1>2, <1>4 DEF Slots
    <2>2. n.head \in Slots /\ n.size \in 0 .. Capacity
      BY <1>2, <1>3, <1>4 DEF Slots
    <2>3. n = [data |-> n.data, head |-> n.head, size |-> n.size]
      BY DEF RingAppend
    <2> QED BY <2>1, <2>2, <2>3 DEF Ring
  <1>6. Len(g) = Len(h) + 1 /\ n.size = IF Len(g) <= Capacity THEN Len(g) ELSE Capacity
    BY <1>1, <1>2, <1>4
  <1>7. ASSUME NEW j \in 1 .. n.size
        PROVE  n.data[at(n.head, j)] = g[Len(g) - j + 1]
    <2>1. j \in 1 .. Capacity /\ j \in Nat
      BY <1>2, <1>4
    <2>2. at(n.head, j) = IF j <= rb.head + 1 THEN rb.head + 1 - j
                          ELSE rb.head + 1 - j + Capacity
      <3>1. at(n.head, j) = IF j <= n.head THEN n.head - j ELSE n.head - j + Capacity
        <4> HIDE DEF n
        <4>1. n.head \in 0 .. Capacity - 1
          BY <1>2, <1>3
        <4>2. j \in 0 .. Capacity
          BY <2>1, <1>2
        <4>3. \A hd \in 0 .. Capacity - 1, d \in 0 .. Capacity :
                at(hd, d) = IF d <= hd THEN hd - d ELSE hd - d + Capacity
          BY <1>2, SlotBefore
        <4> HIDE DEF at
        <4> QED BY <4>1, <4>2, <4>3
      <3> HIDE DEF at, n
      <3> QED BY <3>1, <2>1, <1>2, <1>3
    <2>3. CASE j = 1
      <3>1. at(n.head, j) = rb.head
        BY <2>2, <2>3, <1>2
      <3>2. n.data[rb.head] = m
        BY <1>2, <1>4 DEF Slots
      <3>3. g[Len(g) - j + 1] = m
        BY <2>3, <1>2, <1>6
      <3> QED BY <3>1, <3>2, <3>3
    <2>4. CASE j # 1
      <3>1. j - 1 \in 1 .. rb.size
        BY <2>4, <2>1, <1>2, <1>4
      <3>2. at(rb.head, j - 1) = IF j <= rb.head + 1 THEN rb.head + 1 - j
                                 ELSE rb.head + 1 - j + Capacity
        <4>1. j - 1 \in 0 .. Capacity
          BY <2>1, <1>2
        <4>2. at(rb.head, j - 1) = IF j - 1 <= rb.head THEN rb.head - (j - 1)
                                   ELSE rb.head - (j - 1) + Capacity
          BY <4>1, <1>2, SlotBefore
        <4> QED BY <4>2, <2>1, <1>2
      <3>3. at(n.head, j) = at(rb.head, j - 1)
        BY <2>2, <3>2
      <3>4. at(n.head, j) # rb.head /\ at(n.head, j) \in Slots
        BY <2>2, <2>4, <2>1, <1>2 DEF Slots
      <3>5. n.data[at(n.head, j)] = rb.data[at(rb.head, j - 1)]
        BY <3>3, <3>4, <1>2, <1>4
      <3>6. rb.data[at(rb.head, j - 1)] = h[Len(h) - (j - 1) + 1]
        BY <3>1, <1>1
      <3>7. g[Len(g) - j + 1] = h[Len(h) - (j - 1) + 1]
        BY <3>1, <2>1, <1>1, <1>2, <1>6
      <3> QED BY <3>5, <3>6, <3>7
    <2> QED BY <2>3, <2>4
  <1> QED BY <1>5, <1>6, <1>7 DEF Represents

\* Page: the copy it returns is the asked stretch of the latest messages, oldest
\* first, for every offset into the buffer and every positive limit.
THEOREM RingPageIsStretch ==
  ASSUME NEW h \in Seq(Messages), NEW rb, Represents(rb, h),
         NEW offset \in Nat, NEW limit \in Nat \ {0}, offset < rb.size
  PROVE  RingPage(rb, offset, limit) =
           SubSeq(Latest(h), offset + 1,
                  IF offset + limit > rb.size THEN rb.size ELSE offset + limit)
  <1> DEFINE end  == IF offset + limit > rb.size THEN rb.size ELSE offset + limit
             base == (rb.head - rb.size + Capacity) % Capacity
             last == Latest(h)
  <1>1. /\ rb \in Ring
        /\ rb.size = IF Len(h) <= Capacity THEN Len(h) ELSE Capacity
        /\ \A j \in 1 .. rb.size :
             rb.data[(rb.head - j + Capacity) % Capacity] = h[Len(h) - j + 1]
    BY DEF Represents
  <1>2. /\ Capacity \in Nat \ {0} /\ rb.head \in 0 .. Capacity - 1
        /\ rb.size \in 0 .. Capacity /\ Len(h) \in Nat
    BY <1>1, RingAssumption DEF Ring, Slots
  <1>3. /\ last \in Seq(Messages) /\ Len(last) = rb.size
        /\ \A i \in 1 .. rb.size : last[i] = h[Len(h) - rb.size + i]
    <2>1. CASE Len(h) <= Capacity
      BY <2>1, <1>1, <1>2 DEF Latest
    <2>2. CASE ~(Len(h) <= Capacity)
      BY <2>2, <1>1, <1>2 DEF Latest
    <2> QED BY <2>1, <2>2
  <1>4. RingPage(rb, offset, limit) =
          [i \in 1 .. end - offset |-> rb.data[(base + offset + i - 1) % Capacity]]
    <2>1. ~(offset < 0) /\ ~(offset >= rb.size)
      BY <1>2
    <2> QED BY <2>1, Zenon DEF RingPage
  <1>5. SubSeq(last, offset + 1, end) =
          [i \in 1 .. end - offset |-> last[offset + i]]
    BY <1>2, <1>3
  <1>6. ASSUME NEW i \in 1 .. end - offset
        PROVE  rb.data[(base + offset + i - 1) % Capacity] = last[offset + i]
    <2> DEFINE j == rb.size - offset - i + 1
    <2>1. j \in 1 .. rb.size /\ offset + i \in 1 .. rb.size
      BY <1>2
    <2>2. (base + offset + i - 1) % Capacity = (rb.head - j + Capacity) % Capacity
      <3>1. offset + i - 1 \in 0 .. rb.size - 1
        BY <2>1, <1>2
      <3>2. (base + (offset + i - 1)) % Capacity
              = (rb.head - (rb.size - (offset + i - 1)) + Capacity) % Capacity
        BY <3>1, <1>2, SlotAfterOldest
      <3>3. base \in Int
        BY <1>2
      <3>4. rb.size - (offset + i - 1) = j /\ base + (offset + i - 1) = base + offset + i - 1
        <4> HIDE DEF base
        <4> QED BY <3>3, <2>1, <1>2
      <3> HIDE DEF j, base
      <3> QED BY <3>2, <3>4
    <2>3. rb.data[(rb.head - j + Capacity) % Capacity] = h[Len(h) - j + 1]
      BY <2>1, <1>1
    <2>4. last[offset + i] = h[Len(h) - j + 1]
      <3>1. last[offset + i] = h[Len(h) - rb.size + (offset + i)]
        BY <2>1, <1>3
      <3>2. Len(h) - rb.size + (offset + i) = Len(h) - j + 1
        BY <2>1, <1>2
      <3> QED BY <3>1, <3>2
    <2> QED BY <2>2, <2>3, <2>4
  <1> QED BY <1>4, <1>5, <1>6

\* A set of naturals that is not empty has a least element.
LEMMA Least ==
  ASSUME NEW T \in SUBSET Nat, T # {}
  PROVE  \E x \in T : \A y \in T : x <= y
  <1> DEFINE R == {ss \in Nat \X Nat : ss[1] < ss[2]}
  <1>1. IsWellFoundedOn(R, Nat)
    BY NatLessThanWellFounded DEF OpToRel
  <1>2. \A x, y \in Nat : y < x => <<y, x>> \in R
    OBVIOUS
  <1> HIDE DEF R
  <1>3. PICK x \in T : \A y \in T : ~ (<<y, x>> \in R)
    BY <1>1, WFMin
  <1>4. \A y \in T : ~(y < x)
    BY <1>2, <1>3
  <1> QED BY <1>3, <1>4

\* appendBatch, for a batch of any length: the loop has a result after each
\* message, and what the ring stands for grows by the whole batch.
THEOREM RingBatchKeepsLatest ==
  ASSUME NEW h \in Seq(Messages), NEW rb, Represents(rb, h), NEW ms \in Seq(Messages)
  PROVE  Represents(RingAppendBatch(rb, ms), h \o ms)
  <1> DEFINE Def(g, k) == g = [j \in 0 .. k |->
                 IF j = 0 THEN rb ELSE RingAppend(g[j - 1], ms[j])]
             G(k) == \E g : Def(g, k)
             S == {k \in Nat : ~G(k)}
             n == Len(ms)
  <1>1. n \in Nat
    OBVIOUS
  <1>2. G(n)
    <2> SUFFICES ASSUME S # {} PROVE FALSE
      BY <1>1
    <2>1. PICK k \in S : \A j \in S : k <= j
      <3>1. S \in SUBSET Nat
        OBVIOUS
      <3> HIDE DEF S
      <3> QED BY <3>1, Least
    <2>2. G(0)
      <3> DEFINE g == [j \in 0 .. 0 |-> rb]
      <3>1. Def(g, 0)
        OBVIOUS
      <3> QED BY <3>1
    <2>3. k # 0 /\ k - 1 \in Nat
      <3> HIDE DEF G
      <3> QED BY <2>1, <2>2
    <2>4. G(k - 1)
      <3> HIDE DEF G
      <3> QED BY <2>1, <2>3
    <2>5. PICK g : Def(g, k - 1)
      BY <2>4
    <2> DEFINE f == [j \in 0 .. k |-> IF j <= k - 1 THEN g[j] ELSE RingAppend(g[k - 1], ms[k])]
    <2>6. ASSUME NEW j \in 0 .. k
          PROVE  f[j] = IF j = 0 THEN rb ELSE RingAppend(f[j - 1], ms[j])
      <3>1. CASE j <= k - 1
        <4>1. j \in 0 .. k - 1 /\ f[j] = g[j]
          BY <2>3, <3>1
        <4>2. g[j] = IF j = 0 THEN rb ELSE RingAppend(g[j - 1], ms[j])
          BY <2>5, <4>1
        <4>3. j # 0 => f[j - 1] = g[j - 1]
          BY <2>3, <3>1
        <4> HIDE DEF f
        <4> QED BY <4>1, <4>2, <4>3
      <3>2. CASE j = k
        BY <2>3, <2>5, <3>2
      <3> QED BY <2>3, <3>1, <3>2
    <2>7. Def(f, k)
      BY <2>6
    <2> QED BY <2>1, <2>7
  <1>3. PICK f : Def(f, n) /\ RingAppendBatch(rb, ms) = f[n]
    <2> DEFINE f == CHOOSE g : Def(g, n)
    <2>1. Def(f, n)
      BY <1>2
    <2>2. RingAppendBatch(rb, ms) = f[n]
      BY DEF RingAppendBatch
    <2> QED BY <2>1, <2>2
  <1> DEFINE H(k) == h \o SubSeq(ms, 1, k)
             P(k) == k \in 0 .. n => Represents(f[k], H(k))
             B == {k \in Nat : ~P(k)}
  <1>4. P(n)
    <2> SUFFICES ASSUME B # {} PROVE FALSE
      BY <1>1
    <2>1. PICK k \in B : \A j \in B : k <= j
      <3>1. B \in SUBSET Nat
        OBVIOUS
      <3> HIDE DEF B
      <3> QED BY <3>1, Least
    <2>2. P(0)
      <3>1. f[0] = rb
        BY <1>1, <1>3
      <3>2. H(0) = h
        OBVIOUS
      <3> HIDE DEF H
      <3> QED BY <3>1, <3>2
    <2>3. k # 0 /\ k \in 1 .. n /\ k - 1 \in 0 .. n /\ k - 1 \in Nat
      <3>1. k \in 0 .. n
        BY <2>1
      <3> HIDE DEF P
      <3> QED BY <1>1, <2>1, <2>2, <3>1
    <2>4. P(k - 1)
      <3> HIDE DEF P
      <3> QED BY <2>1, <2>3
    <2>5. Represents(f[k - 1], H(k - 1))
      BY <2>3, <2>4
    <2>6. f[k] = RingAppend(f[k - 1], ms[k]) /\ ms[k] \in Messages
      <3>1. \A j \in 0 .. n : f[j] = IF j = 0 THEN rb ELSE RingAppend(f[j - 1], ms[j])
        BY <1>3, Zenon
      <3>2. k \in 0 .. n /\ ms[k] \in Messages
        BY <2>3
      <3> HIDE DEF n
      <3> QED BY <2>3, <3>1, <3>2
    <2>7. H(k - 1) \in Seq(Messages) /\ H(k) = Append(H(k - 1), ms[k])
      BY <2>3
    <2>8. Represents(f[k], H(k))
      <3> HIDE DEF H
      <3> QED BY <2>5, <2>6, <2>7, RingAppendKeepsLatest
    <2> QED BY <2>1, <2>8
  <1>5. SubSeq(ms, 1, n) = ms
    OBVIOUS
  <1>6. n \in 0 .. n
    BY <1>1
  <1>7. Represents(f[n], H(n))
    <2> HIDE DEF H, n
    <2> QED BY <1>4, <1>6
  <1> QED BY <1>3, <1>5, <1>7

-----------------------------------------------------------------------------
\* The session's loop.

Labels == {"select", "poll", "backoff", "iter", "match", "full", "push", "defer", "done"}
Events == [msgs: Seq(Messages), scanned: Nat, matched: Nat, paused: BOOLEAN]

SessionTypes ==
  /\ pos \in 0 .. NumRecords
  /\ fetch \in Seq(Messages)
  /\ batch \in Seq(Messages)
  /\ seen \in Seq(Messages)
  /\ appended \in Seq(Messages)
  /\ scanned \in Nat
  /\ matched \in Nat
  /\ paused \in BOOLEAN
  /\ push \in Events
  /\ out \in Seq(Events)
  /\ pc \in Labels
  /\ ret \in {"select", "poll", "iter", "done"}

\* What is left of a poll are the records up to the client's position, all after
\* the ones scanned; outside the loop over the records nothing is left.
FetchInv ==
  /\ Len(fetch) <= pos
  /\ \A i \in 1 .. Len(fetch) : fetch[i] = pos - Len(fetch) + i
  /\ \A i \in 1 .. Len(seen) : seen[i] <= pos - Len(fetch)
  /\ pc \in {"select", "poll", "backoff", "defer", "done"} => fetch = <<>>
  /\ pc = "push" /\ ret # "iter" => fetch = <<>>

\* What the places in the loop say: a record is about to be matched or not, the
\* batch is full or taken.
LoopInv ==
  /\ pc = "match" => seen # <<>> /\ Last(seen) \in Matching /\ matched < scanned
  /\ pc = "push" => batch = <<>>
  /\ pc = "full" => batch # <<>>
  /\ matched <= scanned

\* The event about to be sent carries what was written to the ring last, and
\* nothing that an earlier event carried.
EventInv ==
  pc = "push" =>
    /\ Carries(push, appended)
    /\ push.matched = Len(appended)
    /\ \A i \in DOMAIN out : out[i].matched <= push.matched - Len(push.msgs)

SessionInv == SessionTypes /\ FetchInv /\ MatchedKept /\ LoopInv /\ PushesInOrder /\ EventInv

\* The start: nothing scanned, kept or sent.
LEMMA SessionStart == Init => SessionInv
  <1> SUFFICES ASSUME Init PROVE SessionInv
    OBVIOUS
  <1>1. /\ pos = 0 /\ fetch = <<>> /\ scanned = 0 /\ matched = 0 /\ batch = <<>>
        /\ ring = newRingBuffer /\ paused = FALSE /\ out = <<>> /\ seen = <<>> /\ appended = <<>>
        /\ pc = "select" /\ ret = "select"
    BY DEF Init
  <1>2. push \in Events
    <2>1. push = [msgs |-> <<>>, scanned |-> 0, matched |-> 0, paused |-> FALSE]
      BY DEF Init, NoEvent
    <2>2. <<>> \in Seq(Messages) /\ 0 \in Nat /\ FALSE \in BOOLEAN
      OBVIOUS
    <2> QED BY <2>1, <2>2 DEF Events
  <1>3. SessionTypes
    <2>1. <<>> \in Seq(Messages) /\ <<>> \in Seq(Events) /\ 0 \in 0 .. NumRecords
      BY SessionAssumption
    <2> QED BY <1>1, <1>2, <2>1 DEF SessionTypes, Labels
  <1>4. FetchInv /\ LoopInv /\ EventInv /\ PushesInOrder
    BY <1>1 DEF FetchInv, LoopInv, EventInv, PushesInOrder
  <1>5. MatchedKept
    <2>1. appended \o batch = <<>> /\ Len(<<>>) = 0
      BY <1>1
    <2>2. Range(<<>>) = {} /\ Increasing(<<>>)
      BY DEF Range, Increasing
    <2>3. Represents(ring, appended)
      BY <1>1, RingEmpty
    <2> QED BY <1>1, <2>1, <2>2, <2>3 DEF MatchedKept
  <1> QED BY <1>3, <1>4, <1>5 DEF SessionInv

\* A step that neither scans, matches nor flushes leaves what is kept as it is.
LEMMA KeptSame ==
  ASSUME MatchedKept, UNCHANGED <<mutVars, batch>>, pc = "match" <=> pc' = "match",
         pc' = "done" => batch = <<>>
  PROVE  MatchedKept'
  <1>1. UNCHANGED <<scanned, matched, ring, seen, appended, batch>>
    BY DEF mutVars
  <1> QED BY <1>1 DEF MatchedKept

\* A history that grows at its end still holds every stretch of it.
LEMMA CarriesOn ==
  ASSUME NEW h \in Seq(Messages), NEW ms \in Seq(Messages), NEW e \in Events, Carries(e, h)
  PROVE  Carries(e, h \o ms)
  <1>1. /\ Len(e.msgs) \in Nat /\ e.matched \in Nat /\ Len(h) \in Nat /\ Len(ms) \in Nat
        /\ Len(h \o ms) = Len(h) + Len(ms)
    BY DEF Events
  <1>2. ASSUME NEW k \in 1 .. Len(e.msgs)
        PROVE  e.msgs[k] = (h \o ms)[e.matched - Len(e.msgs) + k]
    <2>1. e.matched - Len(e.msgs) + k \in 1 .. Len(h)
      BY <1>1 DEF Carries
    <2>2. (h \o ms)[e.matched - Len(e.msgs) + k] = h[e.matched - Len(e.msgs) + k]
      BY <2>1
    <2> QED BY <2>2 DEF Carries
  <1> QED BY <1>1, <1>2 DEF Carries

\* A move from one place of the loop to another.
LEMMA SessionMove ==
  ASSUME SessionInv, UNCHANGED <<pos, fetch, batch, ret, mutVars, outVars, paused>>,
         pc \notin {"match", "push"},
         pc' \in {"select", "poll", "defer", "done"}, fetch = <<>>, pc' = "done" => batch = <<>>
  PROVE  SessionInv'
  <1>1. UNCHANGED <<pos, fetch, batch, ret, scanned, matched, ring, seen, appended, push, out, paused>>
    BY DEF mutVars, outVars
  <1>2. SessionTypes' /\ FetchInv' /\ LoopInv' /\ EventInv' /\ PushesInOrder'
    BY <1>1 DEF SessionInv, SessionTypes, FetchInv, LoopInv, EventInv, PushesInOrder, Labels
  <1>3. MatchedKept'
    BY KeptSame DEF SessionInv
  <1> QED BY <1>2, <1>3 DEF SessionInv

\* A step of another goroutine, or none.
LEMMA SessionElsewhere ==
  ASSUME SessionInv, UNCHANGED <<loopVars, mutVars, outVars>>, paused' \in BOOLEAN
  PROVE  SessionInv'
  <1>1. UNCHANGED <<pos, fetch, batch, ret, pc, scanned, matched, ring, seen, appended, push, out>>
    BY DEF loopVars, mutVars, outVars
  <1>2. SessionTypes' /\ FetchInv' /\ LoopInv' /\ EventInv' /\ PushesInOrder'
    BY <1>1 DEF SessionInv, SessionTypes, FetchInv, LoopInv, EventInv, PushesInOrder
  <1>3. MatchedKept'
    BY <1>1 DEF SessionInv, MatchedKept
  <1> QED BY <1>2, <1>3 DEF SessionInv

\* A poll that succeeds hands over the records after the client's position.
LEMMA SessionPollOk ==
  ASSUME SessionInv, NEW n \in 0 .. NumRecords, PollOk(n)
  PROVE  SessionInv'
  <1>1. /\ pc = "poll" /\ pos' = pos + n /\ pos + n <= NumRecords
        /\ fetch' = [i \in 1 .. n |-> pos + i] /\ pc' = "iter"
        /\ UNCHANGED <<batch, ret, mutVars, outVars, paused>>
    BY DEF PollOk, Polls, Goto, ctlVars
  <1>2. UNCHANGED <<batch, ret, scanned, matched, ring, seen, appended, push, out, paused>>
    BY <1>1 DEF mutVars, outVars
  <1>3. n \in Nat /\ pos \in Nat /\ pos' \in 0 .. NumRecords /\ NumRecords \in Nat
    BY <1>1, SessionAssumption DEF SessionInv, SessionTypes
  <1>4. fetch' \in Seq(Messages) /\ Len(fetch') = n
    BY <1>1, <1>3, SessionAssumption
  <1>5. SessionTypes' /\ LoopInv' /\ EventInv' /\ PushesInOrder'
    BY <1>1, <1>2, <1>3, <1>4
       DEF SessionInv, SessionTypes, LoopInv, EventInv, PushesInOrder, Labels
  <1>6. FetchInv'
    <2>1. \A i \in 1 .. Len(seen) : seen[i] <= pos
      BY <1>1, <1>3 DEF SessionInv, FetchInv
    <2> QED BY <1>1, <1>2, <1>3, <1>4, <2>1 DEF FetchInv
  <1>7. MatchedKept'
    BY <1>1, KeptSame DEF SessionInv
  <1> QED BY <1>5, <1>6, <1>7 DEF SessionInv

\* A poll that fails moves the client's position and leaves the loop without
\* records.
LEMMA SessionPollError ==
  ASSUME SessionInv, NEW n \in 0 .. NumRecords, PollError(n)
  PROVE  SessionInv'
  <1>1. /\ pc = "poll" /\ pos' = pos + n /\ pos + n <= NumRecords /\ pc' = "backoff"
        /\ UNCHANGED <<fetch, batch, ret, mutVars, outVars, paused>>
    BY DEF PollError, Polls, Goto, ctlVars
  <1>2. UNCHANGED <<fetch, batch, ret, scanned, matched, ring, seen, appended, push, out, paused>>
    BY <1>1 DEF mutVars, outVars
  <1>3. n \in Nat /\ pos \in Nat /\ pos' \in 0 .. NumRecords /\ NumRecords \in Nat
    BY <1>1, SessionAssumption DEF SessionInv, SessionTypes
  <1>4. fetch = <<>> /\ Len(fetch) = 0
    BY <1>1 DEF SessionInv, FetchInv
  <1>5. SessionTypes' /\ LoopInv' /\ EventInv' /\ PushesInOrder'
    BY <1>1, <1>2, <1>3 DEF SessionInv, SessionTypes, LoopInv, EventInv, PushesInOrder, Labels
  <1>6. FetchInv'
    <2>1. seen \in Seq(Messages) /\ \A i \in 1 .. Len(seen) : seen[i] <= pos /\ seen[i] \in Nat
      BY <1>3, <1>4, SessionAssumption DEF SessionInv, FetchInv, SessionTypes
    <2> QED BY <1>1, <1>2, <1>3, <1>4, <2>1 DEF FetchInv
  <1>7. MatchedKept'
    BY <1>1, KeptSame DEF SessionInv
  <1> QED BY <1>5, <1>6, <1>7 DEF SessionInv

\* flush: what is kept moves from the batch to the ring's history, and the event
\* carries exactly that.
LEMMA SessionFlush ==
  ASSUME SessionInv, NEW label \in {"poll", "iter", "done"}, FlushTo(label), batch # <<>>,
         pc \notin {"match", "push"}, label # "iter" => fetch = <<>>
  PROVE  SessionInv'
  <1>1. /\ batch' = <<>> /\ ring' = RingAppendBatch(ring, batch) /\ appended' = appended \o batch
        /\ push' = [msgs |-> batch, scanned |-> scanned, matched |-> matched, paused |-> paused]
        /\ pc' = "push" /\ ret' = label
        /\ UNCHANGED <<pos, fetch, scanned, matched, seen, out, paused>>
    BY DEF FlushTo, ctlVars
  <1>2. SessionTypes
    BY DEF SessionInv
  <1>3. /\ appended \in Seq(Messages) /\ batch \in Seq(Messages)
        /\ Len(batch) \in Nat /\ Len(batch) > 0 /\ Len(appended) \in Nat
        /\ appended \o batch \in Seq(Messages)
        /\ Len(appended \o batch) = Len(appended) + Len(batch)
    BY <1>2 DEF SessionTypes
  <1>4. /\ matched = Len(appended) + Len(batch) /\ matched <= scanned
        /\ matched \in Nat /\ scanned \in Nat
    BY <1>2, <1>3 DEF SessionInv, MatchedKept, LoopInv, SessionTypes
  <1>5. /\ push'.msgs = batch /\ push'.scanned = scanned /\ push'.matched = matched
        /\ push' \in Events
    <2>1. push' \in Events
      BY <1>1, <1>2 DEF SessionTypes, Events
    <2> QED BY <1>1, <2>1
  <1>6. SessionTypes'
    <2>1. <<>> \in Seq(Messages)
      OBVIOUS
    <2> QED BY <1>1, <1>2, <1>3, <1>5, <2>1 DEF SessionTypes, Labels
  <1>7. FetchInv' /\ LoopInv'
    BY <1>1, <1>4 DEF SessionInv, FetchInv, LoopInv
  <1>8. MatchedKept'
    <2>1. appended' \o batch' = appended \o batch
      BY <1>1, <1>3
    <2>2. Represents(ring', appended')
      BY <1>1, <1>3, RingBatchKeepsLatest DEF SessionInv, MatchedKept
    <2> QED BY <1>1, <2>1, <2>2 DEF SessionInv, MatchedKept
  <1>9. ASSUME NEW i \in DOMAIN out
        PROVE  Carries(out[i], appended \o batch) /\ out[i].matched <= Len(appended)
    <2>1. out[i] \in Events /\ Carries(out[i], appended)
      BY <1>2 DEF SessionInv, PushesInOrder, SessionTypes
    <2> QED BY <1>3, <2>1, CarriesOn DEF Carries
  <1>10. PushesInOrder'
    BY <1>1, <1>9 DEF SessionInv, PushesInOrder
  <1>11. EventInv'
    <2>1. Carries(push', appended')
      <3>1. \A k \in 1 .. Len(batch) : batch[k] = (appended \o batch)[Len(appended) + k]
        BY <1>3
      <3>2. matched - Len(batch) = Len(appended)
        BY <1>3, <1>4
      <3> QED BY <1>1, <1>3, <1>4, <1>5, <3>1, <3>2 DEF Carries
    <2>2. push'.matched = Len(appended') /\ push'.matched - Len(push'.msgs) = Len(appended)
      BY <1>1, <1>3, <1>4, <1>5
    <2> QED BY <1>1, <1>9, <2>1, <2>2 DEF EventInv
  <1> QED BY <1>6, <1>7, <1>8, <1>10, <1>11 DEF SessionInv

\* The event is sent, or dropped for a pause.
LEMMA SessionPush ==
  ASSUME SessionInv, Push
  PROVE  SessionInv'
  <1>1. /\ pc = "push" /\ out' = IF push.paused THEN out ELSE Append(out, push)
        /\ push' = NoEvent /\ pc' = ret
        /\ UNCHANGED <<pos, fetch, batch, ret, mutVars, paused>>
    BY DEF Push, ctlVars
  <1>2. UNCHANGED <<pos, fetch, batch, ret, scanned, matched, ring, seen, appended, paused>>
    BY <1>1 DEF mutVars
  <1>3. SessionTypes /\ EventInv /\ PushesInOrder /\ batch = <<>>
    BY <1>1 DEF SessionInv, LoopInv
  <1>4. push' \in Events
    <2>1. <<>> \in Seq(Messages) /\ 0 \in Nat /\ FALSE \in BOOLEAN
      OBVIOUS
    <2> QED BY <1>1, <2>1 DEF Events, NoEvent
  <1>5. out \in Seq(Events) /\ push \in Events /\ Len(out) \in Nat
    BY <1>3 DEF SessionTypes
  <1>6. CASE push.paused
    <2>1. out' = out
      BY <1>1, <1>6
    <2> QED BY <1>1, <1>2, <1>3, <1>4, <2>1, KeptSame
            DEF SessionInv, SessionTypes, Labels, FetchInv, LoopInv, EventInv, PushesInOrder
  <1>7. CASE ~push.paused
    <2>1. out' = Append(out, push)
      BY <1>1, <1>7
    <2>2. /\ out' \in Seq(Events) /\ DOMAIN out' = 1 .. Len(out) + 1
          /\ out'[Len(out) + 1] = push /\ \A i \in 1 .. Len(out) : out'[i] = out[i]
      BY <1>5, <2>1
    <2>3. SessionTypes' /\ FetchInv' /\ LoopInv' /\ EventInv'
      BY <1>1, <1>2, <1>3, <1>4, <2>2
         DEF SessionInv, SessionTypes, Labels, FetchInv, LoopInv, EventInv
    <2>4. MatchedKept'
      BY <1>1, <1>3, KeptSame DEF SessionInv, SessionTypes
    <2>5. /\ Carries(push, appended)
          /\ \A i \in 1 .. Len(out) : /\ out[i].matched <= push.matched - Len(push.msgs)
                                      /\ Carries(out[i], appended)
      BY <1>1, <1>3, <1>5 DEF EventInv, PushesInOrder
    <2>6. ASSUME NEW i \in DOMAIN out' PROVE Carries(out'[i], appended')
      <3>1. CASE i = Len(out) + 1
        BY <1>2, <2>2, <2>5, <3>1
      <3>2. CASE i # Len(out) + 1
        <4>1. i \in 1 .. Len(out)
          BY <1>5, <2>2, <3>2
        <4> QED BY <1>2, <2>2, <2>5, <4>1
      <3> QED BY <3>1, <3>2
    <2>7. ASSUME NEW i \in DOMAIN out', NEW j \in DOMAIN out', i < j
          PROVE  out'[i].matched <= out'[j].matched - Len(out'[j].msgs)
      <3>1. i \in 1 .. Len(out) /\ out'[i] = out[i]
        BY <1>5, <2>2, <2>7
      <3>2. CASE j = Len(out) + 1
        BY <2>2, <2>5, <3>1, <3>2
      <3>3. CASE j # Len(out) + 1
        <4>1. j \in 1 .. Len(out) /\ out'[j] = out[j]
          BY <1>5, <2>2, <3>3
        <4> QED BY <1>3, <1>5, <2>7, <3>1, <4>1 DEF PushesInOrder
      <3> QED BY <3>2, <3>3
    <2>8. PushesInOrder'
      BY <2>6, <2>7 DEF PushesInOrder
    <2> QED BY <2>3, <2>4, <2>8 DEF SessionInv
  <1> QED BY <1>6, <1>7

\* A sequence that goes on with something greater still increases.
LEMMA IncreasingAppend ==
  ASSUME NEW s \in Seq(Messages), NEW x \in Messages, Increasing(s),
         \A i \in 1 .. Len(s) : s[i] < x
  PROVE  /\ Append(s, x) \in Seq(Messages)
         /\ Increasing(Append(s, x))
         /\ Range(Append(s, x)) = Range(s) \cup {x}
  <1> DEFINE t == Append(s, x)
  <1>1. /\ t \in Seq(Messages) /\ DOMAIN t = 1 .. Len(s) + 1 /\ Len(s) \in Nat
        /\ DOMAIN s = 1 .. Len(s) /\ t[Len(s) + 1] = x /\ \A i \in 1 .. Len(s) : t[i] = s[i]
    OBVIOUS
  <1> HIDE DEF t
  <1>2. ASSUME NEW i \in DOMAIN t, NEW j \in DOMAIN t, i < j
        PROVE  t[i] < t[j]
    <2>1. i \in 1 .. Len(s)
      BY <1>1, <1>2
    <2>2. CASE j = Len(s) + 1
      BY <1>1, <2>1, <2>2
    <2>3. CASE j # Len(s) + 1
      <3>1. j \in 1 .. Len(s)
        BY <1>1, <2>3
      <3> QED BY <1>1, <1>2, <2>1, <3>1 DEF Increasing
    <2> QED BY <2>2, <2>3
  <1>3. Range(t) = Range(s) \cup {x}
    <2>1. \A i \in DOMAIN t : t[i] \in Range(s) \cup {x}
      <3> SUFFICES ASSUME NEW i \in DOMAIN t PROVE t[i] \in Range(s) \cup {x}
        OBVIOUS
      <3>1. i \in 1 .. Len(s) \/ i = Len(s) + 1
        BY <1>1
      <3> QED BY <1>1, <3>1 DEF Range
    <2>2. \A i \in DOMAIN s : s[i] \in Range(t)
      <3> SUFFICES ASSUME NEW i \in DOMAIN s PROVE s[i] \in Range(t)
        OBVIOUS
      <3>1. i \in DOMAIN t /\ t[i] = s[i]
        BY <1>1
      <3> QED BY <3>1 DEF Range
    <2>3. x \in Range(t)
      <3>1. Len(s) + 1 \in DOMAIN t
        BY <1>1
      <3> QED BY <1>1, <3>1 DEF Range
    <2> QED BY <2>1, <2>2, <2>3 DEF Range
  <1> QED BY <1>1, <1>2, <1>3 DEF t, Increasing

\* The next record comes after all that were scanned.
LEMMA SessionScan ==
  ASSUME SessionInv, Scan
  PROVE  SessionInv'
  <1> DEFINE x == Head(fetch)
  <1>1. /\ pc = "iter" /\ fetch # <<>> /\ scanned' = scanned + 1 /\ seen' = Append(seen, x)
        /\ fetch' = Tail(fetch) /\ pc' = IF x \in Matching THEN "match" ELSE "iter"
        /\ UNCHANGED <<pos, batch, ret, matched, ring, appended, push, out, paused>>
    BY DEF Scan, IsHit, outVars, ctlVars
  <1>2. SessionTypes /\ FetchInv
    BY DEF SessionInv
  <1>3. /\ fetch \in Seq(Messages) /\ seen \in Seq(Messages) /\ pos \in Nat /\ Len(fetch) \in Nat
        /\ Len(seen) \in Nat /\ Len(fetch) > 0 /\ Len(fetch) <= pos /\ scanned \in Nat /\ matched \in Nat
    BY <1>1, <1>2 DEF SessionTypes, FetchInv
  <1>4. x \in Messages /\ x = pos - Len(fetch) + 1
    BY <1>1, <1>2, <1>3 DEF FetchInv
  <1>5. /\ fetch' \in Seq(Messages) /\ Len(fetch') = Len(fetch) - 1
        /\ \A i \in 1 .. Len(fetch) - 1 : fetch'[i] = fetch[i + 1]
    BY <1>1, <1>3
  <1>6. \A i \in 1 .. Len(seen) : seen[i] \in Nat /\ seen[i] < x
    BY <1>2, <1>3, <1>4, SessionAssumption DEF FetchInv
  <1>7. /\ seen' \in Seq(Messages) /\ Increasing(seen') /\ Range(seen') = Range(seen) \cup {x}
        /\ Len(seen') = Len(seen) + 1 /\ \A i \in 1 .. Len(seen) : seen'[i] = seen[i]
        /\ seen'[Len(seen) + 1] = x
    <2>1. Increasing(seen)
      BY DEF SessionInv, MatchedKept
    <2>2. /\ Len(seen') = Len(seen) + 1 /\ \A i \in 1 .. Len(seen) : seen'[i] = seen[i]
          /\ seen'[Len(seen) + 1] = x
      BY <1>1, <1>3, <1>4
    <2> HIDE DEF x
    <2> QED BY <1>1, <1>3, <1>4, <1>6, <2>1, <2>2, IncreasingAppend
  <1>8. Last(seen') = x
    BY <1>7 DEF Last
  <1> HIDE DEF x
  <1>9. SessionTypes' /\ PushesInOrder' /\ EventInv'
    BY <1>1, <1>2, <1>3, <1>5, <1>7
       DEF SessionInv, SessionTypes, Labels, PushesInOrder, EventInv
  <1>10. FetchInv'
    <2>1. \A i \in 1 .. Len(fetch') : fetch'[i] = pos' - Len(fetch') + i
      <3> SUFFICES ASSUME NEW i \in 1 .. Len(fetch') PROVE fetch'[i] = pos' - Len(fetch') + i
        OBVIOUS
      <3>1. i + 1 \in 1 .. Len(fetch) /\ fetch'[i] = fetch[i + 1] /\ i \in Nat
        BY <1>3, <1>5
      <3>2. fetch[i + 1] = pos - Len(fetch) + (i + 1)
        BY <1>2, <3>1 DEF FetchInv
      <3> QED BY <1>1, <1>3, <1>5, <3>1, <3>2
    <2>2. \A i \in 1 .. Len(seen') : seen'[i] <= pos' - Len(fetch')
      <3> SUFFICES ASSUME NEW i \in 1 .. Len(seen') PROVE seen'[i] <= pos' - Len(fetch')
        OBVIOUS
      <3>1. pos' - Len(fetch') = x /\ x \in Nat
        BY <1>1, <1>3, <1>4, <1>5
      <3>2. CASE i = Len(seen) + 1
        BY <1>7, <3>1, <3>2
      <3>3. CASE i # Len(seen) + 1
        <4>1. i \in 1 .. Len(seen)
          BY <1>3, <1>7, <3>3
        <4> QED BY <1>6, <1>7, <3>1, <4>1
      <3> QED BY <3>2, <3>3
    <2> QED BY <1>1, <1>3, <1>5, <2>1, <2>2 DEF FetchInv
  <1>11. LoopInv'
    <2>1. matched <= scanned
      BY DEF SessionInv, LoopInv
    <2>2. seen' # <<>>
      BY <1>3, <1>7
    <2> QED BY <1>1, <1>3, <1>8, <2>1, <2>2 DEF LoopInv
  <1>12. MatchedKept'
    <2>1. x \notin Range(seen)
      BY <1>3, <1>4, <1>6 DEF Range
    <2>2. /\ Increasing(appended \o batch) /\ matched = Len(appended \o batch)
          /\ Range(appended \o batch) = Range(seen) \cap Matching
          /\ scanned = Len(seen) /\ Represents(ring, appended)
      BY <1>1 DEF SessionInv, MatchedKept
    <2>3. Range(appended \o batch)
            = IF pc' = "match" THEN (Range(seen') \cap Matching) \ {Last(seen')}
              ELSE Range(seen') \cap Matching
      <3>1. CASE x \in Matching
        BY <1>1, <1>7, <1>8, <2>1, <2>2, <3>1
      <3>2. CASE x \notin Matching
        BY <1>1, <1>7, <2>1, <2>2, <3>2
      <3> QED BY <3>1, <3>2
    <2>4. scanned' = Len(seen') /\ pc' # "done"
      BY <1>1, <1>3, <1>7, <2>2
    <2> QED BY <1>1, <1>7, <2>2, <2>3, <2>4 DEF MatchedKept
  <1> QED BY <1>9, <1>10, <1>11, <1>12 DEF SessionInv

\* A match comes after all that were kept before.
LEMMA SessionMatch ==
  ASSUME SessionInv, Match
  PROVE  SessionInv'
  <1> DEFINE x == Last(seen)
             kept == appended \o batch
  <1>1. /\ pc = "match" /\ matched' = matched + 1 /\ batch' = Append(batch, x)
        /\ pc' \in {"full", "iter"}
        /\ UNCHANGED <<pos, fetch, ret, scanned, ring, seen, appended, push, out, paused>>
    BY DEF Match, outVars, ctlVars
  <1>2. SessionTypes /\ seen # <<>> /\ x \in Matching /\ matched < scanned
    BY <1>1 DEF SessionInv, LoopInv
  <1>3. /\ seen \in Seq(Messages) /\ batch \in Seq(Messages) /\ appended \in Seq(Messages)
        /\ Len(seen) \in Nat /\ Len(seen) > 0 /\ Len(batch) \in Nat /\ matched \in Nat /\ scanned \in Nat
        /\ kept \in Seq(Messages)
    BY <1>2 DEF SessionTypes
  <1>4. x = seen[Len(seen)] /\ x \in Messages /\ x \in Range(seen)
    BY <1>3 DEF Last, Range
  <1>5. /\ Increasing(seen) /\ Increasing(kept) /\ matched = Len(kept)
        /\ Range(kept) = (Range(seen) \cap Matching) \ {x}
        /\ scanned = Len(seen) /\ Represents(ring, appended)
    BY <1>1 DEF SessionInv, MatchedKept
  <1>6. batch' \in Seq(Messages) /\ batch' # <<>> /\ appended \o batch' = Append(kept, x)
    <2> HIDE DEF x
    <2> QED BY <1>1, <1>3, <1>4
  <1>7. \A y \in Range(seen) \ {x} : y < x
    <2> SUFFICES ASSUME NEW y \in Range(seen) \ {x} PROVE y < x
      OBVIOUS
    <2>1. PICK i \in 1 .. Len(seen) : seen[i] = y
      BY <1>3 DEF Range
    <2>2. i < Len(seen)
      BY <1>3, <1>4, <2>1
    <2> QED BY <1>3, <1>4, <1>5, <2>1, <2>2 DEF Increasing
  <1> HIDE DEF x, kept
  <1>8. \A i \in 1 .. Len(kept) : kept[i] < x
    <2>1. \A i \in 1 .. Len(kept) : kept[i] \in Range(kept)
      BY <1>3 DEF Range
    <2> QED BY <1>5, <1>7, <2>1
  <1>9. /\ Increasing(Append(kept, x)) /\ Range(Append(kept, x)) = Range(kept) \cup {x}
        /\ Len(Append(kept, x)) = Len(kept) + 1
    BY <1>3, <1>4, <1>5, <1>8, IncreasingAppend
  <1>10. SessionTypes' /\ FetchInv' /\ PushesInOrder' /\ EventInv'
    BY <1>1, <1>2, <1>3, <1>6
       DEF SessionInv, SessionTypes, Labels, FetchInv, PushesInOrder, EventInv
  <1>11. LoopInv'
    BY <1>1, <1>2, <1>3, <1>6 DEF LoopInv
  <1>12. MatchedKept'
    <2>1. appended' \o batch' = Append(kept, x) /\ matched' = Len(Append(kept, x))
      BY <1>1, <1>5, <1>6, <1>9
    <2>2. Range(Append(kept, x)) = Range(seen) \cap Matching
      BY <1>2, <1>4, <1>5, <1>9
    <2>3. pc' # "match" /\ pc' # "done"
      BY <1>1
    <2> QED BY <1>1, <1>5, <1>9, <2>1, <2>2, <2>3 DEF MatchedKept
  <1> QED BY <1>10, <1>11, <1>12 DEF SessionInv

\* Every step of the loop and of the other goroutines.
LEMMA SessionStep ==
  ASSUME SessionInv, [Next]_vars
  PROVE  SessionInv'
  <1>1. /\ pc \in {"select", "poll", "backoff", "defer", "done"} => fetch = <<>>
        /\ pc = "full" => batch # <<>>
    BY DEF SessionInv, FetchInv, LoopInv
  <1>2. CASE SelectPoll \/ SelectDone \/ BackoffOver \/ BackoffDone \/ IterOver
    <2>1. UNCHANGED <<pos, fetch, batch, ret, mutVars, outVars, paused>>
      BY <1>2 DEF SelectPoll, SelectDone, BackoffOver, BackoffDone, IterOver, Goto, ctlVars
    <2>2. /\ pc \in {"select", "backoff", "iter"} /\ fetch = <<>>
          /\ pc' \in {"select", "poll", "defer"}
      BY <1>1, <1>2 DEF SelectPoll, SelectDone, BackoffOver, BackoffDone, IterOver, Goto
    <2> QED BY <2>1, <2>2, SessionMove
  <1>3. CASE DeferFlush
    <2>1. pc = "defer" /\ fetch = <<>>
      BY <1>1, <1>3 DEF DeferFlush
    <2>2. CASE batch # <<>> /\ FlushTo("done")
      BY <2>1, <2>2, SessionFlush
    <2>3. CASE batch = <<>> /\ Goto("done") /\ UNCHANGED <<pos, fetch, batch, delay>>
      <3>1. pc' = "done" /\ UNCHANGED <<pos, fetch, batch, ret, mutVars, outVars, paused>>
        BY <2>3 DEF Goto, ctlVars
      <3> QED BY <2>1, <2>3, <3>1, SessionMove
    <2> QED BY <1>3, <2>2, <2>3 DEF DeferFlush
  <1>4. CASE SelectTick
    BY <1>1, <1>4, SessionFlush DEF SelectTick
  <1>5. CASE Full
    BY <1>1, <1>5, SessionFlush DEF Full
  <1>6. CASE \E n \in 0 .. NumRecords : PollOk(n) \/ PollError(n)
    BY <1>6, SessionPollOk, SessionPollError
  <1>7. CASE Scan
    BY <1>7, SessionScan
  <1>8. CASE Match
    BY <1>8, SessionMatch
  <1>9. CASE Push
    BY <1>9, SessionPush
  <1>10. CASE \E b \in BOOLEAN : SetPaused(b)
    <2>1. UNCHANGED <<loopVars, mutVars, outVars>> /\ paused' \in BOOLEAN
      BY <1>10 DEF SetPaused
    <2> QED BY <2>1, SessionElsewhere
  <1>11. CASE Cancel \/ CloseClient \/ UNCHANGED vars
    <2>1. UNCHANGED <<loopVars, mutVars, outVars>> /\ paused' = paused
      BY <1>11 DEF Cancel, CloseClient, vars, ctlVars
    <2>2. paused \in BOOLEAN
      BY DEF SessionInv, SessionTypes
    <2> QED BY <2>1, <2>2, SessionElsewhere
  <1> QED BY <1>2, <1>3, <1>4, <1>5, <1>6, <1>7, <1>8, <1>9, <1>10, <1>11 DEF Next, LoopStep

\* The inductive invariant of the session holds in every state.
THEOREM SessionInvariance == Spec => []SessionInv
  <1>1. Init => SessionInv
    BY SessionStart
  <1>2. SessionInv /\ [Next]_vars => SessionInv'
    BY SessionStep
  <1> QED BY <1>1, <1>2, PTL DEF Spec

\* No match is lost, doubled or put out of order between the poll and the ring,
\* and a loop that has ended left none behind.
THEOREM SessionMatches == Spec => []MatchedKept
  <1>1. SessionInv => MatchedKept
    BY DEF SessionInv
  <1> QED BY <1>1, SessionInvariance, PTL

\* The events carry stretches of the history in order, each ending at the
\* totalMatched it reports.
THEOREM SessionPushes == Spec => []PushesInOrder
  <1>1. SessionInv => PushesInOrder
    BY DEF SessionInv
  <1> QED BY <1>1, SessionInvariance, PTL
=============================================================================
