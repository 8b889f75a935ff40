--------------------------- MODULE McpServerProofs ---------------------------
(***************************************************************************)
(* Proofs about the MCP server: the standalone server of StdioServer and   *)
(* the tables behind its tools, McpStores, each for any sets and limits.   *)
(*                                                                         *)
(* StdioServer: every line is answered once, and the pool of inline        *)
(* connections keeps its limit and agrees with the connection table.  The  *)
(* eviction loop needs facts of its own: it ends, because every id in the  *)
(* pool has a place in the order list, and what it has put aside is what   *)
(* it has taken out of the pool.                                           *)
(*                                                                         *)
(* McpStores: the order lists are sorted, a session's place by its last    *)
(* use, and that is what every operation on them has to keep; the settings *)
(* reach the stores one after the other.                                   *)
(***************************************************************************)
EXTENDS StdioServer, McpStores, TLAPS, FiniteSetTheorems, WellFoundedInduction

\* A set of naturals that is not empty has a least element.
LEMMA LeastElement ==
  ASSUME NEW T \in SUBSET Nat, T # {}
  PROVE  \E x \in T : \A y \in T : x <= y
  <1> DEFINE R == {ss \in Nat \X Nat : ss[1] < ss[2]}
  <1>1. IsWellFoundedOn(R, Nat)
    BY NatLessThanWellFounded DEF OpToRel
  <1>2. \A x, y \in Nat : y < x => <<y, x>> \in R
    OBVIOUS
  <1> HIDE DEF R
  <1>3. PICK x \in T : \A y \in T : ~ (<<y, x>> \in R)
    BY <1>1, WFMin
  <1>4. \A y \in T : ~(y < x)
    BY <1>2, <1>3
  <1> QED BY <1>3, <1>4

-----------------------------------------------------------------------------
\* One answer per line.

Labels == {"unread", "resolve", "disconnect", "connect", "tool", "bridge", "forward", "write", "done"}

\* Where a line stands, and what was and will be written for it: a line without
\* an answer is a notification, and only a line that is done has been answered.
LineInv(l) ==
  /\ l \in read <=> pc[l] # "unread"
  /\ l \in silent => pc[l] \in {"write", "done"}
  /\ pc[l] = "write" => (reply[l] = "none" <=> l \in silent)
  /\ out[l] = IF pc[l] = "done" /\ l \notin silent THEN 1 ELSE 0

AnswerInv ==
  /\ pc \in [Lines -> Labels] /\ out \in [Lines -> Nat]
  /\ reply \in [Lines -> {"none", "error", "failed", "result"}]
  /\ read \subseteq Lines /\ silent \subseteq Lines
  /\ \A l \in Lines : LineInv(l)
  /\ serve = "drained" => Busy = {}

\* Nothing is read.
LEMMA AnswerInit == Init => AnswerInv
  BY DEF Init, AnswerInv, LineInv, Labels

\* A step between reading a line and writing its answer.
LEMMA AnswerMiddle ==
  ASSUME AnswerInv, NEW l \in Lines, NEW label \in Labels, pc' = [pc EXCEPT ![l] = label],
         pc[l] \notin {"unread", "write", "done"}, label \notin {"unread", "done"},
         \/ label # "write" /\ UNCHANGED reply
         \/ \E a \in {"failed", "result"} : reply' = [reply EXCEPT ![l] = a],
         UNCHANGED <<read, silent, out, serve>>
  PROVE  AnswerInv'
  <1>1. /\ pc'[l] = label /\ \A k \in Lines \ {l} : pc'[k] = pc[k] /\ reply'[k] = reply[k]
        /\ label = "write" => reply'[l] # "none"
    BY DEF AnswerInv
  <1>2. LineInv(l) /\ l \notin silent
    BY DEF AnswerInv, LineInv
  <1>3. LineInv(l)'
    BY <1>1, <1>2 DEF LineInv
  <1>4. \A k \in Lines \ {l} : LineInv(k)'
    BY <1>1 DEF AnswerInv, LineInv
  <1>5. l \in Busy
    BY DEF Busy, AnswerInv
  <1>6. serve' # "drained"
    BY <1>5 DEF AnswerInv
  <1>7. /\ pc' \in [Lines -> Labels]
        /\ reply' \in [Lines -> {"none", "error", "failed", "result"}]
    BY DEF AnswerInv
  <1> QED BY <1>3, <1>4, <1>6, <1>7 DEF AnswerInv

\* Serve: a line is read.
LEMMA AnswerRead ==
  ASSUME AnswerInv, NEW l \in Lines, Read(l)
  PROVE  AnswerInv'
  <1>1. PICK k \in Kinds :
          /\ reply' = IF k \in {"call", "overlong"} THEN reply ELSE [reply EXCEPT ![l] = Reply(k)]
          /\ out' = IF k = "overlong" THEN [out EXCEPT ![l] = @ + 1] ELSE out
          /\ silent' = IF k = "notification" THEN silent \cup {l} ELSE silent
          /\ pc' = [pc EXCEPT ![l] = CASE k = "call" -> "resolve" [] k = "overlong" -> "done" [] OTHER -> "write"]
    BY DEF Read
  <1>2. serve = "reading" /\ pc[l] = "unread" /\ read' = read \cup {l} /\ serve' = serve
    BY DEF Read
  <1>3. /\ LineInv(l) /\ l \notin silent /\ out[l] = 0
    BY <1>2 DEF AnswerInv, LineInv
  <1>4. Reply(k) \in {"none", "error", "failed", "result"} /\ (Reply(k) = "none" <=> k = "notification")
    BY DEF Reply
  <1>5. /\ pc'[l] = CASE k = "call" -> "resolve" [] k = "overlong" -> "done" [] OTHER -> "write"
        /\ out'[l] = IF k = "overlong" THEN 1 ELSE 0
        /\ k \notin {"call", "overlong"} => reply'[l] = Reply(k)
        /\ \A m \in Lines \ {l} : pc'[m] = pc[m] /\ reply'[m] = reply[m] /\ out'[m] = out[m]
    BY <1>1, <1>3 DEF AnswerInv
  <1>6. /\ pc' \in [Lines -> Labels] /\ out' \in [Lines -> Nat]
        /\ reply' \in [Lines -> {"none", "error", "failed", "result"}]
        /\ read' \subseteq Lines /\ silent' \subseteq Lines
    <2>1. (CASE k = "call" -> "resolve" [] k = "overlong" -> "done" [] OTHER -> "write") \in Labels
      BY DEF Labels
    <2>2. pc' \in [Lines -> Labels]
      BY <1>1, <2>1 DEF AnswerInv
    <2>3. out' \in [Lines -> Nat]
      BY <1>1 DEF AnswerInv
    <2>4. reply' \in [Lines -> {"none", "error", "failed", "result"}]
      BY <1>1, <1>4 DEF AnswerInv
    <2> QED BY <1>1, <1>2, <2>2, <2>3, <2>4 DEF AnswerInv
  <1>7. LineInv(l)'
    <2>1. l \in silent' <=> k = "notification"
      BY <1>1, <1>3
    <2>2. l \in read'
      BY <1>2
    <2>3. CASE k = "call"
      BY <1>5, <2>1, <2>2, <2>3 DEF LineInv
    <2>4. CASE k = "overlong"
      BY <1>5, <2>1, <2>2, <2>4 DEF LineInv
    <2>5. CASE k \notin {"call", "overlong"}
      BY <1>4, <1>5, <2>1, <2>2, <2>5 DEF LineInv
    <2> QED BY <2>3, <2>4, <2>5
  <1>8. \A m \in Lines \ {l} : LineInv(m)'
    BY <1>1, <1>2, <1>5 DEF AnswerInv, LineInv
  <1> QED BY <1>2, <1>6, <1>7, <1>8 DEF AnswerInv

\* The answer is written.
LEMMA AnswerWrite ==
  ASSUME AnswerInv, NEW l \in Lines, Write(l)
  PROVE  AnswerInv'
  <1>1. /\ pc[l] = "write" /\ pc' = [pc EXCEPT ![l] = "done"] /\ reply' = [reply EXCEPT ![l] = "none"]
        /\ out' = IF reply[l] = "none" THEN out ELSE [out EXCEPT ![l] = @ + 1]
        /\ UNCHANGED <<read, silent, serve>>
    BY DEF Write, Goto
  <1>2. LineInv(l) /\ out[l] = 0
    BY <1>1 DEF AnswerInv, LineInv
  <1>3. /\ pc'[l] = "done" /\ out'[l] = IF reply[l] = "none" THEN 0 ELSE 1
        /\ \A m \in Lines \ {l} : pc'[m] = pc[m] /\ reply'[m] = reply[m] /\ out'[m] = out[m]
    BY <1>1, <1>2 DEF AnswerInv
  <1>4. LineInv(l)' /\ \A m \in Lines \ {l} : LineInv(m)'
    BY <1>1, <1>2, <1>3 DEF AnswerInv, LineInv
  <1>5. l \in Busy
    BY <1>1 DEF Busy
  <1>6. serve' # "drained"
    BY <1>1, <1>5 DEF AnswerInv
  <1>7. /\ pc' \in [Lines -> Labels] /\ out' \in [Lines -> Nat]
        /\ reply' \in [Lines -> {"none", "error", "failed", "result"}]
    BY <1>1 DEF AnswerInv, Labels
  <1> QED BY <1>1, <1>4, <1>6, <1>7 DEF AnswerInv

\* A goroutine's steps.
LEMMA AnswerLine ==
  ASSUME AnswerInv, NEW l \in Lines, LineStep(l)
  PROVE  AnswerInv'
  <1>1. CASE ResolveHit(l) \/ ResolveForward(l) \/ Register(l) \/ Connect(l) \/ BridgeFound(l)
    <2>1. /\ \E label \in {"tool", "bridge", "disconnect", "forward"} : pc' = [pc EXCEPT ![l] = label]
          /\ pc[l] \in {"resolve", "connect", "bridge"}
          /\ UNCHANGED <<read, silent, reply, out, serve>>
      BY <1>1 DEF ResolveHit, ResolveForward, Register, Connect, BridgeFound, Goto
    <2> QED BY <2>1, AnswerMiddle DEF Labels
  <1>2. CASE ResolveNone(l) \/ ConnectFails(l) \/ Tool(l) \/ Forward(l) \/ BridgeTimeout(l)
    <2>1. /\ pc' = [pc EXCEPT ![l] = "write"] /\ pc[l] \in {"resolve", "connect", "tool", "forward", "bridge"}
          /\ \E a \in {"failed", "result"} : reply' = [reply EXCEPT ![l] = a]
          /\ UNCHANGED <<read, silent, out, serve>>
      BY <1>2 DEF ResolveNone, ConnectFails, Tool, Forward, BridgeTimeout, Answer, Goto
    <2> QED BY <2>1, AnswerMiddle DEF Labels
  <1>3. CASE Disconnect(l)
    <2>1. /\ pc[l] = "disconnect" /\ UNCHANGED <<read, silent, reply, out, serve>>
          /\ pc' = [pc EXCEPT ![l] = "connect"] \/ pc' = pc
      BY <1>3 DEF Disconnect, Goto
    <2>2. CASE pc' = [pc EXCEPT ![l] = "connect"]
      BY <2>1, <2>2, AnswerMiddle DEF Labels
    <2>3. CASE pc' = pc
      <3>1. \A k \in Lines : LineInv(k)'
        BY <2>1, <2>3 DEF AnswerInv, LineInv
      <3> QED BY <2>1, <2>3, <3>1 DEF AnswerInv, Busy
    <2> QED BY <2>1, <2>2, <2>3
  <1>4. CASE Write(l)
    BY <1>4, AnswerWrite
  <1> QED BY <1>1, <1>2, <1>3, <1>4 DEF LineStep

\* Every step keeps the answers in step with the lines.
LEMMA AnswerNext == AnswerInv /\ [Next]_vars => AnswerInv'
  <1> SUFFICES ASSUME AnswerInv, [Next]_vars PROVE AnswerInv'
    OBVIOUS
  <1>1. CASE \E l \in Lines : Read(l) \/ LineStep(l)
    BY <1>1, AnswerRead, AnswerLine
  <1>2. CASE ServeStep \/ AppFlips \/ UNCHANGED vars
    <2>1. /\ UNCHANGED <<read, silent, pc, reply, out>>
          /\ serve' = "drained" => serve = "drained" \/ Busy = {}
      BY <1>2 DEF ServeStep, EndOfInput, ReadFails, Drained, DrainTimeout, Close, AppFlips, vars
    <2>2. \A k \in Lines : LineInv(k)'
      BY <2>1 DEF AnswerInv, LineInv
    <2> QED BY <2>1, <2>2 DEF AnswerInv, Busy
  <1> QED BY <1>1, <1>2 DEF Next, Closed

\* Serve has answered every line once when it has drained, however the goroutines
\* interleave.
THEOREM StdioAnswers == Spec => []DrainAnswersAll
  <1>1. AnswerInv => DrainAnswersAll
    <2> SUFFICES ASSUME AnswerInv, serve = "drained", NEW l \in read
                 PROVE  out[l] = IF l \in silent THEN 0 ELSE 1
      BY DEF DrainAnswersAll
    <2>1. l \in Lines /\ LineInv(l) /\ l \notin Busy
      BY DEF AnswerInv
    <2>2. pc[l] = "done"
      BY <2>1 DEF LineInv, Busy
    <2> QED BY <2>1, <2>2 DEF LineInv
  <1> QED BY <1>1, AnswerInit, AnswerNext, PTL DEF Spec

-----------------------------------------------------------------------------
\* The eviction loop.

\* Types of the pool; each of its ids has a place in the order list.
PoolTypes ==
  /\ order \in Seq(Inline) /\ pool \subseteq Ids(order)
  /\ IsFiniteSet(pool) /\ Cardinality(pool) <= Cap
  /\ stale \in [Lines -> Seq(Inline)]
  /\ req \in [Lines -> [inline : Inline \cup {NoId}, id : Inline \cup Saved \cup {NoId}]]
  /\ crossed \in BOOLEAN

\* An id is left in the pool when none of the pops was its own.
LEMMA PoppedIn ==
  ASSUME order \in Seq(Inline), NEW n \in 0 .. Len(order), NEW x
  PROVE  x \in Popped(n) <=> x \in pool /\ \A i \in 1 .. n : order[i] # x
  <1>1. Len(order) \in Nat /\ SubSeq(order, 1, n) \in Seq(Inline) /\ Len(SubSeq(order, 1, n)) = n
    OBVIOUS
  <1>2. \A i \in 1 .. n : SubSeq(order, 1, n)[i] = order[i]
    BY <1>1
  <1>3. DOMAIN SubSeq(order, 1, n) = 1 .. n
    BY <1>1
  <1> QED BY <1>2, <1>3 DEF Popped, Ids

\* Each pop takes the id it pops.
LEMMA PoppedStep ==
  ASSUME order \in Seq(Inline), NEW k \in 1 .. Len(order)
  PROVE  Popped(k) = Popped(k - 1) \ {order[k]}
  <1>1. Len(order) \in Nat /\ k - 1 \in 0 .. Len(order) /\ k \in 0 .. Len(order)
    OBVIOUS
  <1>2. \A i \in 1 .. k : i \in 1 .. k - 1 \/ i = k
    OBVIOUS
  <1>3. \A x : x \in Popped(k) <=> x \in pool /\ \A i \in 1 .. k : order[i] # x
    BY <1>1, PoppedIn
  <1>4. \A x : x \in Popped(k - 1) <=> x \in pool /\ \A i \in 1 .. k - 1 : order[i] # x
    BY <1>1, PoppedIn
  <1>5. \A i \in 1 .. k - 1 : i \in 1 .. k
    OBVIOUS
  <1>6. \A x : x \in Popped(k) <=> x \in Popped(k - 1) /\ order[k] # x
    BY <1>2, <1>3, <1>4, <1>5
  <1> QED BY <1>6

\* The loop ends, with room for one more.
LEMMA PopsRoom ==
  ASSUME PoolTypes
  PROVE  Pops \in 0 .. Len(order) /\ Cardinality(Popped(Pops)) < Cap
  <1> DEFINE T == {n \in 0 .. Len(order) : Cardinality(Popped(n)) < Cap}
  <1>1. order \in Seq(Inline) /\ Len(order) \in Nat /\ Cap \in Nat \ {0} /\ IsFiniteSet(pool)
    BY StdioAssumption DEF PoolTypes
  <1>2. Popped(Len(order)) = {}
    <2>1. \A x \in pool : \E i \in 1 .. Len(order) : order[i] = x
      BY <1>1 DEF PoolTypes, Ids
    <2> QED BY <1>1, <2>1, PoppedIn
  <1>3. Len(order) \in T
    <2>1. Cardinality(Popped(Len(order))) = 0
      BY <1>2, FS_EmptySet
    <2> QED BY <1>1, <2>1
  <1>4. PICK n \in T : \A m \in T : n <= m
    <2>1. T \in SUBSET Nat /\ T # {}
      BY <1>1, <1>3
    <2> HIDE DEF T
    <2> QED BY <2>1, LeastElement
  <1>5. \A m \in 0 .. n - 1 : Cardinality(Popped(m)) >= Cap
    <2> SUFFICES ASSUME NEW m \in 0 .. n - 1 PROVE Cardinality(Popped(m)) >= Cap
      OBVIOUS
    <2>1. m \in 0 .. Len(order) /\ m < n
      BY <1>1, <1>4
    <2>2. m \notin T
      BY <1>1, <1>4, <2>1
    <2>3. Popped(m) \in SUBSET pool
      BY DEF Popped
    <2>4. Cardinality(Popped(m)) \in Nat
      BY <1>1, <2>3, FS_Subset, FS_CardinalityType
    <2> QED BY <1>1, <2>1, <2>2, <2>4
  <1>6. \E m \in 0 .. Len(order) :
          Cardinality(Popped(m)) < Cap /\ \A j \in 0 .. m - 1 : Cardinality(Popped(j)) >= Cap
    BY <1>4, <1>5
  <1> QED BY <1>6 DEF Pops

\* The ids in a sequence that grows ...
LEMMA IdsAppend ==
  ASSUME NEW q \in Seq(Inline), NEW x \in Inline
  PROVE  Append(q, x) \in Seq(Inline) /\ Ids(Append(q, x)) = Ids(q) \cup {x}
  <1>1. /\ Append(q, x) \in Seq(Inline) /\ Len(q) \in Nat
        /\ DOMAIN q = 1 .. Len(q) /\ DOMAIN Append(q, x) = 1 .. Len(q) + 1
    OBVIOUS
  <1>2. /\ \A i \in 1 .. Len(q) : Append(q, x)[i] = q[i]
        /\ Append(q, x)[Len(q) + 1] = x
    OBVIOUS
  <1>3. \A i \in 1 .. Len(q) + 1 : i \in 1 .. Len(q) \/ i = Len(q) + 1
    BY <1>1
  <1>4. \A i \in 1 .. Len(q) : i \in 1 .. Len(q) + 1
    BY <1>1
  <1>5. Len(q) + 1 \in 1 .. Len(q) + 1
    BY <1>1
  <1> QED BY <1>1, <1>2, <1>3, <1>4, <1>5 DEF Ids

\* ... and loses its head.
LEMMA IdsTail ==
  ASSUME NEW q \in Seq(Inline), q # << >>
  PROVE  Tail(q) \in Seq(Inline) /\ Ids(q) = Ids(Tail(q)) \cup {Head(q)}
  <1>1. /\ Len(q) \in Nat \ {0} /\ DOMAIN q = 1 .. Len(q) /\ Tail(q) \in Seq(Inline)
        /\ DOMAIN Tail(q) = 1 .. Len(q) - 1 /\ Head(q) = q[1]
    OBVIOUS
  <1>2. \A i \in 1 .. Len(q) - 1 : Tail(q)[i] = q[i + 1]
    OBVIOUS
  <1>3. \A i \in 1 .. Len(q) - 1 : i + 1 \in 1 .. Len(q)
    BY <1>1
  <1>4. ASSUME NEW i \in 1 .. Len(q) PROVE i = 1 \/ \E j \in 1 .. Len(q) - 1 : q[i] = Tail(q)[j]
    <2>1. CASE i # 1
      <3>1. i - 1 \in 1 .. Len(q) - 1 /\ (i - 1) + 1 = i
        BY <1>1, <2>1
      <3>2. Tail(q)[i - 1] = q[i]
        BY <1>2, <3>1
      <3> QED BY <3>1, <3>2
    <2> QED BY <2>1
  <1>5. 1 \in 1 .. Len(q)
    BY <1>1
  <1>6. ASSUME NEW x \in Ids(q) PROVE x \in Ids(Tail(q)) \cup {Head(q)}
    <2>1. PICK i \in 1 .. Len(q) : x = q[i]
      BY <1>1 DEF Ids
    <2>2. CASE i = 1
      BY <1>1, <2>1, <2>2
    <2>3. CASE \E j \in 1 .. Len(q) - 1 : q[i] = Tail(q)[j]
      BY <1>1, <2>1, <2>3 DEF Ids
    <2> QED BY <1>4, <2>2, <2>3
  <1>7. Head(q) \in Ids(q)
    BY <1>1, <1>5 DEF Ids
  <1>8. \A x \in Ids(Tail(q)) : x \in Ids(q)
    BY <1>1, <1>2, <1>3 DEF Ids
  <1> QED BY <1>1, <1>6, <1>7, <1>8

\* What is put aside after n pops: the recursion has a solution, and the ids in it
\* are the ones no longer in the pool.
LEMMA EvictedIds ==
  ASSUME order \in Seq(Inline), NEW n \in 0 .. Len(order)
  PROVE  Evicted(n) \in Seq(Inline) /\ Ids(Evicted(n)) = pool \ Popped(n)
  <1> DEFINE Def(g, k) == g = [j \in 0 .. k |->
                 IF j = 0 THEN << >>
                 ELSE IF order[j] \in Popped(j - 1) THEN Append(g[j - 1], order[j]) ELSE g[j - 1]]
             G(k) == \E g : Def(g, k)
             S == {k \in Nat : ~G(k)}
  <1>1. Len(order) \in Nat /\ n \in Nat
    OBVIOUS
  <1>2. G(n)
    <2> SUFFICES ASSUME S # {} PROVE FALSE
      BY <1>1
    <2>1. PICK k \in S : \A j \in S : k <= j
      <3>1. S \in SUBSET Nat
        OBVIOUS
      <3> HIDE DEF S
      <3> QED BY <3>1, LeastElement
    <2>2. G(0)
      <3> DEFINE h == [j \in 0 .. 0 |-> << >>]
      <3>1. Def(h, 0)
        OBVIOUS
      <3> QED BY <3>1
    <2>3. k # 0 /\ k - 1 \in Nat
      <3> HIDE DEF G
      <3> QED BY <2>1, <2>2
    <2>4. G(k - 1)
      <3> HIDE DEF G
      <3> QED BY <2>1, <2>3
    <2>5. PICK g : Def(g, k - 1)
      BY <2>4
    <2> DEFINE h == [j \in 0 .. k |-> IF j <= k - 1 THEN g[j]
                                      ELSE IF order[k] \in Popped(k - 1) THEN Append(g[k - 1], order[k]) ELSE g[k - 1]]
    <2>6. ASSUME NEW j \in 0 .. k
          PROVE  h[j] = IF j = 0 THEN << >>
                        ELSE IF order[j] \in Popped(j - 1) THEN Append(h[j - 1], order[j]) ELSE h[j - 1]
      <3>1. CASE j <= k - 1
        <4>1. j \in 0 .. k - 1 /\ h[j] = g[j]
          BY <2>3, <3>1
        <4>2. g[j] = IF j = 0 THEN << >>
                     ELSE IF order[j] \in Popped(j - 1) THEN Append(g[j - 1], order[j]) ELSE g[j - 1]
          BY <2>5, <4>1
        <4>3. j # 0 => h[j - 1] = g[j - 1]
          BY <2>3, <3>1
        <4> HIDE DEF h
        <4> QED BY <4>1, <4>2, <4>3
      <3>2. CASE j = k
        BY <2>3, <2>5, <3>2
      <3> QED BY <2>3, <3>1, <3>2
    <2>7. Def(h, k)
      BY <2>6
    <2> QED BY <2>1, <2>7
  <1>3. PICK f : Def(f, n) /\ Evicted(n) = f[n]
    <2> DEFINE f == CHOOSE g : Def(g, n)
    <2>1. Def(f, n)
      BY <1>2
    <2>2. Evicted(n) = f[n]
      BY DEF Evicted
    <2> QED BY <2>1, <2>2
  <1> DEFINE P(k) == k \in 0 .. n => f[k] \in Seq(Inline) /\ Ids(f[k]) = pool \ Popped(k)
             B == {k \in Nat : ~P(k)}
  <1>4. P(n)
    <2> SUFFICES ASSUME B # {} PROVE FALSE
      BY <1>1
    <2>1. PICK k \in B : \A j \in B : k <= j
      <3>1. B \in SUBSET Nat
        OBVIOUS
      <3> HIDE DEF B
      <3> QED BY <3>1, LeastElement
    <2>2. P(0)
      <3>1. f[0] = << >>
        BY <1>1, <1>3
      <3>2. \A x : x \in Popped(0) <=> x \in pool
        BY <1>1, PoppedIn
      <3> QED BY <3>1, <3>2 DEF Ids
    <2>3. k # 0 /\ k \in 0 .. n /\ k - 1 \in 0 .. n /\ k - 1 \in Nat
      <3>1. k \in 0 .. n
        BY <2>1
      <3> HIDE DEF P
      <3> QED BY <1>1, <2>1, <2>2, <3>1
    <2>4. P(k - 1)
      <3> HIDE DEF P
      <3> QED BY <2>1, <2>3
    <2>5. f[k - 1] \in Seq(Inline) /\ Ids(f[k - 1]) = pool \ Popped(k - 1)
      BY <2>3, <2>4
    <2>6. f[k] = IF order[k] \in Popped(k - 1) THEN Append(f[k - 1], order[k]) ELSE f[k - 1]
      BY <1>3, <2>3
    <2>7. k \in 1 .. Len(order) /\ order[k] \in Inline
      BY <1>1, <2>3
    <2>8. Popped(k) = Popped(k - 1) \ {order[k]} /\ Popped(k - 1) \subseteq pool
      BY <2>7, PoppedStep DEF Popped
    <2>9. CASE order[k] \in Popped(k - 1)
      <3>1. f[k] = Append(f[k - 1], order[k])
        BY <2>6, <2>9
      <3>2. f[k] \in Seq(Inline) /\ Ids(f[k]) = Ids(f[k - 1]) \cup {order[k]}
        BY <2>5, <2>7, <3>1, IdsAppend
      <3> QED BY <2>1, <2>5, <2>8, <2>9, <3>2
    <2>10. CASE order[k] \notin Popped(k - 1)
      <3>1. f[k] = f[k - 1] /\ Popped(k) = Popped(k - 1)
        BY <2>6, <2>8, <2>10
      <3> QED BY <2>1, <2>5, <3>1
    <2> QED BY <2>9, <2>10
  <1> QED BY <1>3, <1>4

-----------------------------------------------------------------------------
\* The pool and the connection table.

\* The only registration under way: what it still has to disconnect is all the
\* table has beyond the pool, and its own id is all the pool has beyond the table.
TurnInv(l) ==
  LET rest == pool \ {req[l].inline}
  IN /\ req[l].inline \in pool
     /\ pc[l] = "disconnect" => /\ rest \subseteq conns /\ conns \subseteq rest \cup Ids(stale[l])
                                /\ pool \cap Ids(stale[l]) = {}
     /\ pc[l] = "connect" => conns = rest

PoolInv ==
  /\ PoolTypes
  /\ ~crossed /\ serve # "closed" =>
       /\ \A k, l \in Registering : k = l
       /\ Registering = {} => pool = conns
       /\ \A l \in Registering : TurnInv(l)

\* An empty pool beside an empty table.
LEMMA PoolInit == Init => PoolInv
  <1> SUFFICES ASSUME Init PROVE PoolInv
    OBVIOUS
  <1>1. Registering = {} /\ pool = {} /\ conns = {}
    BY DEF Init, Registering
  <1>2. PoolTypes
    <2>1. IsFiniteSet(pool) /\ Cardinality(pool) <= Cap
      <3>1. IsFiniteSet({}) /\ Cardinality({}) = 0
        BY FS_EmptySet
      <3>2. Cap \in Nat
        BY StdioAssumption
      <3> QED BY <1>1, <3>1, <3>2
    <2>2. NoReq \in [inline : Inline \cup {NoId}, id : Inline \cup Saved \cup {NoId}]
      BY DEF NoReq
    <2>3. order \in Seq(Inline) /\ pool \subseteq Ids(order) /\ stale \in [Lines -> Seq(Inline)] /\ crossed \in BOOLEAN
      <3>1. order = << >> /\ stale = [l \in Lines |-> << >>] /\ crossed = FALSE
        BY DEF Init
      <3>2. << >> \in Seq(Inline)
        OBVIOUS
      <3> QED BY <1>1, <3>1, <3>2
    <2>4. req \in [Lines -> [inline : Inline \cup {NoId}, id : Inline \cup Saved \cup {NoId}]]
      <3>1. req = [l \in Lines |-> NoReq]
        BY DEF Init
      <3> QED BY <2>2, <3>1
    <2> QED BY <2>1, <2>3, <2>4 DEF PoolTypes
  <1> QED BY <1>1, <1>2 DEF PoolInv

\* A step outside a registration that leaves pool and table alone.
LEMMA PoolQuiet ==
  ASSUME PoolInv, UNCHANGED <<pool, order, conns, stale, crossed>>,
         serve' # "closed" => serve # "closed",
         req' \in [Lines -> [inline : Inline \cup {NoId}, id : Inline \cup Saved \cup {NoId}]],
         Registering' = Registering,
         \A l \in Registering : pc'[l] = pc[l] /\ req'[l] = req[l]
  PROVE  PoolInv'
  <1>1. PoolTypes'
    BY DEF PoolInv, PoolTypes, Ids
  <1>2. ASSUME ~crossed, serve # "closed", NEW l \in Registering PROVE TurnInv(l)'
    <2>1. TurnInv(l)
      BY <1>2 DEF PoolInv
    <2> QED BY <2>1 DEF TurnInv, Ids
  <1> QED BY <1>1, <1>2 DEF PoolInv

\* pooledConnectionID with the lock held: room is made, the id gets its place.
LEMMA PoolRegister ==
  ASSUME PoolInv, pc \in [Lines -> Labels], NEW l \in Lines, Register(l)
  PROVE  PoolInv'
  <1> DEFINE id == req[l].inline
             n == Pops
  <1>1. /\ pc[l] = "resolve" /\ id # NoId /\ id \notin pool
        /\ stale' = [stale EXCEPT ![l] = Evicted(n)]
        /\ pool' = Popped(n) \cup {id} /\ order' = OrderAfter(n, id)
        /\ crossed' = (crossed \/ Registering # {}) /\ pc' = [pc EXCEPT ![l] = "disconnect"]
        /\ UNCHANGED <<req, conns, serve>>
    BY DEF Register, Goto
  <1>2. PoolTypes /\ order \in Seq(Inline) /\ Len(order) \in Nat
    BY DEF PoolInv, PoolTypes
  <1>3. id \in Inline
    BY <1>1, <1>2 DEF PoolTypes
  <1>4. n \in 0 .. Len(order) /\ Cardinality(Popped(n)) < Cap
    BY <1>2, PopsRoom
  <1> HIDE DEF n, id
  <1>5. Evicted(n) \in Seq(Inline) /\ Ids(Evicted(n)) = pool \ Popped(n)
    BY <1>2, <1>4, EvictedIds
  <1>6. Popped(n) \in SUBSET pool
    BY DEF Popped
  <1>7. PoolTypes'
    <2>1. /\ IsFiniteSet(Popped(n)) /\ Cardinality(Popped(n)) \in Nat
      BY <1>2, <1>6, FS_Subset, FS_CardinalityType DEF PoolTypes
    <2>2. IsFiniteSet(pool') /\ Cardinality(pool') <= Cap
      <3>1. Cardinality(Popped(n) \cup {id}) = Cardinality(Popped(n)) + 1
        BY <1>1, <1>6, <2>1, FS_AddElement
      <3>2. IsFiniteSet(pool')
        BY <1>1, <2>1, FS_AddElement
      <3>3. Cap \in Nat
        BY StdioAssumption
      <3> QED BY <1>1, <1>4, <2>1, <3>1, <3>2, <3>3
    <2> DEFINE kept == SubSeq(order, n + 1, Len(order))
    <2>3. /\ kept \in Seq(Inline) /\ DOMAIN kept = 1 .. Len(order) - n
          /\ \A i \in 1 .. Len(order) - n : kept[i] = order[i + n]
      BY <1>2, <1>4
    <2>4. order' = Append(kept, id)
      BY <1>1 DEF OrderAfter
    <2>5. Popped(n) \subseteq Ids(kept)
      <3> SUFFICES ASSUME NEW x \in Popped(n) PROVE \E i \in DOMAIN kept : kept[i] = x
        BY DEF Ids
      <3>1. x \in pool /\ \A i \in 1 .. n : order[i] # x
        BY <1>2, <1>4, PoppedIn
      <3>2. PICK i \in 1 .. Len(order) : order[i] = x
        BY <1>2, <3>1 DEF PoolTypes, Ids
      <3>3. i - n \in 1 .. Len(order) - n /\ i - n + n = i
        BY <1>2, <1>4, <3>1, <3>2
      <3>4. kept[i - n] = x
        BY <2>3, <3>2, <3>3
      <3> QED BY <2>3, <3>3, <3>4
    <2> HIDE DEF kept
    <2>6. order' \in Seq(Inline) /\ Ids(order') = Ids(kept) \cup {id}
      BY <1>3, <2>3, <2>4, IdsAppend
    <2>7. pool' \subseteq Ids(order')
      BY <1>1, <2>5, <2>6
    <2>8. stale' \in [Lines -> Seq(Inline)]
      BY <1>1, <1>2, <1>5 DEF PoolTypes
    <2>9. crossed' \in BOOLEAN /\ req' = req
      BY <1>1, <1>2 DEF PoolTypes
    <2> QED BY <1>2, <2>2, <2>6, <2>7, <2>8, <2>9 DEF PoolTypes, Ids
  <1>8. ASSUME ~crossed', serve' # "closed"
        PROVE  Registering' = {l} /\ TurnInv(l)'
    <2>1. Registering = {} /\ pool = conns
      BY <1>1, <1>2, <1>8 DEF PoolInv, PoolTypes
    <2>2. Registering' = {l}
      BY <1>1, <2>1 DEF Registering
    <2>3. stale'[l] = Evicted(n) /\ req'[l].inline = id /\ pc'[l] = "disconnect"
      BY <1>1, <1>2 DEF PoolTypes, id
    <2>4. Ids(stale'[l]) = pool \ Popped(n)
      BY <1>5, <2>3
    <2>5. pool' \ {id} = Popped(n)
      BY <1>1, <1>6
    <2>6. /\ id \in pool' /\ Popped(n) \subseteq conns' /\ conns' \subseteq Popped(n) \cup (pool \ Popped(n))
          /\ pool' \cap (pool \ Popped(n)) = {}
      BY <1>1, <1>6, <2>1
    <2>7. Ids(stale[l])' = pool \ Popped(n)
      BY <2>4 DEF Ids
    <2> QED BY <2>2, <2>3, <2>5, <2>6, <2>7 DEF TurnInv
  <1> QED BY <1>7, <1>8 DEF PoolInv

\* The steps of a registration after the lock is released.
LEMMA PoolTurn ==
  ASSUME PoolInv, pc \in [Lines -> Labels], serve # "closed", NEW l \in Lines,
         Disconnect(l) \/ Connect(l) \/ ConnectFails(l)
  PROVE  PoolInv'
  <1> DEFINE id == req[l].inline
             rest == pool \ {id}
  <1>1. PoolTypes /\ l \in Registering /\ pc[l] \in {"disconnect", "connect"}
    BY DEF PoolInv, Registering, Disconnect, Connect, ConnectFails
  <1>2. UNCHANGED <<req, order, crossed, serve>> /\ \A k \in Lines \ {l} : pc'[k] = pc[k]
    BY DEF Disconnect, Connect, ConnectFails, Goto, Answer
  <1>3. ~crossed => Registering = {l} /\ TurnInv(l)
    BY <1>1 DEF PoolInv
  <1>4. CASE Disconnect(l) /\ stale[l] # << >>
    <2>1. /\ pc[l] = "disconnect" /\ conns' = conns \ {Head(stale[l])}
          /\ stale' = [stale EXCEPT ![l] = Tail(@)] /\ UNCHANGED <<pc, pool>>
      BY <1>4 DEF Disconnect
    <2>2. /\ stale[l] \in Seq(Inline) /\ Tail(stale[l]) \in Seq(Inline)
          /\ Ids(stale[l]) = Ids(Tail(stale[l])) \cup {Head(stale[l])}
      <3>1. stale[l] \in Seq(Inline) /\ Len(stale[l]) \in Nat \ {0}
        BY <1>1, <1>4 DEF PoolTypes
      <3> QED BY <1>4, <3>1, IdsTail
    <2>3. stale' \in [Lines -> Seq(Inline)] /\ stale'[l] = Tail(stale[l])
      BY <1>1, <2>1, <2>2 DEF PoolTypes
    <2>4. PoolTypes'
      BY <1>1, <1>2, <2>1, <2>3 DEF PoolTypes, Ids
    <2>5. ASSUME ~crossed' PROVE Registering' = {l} /\ TurnInv(l)'
      <3>1. Registering' = {l} /\ TurnInv(l)
        BY <1>2, <1>3, <2>1, <2>5 DEF Registering
      <3>2. /\ id \in pool /\ rest \subseteq conns /\ conns \subseteq rest \cup Ids(stale[l])
            /\ pool \cap Ids(stale[l]) = {}
        BY <2>1, <3>1 DEF TurnInv
      <3>3. /\ rest \subseteq conns' /\ conns' \subseteq rest \cup Ids(Tail(stale[l]))
            /\ pool \cap Ids(Tail(stale[l])) = {}
        BY <2>1, <2>2, <3>2
      <3>4. Ids(stale[l])' = Ids(Tail(stale[l]))
        BY <2>3 DEF Ids
      <3> QED BY <1>2, <2>1, <3>1, <3>2, <3>3, <3>4 DEF TurnInv
    <2> QED BY <2>4, <2>5 DEF PoolInv
  <1>5. CASE Disconnect(l) /\ stale[l] = << >>
    <2>1. /\ pc[l] = "disconnect" /\ pc' = [pc EXCEPT ![l] = "connect"] /\ UNCHANGED <<stale, conns, pool>>
      BY <1>5 DEF Disconnect, Goto
    <2>2. PoolTypes'
      BY <1>1, <1>2, <2>1 DEF PoolTypes, Ids
    <2>3. ASSUME ~crossed' PROVE Registering' = {l} /\ TurnInv(l)'
      <3>1. Registering' = {l} /\ TurnInv(l) /\ pc'[l] = "connect"
        BY <1>2, <1>3, <2>1, <2>3 DEF Registering
      <3>2. Ids(stale[l]) = {}
        BY <1>5 DEF Ids
      <3>3. id \in pool /\ conns = rest
        BY <2>1, <3>1, <3>2 DEF TurnInv
      <3> QED BY <1>2, <2>1, <3>1, <3>3 DEF TurnInv
    <2> QED BY <2>2, <2>3 DEF PoolInv
  <1>6. CASE Connect(l)
    <2>1. /\ pc[l] = "connect" /\ pc' = [pc EXCEPT ![l] = "tool"] /\ conns' = conns \cup {id}
          /\ UNCHANGED <<stale, pool>>
      BY <1>6 DEF Connect, Goto
    <2>2. PoolTypes'
      BY <1>1, <1>2, <2>1 DEF PoolTypes, Ids
    <2>3. ASSUME ~crossed' PROVE Registering' = {} /\ pool' = conns'
      <3>1. Registering' = {} /\ TurnInv(l)
        BY <1>2, <1>3, <2>1, <2>3 DEF Registering
      <3>2. id \in pool /\ conns = rest
        BY <2>1, <3>1 DEF TurnInv
      <3> QED BY <2>1, <3>1, <3>2
    <2> QED BY <2>2, <2>3 DEF PoolInv
  <1>7. CASE ConnectFails(l)
    <2>1. /\ pc[l] = "connect" /\ pc' = [pc EXCEPT ![l] = "write"] /\ pool' = pool \ {id}
          /\ UNCHANGED <<stale, conns>>
      BY <1>7 DEF ConnectFails, Answer, Goto
    <2>2. PoolTypes'
      <3>1. IsFiniteSet(pool) /\ pool' \in SUBSET pool /\ Cardinality(pool) <= Cap /\ Cap \in Nat
        BY <1>1, <2>1, StdioAssumption DEF PoolTypes
      <3>2. IsFiniteSet(pool') /\ Cardinality(pool') <= Cardinality(pool)
        BY <3>1, FS_Subset
      <3>3. Cardinality(pool') \in Nat /\ Cardinality(pool) \in Nat
        BY <3>1, <3>2, FS_CardinalityType
      <3>4. Cardinality(pool') <= Cap
        BY <3>1, <3>2, <3>3
      <3>5. pool' \subseteq Ids(order')
        BY <1>1, <1>2, <3>1 DEF PoolTypes
      <3> QED BY <1>1, <1>2, <2>1, <3>2, <3>4, <3>5 DEF PoolTypes, Ids
    <2>3. ASSUME ~crossed' PROVE Registering' = {} /\ pool' = conns'
      <3>1. Registering' = {} /\ TurnInv(l)
        BY <1>2, <1>3, <2>1, <2>3 DEF Registering
      <3>2. conns = rest
        BY <2>1, <3>1 DEF TurnInv
      <3> QED BY <2>1, <3>1, <3>2
    <2> QED BY <2>2, <2>3 DEF PoolInv
  <1> QED BY <1>4, <1>5, <1>6, <1>7

\* A step of a line outside a registration.
LEMMA PoolLine ==
  ASSUME PoolInv, pc \in [Lines -> Labels], NEW l \in Lines, serve' = serve,
         pc[l] \notin {"disconnect", "connect"}, NEW label \in Labels \ {"disconnect", "connect"},
         pc' = [pc EXCEPT ![l] = label], UNCHANGED <<pool, order, conns, stale, crossed>>,
         NEW r \in [inline : Inline \cup {NoId}, id : Inline \cup Saved \cup {NoId}],
         req' = req \/ req' = [req EXCEPT ![l] = r]
  PROVE  PoolInv'
  <1>1. Registering' = Registering /\ l \notin Registering /\ Registering \subseteq Lines
    BY DEF Registering
  <1>2. req \in [Lines -> [inline : Inline \cup {NoId}, id : Inline \cup Saved \cup {NoId}]]
    BY DEF PoolInv, PoolTypes
  <1>3. req' \in [Lines -> [inline : Inline \cup {NoId}, id : Inline \cup Saved \cup {NoId}]]
    BY <1>2
  <1>4. \A k \in Lines \ {l} : pc'[k] = pc[k] /\ req'[k] = req[k]
    BY <1>2
  <1> QED BY <1>1, <1>3, <1>4, PoolQuiet

\* Every step of the server.
LEMMA PoolNext == PoolInv /\ AnswerInv /\ [Next]_vars => PoolInv'
  <1> SUFFICES ASSUME PoolInv, AnswerInv, [Next]_vars PROVE PoolInv'
    OBVIOUS
  <1>1. pc \in [Lines -> Labels] /\ NoReq \in [inline : Inline \cup {NoId}, id : Inline \cup Saved \cup {NoId}]
    BY DEF AnswerInv, NoReq
  <1>2. ASSUME NEW l \in Lines, Read(l) PROVE PoolInv'
    <2>1. PICK i \in Inline \cup {NoId}, d \in Inline \cup Saved \cup {NoId} :
            req' = [req EXCEPT ![l] = [inline |-> i, id |-> d]]
      BY <1>2 DEF Read
    <2>2. /\ pc[l] = "unread" /\ UNCHANGED <<pool, order, conns, stale, crossed, serve>>
          /\ \E label \in {"resolve", "done", "write"} : pc' = [pc EXCEPT ![l] = label]
      BY <1>2 DEF Read, poolVars
    <2>3. [inline |-> i, id |-> d] \in [inline : Inline \cup {NoId}, id : Inline \cup Saved \cup {NoId}]
      OBVIOUS
    <2> QED BY <1>1, <2>1, <2>2, <2>3, PoolLine DEF Labels
  <1>3. ASSUME NEW l \in Lines, serve # "closed", LineStep(l) PROVE PoolInv'
    <2>1. CASE Register(l)
      BY <1>1, <2>1, PoolRegister
    <2>2. CASE Disconnect(l) \/ Connect(l) \/ ConnectFails(l)
      BY <1>1, <1>3, <2>2, PoolTurn
    <2>3. CASE \/ ResolveHit(l) \/ ResolveNone(l) \/ ResolveForward(l) \/ Tool(l) \/ BridgeFound(l)
              \/ Forward(l) \/ BridgeTimeout(l) \/ Write(l)
      <3>1. /\ pc[l] \in {"resolve", "tool", "bridge", "forward", "write"}
            /\ \E label \in {"tool", "write", "bridge", "forward", "done"} : pc' = [pc EXCEPT ![l] = label]
            /\ UNCHANGED <<pool, order, conns, stale, crossed, serve>>
            /\ req' = req \/ req' = [req EXCEPT ![l] = NoReq]
        BY <2>3 DEF ResolveHit, ResolveNone, ResolveForward, Tool, BridgeFound, Forward, BridgeTimeout, Write,
                    Goto, Answer, poolVars
      <3> QED BY <1>1, <3>1, PoolLine DEF Labels
    <2> QED BY <1>3, <2>1, <2>2, <2>3 DEF LineStep
  <1>4. CASE Close
    <2>1. UNCHANGED <<pool, order, stale, crossed, req>> /\ serve' = "closed"
      BY <1>4 DEF Close
    <2> QED BY <2>1 DEF PoolInv, PoolTypes, Ids
  <1>5. CASE EndOfInput \/ ReadFails \/ Drained \/ DrainTimeout \/ AppFlips \/ UNCHANGED vars
    <2>1. /\ UNCHANGED <<pool, order, conns, stale, crossed, req, pc>>
          /\ serve' # "closed" => serve # "closed"
      BY <1>5 DEF EndOfInput, ReadFails, Drained, DrainTimeout, AppFlips, vars, poolVars
    <2>2. Registering' = Registering
      BY <2>1 DEF Registering
    <2>3. req' \in [Lines -> [inline : Inline \cup {NoId}, id : Inline \cup Saved \cup {NoId}]]
      BY <2>1 DEF PoolInv, PoolTypes
    <2> QED BY <2>1, <2>2, <2>3, PoolQuiet
  <1> QED BY <1>2, <1>3, <1>4, <1>5 DEF Next, ServeStep, Closed

\* pooledConnectionID: the loop always ends with room in the pool, and without
\* crossed registrations the pool's ids are the table's connections.
THEOREM StdioPool == Spec => []PoolMatchesTable
  <1>1. PoolInv => PoolMatchesTable
    BY DEF PoolInv, PoolTypes, PoolMatchesTable
  <1>2. Init /\ [][Next]_vars => []AnswerInv
    BY AnswerInit, AnswerNext, PTL
  <1> QED BY <1>1, <1>2, PoolInit, PoolNext, PTL DEF Spec

-----------------------------------------------------------------------------
\* The lists of the stores.  Both are kept in an order: a session's place by its
\* last use, an intent's by its number.

Sorted(s, f) == \A i, j \in DOMAIN s : i < j => f[s[i]] < f[s[j]]

\* A sorted list names nothing twice.
LEMMA SortedNoDuplicates ==
  ASSUME NEW X, NEW s \in Seq(X), NEW f, \A x \in X : f[x] \in Int, Sorted(s, f)
  PROVE  IsFiniteSet(Range(s)) /\ Cardinality(Range(s)) = Len(s)
  <1>1. Len(s) \in Nat /\ DOMAIN s = 1 .. Len(s)
    OBVIOUS
  <1>2. \A i, j \in 1 .. Len(s) : s[i] = s[j] => i = j
    <2> SUFFICES ASSUME NEW i \in 1 .. Len(s), NEW j \in 1 .. Len(s), s[i] = s[j] PROVE i = j
      OBVIOUS
    <2>1. f[s[i]] \in Int /\ f[s[j]] \in Int
      OBVIOUS
    <2>2. ~(i < j) /\ ~(j < i)
      BY <1>1, <2>1 DEF Sorted
    <2> QED BY <1>1, <2>2
  <1>3. s \in Bijection(1 .. Len(s), Range(s))
    BY <1>1, <1>2 DEF Bijection, Injection, Surjection, IsInjective, Range
  <1>4. IsFiniteSet(1 .. Len(s)) /\ Cardinality(1 .. Len(s)) = Len(s)
    BY <1>1, FS_Interval
  <1>5. ExistsBijection(1 .. Len(s), Range(s))
    BY <1>3 DEF ExistsBijection
  <1> QED BY <1>4, <1>5, FS_Bijection

\* Putting an id behind those that come before it.
LEMMA SortedAppend ==
  ASSUME NEW X, NEW s \in Seq(X), NEW f, Sorted(s, f), NEW y \in X, \A x \in Range(s) : f[x] < f[y]
  PROVE  /\ Append(s, y) \in Seq(X)
         /\ Sorted(Append(s, y), f)
         /\ Range(Append(s, y)) = Range(s) \cup {y}
  <1> DEFINE t == Append(s, y)
  <1>1. t \in Seq(X) /\ Len(s) \in Nat /\ Len(t) = Len(s) + 1 /\ DOMAIN s = 1 .. Len(s) /\ DOMAIN t = 1 .. Len(s) + 1
    OBVIOUS
  <1>2. t[Len(s) + 1] = y /\ \A i \in 1 .. Len(s) : t[i] = s[i]
    OBVIOUS
  <1> HIDE DEF t
  <1>3. Range(t) = Range(s) \cup {y}
    <2>1. \A z \in Range(t) : z \in Range(s) \cup {y}
      BY <1>1, <1>2 DEF Range
    <2>2. \A z \in Range(s) : z \in Range(t)
      BY <1>1, <1>2 DEF Range
    <2>3. y \in Range(t)
      <3>1. Len(s) + 1 \in DOMAIN t
        BY <1>1
      <3> QED BY <1>2, <3>1 DEF Range
    <2> QED BY <2>1, <2>2, <2>3
  <1>4. ASSUME NEW i \in DOMAIN t, NEW j \in DOMAIN t, i < j
        PROVE  f[t[i]] < f[t[j]]
    <2>1. i \in DOMAIN s /\ t[i] = s[i] /\ t[i] \in Range(s)
      BY <1>1, <1>2, <1>4 DEF Range
    <2>2. CASE j = Len(s) + 1
      BY <1>2, <2>1, <2>2
    <2>3. CASE j \in DOMAIN s
      BY <1>1, <1>2, <1>4, <2>1, <2>3 DEF Sorted
    <2> QED BY <1>1, <2>2, <2>3
  <1>5. Sorted(t, f)
    BY <1>4 DEF Sorted
  <1> QED BY <1>1, <1>3, <1>5 DEF t

\* The rest of a list from a place on.
LEMMA RestOf ==
  ASSUME NEW X, NEW s \in Seq(X), NEW k \in 0 .. Len(s)
  PROVE  /\ SubSeq(s, k + 1, Len(s)) \in Seq(X)
         /\ Len(SubSeq(s, k + 1, Len(s))) = Len(s) - k
         /\ \A i \in 1 .. Len(s) - k : SubSeq(s, k + 1, Len(s))[i] = s[k + i]
  <1> DEFINE t == SubSeq(s, k + 1, Len(s))
             n == Len(s) - k
  <1>1. Len(s) \in Nat /\ k \in Nat /\ n \in Nat
    OBVIOUS
  <1>2. t = [i \in 1 .. n |-> s[k + i]]
    <2>1. t = [i \in 1 .. Len(s) - (k + 1) + 1 |-> s[k + 1 + i - 1]]
      OBVIOUS
    <2>2. Len(s) - (k + 1) + 1 = n /\ \A i \in 1 .. n : k + 1 + i - 1 = k + i
      BY <1>1
    <2> HIDE DEF t, n
    <2> QED BY <2>1, <2>2
  <1>3. \A i \in 1 .. n : k + i \in 1 .. Len(s)
    BY <1>1
  <1> HIDE DEF t
  <1>4. \A i \in 1 .. n : t[i] = s[k + i] /\ t[i] \in X
    BY <1>2, <1>3
  <1>5. t \in Seq(X) /\ Len(t) = n
    BY <1>1, <1>2, <1>3
  <1> QED BY <1>4, <1>5 DEF t

\* Eviction from the front: every id that goes comes before every one that stays.
LEMMA NewestLeaves ==
  ASSUME NEW X, NEW s \in Seq(X), NEW f, Sorted(s, f), NEW n \in Nat \ {0}
  PROVE  /\ Newest(s, n) \in Seq(X) /\ Sorted(Newest(s, n), f) /\ Len(Newest(s, n)) <= n
         /\ Range(Newest(s, n)) \subseteq Range(s)
         /\ \A x \in Range(s) \ Range(Newest(s, n)), y \in Range(Newest(s, n)) : f[x] < f[y]
  <1>1. CASE Len(s) <= n
    BY <1>1 DEF Newest
  <1>2. CASE Len(s) > n
    <2> DEFINE d == Len(s) - n
               t == SubSeq(s, d + 1, Len(s))
    <2>1. Newest(s, n) = t /\ d \in Nat /\ Len(s) \in Nat /\ d + n = Len(s) /\ d > 0 /\ DOMAIN s = 1 .. Len(s)
      BY <1>2 DEF Newest
    <2>2. t \in Seq(X) /\ Len(t) = n /\ DOMAIN t = 1 .. n /\ \A i \in 1 .. n : t[i] = s[d + i]
      <3>1. d \in 0 .. Len(s) /\ Len(s) - d = n
        BY <2>1
      <3> HIDE DEF d
      <3>2. t \in Seq(X) /\ Len(t) = n /\ \A i \in 1 .. n : t[i] = s[d + i]
        BY <3>1, RestOf
      <3> QED BY <3>2
    <2> HIDE DEF t, d
    <2>3. \A i \in 1 .. n : d + i \in DOMAIN s
      BY <2>1
    <2>4. Sorted(t, f)
      <3> SUFFICES ASSUME NEW i \in 1 .. n, NEW j \in 1 .. n, i < j PROVE f[t[i]] < f[t[j]]
        BY <2>2 DEF Sorted
      <3>1. d + i \in DOMAIN s /\ d + j \in DOMAIN s /\ d + i < d + j
        BY <2>1, <2>3
      <3>2. t[i] = s[d + i] /\ t[j] = s[d + j]
        BY <2>2
      <3> QED BY <3>1, <3>2 DEF Sorted
    <2>5. Range(t) \subseteq Range(s)
      BY <2>2, <2>3 DEF Range
    <2>6. ASSUME NEW x \in Range(s) \ Range(t), NEW y \in Range(t) PROVE f[x] < f[y]
      <3>1. PICK k \in DOMAIN s : x = s[k]
        BY DEF Range
      <3>2. PICK j \in 1 .. n : y = t[j]
        BY <2>2 DEF Range
      <3>3. k <= d
        <4> SUFFICES ASSUME k > d PROVE FALSE
          BY <2>1
        <4>1. k - d \in 1 .. n /\ d + (k - d) = k
          BY <2>1
        <4>2. t[k - d] = s[k]
          BY <2>2, <4>1
        <4> QED BY <2>2, <3>1, <4>1, <4>2 DEF Range
      <3>4. k < d + j /\ d + j \in DOMAIN s /\ y = s[d + j]
        BY <2>1, <2>2, <2>3, <3>2, <3>3
      <3> QED BY <3>1, <3>4 DEF Sorted
    <2> QED BY <2>1, <2>2, <2>4, <2>5, <2>6
  <1> QED BY <1>1, <1>2

\* Cutting an id out of a sorted list.
LEMMA WithoutLeaves ==
  ASSUME NEW X, NEW s \in Seq(X), NEW f, \A x \in X : f[x] \in Int, Sorted(s, f), NEW id \in Range(s)
  PROVE  /\ Without(s, id) \in Seq(X) /\ Sorted(Without(s, id), f) /\ Len(Without(s, id)) = Len(s) - 1
         /\ Range(Without(s, id)) = Range(s) \ {id}
  <1> DEFINE c == CHOOSE i \in DOMAIN s : s[i] = id
             t == SubSeq(s, 1, c - 1) \o SubSeq(s, c + 1, Len(s))
  <1>1. c \in DOMAIN s /\ s[c] = id
    BY DEF Range
  <1>2. Without(s, id) = t
    BY DEF Without
  <1> HIDE DEF c
  <1>3. Len(s) \in Nat /\ DOMAIN s = 1 .. Len(s) /\ c \in 1 .. Len(s) /\ c \in Nat
    BY <1>1
  <1>4. /\ t \in Seq(X) /\ Len(t) = Len(s) - 1
        /\ \A i \in 1 .. Len(s) - 1 : t[i] = IF i < c THEN s[i] ELSE s[i + 1]
    <2> DEFINE a == SubSeq(s, 1, c - 1)
               b == SubSeq(s, c + 1, Len(s))
    <2>1. a \in Seq(X) /\ Len(a) = c - 1 /\ \A i \in 1 .. c - 1 : a[i] = s[i]
      BY <1>3
    <2>2. b \in Seq(X) /\ Len(b) = Len(s) - c /\ \A i \in 1 .. Len(s) - c : b[i] = s[c + i]
      <3>1. c \in 0 .. Len(s)
        BY <1>3
      <3> QED BY <3>1, RestOf
    <2> HIDE DEF a, b
    <2>3. a \o b \in Seq(X) /\ Len(a \o b) = Len(s) - 1
      <3>1. a \in Seq(X) /\ b \in Seq(X) /\ Len(a) = c - 1 /\ Len(b) = Len(s) - c
        BY <2>1, <2>2
      <3>2. a \o b \in Seq(X)
        BY <3>1
      <3>3. Len(a \o b) = Len(a) + Len(b)
        BY <3>1
      <3> QED BY <1>3, <3>1, <3>2, <3>3
    <2>4. ASSUME NEW i \in 1 .. Len(s) - 1 PROVE (a \o b)[i] = IF i < c THEN s[i] ELSE s[i + 1]
      <3>1. CASE i < c
        BY <1>3, <2>1, <2>2, <3>1
      <3>2. CASE i >= c
        <4>1. i - (c - 1) \in 1 .. Len(s) - c /\ c + (i - (c - 1)) = i + 1
          BY <1>3, <3>2
        <4>2. (a \o b)[i] = b[i - (c - 1)]
          BY <1>3, <2>1, <2>2, <3>2
        <4>3. b[i - (c - 1)] = s[i + 1]
          BY <2>2, <4>1
        <4>4. ~(i < c)
          BY <1>3, <3>2
        <4> QED BY <4>2, <4>3, <4>4
      <3>3. i < c \/ i >= c
        BY <1>3
      <3> QED BY <3>1, <3>2, <3>3
    <2> QED BY <2>3, <2>4 DEF a, b
  <1> HIDE DEF t
  <1>5. DOMAIN t = 1 .. Len(s) - 1
    BY <1>3, <1>4
  <1> DEFINE At(i) == IF i < c THEN i ELSE i + 1
  <1>6. \A i \in DOMAIN t : At(i) \in DOMAIN s /\ At(i) # c /\ t[i] = s[At(i)]
    BY <1>3, <1>4, <1>5
  <1>7. \A i, j \in DOMAIN t : i < j => At(i) < At(j)
    BY <1>3, <1>5
  <1>8. \A k \in DOMAIN s \ {c} : \E i \in DOMAIN t : At(i) = k
    <2> SUFFICES ASSUME NEW k \in DOMAIN s \ {c} PROVE \E i \in DOMAIN t : At(i) = k
      OBVIOUS
    <2> DEFINE i == IF k < c THEN k ELSE k - 1
    <2>1. i \in DOMAIN t /\ At(i) = k
      BY <1>3, <1>5
    <2> QED BY <2>1
  <1> HIDE DEF At
  <1>9. Sorted(t, f)
    BY <1>6, <1>7 DEF Sorted
  <1>10. \A k \in DOMAIN s : s[k] = id => k = c
    <2> SUFFICES ASSUME NEW k \in DOMAIN s, s[k] = id PROVE k = c
      OBVIOUS
    <2>1. f[s[k]] \in Int
      BY <1>3
    <2>2. ~(k < c) /\ ~(c < k)
      BY <1>1, <1>3, <2>1 DEF Sorted
    <2> QED BY <1>3, <2>2
  <1>11. Range(t) = Range(s) \ {id}
    <2>1. \A y \in Range(t) : y \in Range(s) /\ y # id
      BY <1>6, <1>10 DEF Range
    <2>2. \A y \in Range(s) : y # id => y \in Range(t)
      <3> SUFFICES ASSUME NEW y \in Range(s), y # id PROVE y \in Range(t)
        OBVIOUS
      <3>1. PICK k \in DOMAIN s : y = s[k]
        BY DEF Range
      <3>2. PICK i \in DOMAIN t : At(i) = k
        BY <1>1, <1>8, <3>1
      <3> QED BY <1>6, <3>1, <3>2 DEF Range
    <2> QED BY <2>1, <2>2
  <1> QED BY <1>2, <1>4, <1>9, <1>11

\* pruneLocked: what stays are the ids in T, in the order they had.
LEMMA KeptLeaves ==
  ASSUME NEW X, NEW s \in Seq(X), NEW T, NEW f, Sorted(s, f)
  PROVE  /\ Kept(s, T) \in Seq(X) /\ Sorted(Kept(s, T), f) /\ Len(Kept(s, T)) <= Len(s)
         /\ Range(Kept(s, T)) = Range(s) \cap T
  <1> DEFINE Def(g, k) == g = [j \in 0 .. k |->
                 IF j = 0 THEN << >>
                 ELSE IF s[j] \in T THEN Append(g[j - 1], s[j]) ELSE g[j - 1]]
             G(k) == \E g : Def(g, k)
             S == {k \in Nat : ~G(k)}
             n == Len(s)
  <1>1. n \in Nat /\ DOMAIN s = 1 .. n
    OBVIOUS
  <1>2. G(n)
    <2> SUFFICES ASSUME S # {} PROVE FALSE
      BY <1>1
    <2>1. PICK k \in S : \A j \in S : k <= j
      <3>1. S \in SUBSET Nat
        OBVIOUS
      <3> HIDE DEF S
      <3> QED BY <3>1, LeastElement
    <2>2. G(0)
      <3> DEFINE g == [j \in 0 .. 0 |-> << >>]
      <3>1. Def(g, 0)
        OBVIOUS
      <3> QED BY <3>1
    <2>3. k # 0 /\ k - 1 \in Nat
      <3> HIDE DEF G
      <3> QED BY <2>1, <2>2
    <2>4. G(k - 1)
      <3> HIDE DEF G
      <3> QED BY <2>1, <2>3
    <2>5. PICK g : Def(g, k - 1)
      BY <2>4
    <2> DEFINE h == [j \in 0 .. k |-> IF j <= k - 1 THEN g[j]
                                      ELSE IF s[k] \in T THEN Append(g[k - 1], s[k]) ELSE g[k - 1]]
    <2>6. ASSUME NEW j \in 0 .. k
          PROVE  h[j] = IF j = 0 THEN << >>
                        ELSE IF s[j] \in T THEN Append(h[j - 1], s[j]) ELSE h[j - 1]
      <3>1. CASE j <= k - 1
        <4>1. j \in 0 .. k - 1 /\ h[j] = g[j]
          BY <2>3, <3>1
        <4>2. g[j] = IF j = 0 THEN << >>
                     ELSE IF s[j] \in T THEN Append(g[j - 1], s[j]) ELSE g[j - 1]
          BY <2>5, <4>1
        <4>3. j # 0 => h[j - 1] = g[j - 1]
          BY <2>3, <3>1
        <4> HIDE DEF h
        <4> QED BY <4>1, <4>2, <4>3
      <3>2. CASE j = k
        <4>1. h[k] = (IF s[k] \in T THEN Append(g[k - 1], s[k]) ELSE g[k - 1]) /\ h[k - 1] = g[k - 1]
          BY <2>3
        <4> HIDE DEF h
        <4> QED BY <2>3, <3>2, <4>1
      <3> QED BY <2>3, <3>1, <3>2
    <2>7. Def(h, k)
      BY <2>6
    <2> QED BY <2>1, <2>7
  <1>3. PICK g : Def(g, n) /\ Kept(s, T) = g[n]
    <2> DEFINE g == CHOOSE h : Def(h, n)
    <2>1. Def(g, n)
      BY <1>2
    <2>2. Kept(s, T) = g[n]
      BY DEF Kept
    <2> QED BY <2>1, <2>2
  <1> DEFINE First(k) == {s[i] : i \in 1 .. k}
             P(k) == k \in 0 .. n => /\ g[k] \in Seq(X) /\ Sorted(g[k], f) /\ Len(g[k]) <= k
                                     /\ Range(g[k]) = First(k) \cap T
             B == {k \in Nat : ~P(k)}
  <1>4. P(n)
    <2> SUFFICES ASSUME B # {} PROVE FALSE
      BY <1>1
    <2>1. PICK k \in B : \A j \in B : k <= j
      <3>1. B \in SUBSET Nat
        OBVIOUS
      <3> HIDE DEF B
      <3> QED BY <3>1, LeastElement
    <2>2. P(0)
      <3>1. g[0] = << >>
        BY <1>1, <1>3
      <3>2. First(0) = {}
        OBVIOUS
      <3> HIDE DEF First
      <3> QED BY <3>1, <3>2 DEF Sorted, Range
    <2>3. k # 0 /\ k \in 1 .. n /\ k - 1 \in 0 .. n /\ k - 1 \in Nat
      <3>1. k \in 0 .. n
        BY <2>1
      <3> HIDE DEF P
      <3> QED BY <1>1, <2>1, <2>2, <3>1
    <2>4. P(k - 1)
      <3> HIDE DEF P
      <3> QED BY <2>1, <2>3
    <2> DEFINE c == g[k - 1]
    <2>5. c \in Seq(X) /\ Sorted(c, f) /\ Len(c) <= k - 1 /\ Range(c) = First(k - 1) \cap T
      BY <2>3, <2>4
    <2>6. g[k] = IF s[k] \in T THEN Append(c, s[k]) ELSE c
      <3>1. k \in 0 .. n
        BY <1>1, <2>3
      <3> QED BY <1>3, <2>3, <3>1
    <2>7. First(k) = First(k - 1) \cup {s[k]} /\ s[k] \in X
      <3>1. 1 .. k = (1 .. k - 1) \cup {k}
        BY <1>1, <2>3
      <3> QED BY <1>1, <2>3, <3>1
    <2>8. \A x \in First(k - 1) : f[x] < f[s[k]]
      BY <1>1, <2>3 DEF Sorted
    <2> HIDE DEF c, First
    <2>9. g[k] \in Seq(X) /\ Sorted(g[k], f) /\ Len(g[k]) <= k /\ Range(g[k]) = First(k) \cap T
      <3>1. CASE s[k] \in T
        <4>1. \A x \in Range(c) : f[x] < f[s[k]]
          BY <2>5, <2>8
        <4>2. Append(c, s[k]) \in Seq(X) /\ Sorted(Append(c, s[k]), f) /\ Range(Append(c, s[k])) = Range(c) \cup {s[k]}
          BY <2>5, <2>7, <4>1, SortedAppend
        <4>3. Len(Append(c, s[k])) = Len(c) + 1 /\ Len(c) \in Nat
          BY <2>5, <2>7
        <4>4. Len(g[k]) <= k
          BY <1>1, <2>3, <2>5, <2>6, <3>1, <4>3
        <4>5. Range(g[k]) = First(k) \cap T
          BY <2>5, <2>6, <2>7, <3>1, <4>2
        <4> QED BY <2>6, <3>1, <4>2, <4>4, <4>5
      <3>2. CASE s[k] \notin T
        <4>1. g[k] = c
          BY <2>6, <3>2
        <4>2. Len(c) <= k
          BY <1>1, <2>3, <2>5
        <4>3. Range(c) = First(k) \cap T
          BY <2>5, <2>7, <3>2
        <4> QED BY <2>5, <4>1, <4>2, <4>3
      <3> QED BY <3>1, <3>2
    <2>10. P(k)
      BY <2>9
    <2> QED BY <2>1, <2>10
  <1>5. g[n] \in Seq(X) /\ Sorted(g[n], f) /\ Len(g[n]) <= n /\ Range(g[n]) = First(n) \cap T
    BY <1>1, <1>4
  <1>6. First(n) = Range(s)
    BY <1>1 DEF Range
  <1> HIDE DEF First
  <1> QED BY <1>3, <1>5, <1>6

-----------------------------------------------------------------------------
\* The inductive invariant of the stores.

Itself    == [i \in Nat |-> i]
Places    == {"idle", "ttl", "cap", "save"}
Session   == [rows : Nat, off : Nat, exp : Nat]
IntentObj == [state : {"pending", "applied", "rejected"}, summary : BOOLEAN, exp : Nat]

\* The order list has the sessions of the table by their last use.
CursorInv ==
  /\ now \in Nat /\ made \in 0 .. MaxSessions /\ uses \in Nat
  /\ used \in Seq(Nat) /\ Len(used) = made /\ \A i \in DOMAIN used : used[i] <= uses
  /\ corder \in Seq(1 .. made) /\ Sorted(corder, used) /\ Len(corder) <= cap
  /\ DOMAIN sess = Range(corder)

RowInv ==
  /\ \A id \in DOMAIN sess : sess[id] \in Session
  /\ DOMAIN got = SessionIds
  /\ ResumedReadMissesNothing

\* The order list has the intents of the table by their numbers.
IntentInv ==
  /\ objs \in Seq(IntentObj)
  /\ iorder \in Seq(1 .. Len(objs)) /\ Sorted(iorder, Itself) /\ Len(iorder) <= IntentCapacity
  /\ items = Range(iorder)
  /\ half \in 0 .. Len(objs)

SettingTypes ==
  /\ settings \in Settings
  /\ file = << >> \/ file \in Settings
  /\ ttl \in Nat \ {0} /\ cap \in Nat \ {0}
  /\ set \in [Setters -> [at : Places, to : Settings]]

\* Unless requests overlapped, one runs at most, with the settings in memory, and
\* the stores have what it has passed on so far.
SetterTurn(s) ==
  /\ \A t \in Setters : Running(t) => t = s
  /\ set[s].to = settings
  /\ set[s].at \in {"cap", "save"} => ttl = settings.ttl
  /\ set[s].at = "save" => cap = settings.cap

SetterInv ==
  ~overlap =>
    /\ \A s \in Setters : Running(s) => SetterTurn(s)
    /\ (\A s \in Setters : ~Running(s)) => ttl = settings.ttl /\ cap = settings.cap

StoresInv == CursorInv /\ RowInv /\ IntentInv /\ SettingTypes /\ SetterInv

\* What a step throws out while its time is not over was used less recently than
\* everything that stays.
LeastRecentLeft ==
  \A id \in DOMAIN sess \ DOMAIN sess' :
    Fresh(id) => \A kept \in DOMAIN sess' : used[id] < used'[kept]

\* A list that is sorted by one measure is by another that agrees on its ids.
LEMMA SortedAgain ==
  ASSUME NEW X, NEW s \in Seq(X), NEW f, NEW g, Sorted(s, f), \A x \in Range(s) : g[x] = f[x]
  PROVE  Sorted(s, g)
  BY DEF Sorted, Range

LEMMA RangeIn == ASSUME NEW X, NEW s \in Seq(X) PROVE Range(s) \subseteq X
  BY DEF Range

LEMMA LargerSeq == ASSUME NEW X, NEW Y, X \subseteq Y, NEW s \in Seq(X) PROVE s \in Seq(Y)
  OBVIOUS

LEMMA SeqAppend ==
  ASSUME NEW X, NEW s \in Seq(X), NEW y \in X
  PROVE  /\ Append(s, y) \in Seq(X) /\ Len(Append(s, y)) = Len(s) + 1 /\ DOMAIN Append(s, y) = 1 .. Len(s) + 1
         /\ Append(s, y)[Len(s) + 1] = y /\ \A i \in 1 .. Len(s) : Append(s, y)[i] = s[i]
  OBVIOUS

LEMMA SeqExcept ==
  ASSUME NEW X, NEW s \in Seq(X), NEW i \in 1 .. Len(s), NEW v \in X
  PROVE  LET t == [s EXCEPT ![i] = v]
         IN /\ t \in Seq(X) /\ Len(t) = Len(s) /\ DOMAIN t = 1 .. Len(s)
            /\ t[i] = v /\ \A j \in 1 .. Len(s) : j # i => t[j] = s[j]
  OBVIOUS

LEMMA UsedTypes ==
  ASSUME CursorInv
  PROVE  /\ used \in Seq(Nat) /\ Len(used) = made /\ DOMAIN used = 1 .. made
         /\ \A i \in 1 .. made : used[i] \in Nat /\ used[i] <= uses
  <1>1. used \in Seq(Nat) /\ Len(used) = made /\ \A i \in DOMAIN used : used[i] <= uses
    BY DEF CursorInv
  <1>2. DOMAIN used = 1 .. made
    BY <1>1
  <1>3. \A i \in DOMAIN used : used[i] \in Nat
    BY <1>1
  <1> QED BY <1>1, <1>2, <1>3

\* Nothing happens to the sessions.
LEMMA CursorsSame ==
  ASSUME CursorInv, RowInv, UNCHANGED <<cursorVars, cap>>, now' \in Nat
  PROVE  CursorInv' /\ RowInv' /\ LeastRecentLeft
  BY DEF CursorInv, RowInv, ResumedReadMissesNothing, LeastRecentLeft, cursorVars

\* Put.
LEMMA CursorsPut ==
  ASSUME CursorInv, RowInv, SettingTypes, Put
  PROVE  CursorInv' /\ RowInv' /\ LeastRecentLeft
  <1> DEFINE id == made + 1
             T == {i \in DOMAIN sess : Fresh(i)}
             kept == Kept(corder, T)
             all == Append(kept, id)
             new(n) == [rows |-> Least(n, MaxRows), off |-> 0, exp |-> now + ttl]
             with(n) == [i \in Range(kept) \cup {id} |-> IF i = id THEN new(n) ELSE sess[i]]
  <1>1. PICK n \in Sizes : Install(with(n), Newest(all, cap))
    BY DEF Put
  <1>2. made \in Nat /\ id \in Nat /\ id \in SessionIds /\ made' = id /\ uses \in Nat /\ uses' = uses + 1 /\ used' = Append(used, uses + 1)
    BY StoresAssumption DEF Put, CursorInv, SessionIds
  <1>3. now' = now /\ cap' = cap /\ cap \in Nat \ {0} /\ ttl \in Nat /\ now \in Nat /\ UNCHANGED <<got, jumped, told>>
    BY DEF Put, setVars, SettingTypes, CursorInv
  <1>4. used \in Seq(Nat) /\ Len(used) = made /\ DOMAIN used = 1 .. made /\ \A i \in 1 .. made : used[i] \in Nat /\ used[i] <= uses
    BY UsedTypes
  <1>5. /\ used' \in Seq(Nat) /\ Len(used') = id /\ DOMAIN used' = 1 .. id
        /\ used'[id] = uses + 1 /\ \A i \in 1 .. made : used'[i] = used[i]
    <2> DEFINE u == Append(used, uses + 1)
    <2>1. uses + 1 \in Nat
      BY <1>2
    <2>2. /\ u \in Seq(Nat) /\ Len(u) = Len(used) + 1 /\ DOMAIN u = 1 .. Len(used) + 1
          /\ u[Len(used) + 1] = uses + 1 /\ \A i \in 1 .. Len(used) : u[i] = used[i]
      BY <1>4, <2>1, SeqAppend
    <2> HIDE DEF u
    <2>3. used' = u
      BY <1>2 DEF u
    <2> QED BY <1>4, <2>2, <2>3
  <1>6. ASSUME NEW i \in 1 .. id PROVE used'[i] \in Nat /\ used'[i] <= uses'
    <2>1. CASE i = id
      BY <1>2, <1>5, <2>1
    <2>2. CASE i \in 1 .. made
      <3>1. used'[i] = used[i] /\ used[i] \in Nat /\ used[i] <= uses
        BY <1>4, <1>5, <2>2
      <3>2. uses \in Nat /\ uses' = uses + 1
        BY <1>2
      <3> QED BY <3>1, <3>2
    <2>3. made \in Nat
      BY <1>2
    <2>4. i = id \/ i \in 1 .. made
      BY <2>3
    <2> QED BY <2>1, <2>2, <2>4
  <1>7. corder \in Seq(1 .. made) /\ Sorted(corder, used) /\ DOMAIN sess = Range(corder)
    BY DEF CursorInv
  <1>8. kept \in Seq(1 .. made) /\ Sorted(kept, used) /\ Range(kept) = Range(corder) \cap T
    BY <1>7, KeptLeaves
  <1>9. Range(kept) = T /\ Range(kept) \subseteq 1 .. made
    BY <1>7, <1>8, RangeIn
  <1> HIDE DEF kept
  <1>10. kept \in Seq(1 .. id) /\ Sorted(kept, used')
    <2>1. 1 .. made \subseteq 1 .. id
      BY <1>2
    <2>2. \A x \in Range(kept) : used'[x] = used[x]
      BY <1>5, <1>9
    <2> QED BY <1>8, <2>1, <2>2, LargerSeq, SortedAgain
  <1>11. all \in Seq(1 .. id) /\ Sorted(all, used') /\ Range(all) = T \cup {id}
    <2>1. \A x \in Range(kept) : used'[x] < used'[id]
      BY <1>2, <1>4, <1>5, <1>9
    <2>2. id \in 1 .. id
      BY <1>2
    <2> HIDE DEF id, T
    <2>3. /\ Append(kept, id) \in Seq(1 .. id) /\ Sorted(Append(kept, id), used')
          /\ Range(Append(kept, id)) = Range(kept) \cup {id}
      BY <1>10, <2>1, <2>2, SortedAppend
    <2> QED BY <1>9, <2>3
  <1> HIDE DEF all
  <1> DEFINE o == Newest(all, cap)
  <1>12. /\ o \in Seq(1 .. id) /\ Sorted(o, used') /\ Len(o) <= cap
         /\ Range(o) \subseteq T \cup {id}
         /\ \A x \in (T \cup {id}) \ Range(o), y \in Range(o) : used'[x] < used'[y]
    BY <1>3, <1>11, NewestLeaves
  <1> HIDE DEF o
  <1>13. corder' = o /\ sess' = [i \in Range(o) |-> with(n)[i]] /\ DOMAIN sess' = Range(o)
    BY <1>1 DEF Install, Restrict, o
  <1>14. CursorInv'
    <2>1. (now \in Nat /\ made \in 0 .. MaxSessions /\ uses \in Nat)'
      BY <1>2, <1>3 DEF SessionIds
    <2>2. (used \in Seq(Nat) /\ Len(used) = made /\ \A i \in DOMAIN used : used[i] <= uses)'
      BY <1>2, <1>5, <1>6
    <2>3. (corder \in Seq(1 .. made) /\ Sorted(corder, used) /\ Len(corder) <= cap /\ DOMAIN sess = Range(corder))'
      BY <1>2, <1>3, <1>12, <1>13 DEF Sorted, Range
    <2> QED BY <2>1, <2>2, <2>3 DEF CursorInv
  <1>15. \A i \in Range(o) : (i = id => sess'[i] = new(n)) /\ (i # id => i \in DOMAIN sess /\ sess'[i] = sess[i])
    BY <1>9, <1>12, <1>13
  <1>16. new(n) \in Session /\ new(n).off = 0
    <2>1. Least(n, MaxRows) \in Nat
      BY StoresAssumption DEF Least
    <2> QED BY <1>3, <2>1 DEF Session
  <1> HIDE DEF new, id
  <1>17. \A i \in DOMAIN sess' : sess'[i] \in Session
    BY <1>13, <1>15, <1>16 DEF RowInv
  <1>18. ASSUME NEW i \in DOMAIN sess' PROVE i \in jumped' \cup told' \/ 1 .. sess'[i].off \subseteq got'[i]
    <2>1. CASE i = id
      BY <1>13, <1>15, <1>16, <2>1
    <2>2. CASE i # id
      BY <1>3, <1>13, <1>15, <2>2 DEF RowInv, ResumedReadMissesNothing
    <2> QED BY <2>1, <2>2
  <1>19. RowInv'
    BY <1>3, <1>17, <1>18 DEF RowInv, ResumedReadMissesNothing
  <1>20. LeastRecentLeft
    <2> SUFFICES ASSUME NEW i \in DOMAIN sess \ DOMAIN sess', Fresh(i), NEW k \in DOMAIN sess'
                 PROVE  used[i] < used'[k]
      BY DEF LeastRecentLeft
    <2>1. i \in T /\ i \notin Range(o) /\ k \in Range(o)
      BY <1>13
    <2>2. used'[i] < used'[k]
      BY <1>12, <2>1
    <2>3. used'[i] = used[i]
      BY <1>5, <1>9, <2>1
    <2> QED BY <2>2, <2>3
  <1> QED BY <1>14, <1>19, <1>20

\* Next, on a session whose time is over.
LEMMA CursorsExpired ==
  ASSUME CursorInv, RowInv, SettingTypes, NextExpired
  PROVE  CursorInv' /\ RowInv' /\ LeastRecentLeft
  <1>1. PICK id \in DOMAIN sess : ~Fresh(id) /\ Install(sess, Without(corder, id))
    BY DEF NextExpired
  <1>2. UNCHANGED <<now, cap, made, used, uses, got, jumped, told>>
    BY DEF NextExpired, setVars
  <1>3. /\ corder \in Seq(1 .. made) /\ Sorted(corder, used) /\ id \in Range(corder) /\ DOMAIN sess = Range(corder)
        /\ \A x \in 1 .. made : used[x] \in Int
    BY DEF CursorInv
  <1> DEFINE o == Without(corder, id)
  <1>4. o \in Seq(1 .. made) /\ Sorted(o, used) /\ Len(o) = Len(corder) - 1 /\ Range(o) = Range(corder) \ {id}
    BY <1>3, WithoutLeaves
  <1> HIDE DEF o
  <1>5. corder' = o /\ sess' = [i \in Range(o) |-> sess[i]]
    BY <1>1 DEF Install, Restrict, o
  <1>6. Len(o) <= cap
    BY <1>3, <1>4 DEF CursorInv, SettingTypes
  <1>7. CursorInv'
    BY <1>2, <1>4, <1>5, <1>6 DEF CursorInv
  <1>8. DOMAIN sess' = DOMAIN sess \ {id} /\ \A i \in DOMAIN sess' : sess'[i] = sess[i]
    BY <1>3, <1>4, <1>5
  <1>9. RowInv'
    BY <1>2, <1>8 DEF RowInv, ResumedReadMissesNothing
  <1>10. LeastRecentLeft
    BY <1>1, <1>8 DEF LeastRecentLeft
  <1> QED BY <1>7, <1>9, <1>10

\* SetCapacity.
LEMMA CursorsCapacity ==
  ASSUME CursorInv, RowInv, SettingTypes, NEW s \in Setters, SetCapacity(s)
  PROVE  CursorInv' /\ RowInv' /\ LeastRecentLeft
  <1> DEFINE n == set[s].to.cap
             o == Newest(corder, n)
  <1>1. n \in Nat \ {0}
    <2>1. set[s].to \in [Fields -> Nat \ {0}]
      BY DEF SettingTypes, Settings
    <2> QED BY <2>1 DEF Fields
  <1>2. UNCHANGED <<now, made, used, uses, got, jumped, told>> /\ cap' = n /\ Install(sess, o)
    BY DEF SetCapacity
  <1>3. corder \in Seq(1 .. made) /\ Sorted(corder, used) /\ DOMAIN sess = Range(corder)
    BY DEF CursorInv
  <1> HIDE DEF n
  <1>4. /\ o \in Seq(1 .. made) /\ Sorted(o, used) /\ Len(o) <= n /\ Range(o) \subseteq Range(corder)
        /\ \A x \in Range(corder) \ Range(o), y \in Range(o) : used[x] < used[y]
    BY <1>1, <1>3, NewestLeaves
  <1> HIDE DEF o
  <1>5. corder' = o /\ sess' = [i \in Range(o) |-> sess[i]]
    BY <1>2 DEF Install, Restrict
  <1>6. CursorInv'
    BY <1>2, <1>4, <1>5 DEF CursorInv
  <1>7. DOMAIN sess' = Range(o) /\ DOMAIN sess' \subseteq DOMAIN sess /\ \A i \in DOMAIN sess' : sess'[i] = sess[i]
    BY <1>3, <1>4, <1>5
  <1>8. RowInv'
    BY <1>2, <1>7 DEF RowInv, ResumedReadMissesNothing
  <1>9. LeastRecentLeft
    BY <1>2, <1>3, <1>4, <1>7 DEF LeastRecentLeft
  <1> QED BY <1>6, <1>8, <1>9

\* Next, on a session that is alive.
LEMMA CursorsPage ==
  ASSUME CursorInv, RowInv, SettingTypes, NextPage
  PROVE  CursorInv' /\ RowInv' /\ LeastRecentLeft
  <1>1. PICK id \in DOMAIN sess, n \in Asked, o \in {-1} \cup Jumps, fits \in BOOLEAN :
          LET rows == sess[id].rows
              off  == Least(IF o < 0 THEN sess[id].off ELSE o, rows)
              end  == End(off, n, rows)
          IN /\ corder' = Touch(id)
             /\ sess' = [sess EXCEPT ![id].off = end]
             /\ used' = [used EXCEPT ![id] = uses + 1]
             /\ got' = IF fits THEN [got EXCEPT ![id] = @ \cup off + 1 .. Least(off + PageSize(n), rows)] ELSE got
             /\ told' = IF fits THEN told ELSE told \cup {id}
             /\ jumped' = IF o < 0 THEN jumped ELSE jumped \cup {id}
             /\ uses' = uses + 1
    BY DEF NextPage
  <1> DEFINE rows == sess[id].rows
             off  == Least(IF o < 0 THEN sess[id].off ELSE o, rows)
             end  == End(off, n, rows)
  <1>2. UNCHANGED <<now, cap, made>>
    BY DEF NextPage, setVars
  <1>3. /\ made \in Nat /\ uses \in Nat /\ corder \in Seq(1 .. made) /\ Sorted(corder, used) /\ DOMAIN sess = Range(corder)
        /\ id \in Range(corder) /\ used \in Seq(Nat) /\ Len(used) = made /\ DOMAIN used = 1 .. made
        /\ \A x \in 1 .. made : used[x] \in Nat /\ used[x] <= uses
    <2>1. made \in Nat /\ uses \in Nat /\ corder \in Seq(1 .. made) /\ Sorted(corder, used) /\ DOMAIN sess = Range(corder)
      BY DEF CursorInv
    <2> QED BY <2>1, UsedTypes
  <1>4. id \in 1 .. made
    BY <1>3, RangeIn
  <1>5. /\ used' \in Seq(Nat) /\ Len(used') = made /\ DOMAIN used' = 1 .. made
        /\ used'[id] = uses + 1 /\ \A x \in 1 .. made : x # id => used'[x] = used[x]
    <2> DEFINE u == [used EXCEPT ![id] = uses + 1]
    <2>1. used' = u
      BY <1>1
    <2>2. uses + 1 \in Nat /\ id \in 1 .. Len(used) /\ used \in Seq(Nat)
      BY <1>3, <1>4
    <2>3. /\ u \in Seq(Nat) /\ Len(u) = Len(used) /\ DOMAIN u = 1 .. Len(used)
          /\ u[id] = uses + 1 /\ \A x \in 1 .. Len(used) : x # id => u[x] = used[x]
      BY <2>2, SeqExcept
    <2> HIDE DEF u
    <2> QED BY <1>3, <2>1, <2>3
  <1> DEFINE w == Without(corder, id)
  <1>6. w \in Seq(1 .. made) /\ Sorted(w, used) /\ Len(w) = Len(corder) - 1 /\ Range(w) = Range(corder) \ {id}
    <2>1. \A x \in 1 .. made : used[x] \in Int
      BY <1>3
    <2> QED BY <1>3, <2>1, WithoutLeaves
  <1>7. corder' = Append(w, id)
    BY <1>1 DEF Touch
  <1> HIDE DEF w
  <1>8. Range(w) \subseteq 1 .. made
    BY <1>6, RangeIn
  <1>9. Sorted(w, used')
    <2>1. \A x \in Range(w) : used'[x] = used[x]
      BY <1>5, <1>6, <1>8
    <2> QED BY <1>6, <2>1, SortedAgain
  <1>10. Append(w, id) \in Seq(1 .. made) /\ Sorted(Append(w, id), used') /\ Range(Append(w, id)) = Range(w) \cup {id}
    <2>1. \A x \in Range(w) : x \in 1 .. made /\ x # id
      BY <1>6, <1>8
    <2>2. \A x \in Range(w) : used'[x] = used[x] /\ used[x] \in Nat /\ used[x] <= uses
      BY <1>3, <1>5, <2>1
    <2>3. \A x \in Range(w) : used'[x] < used'[id]
      BY <1>3, <1>5, <2>2
    <2>4. w \in Seq(1 .. made)
      BY <1>6
    <2> DEFINE X == 1 .. made
    <2>5. id \in X /\ w \in Seq(X)
      BY <1>4, <2>4
    <2> HIDE DEF X
    <2>6. Append(w, id) \in Seq(X) /\ Sorted(Append(w, id), used') /\ Range(Append(w, id)) = Range(w) \cup {id}
      BY ONLY <1>9, <2>3, <2>5, SortedAppend
    <2> QED BY <2>6 DEF X
  <1>11. Len(Append(w, id)) = Len(corder)
    BY <1>3, <1>4, <1>6
  <1>12. DOMAIN sess' = DOMAIN sess /\ Range(corder') = DOMAIN sess
    BY <1>1, <1>3, <1>6, <1>7, <1>10
  <1>13. CursorInv'
    <2>1. (now \in Nat /\ made \in 0 .. MaxSessions /\ uses \in Nat)'
      BY <1>1, <1>2, <1>3 DEF CursorInv
    <2>2. (used \in Seq(Nat) /\ Len(used) = made /\ \A i \in DOMAIN used : used[i] <= uses)'
      <3>1. uses' = uses + 1
        BY <1>1
      <3>2. ASSUME NEW i \in 1 .. made PROVE used'[i] <= uses'
        <4>1. used[i] \in Nat /\ used[i] <= uses /\ uses \in Nat
          BY <1>3
        <4>2. used'[i] = used[i] \/ used'[i] = uses + 1
          BY <1>5
        <4> QED BY <3>1, <4>1, <4>2
      <3> QED BY <1>2, <1>5, <3>2
    <2>3. (corder \in Seq(1 .. made) /\ Sorted(corder, used) /\ Len(corder) <= cap)'
      BY <1>2, <1>7, <1>10, <1>11 DEF CursorInv, Sorted
    <2>4. (DOMAIN sess = Range(corder))'
      BY <1>12 DEF Range
    <2> QED BY <2>1, <2>2, <2>3, <2>4 DEF CursorInv
  <1>14. sess[id] \in Session /\ rows \in Nat /\ sess[id].off \in Nat
    BY DEF RowInv, Session
  <1>15. off \in Nat /\ end \in Nat /\ end = Least(off + PageSize(n), rows) /\ PageSize(n) \in Nat
    <2>1. n \in Nat /\ (o < 0 \/ o \in Nat)
      <3>1. Asked \subseteq Nat /\ Jumps \subseteq Nat
        BY StoresAssumption
      <3> QED BY <3>1
    <2>2. PageSize(n) \in Nat
      BY <2>1, StoresAssumption DEF PageSize, Least
    <2>3. off \in Nat
      BY <1>14, <2>1 DEF Least
    <2> HIDE DEF off
    <2> QED BY <1>14, <2>2, <2>3 DEF End, Least
  <1>16. /\ sess' = [sess EXCEPT ![id] = [sess[id] EXCEPT !.off = end]]
         /\ got' = IF fits THEN [got EXCEPT ![id] = got[id] \cup (off + 1 .. end)] ELSE got
         /\ o < 0 => off <= sess[id].off
    <2>1. o < 0 => off <= sess[id].off
      BY <1>14 DEF Least
    <2> QED BY <1>1, <1>15, <2>1
  <1> HIDE DEF off, end
  <1>17. sess'[id] \in Session /\ sess'[id].off = end /\ \A i \in DOMAIN sess : i # id => sess'[i] = sess[i]
    <2>1. [sess[id] EXCEPT !.off = end] \in Session /\ [sess[id] EXCEPT !.off = end].off = end
      BY <1>14, <1>15 DEF Session
    <2> QED BY <1>16, <2>1
  <1>18. id \in SessionIds /\ DOMAIN got = SessionIds
    <2>1. made \in 0 .. MaxSessions /\ MaxSessions \in Nat /\ DOMAIN got = SessionIds
      BY StoresAssumption DEF CursorInv, RowInv
    <2> QED BY <1>4, <2>1 DEF SessionIds
  <1>19. DOMAIN got' = SessionIds /\ \A i \in SessionIds : got[i] \subseteq got'[i]
    BY <1>16, <1>18
  <1>20. ASSUME NEW i \in DOMAIN sess' PROVE i \in jumped' \cup told' \/ 1 .. sess'[i].off \subseteq got'[i]
    <2>1. jumped \subseteq jumped' /\ told \subseteq told'
      BY <1>1
    <2>2. i \in jumped \cup told \/ 1 .. sess[i].off \subseteq got[i]
      BY <1>12 DEF RowInv, ResumedReadMissesNothing
    <2>3. i \in SessionIds
      <3>1. i \in Range(corder)
        BY <1>3, <1>12
      <3>2. i \in 1 .. made
        BY <1>3, <3>1, RangeIn
      <3>3. made \in 0 .. MaxSessions /\ MaxSessions \in Nat
        BY StoresAssumption DEF CursorInv
      <3> QED BY <3>2, <3>3 DEF SessionIds
    <2>4. CASE i # id
      <3>1. sess'[i] = sess[i] /\ got[i] \subseteq got'[i]
        BY <1>12, <1>17, <1>19, <2>3, <2>4
      <3> QED BY <2>1, <2>2, <3>1
    <2>5. CASE i = id /\ (o >= 0 \/ ~fits)
      <3>1. told' = (IF fits THEN told ELSE told \cup {id}) /\ jumped' = (IF o < 0 THEN jumped ELSE jumped \cup {id})
        BY <1>1
      <3>2. o >= 0 => ~(o < 0)
        BY StoresAssumption
      <3> QED BY <2>5, <3>1, <3>2
    <2>6. CASE i = id /\ o < 0 /\ fits
      <3>1. CASE i \in jumped \cup told
        BY <2>1, <3>1
      <3>2. CASE 1 .. sess[id].off \subseteq got[id]
        <4>1. 1 .. end \subseteq (1 .. off) \cup (off + 1 .. end)
          BY <1>15
        <4>2. 1 .. off \subseteq 1 .. sess[id].off
          BY <1>14, <1>15, <1>16, <2>6
        <4>3. got'[id] = got[id] \cup (off + 1 .. end)
          BY <1>16, <1>18, <2>6
        <4> QED BY <1>17, <2>6, <3>2, <4>1, <4>2, <4>3
      <3> QED BY <2>2, <2>6, <3>1, <3>2
    <2>7. o < 0 \/ o >= 0
      OBVIOUS
    <2> QED BY <2>4, <2>5, <2>6, <2>7
  <1>21. RowInv'
    <2>1. \A i \in DOMAIN sess' : sess'[i] \in Session
      BY <1>12, <1>17 DEF RowInv
    <2> QED BY <1>19, <1>20, <2>1 DEF RowInv, ResumedReadMissesNothing
  <1>22. LeastRecentLeft
    BY <1>12 DEF LeastRecentLeft
  <1> QED BY <1>13, <1>21, <1>22

-----------------------------------------------------------------------------
\* Intents and settings.

LEMMA IntentsSame == IntentInv /\ UNCHANGED <<objs, items, iorder, half>> => IntentInv'
  BY DEF IntentInv

LEMMA ItselfInt == \A x \in Nat : Itself[x] = x
  BY DEF Itself

\* Register.
LEMMA IntentsRun == ASSUME IntentInv, now \in Nat, RunIntent PROVE IntentInv'
  <1> USE StoresAssumption
  <1> DEFINE id == Len(objs) + 1
             T == {i \in items : Live(i)}
             kept == Kept(iorder, T)
             all == Append(kept, id)
             o == Newest(all, IntentCapacity)
             obj == [state |-> "pending", summary |-> FALSE, exp |-> now + IntentTTL]
  <1>1. iorder' = o /\ items' = Range(o) /\ objs' = Append(objs, obj) /\ half' = 0 /\ half = 0
    BY DEF RunIntent
  <1>2. Len(objs) \in Nat /\ id \in Nat /\ iorder \in Seq(1 .. Len(objs)) /\ Sorted(iorder, Itself) /\ items = Range(iorder)
    BY DEF IntentInv
  <1>3. kept \in Seq(1 .. Len(objs)) /\ Sorted(kept, Itself)
    BY <1>2, KeptLeaves
  <1> HIDE DEF kept
  <1>4. Range(kept) \subseteq 1 .. Len(objs)
    BY <1>3, RangeIn
  <1>5. all \in Seq(1 .. id) /\ Sorted(all, Itself)
    <2>1. kept \in Seq(1 .. id)
      <3>1. 1 .. Len(objs) \subseteq 1 .. id
        BY <1>2
      <3> QED BY <1>3, <3>1, LargerSeq
    <2>2. \A x \in Range(kept) : Itself[x] < Itself[id]
      BY <1>2, <1>4, ItselfInt
    <2>3. id \in 1 .. id
      BY <1>2
    <2> HIDE DEF id
    <2> QED BY <1>3, <2>1, <2>2, <2>3, SortedAppend
  <1> HIDE DEF all
  <1>6. o \in Seq(1 .. id) /\ Sorted(o, Itself) /\ Len(o) <= IntentCapacity
    BY <1>5, NewestLeaves
  <1> HIDE DEF o
  <1>7. objs' \in Seq(IntentObj) /\ Len(objs') = id
    <2>1. now + IntentTTL \in Nat
      OBVIOUS
    <2>2. obj \in IntentObj
      BY <2>1 DEF IntentObj
    <2> HIDE DEF obj
    <2> QED BY <1>1, <2>2 DEF IntentInv
  <1> QED BY <1>1, <1>2, <1>6, <1>7 DEF IntentInv, Sorted, Range

\* Report writes the object of an intent.
LEMMA IntentsReport == ASSUME IntentInv, ReportState \/ ReportRest PROVE IntentInv'
  <1>1. /\ objs \in Seq(IntentObj) /\ items = Range(iorder) /\ half \in 0 .. Len(objs)
        /\ iorder \in Seq(1 .. Len(objs)) /\ UNCHANGED <<items, iorder>>
    BY DEF IntentInv, ReportState, ReportRest
  <1>2. objs' \in Seq(IntentObj) /\ Len(objs') = Len(objs) /\ half' \in 0 .. Len(objs)
    <2>1. CASE ReportState
      <3>1. PICK i \in items, st \in {"applied", "rejected"} : objs' = [objs EXCEPT ![i].state = st] /\ half' = i
        BY <2>1 DEF ReportState
      <3>2. i \in 1 .. Len(objs)
        BY <1>1, RangeIn
      <3>3. objs[i] \in IntentObj
        BY <1>1, <3>2
      <3>4. [objs[i] EXCEPT !.state = st] \in IntentObj
        BY <3>3 DEF IntentObj
      <3>5. objs' = [objs EXCEPT ![i] = [objs[i] EXCEPT !.state = st]]
        BY <3>1
      <3>6. half' \in 0 .. Len(objs)
        BY <1>1, <3>1, <3>2
      <3> QED BY <1>1, <3>2, <3>4, <3>5, <3>6, SeqExcept
    <2>2. CASE ReportRest
      <3>1. half \in 1 .. Len(objs) /\ half' = 0 /\ objs' = [objs EXCEPT ![half] = [objs[half] EXCEPT !.summary = TRUE]]
        BY <1>1, <2>2 DEF ReportRest
      <3>2. objs[half] \in IntentObj
        BY <1>1, <3>1
      <3>3. [objs[half] EXCEPT !.summary = TRUE] \in IntentObj
        BY <3>2 DEF IntentObj
      <3>4. half' \in 0 .. Len(objs)
        BY <1>1, <3>1
      <3> QED BY <1>1, <3>1, <3>3, <3>4, SeqExcept
    <2> QED BY <2>1, <2>2
  <1> QED BY <1>1, <1>2 DEF IntentInv

\* removeLocked takes an intent out of the table and the list.
LEMMA IntentsRemove ==
  ASSUME IntentInv, NEW i \in items, items' = items \ {i}, iorder' = Without(iorder, i), UNCHANGED <<objs, half>>
  PROVE  IntentInv'
  <1>1. /\ iorder \in Seq(1 .. Len(objs)) /\ Sorted(iorder, Itself) /\ items = Range(iorder) /\ Len(iorder) <= IntentCapacity
        /\ Len(objs) \in Nat
    BY DEF IntentInv
  <1>2. \A x \in 1 .. Len(objs) : Itself[x] \in Int
    BY <1>1, ItselfInt
  <1> DEFINE X == 1 .. Len(objs)
             o == Without(iorder, i)
  <1>3. o \in Seq(X) /\ Sorted(o, Itself) /\ Len(o) = Len(iorder) - 1 /\ Range(o) = Range(iorder) \ {i}
    <2> HIDE DEF X
    <2>1. iorder \in Seq(X) /\ \A x \in X : Itself[x] \in Int
      BY <1>1, <1>2 DEF X
    <2> QED BY <1>1, <2>1, WithoutLeaves
  <1> HIDE DEF o
  <1>4. iorder' = o
    BY DEF o
  <1>5. Len(o) <= IntentCapacity
    BY <1>1, <1>3, StoresAssumption
  <1> QED BY <1>1, <1>3, <1>4, <1>5 DEF IntentInv, Sorted, Range

\* A restart empties the table.
LEMMA IntentsRestart == IntentInv /\ Restart => IntentInv'
  <1> SUFFICES ASSUME IntentInv, Restart PROVE IntentInv'
    OBVIOUS
  <1>1. objs' = objs /\ items' = {} /\ iorder' = << >> /\ half' = 0 /\ Len(objs) \in Nat
    BY DEF Restart, IntentInv
  <1>2. << >> \in Seq(1 .. Len(objs)) /\ Len(<< >>) = 0 /\ Range(<< >>) = {} /\ Sorted(<< >>, Itself)
    BY DEF Range, Sorted
  <1>3. IntentCapacity \in Nat
    BY StoresAssumption
  <1> QED BY <1>1, <1>2, <1>3 DEF IntentInv

LEMMA SettingFields == ASSUME NEW v \in Settings PROVE v.ttl \in Nat \ {0} /\ v.cap \in Nat \ {0} /\ v.wait \in Nat \ {0}
  BY DEF Settings, Fields

\* applySettingsUpdate and LoadSettings give whole settings.
LEMMA SettingsWhole ==
  /\ \A cur \in Settings, u \in Updates : Updated(cur, u) \in Settings
  /\ \A f : f = << >> \/ f \in Settings => Loaded(f) \in Settings
  <1>1. ASSUME NEW cur \in Settings, NEW u \in Updates PROVE Updated(cur, u) \in Settings
    <2>1. \A f \in DOMAIN u : u[f] \in Nat \ {0}
      BY StoresAssumption
    <2> QED BY <2>1 DEF Updated, Settings
  <1>2. ASSUME NEW f, f = << >> \/ f \in Settings PROVE Loaded(f) \in Settings
    <2>1. DefaultSettings \in Settings
      BY StoresAssumption
    <2>2. f # << >> => f.wait \in Nat \ {0}
      BY <1>2, SettingFields
    <2> QED BY <2>1, <2>2 DEF Loaded, Settings
  <1> QED BY <1>1, <1>2

LEMMA SettersSame ==
  SettingTypes /\ SetterInv /\ UNCHANGED <<settings, file, ttl, cap, set, overlap>> => SettingTypes' /\ SetterInv'
  BY DEF SettingTypes, SetterInv, SetterTurn, Running

\* SettingsSet changes memory ...
LEMMA SetterMemory ==
  ASSUME SettingTypes, SetterInv, NEW s \in Setters, SetMemory(s)
  PROVE  SettingTypes' /\ SetterInv'
  <1>1. PICK u \in Updates : settings' = Updated(settings, u) /\ set' = [set EXCEPT ![s] = [at |-> "ttl", to |-> settings']]
    BY DEF SetMemory
  <1>2. UNCHANGED <<file, ttl, cap>> /\ overlap' = (overlap \/ \E t \in Setters : Running(t))
    BY DEF SetMemory
  <1>3. settings' \in Settings
    BY <1>1, SettingsWhole DEF SettingTypes
  <1>4. set' \in [Setters -> [at : Places, to : Settings]]
    BY <1>1, <1>3 DEF SettingTypes, Places
  <1>5. SettingTypes'
    BY <1>2, <1>3, <1>4 DEF SettingTypes
  <1>6. set'[s] = [at |-> "ttl", to |-> settings'] /\ \A t \in Setters : t # s => set'[t] = set[t]
    BY <1>1 DEF SettingTypes
  <1>7. ASSUME ~overlap' PROVE (\A t \in Setters : Running(t)' => SetterTurn(t)') /\ ~(\A t \in Setters : ~Running(t)')
    <2>1. \A t \in Setters : ~Running(t)
      BY <1>2, <1>7
    <2>2. \A t \in Setters : Running(t)' => t = s
      BY <1>6, <2>1 DEF Running
    <2>3. Running(s)'
      BY <1>6 DEF Running
    <2>4. SetterTurn(s)'
      BY <1>6, <2>2 DEF SetterTurn
    <2> QED BY <2>2, <2>3, <2>4
  <1>8. SetterInv'
    BY <1>7 DEF SetterInv
  <1> QED BY <1>5, <1>8

\* ... and then, step by step, the stores and the file.
LEMMA SetterSteps ==
  ASSUME SettingTypes, SetterInv, NEW s \in Setters, SetStep(s)
  PROVE  SettingTypes' /\ SetterInv'
  <1>1. UNCHANGED <<settings, overlap>> /\ Running(s)
    BY DEF SetStep, SetTTL, SetCapacity, Save, Running
  <1>2. set[s].to \in Settings /\ set[s] \in [at : Places, to : Settings]
    BY DEF SettingTypes
  <1>3. set[s].to.ttl \in Nat \ {0} /\ set[s].to.cap \in Nat \ {0}
    BY <1>2, SettingFields
  <1>4. \A t \in Setters : t # s => set'[t] = set[t]
    BY DEF SetStep, SetTTL, SetCapacity, Save, SettingTypes
  <1>5. CASE SetTTL(s)
    <2>1. ttl' = set[s].to.ttl /\ set[s].at = "ttl" /\ UNCHANGED <<file, cap>>
      BY <1>5 DEF SetTTL
    <2>2. set' = [set EXCEPT ![s] = [set[s] EXCEPT !.at = "cap"]]
      BY <1>5 DEF SetTTL
    <2>3. [set[s] EXCEPT !.at = "cap"] \in [at : Places, to : Settings]
      BY <1>2 DEF Places
    <2>4. SettingTypes'
      BY <1>1, <1>3, <2>1, <2>2, <2>3 DEF SettingTypes
    <2>5. set'[s].at = "cap" /\ set'[s].to = set[s].to
      BY <1>2, <2>2 DEF SettingTypes
    <2>6. SetterInv'
      BY <1>1, <1>4, <2>1, <2>5 DEF SetterInv, SetterTurn, Running
    <2> QED BY <2>4, <2>6
  <1>6. CASE SetCapacity(s)
    <2>1. cap' = set[s].to.cap /\ set[s].at = "cap" /\ UNCHANGED <<file, ttl>>
      BY <1>6 DEF SetCapacity
    <2>2. set' = [set EXCEPT ![s] = [set[s] EXCEPT !.at = "save"]]
      BY <1>6 DEF SetCapacity
    <2>3. [set[s] EXCEPT !.at = "save"] \in [at : Places, to : Settings]
      BY <1>2 DEF Places
    <2>4. SettingTypes'
      BY <1>1, <1>3, <2>1, <2>2, <2>3 DEF SettingTypes
    <2>5. set'[s].at = "save" /\ set'[s].to = set[s].to
      BY <1>2, <2>2 DEF SettingTypes
    <2>6. SetterInv'
      BY <1>1, <1>4, <2>1, <2>5 DEF SetterInv, SetterTurn, Running
    <2> QED BY <2>4, <2>6
  <1>7. CASE Save(s)
    <2>1. file' \in {set[s].to, file} /\ set[s].at = "save" /\ UNCHANGED <<ttl, cap>> /\ set' = [set EXCEPT ![s] = Idle]
      BY <1>7 DEF Save
    <2>2. Idle \in [at : Places, to : Settings] /\ Idle.at = "idle"
      BY StoresAssumption DEF Idle, Places
    <2>3. SettingTypes'
      BY <1>1, <1>2, <2>1, <2>2 DEF SettingTypes
    <2>4. ~Running(s)'
      BY <2>1, <2>2 DEF SettingTypes, Running
    <2>5. SetterInv'
      BY <1>1, <1>4, <2>1, <2>4 DEF SetterInv, SetterTurn, Running
    <2> QED BY <2>3, <2>5
  <1> QED BY <1>5, <1>6, <1>7 DEF SetStep

\* A restart runs with what it loads.
LEMMA SettersRestart ==
  ASSUME SettingTypes, Restart
  PROVE  SettingTypes' /\ SetterInv'
  <1>1. /\ settings' = Loaded(file) /\ ttl' = settings'.ttl /\ cap' = settings'.cap /\ file' = file
        /\ set' = [s \in Setters |-> Idle]
    BY DEF Restart
  <1>2. settings' \in Settings
    BY <1>1, SettingsWhole DEF SettingTypes
  <1>3. Idle \in [at : Places, to : Settings] /\ Idle.at = "idle"
    BY StoresAssumption DEF Idle, Places
  <1>4. ttl' \in Nat \ {0} /\ cap' \in Nat \ {0}
    BY <1>1, <1>2, SettingFields
  <1>5. SettingTypes'
    BY <1>1, <1>2, <1>3, <1>4 DEF SettingTypes
  <1>6. \A s \in Setters : ~Running(s)'
    BY <1>1, <1>3 DEF Running
  <1>7. SetterInv'
    BY <1>1, <1>6 DEF SetterInv
  <1> QED BY <1>5, <1>7

\* ... with no sessions.
LEMMA CursorsRestart ==
  ASSUME CursorInv, RowInv, SettingTypes', Restart
  PROVE  CursorInv' /\ RowInv' /\ LeastRecentLeft
  <1>1. sess' = << >> /\ corder' = << >> /\ UNCHANGED <<now, made, used, uses, got, jumped, told>>
    BY DEF Restart
  <1>2. << >> \in Seq(1 .. made) /\ Len(<< >>) = 0 /\ Range(<< >>) = {} /\ Sorted(<< >>, used) /\ DOMAIN << >> = {}
    BY DEF Range, Sorted
  <1>3. cap' \in Nat
    BY DEF SettingTypes
  <1>4. CursorInv'
    BY <1>1, <1>2, <1>3 DEF CursorInv
  <1>5. RowInv' /\ LeastRecentLeft
    BY <1>1, <1>2 DEF RowInv, ResumedReadMissesNothing, LeastRecentLeft
  <1> QED BY <1>4, <1>5

\* The stores start empty, with the default settings.
LEMMA StoresStart == StoresInit => StoresInv
  <1> SUFFICES ASSUME StoresInit PROVE StoresInv
    OBVIOUS
  <1>1. DefaultSettings \in Settings /\ MaxSessions \in Nat /\ IntentCapacity \in Nat
    BY StoresAssumption
  <1>2. << >> \in Seq({}) /\ Len(<< >>) = 0 /\ Range(<< >>) = {} /\ DOMAIN << >> = {} /\ \A f : Sorted(<< >>, f)
    BY DEF Range, Sorted
  <1>3. DefaultSettings.ttl \in Nat \ {0} /\ DefaultSettings.cap \in Nat \ {0}
    BY <1>1, SettingFields
  <1>4. CursorInv
    BY <1>1, <1>2, <1>3 DEF StoresInit, CursorInv
  <1>5. RowInv
    BY <1>2 DEF StoresInit, RowInv, ResumedReadMissesNothing
  <1>6. IntentInv
    BY <1>1, <1>2 DEF StoresInit, IntentInv
  <1>7. Idle \in [at : Places, to : Settings] /\ Idle.at = "idle"
    BY <1>1 DEF Idle, Places
  <1>8. SettingTypes
    BY <1>1, <1>3, <1>7 DEF StoresInit, SettingTypes
  <1>9. SetterInv
    BY <1>7 DEF StoresInit, SetterInv, Running
  <1> QED BY <1>4, <1>5, <1>6, <1>8, <1>9 DEF StoresInv

\* Every step keeps the invariant and throws out the least recently used.
LEMMA StoresStep == StoresInv /\ [StoresNext]_storesVars => StoresInv' /\ LeastRecentLeft
  <1> SUFFICES ASSUME StoresInv, [StoresNext]_storesVars PROVE StoresInv' /\ LeastRecentLeft
    OBVIOUS
  <1>1. CursorInv /\ RowInv /\ IntentInv /\ SettingTypes /\ SetterInv /\ now \in Nat
    BY DEF StoresInv, CursorInv
  <1> DEFINE Cursors == CursorInv' /\ RowInv' /\ LeastRecentLeft
             Setting == SettingTypes' /\ SetterInv'
  <1> USE DEF intentVars, setVars
  <1>2. CASE Tick
    <2>1. Cursors
      BY <1>1, <1>2, CursorsSame DEF Tick
    <2> QED BY <1>1, <1>2, <2>1, IntentsSame, SettersSame DEF Tick, StoresInv
  <1>3. CASE Put
    BY <1>1, <1>3, CursorsPut, IntentsSame, SettersSame DEF Put, StoresInv
  <1>4. CASE NextExpired
    BY <1>1, <1>4, CursorsExpired, IntentsSame, SettersSame DEF NextExpired, StoresInv
  <1>5. CASE NextPage
    BY <1>1, <1>5, CursorsPage, IntentsSame, SettersSame DEF NextPage, StoresInv
  <1>6. CASE Restart
    <2>1. Setting
      BY <1>1, <1>6, SettersRestart
    <2> QED BY <1>1, <1>6, <2>1, CursorsRestart, IntentsRestart DEF StoresInv
  <1>7. ASSUME NEW s \in Setters, SetMemory(s) PROVE StoresInv' /\ LeastRecentLeft
    <2>1. Setting
      BY <1>1, <1>7, SetterMemory
    <2>2. Cursors
      BY <1>1, <1>7, CursorsSame DEF SetMemory
    <2> QED BY <1>1, <1>7, <2>1, <2>2, IntentsSame DEF SetMemory, StoresInv
  <1>8. ASSUME NEW s \in Setters, SetStep(s) PROVE StoresInv' /\ LeastRecentLeft
    <2>1. Setting
      BY <1>1, <1>8, SetterSteps
    <2>2. Cursors
      <3>1. CASE SetCapacity(s)
        BY <1>1, <3>1, CursorsCapacity
      <3>2. CASE SetTTL(s)
        BY <1>1, <3>2, CursorsSame DEF SetTTL
      <3>3. CASE Save(s)
        BY <1>1, <3>3, CursorsSame DEF Save
      <3> QED BY <1>8, <3>1, <3>2, <3>3 DEF SetStep
    <2>3. IntentInv'
      BY <1>1, <1>8, IntentsSame DEF SetStep, SetTTL, SetCapacity, Save
    <2> QED BY <2>1, <2>2, <2>3 DEF StoresInv
  <1>9. ASSUME UNCHANGED <<now, setVars, cursorVars>>, IntentInv' PROVE StoresInv' /\ LeastRecentLeft
    <2>1. Cursors
      BY <1>1, <1>9, CursorsSame
    <2> QED BY <1>1, <1>9, <2>1, SettersSame DEF StoresInv
  <1>10. CASE RunIntent
    BY <1>1, <1>9, <1>10, IntentsRun DEF RunIntent
  <1>11. CASE ReportState \/ ReportRest
    BY <1>1, <1>9, <1>11, IntentsReport DEF ReportState, ReportRest
  <1>12. CASE DropExpired
    BY <1>1, <1>9, <1>12, IntentsRemove DEF DropExpired
  <1>13. ASSUME NEW i \in DOMAIN wait, WaitStep(i) PROVE StoresInv' /\ LeastRecentLeft
    <2>1. UNCHANGED <<now, setVars, cursorVars>>
      BY <1>13 DEF WaitStep, WaitGet, WaitRead, WaitLate
    <2>2. CASE WaitGet(i) /\ i \in items /\ ~Live(i)
      BY <1>1, <1>9, <2>1, <2>2, IntentsRemove DEF WaitGet
    <2>3. CASE ~(WaitGet(i) /\ i \in items /\ ~Live(i))
      BY <1>1, <1>9, <1>13, <2>1, <2>3, IntentsSame DEF WaitStep, WaitGet, WaitRead, WaitLate
    <2> QED BY <2>2, <2>3
  <1>14. CASE Finished \/ UNCHANGED storesVars
    BY <1>1, <1>9, <1>14, IntentsSame DEF Finished, storesVars
  <1> QED BY <1>2, <1>3, <1>4, <1>5, <1>6, <1>7, <1>8, <1>10, <1>11, <1>12, <1>13, <1>14 DEF StoresNext

\* The stores never leave their invariant.
THEOREM StoresInvariance == StoresSpec => []StoresInv
  <1>1. StoresInv /\ [StoresNext]_storesVars => StoresInv'
    BY StoresStep
  <1> QED BY <1>1, StoresStart, PTL DEF StoresSpec

\* CursorStore.Next with enforceResponseLimit: for any number of sessions, rows and
\* pages, a caller that only asks for the next page misses no row it is not told of.
THEOREM StoresRows == StoresSpec => []ResumedReadMissesNothing
  <1>1. StoresInv => ResumedReadMissesNothing
    BY DEF StoresInv, RowInv
  <1> QED BY <1>1, StoresInvariance, PTL

\* SettingsSet: for any number of concurrent requests, the stores run with the
\* settings in memory unless requests overlapped, and tables and order lists agree
\* within their limits at all times.
THEOREM StoresSettings == StoresSpec => []SettingsInStep
  <1>1. ASSUME StoresInv PROVE SettingsInStep
    <2>1. (~overlap /\ \A s \in Setters : ~Running(s)) => ttl = settings.ttl /\ cap = settings.cap
      BY <1>1 DEF StoresInv, SetterInv
    <2>2. DOMAIN sess = Range(corder) /\ Len(corder) = Cardinality(Range(corder)) /\ Len(corder) <= cap
      <3> DEFINE X == 1 .. made
      <3>1. corder \in Seq(X) /\ Sorted(corder, used) /\ \A x \in X : used[x] \in Int
        BY <1>1 DEF StoresInv, CursorInv
      <3> HIDE DEF X
      <3>2. Cardinality(Range(corder)) = Len(corder)
        BY <3>1, SortedNoDuplicates
      <3> QED BY <1>1, <3>2 DEF StoresInv, CursorInv
    <2>3. items = Range(iorder) /\ Len(iorder) = Cardinality(items) /\ Len(iorder) <= IntentCapacity
      <3> DEFINE X == 1 .. Len(objs)
      <3>1. iorder \in Seq(X) /\ Sorted(iorder, Itself) /\ \A x \in X : Itself[x] \in Int
        BY <1>1, ItselfInt DEF StoresInv, IntentInv
      <3> HIDE DEF X
      <3>2. Cardinality(Range(iorder)) = Len(iorder)
        BY <3>1, SortedNoDuplicates
      <3> QED BY <1>1, <3>2 DEF StoresInv, IntentInv
    <2> QED BY <2>1, <2>2, <2>3 DEF SettingsInStep
  <1> QED BY <1>1, StoresInvariance, PTL

\* Put, SetCapacity and touchLocked: whatever other callers do, a session that is
\* thrown out before its time was used less recently than every one that stays.
THEOREM StoresEviction == StoresSpec => EvictsLeastRecent
  <1>1. StoresInv /\ [StoresNext]_storesVars =>
          [\A id \in DOMAIN sess \ DOMAIN sess' :
             Fresh(id) => \A kept \in DOMAIN sess' : used[id] < used'[kept]]_storesVars
    BY StoresStep DEF LeastRecentLeft
  <1> QED BY <1>1, StoresInvariance, PTL DEF StoresSpec, EvictsLeastRecent
=============================================================================
