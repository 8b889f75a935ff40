------------------------------ MODULE MessageRules ------------------------------
(***************************************************************************)
(* Two algorithms without state: the aggregates of kafka_messages_digest   *)
(* (digest.go: time histogram and top groups) and the line diff of two     *)
(* schema versions (schema.go: schemaTextDiff).                            *)
(***************************************************************************)
EXTENDS Integers, Sequences, FiniteSets, FiniteSetsExt, SequencesExt

CONSTANT MaxBuckets  \* timeHistogramMaxBuckets

ASSUME BucketsAssumption == MaxBuckets \in Nat \ {0}

-----------------------------------------------------------------------------
\* The histogram.

\* Mutant: the last bucket ends at the last time stamp.
BucketEndShort(index, last, from, width, maxTs) == IF index = last THEN maxTs ELSE from + width

\* [from, to): the last bucket takes the rest, the last time stamp included.
BucketEnd(index, last, from, width, maxTs) == IF index = last THEN maxTs + 1 ELSE from + width

buildTimeHistogram(timestamps) ==
  LET minTs == Min(ToSet(timestamps))
      maxTs == Max(ToSet(timestamps))
      span  == maxTs - minTs + 1
      n     == Min({span, MaxBuckets})
      width == (span + n - 1) \div n
      At(ts) == Min({(ts - minTs) \div width, n - 1})
  IN [i \in 1 .. n |->
       LET from == minTs + (i - 1) * width
       IN [from |-> from, to |-> BucketEnd(i - 1, n - 1, from, width, maxTs),
           count |-> Cardinality({k \in DOMAIN timestamps : At(timestamps[k]) = i - 1})]]

\* Groups are numbers here, ordered as the code orders their names.
Before(counts, a, b) == counts[a] > counts[b] \/ (counts[a] = counts[b] /\ a < b)

topGroups(counts, limit) ==
  {g \in DOMAIN counts : Cardinality({h \in DOMAIN counts : Before(counts, h, g)}) < limit}

-----------------------------------------------------------------------------
\* The diff.  Lines are compared whole.

\* dp[i][j]: length of the longest common subsequence of the rests from i and j.
Lcs(a, b) ==
  LET dp[c \in (1 .. Len(a) + 1) \X (1 .. Len(b) + 1)] ==
        LET i == c[1]
            j == c[2]
        IN IF i > Len(a) \/ j > Len(b) THEN 0
           ELSE IF a[i] = b[j] THEN dp[<<i + 1, j + 1>>] + 1
           ELSE IF dp[<<i + 1, j>>] >= dp[<<i, j + 1>>] THEN dp[<<i + 1, j>>] ELSE dp[<<i, j + 1>>]
  IN dp

\* Mutant: the shorter rest is followed.
TakesRemoveShort(dp, i, j) == dp[<<i + 1, j>>] <= dp[<<i, j + 1>>]

TakesRemove(dp, i, j) == dp[<<i + 1, j>>] >= dp[<<i, j + 1>>]

\* One turn of the loops that walk down the table, at line i of a and line j of b.
DiffTurn(a, b, dp, w) ==
  LET i == w.i
      j == w.j
      To(i2, j2, kind, line, text) ==
        [i |-> i2, j |-> j2, ops |-> Append(w.ops, [kind |-> kind, line |-> line, text |-> text])]
  IN IF i > Len(a) /\ j > Len(b) THEN w
     ELSE IF i <= Len(a) /\ j <= Len(b) /\ a[i] = b[j] THEN To(i + 1, j + 1, "equal", i, a[i])
     ELSE IF i <= Len(a) /\ (j > Len(b) \/ TakesRemove(dp, i, j)) THEN To(i + 1, j, "remove", i, a[i])
     ELSE To(i, j + 1, "add", j, b[j])

DiffOps(a, b) ==
  LET dp == Lcs(a, b)
      walk[t \in 0 .. Len(a) + Len(b)] ==
        IF t = 0 THEN [i |-> 1, j |-> 1, ops |-> << >>] ELSE DiffTurn(a, b, dp, walk[t - 1])
  IN walk[Len(a) + Len(b)].ops

Texts(ops) == [k \in DOMAIN ops |-> ops[k].text]

\* Where the operations of a kind that start at k end.
RunEnd(ops, k, kind) == Min({n \in k .. Len(ops) + 1 : n = Len(ops) + 1 \/ ops[n].kind # kind})

\* One turn of the loop that merges removes and the adds after them into a hunk,
\* which names the line of its first remove, or of its first add in the new text
\* when it removes nothing.
HunkTurn(ops, g) ==
  LET mid  == RunEnd(ops, g.at, "remove")
      rest == RunEnd(ops, mid, "add")
      removed == SubSeq(ops, g.at, mid - 1)
      added   == SubSeq(ops, mid, rest - 1)
  IN IF g.at > Len(ops) THEN g
     ELSE IF ops[g.at].kind = "equal" THEN [g EXCEPT !.at = @ + 1]
     ELSE [at    |-> rest,
           hunks |-> Append(g.hunks,
             [op |-> IF added = << >> THEN "remove" ELSE IF removed = << >> THEN "add" ELSE "modify",
              line |-> ops[g.at].line, before |-> Texts(removed), after |-> Texts(added)])]

Hunks(ops) ==
  LET turns[t \in 0 .. Len(ops)] == IF t = 0 THEN [at |-> 1, hunks |-> << >>] ELSE HunkTurn(ops, turns[t - 1])
  IN turns[Len(ops)].hunks

Unchanged(ops) == Cardinality({k \in DOMAIN ops : ops[k].kind = "equal"})

-----------------------------------------------------------------------------
\* Reference definitions.

Holds(b, ts) == b.from <= ts /\ ts < b.to
Within(timestamps, b) == Cardinality({k \in DOMAIN timestamps : Holds(b, timestamps[k])})

\* Lists of positions 1 .. m in order, and what a list has at them.
Increasing(m) == {e \in BoundedSeq(1 .. m, m) : \A x, y \in DOMAIN e : x < y => e[x] < e[y]}
Picked(s, e)  == [k \in DOMAIN e |-> s[e[k]]]
Sublists(s)   == {Picked(s, e) : e \in Increasing(Len(s))}

\* Applying a hunk: out is the new text so far, at the next line of the old one.
Apply(old, acc, h) ==
  LET copied == IF h.op = "add" THEN h.line - 1 - Len(acc.out) ELSE h.line - acc.at
  IN [out |-> acc.out \o SubSeq(old, acc.at, acc.at + copied - 1) \o h.after,
      at  |-> acc.at + copied + Len(h.before)]

Patched(old, hunks) ==
  LET upto[n \in 0 .. Len(hunks)] == IF n = 0 THEN [out |-> << >>, at |-> 1] ELSE Apply(old, upto[n - 1], hunks[n])
      end == upto[Len(hunks)]
  IN end.out \o SubSeq(old, end.at, Len(old))
=============================================================================
