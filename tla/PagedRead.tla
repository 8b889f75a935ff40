------------------------------- MODULE PagedRead -------------------------------
(***************************************************************************)
(* What a one-shot consume promises its caller: an answer is either a      *)
(* refusal or a page, and a page is an atomic read of a stretch of every   *)
(* partition.  Of the records of the stretch that pass the filters it      *)
(* holds as many as were wanted, and says how many there were.             *)
(***************************************************************************)
EXTENDS Integers, FiniteSets, Sequences

CONSTANTS Partitions, MaxEnd, Hits,
          Wanted   \* the numbers of messages asked for

VARIABLES lo, hi,  \* first and next offset of every partition
          page     \* the answer to the last call; no page while one is made

Kept(f) == {f[i] : i \in DOMAIN f}

\* The next offset is the one after the last record read.
NextOf(p, n) == {r[2] + 1 : r \in {q \in p.seen : q[1] = n}}

\* The stretch has no gap unless records at its start were removed meanwhile.
Stretch(p) ==
  \A n \in DOMAIN p.next : lo[n] <= p.from[n] =>
     \A o \in p.from[n] .. p.next[n] - 1 : <<n, o>> \in p.seen

IsPage(p) ==
  LET hits == IF p.req.filter THEN p.seen \cap Hits ELSE p.seen
  IN /\ \A r \in p.seen : r[2] < hi[r[1]]
     /\ DOMAIN p.next = {r[1] : r \in p.seen}
     /\ \A n \in DOMAIN p.next : p.next[n] \in NextOf(p, n) /\ \A o \in NextOf(p, n) : o <= p.next[n]
     /\ Stretch(p)
     /\ p.scanned = Cardinality(p.seen)
     /\ p.matched = Cardinality(hits)
     /\ Kept(p.msgs) \subseteq hits
     /\ Len(p.msgs) = Cardinality(Kept(p.msgs))
     /\ \E w \in Wanted : p.limited = (p.matched >= w) /\ Len(p.msgs) = (IF p.limited THEN w ELSE p.matched)

Init == ~page.ok /\ hi \in [Partitions -> 0 .. MaxEnd] /\ lo = [p \in Partitions |-> 0]

Answer  == page' # page /\ (page'.ok => IsPage(page')) /\ UNCHANGED <<lo, hi>>
Broker  == UNCHANGED page /\ \E p \in Partitions :
             \/ hi[p] < MaxEnd /\ hi' = [hi EXCEPT ![p] = @ + 1] /\ UNCHANGED lo
             \/ lo[p] < hi[p] /\ lo' = [lo EXCEPT ![p] = @ + 1] /\ UNCHANGED hi
Next    == Answer \/ Broker
Spec    == Init /\ [][Next]_<<lo, hi, page>>
=============================================================================
