------------------------------ MODULE RingBuffer ------------------------------
(***************************************************************************)
(* The ring buffer of a stream session (ringBuffer, stream.go): Capacity   *)
(* slots, the index of the next write and the number of messages held.     *)
(***************************************************************************)
EXTENDS Integers, Sequences, SequencesExt

CONSTANTS Capacity,  \* StreamRingCapacity
          Messages,  \* what is buffered
          NoMessage  \* an empty slot

ASSUME RingAssumption == Capacity \in Nat \ {0}

Slots == 0 .. Capacity - 1
Ring  == [data: [Slots -> Messages \cup {NoMessage}],
          head: Slots,
          size: 0 .. Capacity]

newRingBuffer == [data |-> [p \in Slots |-> NoMessage], head |-> 0, size |-> 0]

\* ringBuffer.append: a full ring loses its oldest message.
RingAppend(rb, m) ==
  [data |-> [rb.data EXCEPT ![rb.head] = m],
   head |-> (rb.head + 1) % Capacity,
   size |-> IF rb.size < Capacity THEN rb.size + 1 ELSE rb.size]

\* ringBuffer.appendBatch: one message after the other.
RingAppendBatch(rb, ms) ==
  LET after[n \in 0 .. Len(ms)] == IF n = 0 THEN rb ELSE RingAppend(after[n - 1], ms[n])
  IN after[Len(ms)]

\* ringBuffer.Page: a copy of [offset, offset + limit), oldest first.
RingPage(rb, offset, limit) ==
  LET from  == IF offset < 0 THEN 0 ELSE offset
      end   == IF from + limit > rb.size THEN rb.size ELSE from + limit
      base  == (rb.head - rb.size + Capacity) % Capacity
  IN IF from >= rb.size THEN <<>>
     ELSE [i \in 1 .. end - from |-> rb.data[(base + from + i - 1) % Capacity]]

-----------------------------------------------------------------------------
\* What the buffer stands for: the last Capacity messages of a history h.

Latest(h) == IF Len(h) <= Capacity THEN h
             ELSE SubSeq(h, Len(h) - Capacity + 1, Len(h))

\* The ring holds as many of h's last messages as it has room for, each in the
\* slot its distance from the next write gives it.
Represents(rb, h) ==
  /\ rb \in Ring
  /\ rb.size = IF Len(h) <= Capacity THEN Len(h) ELSE Capacity
  /\ \A j \in 1 .. rb.size :
       rb.data[(rb.head - j + Capacity) % Capacity] = h[Len(h) - j + 1]
=============================================================================
