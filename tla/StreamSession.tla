----------------------------- MODULE StreamSession -----------------------------
(***************************************************************************)
(* One streaming session at work (runLoop and flush, stream.go): polling,  *)
(* matching, batching, the ring buffer, events, pause and resume, back-off *)
(* after fetch errors, and the end of the loop when the session is stopped.*)
(*                                                                         *)
(* The records of the topic are 1 .. NumRecords, in the order the client   *)
(* delivers them.  Whether a record passes the filters depends on the      *)
(* record alone (recordMatches, fieldFiltersMatch).                        *)
(***************************************************************************)
EXTENDS RingBuffer, FiniteSets

CONSTANTS NumRecords,  \* bound: records in the topic
          Matching,    \* the records that pass the filters
          BatchSize,   \* StreamBatchSize
          MinDelay,    \* StreamMinRetryDelay
          MaxDelay     \* StreamMaxRetryDelay

ASSUME SessionAssumption ==
  /\ NumRecords \in Nat
  /\ Messages = 1 .. NumRecords
  /\ Matching \subseteq Messages
  /\ BatchSize \in Nat \ {0}
  /\ MinDelay \in Nat \ {0}
  /\ MaxDelay \in Nat
  /\ MinDelay <= MaxDelay

VARIABLES
  pos,        \* records the client has handed out
  fetch,      \* records of the last poll still to be looked at
  scanned,    \* totalScanned
  matched,    \* totalMatched
  batch,      \* matched messages not yet flushed
  ring,       \* the ring buffer
  paused,     \* pushing is paused
  push,       \* flush: the event to send once session.mu is released
  out,        \* the kafka/stream/messages events sent
  delay,      \* retryDelay
  cancelled,  \* the session's context is cancelled
  closed,     \* its client is closed
  pc, ret,    \* where the loop stands, and where flush returns to
  seen,       \* history: the records scanned
  appended    \* history: the messages written to the ring

loopVars == <<pos, fetch, batch, delay, pc, ret>>
mutVars  == <<scanned, matched, ring, seen, appended>>
outVars  == <<push, out>>
ctlVars  == <<paused, cancelled, closed>>
vars     == <<loopVars, mutVars, outVars, ctlVars>>

IsHit(m) == m \in Matching
NoEvent == [msgs |-> <<>>, scanned |-> 0, matched |-> 0, paused |-> FALSE]

Init ==
  /\ pos = 0
  /\ fetch = <<>>
  /\ scanned = 0
  /\ matched = 0
  /\ batch = <<>>
  /\ ring = newRingBuffer
  /\ paused = FALSE
  /\ push = NoEvent
  /\ out = <<>>
  /\ delay = MinDelay
  /\ cancelled = FALSE
  /\ closed = FALSE
  /\ pc = "select"
  /\ ret = "select"
  /\ seen = <<>>
  /\ appended = <<>>

-----------------------------------------------------------------------------
\* flush.

\* Mutant: the batch is not renewed.
FlushToKeeping(label) ==
  /\ ring' = RingAppendBatch(ring, batch)
  /\ appended' = appended \o batch
  /\ push' = [msgs |-> batch, scanned |-> scanned, matched |-> matched, paused |-> paused]
  /\ pc' = "push"
  /\ ret' = label
  /\ UNCHANGED <<pos, fetch, batch, delay, scanned, matched, seen, out, ctlVars>>

\* Take the batch; with session.mu held, write it to the ring and read the
\* totals and paused.
FlushTo(label) ==
  /\ batch' = <<>>
  /\ ring' = RingAppendBatch(ring, batch)
  /\ appended' = appended \o batch
  /\ push' = [msgs |-> batch, scanned |-> scanned, matched |-> matched, paused |-> paused]
  /\ pc' = "push"
  /\ ret' = label
  /\ UNCHANGED <<pos, fetch, delay, scanned, matched, seen, out, ctlVars>>

\* With the lock released, send the event unless the session was paused.
Push ==
  /\ pc = "push"
  /\ out' = IF push.paused THEN out ELSE Append(out, push)
  /\ push' = NoEvent
  /\ pc' = ret
  /\ UNCHANGED <<pos, fetch, batch, delay, ret, mutVars, ctlVars>>

-----------------------------------------------------------------------------
\* runLoop.

Goto(label) == pc' = label /\ UNCHANGED <<ret, mutVars, outVars, ctlVars>>

\* Mutant: the ticker flushes full batches only.
SelectTickFull == pc = "select" /\ Len(batch) >= BatchSize /\ FlushTo("poll")

\* The ticker has fired and there is something to flush.
SelectTick == pc = "select" /\ batch # <<>> /\ FlushTo("poll")

\* Neither the ticker nor the context is ready, or the ticker is and the batch
\* is empty.
SelectPoll ==
  /\ pc = "select"
  /\ ~cancelled \/ batch = <<>>
  /\ Goto("poll")
  /\ UNCHANGED <<pos, fetch, batch, delay>>

SelectDone ==
  /\ pc = "select"
  /\ cancelled
  /\ Goto("defer")
  /\ UNCHANGED <<pos, fetch, batch, delay>>

\* The client hands out the next n records; a closed one none.
Polls(n) ==
  /\ pc = "poll"
  /\ n <= BatchSize
  /\ pos + n <= NumRecords
  /\ closed => n = 0
  /\ pos' = pos + n

\* A poll without error, or one that ran into its 200 ms or the cancellation.
PollOk(n) ==
  /\ Polls(n)
  /\ fetch' = [i \in 1 .. n |-> pos + i]
  /\ delay' = MinDelay
  /\ Goto("iter")
  /\ UNCHANGED batch

\* A fetch error: an error event is sent and the records that came with it are
\* not looked at.
PollError(n) ==
  /\ Polls(n)
  /\ Goto("backoff")
  /\ UNCHANGED <<fetch, batch, delay>>

\* Mutant: an error discards the batch.
BackoffDropping ==
  /\ pc = "backoff"
  /\ delay' = IF 2 * delay > MaxDelay THEN MaxDelay ELSE 2 * delay
  /\ batch' = <<>>
  /\ Goto("select")
  /\ UNCHANGED <<pos, fetch>>

\* The delay is over and doubles, up to its limit.
BackoffOver ==
  /\ pc = "backoff"
  /\ delay' = IF 2 * delay > MaxDelay THEN MaxDelay ELSE 2 * delay
  /\ Goto("select")
  /\ UNCHANGED <<pos, fetch, batch>>

BackoffDone ==
  /\ pc = "backoff"
  /\ cancelled
  /\ Goto("defer")
  /\ UNCHANGED <<pos, fetch, batch, delay>>

\* The next record is counted; one that does not match is passed over.
Scan ==
  /\ pc = "iter"
  /\ fetch # <<>>
  /\ scanned' = scanned + 1
  /\ seen' = Append(seen, Head(fetch))
  /\ fetch' = Tail(fetch)
  /\ pc' = IF IsHit(Head(fetch)) THEN "match" ELSE "iter"
  /\ UNCHANGED <<pos, batch, delay, ret, matched, ring, appended, outVars, ctlVars>>

\* A matching record is counted, decoded and joins the batch.
Match ==
  /\ pc = "match"
  /\ matched' = matched + 1
  /\ batch' = Append(batch, Last(seen))
  /\ pc' = IF Len(batch) + 1 >= BatchSize THEN "full" ELSE "iter"
  /\ UNCHANGED <<pos, fetch, delay, ret, scanned, ring, seen, appended, outVars, ctlVars>>

Full == pc = "full" /\ FlushTo("iter")

\* All records looked at: has the session been stopped meanwhile?
IterOver ==
  /\ pc = "iter"
  /\ fetch = <<>>
  /\ Goto(IF cancelled THEN "defer" ELSE "select")
  /\ UNCHANGED <<pos, fetch, batch, delay>>

\* Mutant: the flush waits for a paused session to resume.
DeferWaits ==
  /\ pc = "defer"
  /\ ~paused
  /\ \/ batch # <<>> /\ FlushTo("done")
     \/ batch = <<>> /\ Goto("done") /\ UNCHANGED <<pos, fetch, batch, delay>>

\* The deferred flush of what is still in the batch.
DeferFlush ==
  /\ pc = "defer"
  /\ \/ batch # <<>> /\ FlushTo("done")
     \/ batch = <<>> /\ Goto("done") /\ UNCHANGED <<pos, fetch, batch, delay>>

-----------------------------------------------------------------------------
\* Other goroutines: PauseStream, ResumeStream, shutdownSession.

SetPaused(b) ==
  /\ pc # "done"
  /\ paused # b
  /\ paused' = b
  /\ UNCHANGED <<loopVars, mutVars, outVars, cancelled, closed>>

Cancel ==
  /\ ~cancelled
  /\ cancelled' = TRUE
  /\ UNCHANGED <<loopVars, mutVars, outVars, paused, closed>>

CloseClient ==
  /\ cancelled
  /\ ~closed
  /\ closed' = TRUE
  /\ UNCHANGED <<loopVars, mutVars, outVars, paused, cancelled>>

-----------------------------------------------------------------------------
LoopStep ==
  \/ SelectPoll \/ SelectTick \/ SelectDone
  \/ \E n \in 0 .. NumRecords : PollOk(n) \/ PollError(n)
  \/ BackoffOver \/ BackoffDone
  \/ Scan \/ Match \/ Full \/ IterOver
  \/ Push
  \/ DeferFlush

Next ==
  \/ LoopStep
  \/ \E b \in BOOLEAN : SetPaused(b)
  \/ Cancel
  \/ CloseClient

Spec == Init /\ [][Next]_vars

\* The loop's goroutine is scheduled and a poll returns within 200 ms; that it
\* succeeds is not assumed.  The ticker fires every 200 ms and stays ready until
\* it is read: a loop that comes back to its select reads it.  The back-off timer
\* needs 500 ms, a cancelled context is ready at once: a select that meets both
\* again and again takes the context.
FairSpec ==
  /\ Spec
  /\ WF_vars(LoopStep)
  /\ SF_vars(SelectTick)
  /\ SF_vars(SelectDone)
  /\ SF_vars(BackoffDone)

-----------------------------------------------------------------------------
Increasing(s) == \A i, j \in DOMAIN s : i < j => s[i] < s[j]

\* No message is lost or doubled between the match and the ring, whatever errors,
\* pauses and stops come in between: the ring's history and the batch together
\* are the matching records scanned, each once and in the topic's order, and
\* totalMatched counts them; the ring shows the latest of its history, also after
\* it has wrapped round; and a stopped loop leaves nothing behind in its batch.
MatchedKept ==
  LET kept == appended \o batch
      hits == Range(seen) \cap Matching
  IN /\ Increasing(seen)
     /\ Increasing(kept)
     /\ Range(kept) = IF pc = "match" THEN hits \ {Last(seen)} ELSE hits
     /\ matched = Len(kept)
     /\ scanned = Len(seen)
     /\ Represents(ring, appended)
     /\ pc = "done" => batch = <<>>

\* The event carries the stretch of the history h that ends with the totalMatched
\* it reports, and at least one message.
Carries(e, h) ==
  LET n == Len(e.msgs)
  IN /\ n > 0
     /\ n <= e.matched
     /\ e.matched <= Len(h)
     /\ \A k \in 1 .. n : e.msgs[k] = h[e.matched - n + k]
     /\ e.matched <= e.scanned

\* Events carry every message at most once and in order, and the totals of an
\* event say exactly how many messages had matched up to its last one: the gap
\* that a pause leaves between two events can be told from totalMatched and the
\* number of messages.
PushesInOrder ==
  /\ \A i \in DOMAIN out : Carries(out[i], appended)
  /\ \A i, j \in DOMAIN out : i < j => out[i].matched <= out[j].matched - Len(out[j].msgs)

\* A matched message does not stay in the batch: it reaches the ring, even when
\* no further record arrives or every further poll fails.
BatchReachesRing == batch # <<>> ~> batch = <<>>

\* A stopped session's loop ends, in whatever place the stop meets it.
StopEndsLoop == cancelled ~> pc = "done"
=============================================================================
