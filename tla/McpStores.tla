------------------------------- MODULE McpStores -------------------------------
(***************************************************************************)
(* The tables behind the MCP tools (cursor.go, intent.go, server.go) and   *)
(* the settings they run under: digest cursors with a life time and a      *)
(* least-recently-used limit, UI intents that a tool waits for and the     *)
(* front end reports on, and mcp/settings/set, which changes memory, the   *)
(* running stores and the file one after the other.                        *)
(*                                                                         *)
(* Tool calls run concurrently.  A store's operation is one critical       *)
(* section, except that waitIntent and uiState read an intent after the    *)
(* store's lock is released.  Confirm tokens are ConfirmedWrite's subject. *)
(***************************************************************************)
EXTENDS Integers, Sequences, FiniteSets, Functions

CONSTANTS Setters,        \* concurrent mcp/settings/set requests
          Updates,        \* the partial updates they carry
          DefaultSettings,
          MaxSessions,    \* bound: digests made
          MaxUses,        \* bound: digests made and pages read
          MaxIntents,     \* bound: intents started
          MaxNow,         \* bound: the clock
          MaxSets,        \* bound: settings/set requests beside each kind of call
          MaxRows,        \* NewCursorStore: rows kept of a digest
          PageMax,        \* Next: rows per page
          Sizes,          \* rows a digest may have matched
          Asked,          \* page sizes asked for, 0 when none
          Jumps,          \* offsets a caller names itself
          IntentTTL, IntentCapacity

ToolKinds  == {"cursors", "intents"}
SessionIds == 1 .. MaxSessions
IntentIds  == 1 .. MaxIntents
Fields     == {"ttl", "cap", "wait"}  \* cursorTtlSecs, maxCursorSessions, reportWaitMs
Settings   == [Fields -> Nat \ {0}]

ASSUME StoresAssumption ==
  /\ IsFiniteSet(Setters)
  /\ DefaultSettings \in Settings
  /\ \A u \in Updates : DOMAIN u \subseteq Fields /\ \A f \in DOMAIN u : u[f] \in Nat \ {0}
  /\ {MaxSessions, MaxUses, MaxIntents, MaxNow} \subseteq Nat
  /\ MaxSets \in [ToolKinds -> Nat]
  /\ {MaxRows, PageMax, IntentTTL, IntentCapacity} \subseteq Nat \ {0}
  /\ Sizes \subseteq Nat /\ Asked \subseteq Nat /\ Jumps \subseteq Nat

VARIABLES
  now,
  calls,         \* bound: the tools called, cursor or intent ones; the two kinds
                 \* share nothing but the clock and the settings
  settings,      \* Server.settings
  file,          \* mcp-settings.json: the saved settings, or <<>>
  ttl, cap,      \* CursorStore.ttl and capacity
  set,           \* set[s]: how far settings/set request s is, and its settings
  sets,          \* requests made so far
  overlap,       \* history: two of them ran at the same time since the last restart
  sess, corder,  \* CursorStore: sessions, and their ids from least to most recently used
  made,          \* digests made
  used,          \* history: when (in calls) a session was last used
  uses,          \* history: calls that used a session
  got,           \* history: the rows of a session that were sent
  jumped,        \* history: sessions a caller chose an offset of itself
  told,          \* history: sessions an answer was marked truncated for
  objs,          \* Intent objects
  items, iorder, \* IntentStore: ids, and their order
  half,          \* Report, with the store locked: state is written, the summary is not
  wait           \* waitIntent: the calls that wait for an intent

cursorVars == <<sess, corder, made, used, uses, got, jumped, told>>
intentVars == <<objs, items, iorder, half, wait>>
setVars    == <<settings, file, ttl, cap, set, sets, overlap>>
storesVars == <<now, calls, setVars, cursorVars, intentVars>>

\* removeLocked: the list without an id, cut where it stands.
Without(s, id) ==
  IF id \in Range(s)
  THEN LET i == CHOOSE i \in DOMAIN s : s[i] = id
       IN SubSeq(s, 1, i - 1) \o SubSeq(s, i + 1, Len(s))
  ELSE s

\* pruneLocked: the ids of the list that are in T, in their order.
Kept(s, T) ==
  LET kept[n \in 0 .. Len(s)] ==
        IF n = 0 THEN << >>
        ELSE IF s[n] \in T THEN Append(kept[n - 1], s[n]) ELSE kept[n - 1]
  IN kept[Len(s)]

\* The last n ids: the oldest make room.
Newest(s, n) == IF Len(s) > n THEN SubSeq(s, Len(s) - n + 1, Len(s)) ELSE s
Least(m, n)  == IF m <= n THEN m ELSE n

Idle == [at |-> "idle", to |-> DefaultSettings]

StoresInit ==
  /\ now = 0
  /\ calls \in ToolKinds
  /\ settings = DefaultSettings
  /\ file = << >>
  /\ ttl = DefaultSettings.ttl /\ cap = DefaultSettings.cap
  /\ set = [s \in Setters |-> Idle]
  /\ sets = 0
  /\ overlap = FALSE
  /\ sess = << >> /\ corder = << >> /\ made = 0
  /\ used = << >> /\ uses = 0 /\ got = [i \in SessionIds |-> {}] /\ jumped = {} /\ told = {}
  /\ objs = << >> /\ items = {} /\ iorder = << >> /\ half = 0
  /\ wait = << >>

Tick == now < MaxNow /\ now' = now + 1 /\ UNCHANGED <<calls, setVars, cursorVars, intentVars>>

-----------------------------------------------------------------------------
\* Cursors.

Fresh(id) == now < sess[id].exp

\* Drop every session the order no longer has.
Install(s, o) ==
  /\ corder' = o
  /\ sess' = Restrict(s, Range(o))

\* messagesDigest ends by materialising its rows: expired sessions are pruned,
\* rows beyond the maximum are cut off, the oldest sessions make room.
Put ==
  /\ calls = "cursors"
  /\ made < MaxSessions
  /\ \E n \in Sizes :
       LET id   == made + 1
           kept == Kept(corder, {i \in DOMAIN sess : Fresh(i)})
           new  == [rows |-> Least(n, MaxRows), off |-> 0, exp |-> now + ttl]
       IN Install([i \in Range(kept) \cup {id} |-> IF i = id THEN new ELSE sess[i]],
                  Newest(Append(kept, id), cap))
  /\ made' = made + 1
  /\ uses' = uses + 1
  /\ used' = Append(used, uses')
  /\ UNCHANGED <<now, calls, setVars, got, jumped, told, intentVars>>

\* kafka_cursor_next on a session whose time is over removes it.
NextExpired ==
  /\ \E id \in DOMAIN sess : ~Fresh(id) /\ Install(sess, Without(corder, id))
  /\ UNCHANGED <<now, calls, setVars, made, used, uses, got, jumped, told, intentVars>>

\* Mutant: a hit leaves the session where it is in the order.
TouchNothing(id) == corder

Touch(id) == Append(Without(corder, id), id)

PageSize(n) == IF n = 0 THEN PageMax ELSE Least(n, PageMax)

\* Mutant: the session's offset moves by what was asked for.
EndAsked(off, n, rows) == Least(off + (IF n = 0 THEN PageMax ELSE n), rows)

End(off, n, rows) == Least(off + PageSize(n), rows)

\* A page: from the session's own offset, or from the one the caller names.
\* An answer that is too large loses its rows and is marked truncated
\* (enforceResponseLimit); whether it is depends on what is in the rows.
NextPage ==
  /\ \E id \in DOMAIN sess, n \in Asked, o \in {-1} \cup Jumps, fits \in BOOLEAN :
       LET rows == sess[id].rows
           off  == Least(IF o < 0 THEN sess[id].off ELSE o, rows)
           end  == End(off, n, rows)
       IN /\ Fresh(id)
          /\ corder' = Touch(id)
          /\ sess' = [sess EXCEPT ![id].off = end]
          /\ used' = [used EXCEPT ![id] = uses + 1]
          /\ got' = IF fits THEN [got EXCEPT ![id] = @ \cup off + 1 .. Least(off + PageSize(n), rows)] ELSE got
          /\ told' = IF fits THEN told ELSE told \cup {id}
          /\ jumped' = IF o < 0 THEN jumped ELSE jumped \cup {id}
          /\ uses < MaxUses
          /\ uses' = uses + 1
  /\ UNCHANGED <<now, calls, setVars, made, intentVars>>

-----------------------------------------------------------------------------
\* mcp/settings/set.

\* applySettingsUpdate: a field that is out of bounds refuses the whole update;
\* the others keep what they have.
Updated(cur, u) == [f \in Fields |-> IF f \in DOMAIN u THEN u[f] ELSE cur[f]]

Running(s) == set[s].at # "idle"

\* With s.mu held: memory.
SetMemory(s) ==
  /\ ~Running(s)
  /\ sets < MaxSets[calls]
  /\ sets' = sets + 1
  /\ \E u \in Updates :
       /\ settings' = Updated(settings, u)
       /\ set' = [set EXCEPT ![s] = [at |-> "ttl", to |-> settings']]
  /\ overlap' = (overlap \/ \E t \in Setters : Running(t))
  /\ UNCHANGED <<now, calls, file, ttl, cap, cursorVars, intentVars>>

\* The cursor store takes the new life time, for sessions to come ...
SetTTL(s) ==
  /\ set[s].at = "ttl"
  /\ ttl' = set[s].to.ttl
  /\ set' = [set EXCEPT ![s].at = "cap"]
  /\ UNCHANGED <<now, calls, settings, file, cap, sets, overlap, cursorVars, intentVars>>

\* Mutant: the new capacity waits for the next digest.
SetCapacityNone(s) ==
  /\ set[s].at = "cap"
  /\ set' = [set EXCEPT ![s].at = "save"]
  /\ UNCHANGED <<now, calls, settings, file, ttl, cap, sets, overlap, cursorVars, intentVars>>

\* ... and the new capacity, at once.
SetCapacity(s) ==
  /\ set[s].at = "cap"
  /\ cap' = set[s].to.cap
  /\ Install(sess, Newest(corder, set[s].to.cap))
  /\ set' = [set EXCEPT ![s].at = "save"]
  /\ UNCHANGED <<now, calls, settings, file, ttl, sets, overlap, made, used, uses, got, jumped, told, intentVars>>

\* SaveSettings replaces the file, or fails.
Save(s) ==
  /\ set[s].at = "save"
  /\ file' \in {set[s].to, file}
  /\ set' = [set EXCEPT ![s] = Idle]
  /\ UNCHANGED <<now, calls, settings, ttl, cap, sets, overlap, cursorVars, intentVars>>

\* LoadSettings: cursorTtlSecs and maxCursorSessions are not read back.
Loaded(f) == IF f = << >> THEN DefaultSettings ELSE [DefaultSettings EXCEPT !.wait = f.wait]

\* The process ends and starts again: NewServer.  Restarts after which the
\* settings are what they were are left out.
Restart ==
  /\ file # << >>
  /\ settings # Loaded(file)
  /\ settings' = Loaded(file)
  /\ ttl' = settings'.ttl /\ cap' = settings'.cap
  /\ set' = [s \in Setters |-> Idle]
  /\ overlap' = FALSE
  /\ sess' = << >> /\ corder' = << >>
  /\ items' = {} /\ iorder' = << >> /\ half' = 0
  /\ wait' = [i \in DOMAIN wait |-> [wait[i] EXCEPT !.at = "done"]]
  /\ UNCHANGED <<now, calls, file, sets, made, used, uses, got, jumped, told, objs>>

-----------------------------------------------------------------------------
\* Intents.  With half # 0 a Report holds the store's lock.

Live(i) == now < objs[i].exp

\* runIntent: register (expired intents are pruned, the oldest make room), send
\* the event, read the wait time and start to wait.
RunIntent ==
  /\ calls = "intents"
  /\ half = 0
  /\ Len(objs) < MaxIntents
  /\ now + settings.wait <= MaxNow
  /\ LET id   == Len(objs) + 1
         kept == Newest(Append(Kept(iorder, {i \in items : Live(i)}), id), IntentCapacity)
     IN /\ iorder' = kept
        /\ items' = Range(kept)
  /\ objs' = Append(objs, [state |-> "pending", summary |-> FALSE, exp |-> now + IntentTTL])
  /\ wait' = Append(wait, [at |-> "get", until |-> now + settings.wait, answer |-> <<"none">>])
  /\ UNCHANGED <<now, calls, setVars, cursorVars, half>>

\* kafka/ui/state/report: refused for an unknown or expired intent, and not
\* only for one that is already reported.
ReportState ==
  /\ half = 0
  /\ \E i \in items, st \in {"applied", "rejected"} :
       /\ Live(i)
       /\ objs' = [objs EXCEPT ![i].state = st]
       /\ half' = i
  /\ UNCHANGED <<now, calls, setVars, cursorVars, items, iorder, wait>>

ReportRest ==
  /\ half # 0
  /\ objs' = [objs EXCEPT ![half].summary = TRUE]
  /\ half' = 0
  /\ UNCHANGED <<now, calls, setVars, cursorVars, items, iorder, wait>>

\* A report, or kafka_ui_state, that comes after the life time removes the intent.
DropExpired ==
  /\ half = 0
  /\ \E i \in items : ~Live(i) /\ items' = items \ {i} /\ iorder' = Without(iorder, i)
  /\ UNCHANGED <<now, calls, setVars, cursorVars, objs, half, wait>>

\* waitIntent, one round: Get under the lock ...
WaitGet(i) ==
  /\ half = 0
  /\ wait[i].at = "get"
  /\ IF i \in items /\ ~Live(i)
     THEN /\ items' = items \ {i}
          /\ iorder' = Without(iorder, i)
          /\ wait' = [wait EXCEPT ![i].at = "done", ![i].answer = <<"expired">>]
     ELSE /\ wait' = [wait EXCEPT ![i].at = IF i \in items THEN "read" ELSE "late"]
          /\ UNCHANGED <<items, iorder>>
  /\ UNCHANGED <<now, calls, setVars, cursorVars, objs, half>>

\* ... the object's fields without it ...
WaitRead(i) ==
  /\ wait[i].at = "read"
  /\ wait' = [wait EXCEPT ![i] =
       IF objs[i].state = "pending" THEN [@ EXCEPT !.at = "late"]
       ELSE [@ EXCEPT !.at = "done", !.answer = <<objs[i].state, objs[i].summary>>]]
  /\ UNCHANGED <<now, calls, setVars, cursorVars, objs, items, iorder, half>>

\* Mutant: an intent that has left the table is waited for without end.
WaitLateKnown(i) ==
  /\ wait[i].at = "late"
  /\ wait' = [wait EXCEPT ![i] =
       IF now >= wait[i].until /\ i \in items THEN [@ EXCEPT !.at = "done", !.answer = <<"pending">>] ELSE [@ EXCEPT !.at = "get"]]
  /\ UNCHANGED <<now, calls, setVars, cursorVars, objs, items, iorder, half>>

\* ... and the deadline, also for an intent that has been evicted.
WaitLate(i) ==
  /\ wait[i].at = "late"
  /\ wait' = [wait EXCEPT ![i] =
       IF now >= wait[i].until THEN [@ EXCEPT !.at = "done", !.answer = <<"pending">>] ELSE [@ EXCEPT !.at = "get"]]
  /\ UNCHANGED <<now, calls, setVars, cursorVars, objs, items, iorder, half>>

WaitStep(i) == WaitGet(i) \/ WaitRead(i) \/ WaitLate(i)
SetStep(s)  == SetTTL(s) \/ SetCapacity(s) \/ Save(s)
Finished    == now = MaxNow /\ UNCHANGED storesVars

StoresNext ==
  \/ Tick \/ Put \/ NextExpired \/ NextPage \/ Restart
  \/ \E s \in Setters : SetMemory(s) \/ SetStep(s)
  \/ RunIntent \/ ReportState \/ ReportRest \/ DropExpired
  \/ \E i \in DOMAIN wait : WaitStep(i)
  \/ Finished

\* Time passes, a lock is given back and goroutines run.
StoresFairness ==
  /\ WF_storesVars(Tick) /\ WF_storesVars(ReportRest)
  /\ \A i \in IntentIds : SF_storesVars(i \in DOMAIN wait /\ WaitStep(i))

StoresSpec == StoresInit /\ [][StoresNext]_storesVars /\ StoresFairness

-----------------------------------------------------------------------------
\* Properties.

\* A session that is thrown out while its time is not over was used less
\* recently than every session that stays: a caller that keeps turning pages
\* is not evicted by others' digests (touchLocked).
EvictsLeastRecent ==
  [][\A id \in DOMAIN sess \ DOMAIN sess' :
       Fresh(id) => \A kept \in DOMAIN sess' : used[id] < used'[kept]]_storesVars

\* A caller that only ever asks for the next page has been sent every row up to
\* where the session stands, or has been told that rows were left out.
ResumedReadMissesNothing ==
  \A id \in DOMAIN sess : id \in jumped \cup told \/ 1 .. sess[id].off \subseteq got[id]

\* When no settings/set is under way, the running cursor store works with the
\* values mcp/settings/get reports, unless two requests overlapped.  At any time
\* the tables and their order lists name the same entries, within the limits in
\* force.
SettingsInStep ==
  /\ (~overlap /\ \A s \in Setters : ~Running(s)) => ttl = settings.ttl /\ cap = settings.cap
  /\ DOMAIN sess = Range(corder) /\ Len(corder) = Cardinality(Range(corder)) /\ Len(corder) <= cap
  /\ items = Range(iorder) /\ Len(iorder) = Cardinality(items) /\ Len(iorder) <= IntentCapacity

\* A tool that waits for the front end gets an answer: a report, "expired", or
\* "pending" at its deadline, also when the intent was evicted meanwhile.
WaitEnds == \A i \in IntentIds : (i \in DOMAIN wait) ~> (i \in DOMAIN wait /\ wait[i].at = "done")
=============================================================================
