------------------------------ MODULE UsageLedger ------------------------------
(* The ledger of what model calls cost.  A row is committed before a call is   *)
(* sent; what the call used is known when it is answered, waits in a buffer of *)
(* its process and is written by a flusher.  Whatever a failure leaves open is *)
(* closed a day later as unknown, and rows are summed up after ninety days.    *)
EXTENDS Naturals, Sequences, FiniteSets

CONSTANTS
    Calls,       \* model calls, each made once
    Processes,   \* the processes that make them
    Kinds,       \* which processes there may be: "api", "consumer", "tick"
    MaxBuffer,   \* usage_close_flush_max_buffer
    None

ASSUME UsageAssumption ==
    /\ Kinds \subseteq [Processes -> {"api", "consumer", "tick"}]
    /\ MaxBuffer \in Nat \ {0}
    /\ None \notin Processes

VARIABLES
    kind,       \* kind[p], fixed
    row,        \* the state of the call's row
    age,        \* of the row: 0, or 1 after 24 hours, or 2 after 90 days
    call,       \* how far its caller got
    by,         \* the process that makes it
    known,      \* the calls whose caller has the call_id
    phase,      \* of a process
    buffer,     \* _CLOSE_BUFFER
    flushing,   \* what the flush in flight took from it
    left,       \* flushes a stopped process still begins
    failing,    \* the processes whose last flush failed
    immediate,  \* usage_close_flush_enabled is off
    usage       \* history: "kept" by a call that closed with it, or "lost" then
                \* by a failure

ledger == <<row, age>>
calls  == <<call, by, known>>
procs  == <<phase, left>>
fixed  == <<kind, immediate>>
vars   == <<fixed, ledger, calls, procs, buffer, flushing, failing, usage>>

Settled  == {"completed", "failed", "unknown", "unpriced", "summed"}
InFlight == {"asked", "failing", "unknowing", "closing"}

Init ==
    /\ kind \in Kinds
    /\ row      = [c \in Calls |-> "none"]
    /\ age      = [c \in Calls |-> 0]
    /\ call     = [c \in Calls |-> "idle"]
    /\ by       = [c \in Calls |-> None]
    /\ known    = {}
    /\ phase    = [p \in Processes |-> "up"]
    /\ buffer   = [p \in Processes |-> << >>]
    /\ flushing = [p \in Processes |-> << >>]
    /\ left     = [p \in Processes |-> 0]
    /\ failing  = {}
    /\ immediate \in BOOLEAN
    /\ usage = [c \in Calls |-> "none"]

Elems(s) == {s[i] : i \in DOMAIN s}
Of(p)    == {c \in Calls : by[c] = p /\ call[c] \in InFlight}

\* The deadline of an answer to a user; other calls have none.
Foreground(c) == kind[by[c]] = "api"

-----------------------------------------------------------------------------
(* Callers.                                                                    *)

\* open_call commits the row, fails, or fails after the commit; the call is
\* made in any case.
Open(c, p) ==
    /\ call[c] = "idle" /\ phase[p] \in {"up", "draining"}
    /\ call' = [call EXCEPT ![c] = "asked"]
    /\ by' = [by EXCEPT ![c] = p]
    /\ \/ row' = [row EXCEPT ![c] = "started"] /\ known' \in {known, known \union {c}}
       \/ UNCHANGED <<row, known>>
    /\ UNCHANGED <<age, procs, buffer, flushing, failing, usage, fixed>>

Goes(c, stage) == call' = [call EXCEPT ![c] = stage]
Over(c) ==
    /\ Goes(c, "over")
    /\ by' = [by EXCEPT ![c] = None]
    /\ known' = known \ {c}

Loses(S) == usage' = [c \in Calls |-> IF c \in S THEN "lost" ELSE usage[c]]

\* _enqueue_close: beyond its limit the buffer forgets the oldest.
Enqueued(p, c) ==
    LET longer == Append(buffer[p], c)
        over   == Len(longer) > MaxBuffer
    IN  /\ buffer' = [buffer EXCEPT ![p] = IF over THEN Tail(longer) ELSE longer]
        /\ usage' = [d \in Calls |-> IF over /\ d = Head(longer) THEN "lost"
                                     ELSE IF d = c THEN "kept" ELSE usage[d]]

\* The answer came, with its usage.
Answered(c) ==
    /\ call[c] = "asked"
    /\ \/ c \notin known /\ Over(c) /\ UNCHANGED <<buffer, usage>>
       \/ c \in known /\ ~immediate /\ Over(c) /\ Enqueued(by[c], c)
       \/ c \in known /\ immediate /\ Goes(c, "closing") /\ UNCHANGED <<by, known, buffer>>
          /\ usage' = [usage EXCEPT ![c] = "kept"]
    /\ UNCHANGED <<ledger, procs, flushing, failing, fixed>>

\* The call ended without an answer: refused, out of time, or cancelled.  With
\* a deadline what was sent may have been used; without one an exception counts
\* as a failure, and a cancellation leaves the row as it is.
NotAnswered(c) ==
    /\ call[c] = "asked"
    /\ \/ Over(c)
       \/ /\ c \in known
          /\ \/ Goes(c, "failing")
             \/ Foreground(c) /\ Goes(c, "unknowing")
          /\ UNCHANGED <<by, known>>
    /\ UNCHANGED <<ledger, procs, buffer, flushing, failing, usage, fixed>>

\* Mutant: only the absence of a row stops a closing statement.
ClosesAny(S, status) ==
    row' = [c \in Calls |-> IF c \in S /\ row[c] \notin {"none", "summed"} THEN status[c]
                            ELSE row[c]]

\* Every closing statement is fenced by status='started'.
Closes(S, status) ==
    row' = [c \in Calls |-> IF c \in S /\ row[c] = "started" THEN status[c] ELSE row[c]]

\* close_failed and close_unknown, at once and on a best effort.
Close(c) ==
    /\ call[c] \in {"failing", "unknowing"}
    /\ \/ Closes({c}, [d \in {c} |-> IF call[c] = "failing" THEN "failed" ELSE "unknown"])
       \/ UNCHANGED row
    /\ Over(c)
    /\ UNCHANGED <<age, procs, buffer, flushing, failing, usage, fixed>>

\* complete, with the prices it finds: without one a row is not settled at zero.
Completes(S) == \E status \in [S -> {"completed", "unpriced"}] : Closes(S, status)

\* With the buffer switched off: the write succeeds, or fails, or is cancelled,
\* before or after its commit, and a foreground call falls back on the buffer.
CloseNow(c) ==
    /\ call[c] = "closing"
    /\ \/ Completes({c}) /\ UNCHANGED <<buffer, usage>>
       \/ UNCHANGED <<row, buffer>> /\ Loses({c})
       \/ /\ Completes({c}) \/ UNCHANGED row
          /\ Foreground(c) /\ c \notin Elems(buffer[by[c]]) /\ Enqueued(by[c], c)
    /\ Over(c)
    /\ UNCHANGED <<age, procs, flushing, failing, fixed>>

-----------------------------------------------------------------------------
(* run_close_flusher, and the flush at the end of a tick.                      *)

\* flush_closes takes everything at once.
FlushStarts(p) ==
    /\ flushing[p] = << >>
    /\ \/ phase[p] \in {"up", "draining"} /\ kind[p] # "tick" /\ buffer[p] # << >>
          /\ UNCHANGED left
       \/ phase[p] = "stopping" /\ left[p] > 0
          /\ left' = [left EXCEPT ![p] = @ - 1]
    /\ flushing' = [flushing EXCEPT ![p] = buffer[p]]
    /\ buffer' = [buffer EXCEPT ![p] = << >>]
    /\ UNCHANGED <<ledger, calls, phase, failing, usage, fixed>>

\* What is put back after a failure, and what does not fit any more.
PutBack(p) ==
    LET all  == flushing[p] \o buffer[p]
        over == IF Len(all) > MaxBuffer THEN Len(all) - MaxBuffer ELSE 0
    IN  /\ buffer' = [buffer EXCEPT ![p] = SubSeq(all, over + 1, Len(all))]
        /\ Loses({all[i] : i \in 1..over})

\* One transaction for all; it may be reported as failed and be committed.
FlushEnds(p) ==
    /\ flushing[p] # << >>
    /\ \/ /\ Completes(Elems(flushing[p]))
          /\ failing' = failing \ {p}
          /\ UNCHANGED <<buffer, usage>>
       \/ /\ Completes(Elems(flushing[p])) \/ UNCHANGED row
          /\ failing' = failing \union {p}
          /\ PutBack(p)
    /\ flushing' = [flushing EXCEPT ![p] = << >>]
    /\ UNCHANGED <<age, calls, procs, fixed>>

\* Mutant: the bound is joined, so a row without a priced sibling is left out.
ReconcilesPriced(p) ==
    /\ kind[p] = "consumer" /\ phase[p] \in {"up", "draining"} /\ flushing[p] = << >>
    /\ \E c \in Calls : row[c] = "started" /\ age[c] > 0
    /\ \E d \in Calls : row[d] = "completed"
    /\ Closes({c \in Calls : age[c] > 0}, [c \in Calls |-> "unknown"])
    /\ UNCHANGED <<age, calls, procs, buffer, flushing, failing, usage, fixed>>

\* reconcile_stale_started, every hour in the flusher of a consumer.
Reconcile(p) ==
    /\ kind[p] = "consumer" /\ phase[p] \in {"up", "draining"} /\ flushing[p] = << >>
    /\ \E c \in Calls : row[c] = "started" /\ age[c] > 0
    /\ Closes({c \in Calls : age[c] > 0}, [c \in Calls |-> "unknown"])
    /\ UNCHANGED <<age, calls, procs, buffer, flushing, failing, usage, fixed>>

\* _USAGE_ROLLUP: one statement deletes rows and adds them to the sums.
Rollup ==
    /\ \E S \in SUBSET {c \in Calls : row[c] \in {"completed", "failed"} /\ age[c] = 2} :
          /\ S # {}
          /\ row' = [c \in Calls |-> IF c \in S THEN "summed" ELSE row[c]]
    /\ UNCHANGED <<age, calls, procs, buffer, flushing, failing, usage, fixed>>

-----------------------------------------------------------------------------
(* Processes.                                                                  *)

\* A signal, or the last user of a tick.
Stop(p) ==
    /\ phase[p] = "up"
    /\ phase' = [phase EXCEPT ![p] = "draining"]
    /\ UNCHANGED <<ledger, calls, left, buffer, flushing, failing, usage, fixed>>

\* Mutant: the flusher is stopped together with the queue loops.
StopsFlusherEarly(p) ==
    /\ phase[p] = "draining"
    /\ phase' = [phase EXCEPT ![p] = "stopping"]
    /\ left' = [left EXCEPT ![p] = 1]
    /\ UNCHANGED <<ledger, calls, buffer, flushing, failing, usage, fixed>>

\* When the work in flight is done the flusher is stopped.  Asleep it flushes
\* twice before it ends; at work, and at the end of a tick, once.
Drained(p) ==
    /\ phase[p] = "draining" /\ Of(p) = {}
    /\ phase' = [phase EXCEPT ![p] = "stopping"]
    /\ \E n \in 1..2 :
          /\ n = 2 => kind[p] # "tick" /\ flushing[p] = << >>
          /\ left' = [left EXCEPT ![p] = n]
    /\ UNCHANGED <<ledger, calls, buffer, flushing, failing, usage, fixed>>

Gone(p) ==
    /\ phase' = [phase EXCEPT ![p] = "down"]
    /\ left' = [left EXCEPT ![p] = 0]
    /\ buffer' = [buffer EXCEPT ![p] = << >>]
    /\ flushing' = [flushing EXCEPT ![p] = << >>]
    /\ failing' = failing \ {p}

\* The orderly end.  What the last flush could not write is left to the
\* reconciler.
Ends(p) ==
    /\ phase[p] = "stopping" /\ left[p] = 0 /\ flushing[p] = << >>
    /\ Gone(p)
    /\ Loses(IF p \in failing THEN Elems(buffer[p]) ELSE {})
    /\ UNCHANGED <<ledger, calls, fixed>>

\* A crash, a kill, or the ten seconds an API process gives its flusher.
Crash(p) ==
    /\ phase[p] # "down"
    /\ Gone(p)
    /\ call' = [c \in Calls |-> IF c \in Of(p) THEN "over" ELSE call[c]]
    /\ by' = [c \in Calls |-> IF c \in Of(p) THEN None ELSE by[c]]
    /\ known' = known \ Of(p)
    /\ Loses(Elems(buffer[p]) \union Elems(flushing[p])
             \union {c \in Of(p) : usage[c] = "kept"})
    /\ UNCHANGED <<ledger, fixed>>

Restart(p) ==
    /\ phase[p] = "down"
    /\ phase' = [phase EXCEPT ![p] = "up"]
    /\ UNCHANGED <<ledger, calls, left, buffer, flushing, failing, usage, fixed>>

\* A day is longer than a call or a flush; what a process still holds after a
\* day is there because its flushes fail all the time.
DayPasses ==
    /\ \E c \in Calls : row[c] # "none" /\ age[c] = 0
    /\ \A c \in Calls : call[c] \notin InFlight
    /\ \A p \in Processes : Elems(buffer[p]) \union Elems(flushing[p]) # {} => p \in failing
    /\ age' = [c \in Calls |-> IF row[c] # "none" /\ age[c] = 0 THEN 1 ELSE age[c]]
    /\ Loses(UNION {Elems(buffer[p]) \union Elems(flushing[p]) : p \in Processes})
    /\ UNCHANGED <<row, calls, procs, buffer, flushing, failing, fixed>>

SeasonPasses ==
    /\ \E c \in Calls : age[c] = 1
    /\ \A c \in Calls : row[c] # "none" => age[c] > 0
    /\ age' = [c \in Calls |-> IF age[c] = 1 THEN 2 ELSE age[c]]
    /\ UNCHANGED <<row, calls, procs, buffer, flushing, failing, usage, fixed>>

-----------------------------------------------------------------------------
CallStep(c) == Answered(c) \/ NotAnswered(c) \/ Close(c) \/ CloseNow(c)

ProcStep(p) == FlushStarts(p) \/ FlushEnds(p) \/ Drained(p) \/ Ends(p)

Next ==
    \/ \E c \in Calls : CallStep(c) \/ \E p \in Processes : Open(c, p)
    \/ \E p \in Processes :
          ProcStep(p) \/ Reconcile(p) \/ Stop(p) \/ Crash(p) \/ Restart(p)
    \/ Rollup \/ DayPasses \/ SeasonPasses

Spec == Init /\ [][Next]_vars

\* Calls, flushes and stops have time limits, a tick comes to its end, a process
\* is started again, and time passes; a consumer stays up for an hour some day.
Fairness ==
    /\ \A c \in Calls : WF_vars(CallStep(c))
    /\ \A p \in Processes :
          /\ WF_vars(ProcStep(p)) /\ WF_vars(Restart(p)) /\ SF_vars(Reconcile(p))
          /\ WF_vars(kind[p] = "tick" /\ Stop(p))
    /\ SF_vars(DayPasses)

LiveSpec == Spec /\ Fairness

-----------------------------------------------------------------------------
(* Properties.                                                                 *)

\* The usage a call measured reaches its row (usage_ledger.py:439, worker/
\* consumer.py:534): while the row is open or unknown the usage is about to be
\* written, or a crash, an overflow, or a database that refused the last flush
\* or every flush for a day took it.  An orderly stop loses nothing.
MeasuredUsageKept ==
    \A c \in Calls :
        usage[c] = "kept" /\ row[c] \in {"started", "unknown"} =>
            \/ call[c] = "closing"
            \/ \E p \in Processes : c \in Elems(buffer[p]) \union Elems(flushing[p])

\* A row that was settled stays as it is until it is summed up: neither a flush
\* repeated after a commit that was reported as failed, nor an answer kept in a
\* buffer for longer than a day, writes it again.
SettledForGood ==
    [][\A c \in Calls : row[c] \in Settled =>
          \/ row'[c] = row[c]
          \/ row[c] \in {"completed", "failed"} /\ row'[c] = "summed"]_vars

\* No call stays open for ever, whatever happened to its process.
EveryCallSettles ==
    \A c \in Calls : row[c] = "started" ~> row[c] \in Settled
=============================================================================
