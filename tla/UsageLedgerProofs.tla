------------------------- MODULE UsageLedgerProofs -------------------------
(***************************************************************************)
(* Proofs about UsageLedger, for any calls, processes and buffer size.     *)
(* IInv is the inductive invariant: how old and how settled the row of a   *)
(* call in flight can be (FlightsFresh), where the usage of an open row is *)
(* (UsageHeld), and what a stopping process still has to flush (StopsLast).*)
(***************************************************************************)
EXTENDS UsageLedger, TLAPS

TypeOK ==
    /\ kind \in [Processes -> {"api", "consumer", "tick"}] /\ immediate \in BOOLEAN
    /\ row \in [Calls -> Settled \union {"none", "started"}]
    /\ age \in [Calls -> 0..2]
    /\ call \in [Calls -> InFlight \union {"idle", "over"}]
    /\ by \in [Calls -> Processes \union {None}]
    /\ \A c \in Calls : call[c] \in InFlight => by[c] \in Processes
    /\ phase \in [Processes -> {"up", "draining", "stopping", "down"}]
    /\ buffer \in [Processes -> Seq(Calls)] /\ flushing \in [Processes -> Seq(Calls)]
    /\ left \in [Processes -> Nat]
    /\ usage \in [Calls -> {"none", "kept", "lost"}]

\* No day passes over a call in flight, so nobody gave its row up, and it keeps
\* no usage before it is answered.
FlightsFresh ==
    \A c \in Calls :
        /\ call[c] \in InFlight => age[c] = 0 /\ row[c] # "unknown"
        /\ call[c] \in {"idle", "asked", "failing", "unknowing"} => usage[c] # "kept"
        /\ call[c] = "idle" => row[c] = "none" /\ age[c] = 0

Waiting(c) == \E p \in Processes : c \in Elems(buffer[p]) \union Elems(flushing[p])

UsageHeld ==
    \A c \in Calls :
        usage[c] = "kept" /\ row[c] \in {"started", "unknown"} =>
            row[c] = "started" /\ age[c] = 0 /\ (call[c] = "closing" \/ Waiting(c))

\* A stopping process makes no calls, and its last flush leaves the buffer empty
\* unless it fails.
StopsLast ==
    \A p \in Processes :
        phase[p] = "stopping" =>
            /\ Of(p) = {}
            /\ left[p] = 0 /\ (p \notin failing \/ flushing[p] # << >>) => buffer[p] = << >>

IInv == TypeOK /\ FlightsFresh /\ UsageHeld /\ StopsLast

-----------------------------------------------------------------------------
(* Buffers.                                                                *)

LEMMA AppendElems ==
    ASSUME NEW s \in Seq(Calls), NEW c \in Calls
    PROVE  /\ Append(s, c) \in Seq(Calls) /\ Append(s, c) # << >>
           /\ Elems(Append(s, c)) = Elems(s) \union {c}
<1>1. /\ Append(s, c) \in Seq(Calls) /\ Len(Append(s, c)) = Len(s) + 1
      /\ \A i \in 1..Len(s) : Append(s, c)[i] = s[i]
      /\ Append(s, c)[Len(s) + 1] = c
  OBVIOUS
<1>2. DOMAIN Append(s, c) = 1..(Len(s) + 1) /\ DOMAIN s = 1..Len(s) /\ Len(s) \in Nat
  BY <1>1
<1>3. QED
  BY <1>1, <1>2 DEF Elems

LEMMA TailElems ==
    ASSUME NEW s \in Seq(Calls), s # << >>
    PROVE  Tail(s) \in Seq(Calls) /\ Elems(s) = Elems(Tail(s)) \union {Head(s)}
<1>1. /\ Tail(s) \in Seq(Calls) /\ Len(Tail(s)) = Len(s) - 1
      /\ \A i \in 1..(Len(s) - 1) : Tail(s)[i] = s[i + 1]
      /\ Head(s) = s[1] /\ Len(s) \in Nat \ {0}
  OBVIOUS
<1>2. DOMAIN Tail(s) = 1..(Len(s) - 1) /\ DOMAIN s = 1..Len(s)
  BY <1>1
<1>3. \A i \in 1..Len(s) : i = 1 \/ (i - 1 \in 1..(Len(s) - 1) /\ s[i] = Tail(s)[i - 1])
  BY <1>1
<1>4. \A i \in 1..(Len(s) - 1) : i + 1 \in 1..Len(s)
  BY <1>1
<1>5. 1 \in 1..Len(s)
  BY <1>1
<1>6. ASSUME NEW c \in Elems(s) PROVE c \in Elems(Tail(s)) \union {Head(s)}
  <2>1. PICK i \in 1..Len(s) : s[i] = c
    BY <1>2 DEF Elems
  <2>2. i = 1 \/ (i - 1 \in DOMAIN Tail(s) /\ Tail(s)[i - 1] = c)
    BY <1>2, <1>3, <2>1
  <2>3. QED
    BY <1>1, <2>1, <2>2 DEF Elems
<1>7. \A c \in Elems(Tail(s)) : c \in Elems(s)
  BY <1>1, <1>2, <1>4 DEF Elems
<1>8. Head(s) \in Elems(s)
  BY <1>1, <1>2, <1>5 DEF Elems
<1>9. QED
  BY <1>1, <1>6, <1>7, <1>8

\* What is dropped from the front of a joined buffer, and what stays.
LEMMA JoinedElems ==
    ASSUME NEW f \in Seq(Calls), NEW b \in Seq(Calls), NEW o \in 0..Len(f \o b)
    PROVE  /\ SubSeq(f \o b, o + 1, Len(f \o b)) \in Seq(Calls)
           /\ \A c \in Elems(f) \union Elems(b) :
                 \/ c \in {(f \o b)[i] : i \in 1..o}
                 \/ c \in Elems(SubSeq(f \o b, o + 1, Len(f \o b)))
<1> DEFINE all == f \o b
           rest == SubSeq(all, o + 1, Len(all))
<1>1. /\ all \in Seq(Calls) /\ Len(all) = Len(f) + Len(b) /\ Len(f) \in Nat /\ Len(b) \in Nat
      /\ \A i \in 1..Len(f) : all[i] = f[i]
      /\ \A i \in 1..Len(b) : all[Len(f) + i] = b[i]
  OBVIOUS
<1>2. \A c \in Elems(f) \union Elems(b) : \E i \in 1..Len(all) : all[i] = c
  <2>1. ASSUME NEW i \in 1..Len(f) PROVE i \in 1..Len(all) /\ all[i] = f[i]
    BY <1>1
  <2>2. ASSUME NEW i \in 1..Len(b) PROVE Len(f) + i \in 1..Len(all) /\ all[Len(f) + i] = b[i]
    BY <1>1
  <2>3. DOMAIN f = 1..Len(f) /\ DOMAIN b = 1..Len(b)
    OBVIOUS
  <2> HIDE DEF all
  <2>4. QED
    BY <2>1, <2>2, <2>3 DEF Elems
<1> HIDE DEF all
<1>3. /\ rest \in Seq(Calls) /\ Len(rest) = Len(all) - o
      /\ \A i \in 1..(Len(all) - o) : rest[i] = all[o + i]
  BY <1>1 DEF all
<1>4. ASSUME NEW i \in 1..Len(all), i > o PROVE all[i] \in Elems(rest)
  <2>1. i - o \in 1..(Len(all) - o) /\ rest[i - o] = all[i] /\ DOMAIN rest = 1..(Len(all) - o)
    BY <1>1, <1>3, <1>4
  <2>2. QED
    BY <2>1 DEF Elems
<1>5. ASSUME NEW c \in Elems(f) \union Elems(b)
      PROVE  c \in {all[i] : i \in 1..o} \/ c \in Elems(rest)
  <2>1. PICK i \in 1..Len(all) : all[i] = c
    BY <1>2
  <2>2. i \in 1..o \/ i > o
    BY <1>1
  <2>3. QED
    BY <1>4, <2>1, <2>2
<1>6. QED
  BY <1>3, <1>5 DEF all

\* Whatever _enqueue_close does not forget still waits.
LEMMA EnqueueKeeps ==
    ASSUME TypeOK, NEW p \in Processes, NEW c \in Calls, Enqueued(p, c), UNCHANGED flushing
    PROVE  /\ buffer' \in [Processes -> Seq(Calls)] /\ usage' \in [Calls -> {"none", "kept", "lost"}]
           /\ \A q \in Processes \ {p} : buffer'[q] = buffer[q]
           /\ \A d \in Calls : d # c /\ usage'[d] # "lost" => usage'[d] = usage[d]
           /\ \A d \in Calls : usage'[d] = "kept" /\ (d = c \/ Waiting(d)) => Waiting(d)'
<1> DEFINE longer == Append(buffer[p], c)
           over == Len(longer) > MaxBuffer
           next == IF over THEN Tail(longer) ELSE longer
<1>1. buffer[p] \in Seq(Calls) /\ buffer' = [buffer EXCEPT ![p] = next]
  BY DEF TypeOK, Enqueued
<1>2. usage' = [d \in Calls |-> IF over /\ d = Head(longer) THEN "lost"
                               ELSE IF d = c THEN "kept" ELSE usage[d]]
  BY DEF Enqueued
<1>3. longer \in Seq(Calls) /\ longer # << >> /\ Elems(longer) = Elems(buffer[p]) \union {c}
  BY <1>1, AppendElems
<1> HIDE DEF longer
<1>4. Tail(longer) \in Seq(Calls) /\ Elems(longer) = Elems(Tail(longer)) \union {Head(longer)}
  BY <1>3, TailElems
<1>5. next \in Seq(Calls) /\ \A d \in Elems(longer) : d \in Elems(next) \/ (over /\ d = Head(longer))
  BY <1>3, <1>4
<1> HIDE DEF next, over
<1>6. buffer' \in [Processes -> Seq(Calls)] /\ buffer'[p] = next
      /\ \A q \in Processes \ {p} : buffer'[q] = buffer[q]
  BY <1>1, <1>5 DEF TypeOK
<1>7. usage' \in [Calls -> {"none", "kept", "lost"}]
  BY <1>2 DEF TypeOK
<1>8. ASSUME NEW d \in Calls, usage'[d] = "kept", d = c \/ Waiting(d) PROVE Waiting(d)'
  <2>1. d \in Elems(longer) => d \in Elems(buffer'[p])
    BY <1>2, <1>5, <1>6, <1>8
  <2>2. QED
    BY <1>3, <1>6, <1>8, <2>1 DEF Waiting
<1>9. QED
  BY <1>2, <1>6, <1>7, <1>8

\* What a failed flush takes back and does not drop still waits.
LEMMA PutBackKeeps ==
    ASSUME TypeOK, NEW p \in Processes, PutBack(p), flushing' = [flushing EXCEPT ![p] = << >>]
    PROVE  /\ buffer' \in [Processes -> Seq(Calls)] /\ usage' \in [Calls -> {"none", "kept", "lost"}]
           /\ \A q \in Processes \ {p} : buffer'[q] = buffer[q]
           /\ \A d \in Calls : usage'[d] # "lost" => usage'[d] = usage[d]
           /\ \A d \in Calls : usage'[d] = "kept" /\ Waiting(d) => Waiting(d)'
<1> DEFINE all  == flushing[p] \o buffer[p]
           over == IF Len(all) > MaxBuffer THEN Len(all) - MaxBuffer ELSE 0
           next == SubSeq(all, over + 1, Len(all))
           dropped == {all[i] : i \in 1..over}
<1>1. flushing[p] \in Seq(Calls) /\ buffer[p] \in Seq(Calls)
  BY DEF TypeOK
<1>2. buffer' = [buffer EXCEPT ![p] = next]
      /\ usage' = [c \in Calls |-> IF c \in dropped THEN "lost" ELSE usage[c]]
  BY DEF PutBack, Loses
<1>3. over \in 0..Len(all)
  <2>1. all \in Seq(Calls) /\ MaxBuffer \in Nat
    BY <1>1, UsageAssumption
  <2> HIDE DEF all
  <2>2. QED
    BY <2>1
<1>4. next \in Seq(Calls)
      /\ \A c \in Elems(flushing[p]) \union Elems(buffer[p]) : c \in dropped \/ c \in Elems(next)
  <2> HIDE DEF over
  <2>1. QED
    BY <1>1, <1>3, JoinedElems
<1> HIDE DEF next, dropped
<1>5. buffer' \in [Processes -> Seq(Calls)] /\ buffer'[p] = next
      /\ \A q \in Processes \ {p} : buffer'[q] = buffer[q] /\ flushing'[q] = flushing[q]
  BY <1>2, <1>4 DEF TypeOK
<1>6. ASSUME NEW d \in Calls, usage'[d] = "kept", Waiting(d) PROVE Waiting(d)'
  <2>1. d \notin dropped
    BY <1>2, <1>6
  <2>2. QED
    BY <1>4, <1>5, <1>6, <2>1 DEF Waiting
<1>7. QED
  BY <1>2, <1>5, <1>6 DEF TypeOK

\* A completed call is settled, and no other row changes.
LEMMA CompletesRows ==
    ASSUME TypeOK, NEW S \in SUBSET Calls, Completes(S)
    PROVE  /\ row' \in [Calls -> Settled \union {"none", "started"}]
           /\ \A c \in Calls : row'[c] = row[c] \/ row'[c] \in {"completed", "unpriced"}
           /\ \A c \in S : row'[c] # "started"
           /\ \A c \in Calls : row[c] # "started" => row'[c] = row[c]
<1>1. PICK status \in [S -> {"completed", "unpriced"}] : Closes(S, status)
  BY DEF Completes
<1>2. QED
  BY <1>1 DEF Closes, TypeOK, Settled

-----------------------------------------------------------------------------
(* The invariant.                                                          *)

LEMMA UsageInit == Init => IInv
<1> SUFFICES ASSUME Init PROVE IInv
  OBVIOUS
<1>1. TypeOK
  BY UsageAssumption DEF Init, TypeOK, Settled, InFlight
<1>2. FlightsFresh /\ UsageHeld /\ StopsLast
  BY DEF Init, FlightsFresh, UsageHeld, StopsLast, InFlight, Of
<1>3. QED
  BY <1>1, <1>2 DEF IInv

\* A call that is over is nobody's.
LEMMA OverCalls ==
    ASSUME TypeOK, NEW c \in Calls, Over(c)
    PROVE  /\ call' \in [Calls -> InFlight \union {"idle", "over"}]
           /\ by' \in [Calls -> Processes \union {None}]
           /\ call'[c] = "over"
           /\ \A d \in Calls \ {c} : call'[d] = call[d] /\ by'[d] = by[d]
           /\ \A d \in Calls : call'[d] \in InFlight => by'[d] \in Processes
           /\ \A p \in Processes : Of(p)' \subseteq Of(p)
<1>1. /\ call' = [call EXCEPT ![c] = "over"] /\ by' = [by EXCEPT ![c] = None]
  BY DEF Over, Goes
<1>2. "over" \notin InFlight
  BY DEF InFlight
<1>3. /\ call'[c] = "over" /\ \A d \in Calls \ {c} : call'[d] = call[d] /\ by'[d] = by[d]
  BY <1>1 DEF TypeOK
<1>4. QED
  BY <1>1, <1>2, <1>3 DEF TypeOK, Of

LEMMA OpenKeeps ==
    ASSUME IInv, NEW c \in Calls, NEW p \in Processes, Open(c, p)
    PROVE  IInv'
<1>1. TypeOK'
  BY DEF IInv, TypeOK, Open, InFlight, procs, fixed
<1>2. \A d \in Calls \ {c} : call'[d] = call[d] /\ by'[d] = by[d] /\ row'[d] = row[d]
  BY DEF IInv, TypeOK, Open
<1>3. /\ call[c] = "idle" /\ call'[c] = "asked" /\ by'[c] = p /\ row'[c] \in {row[c], "started"}
  BY DEF IInv, TypeOK, Open
<1>4. /\ UNCHANGED <<age, phase, left, buffer, flushing, failing, usage>>
      /\ phase[p] # "stopping"
  BY DEF Open, procs
<1>5. FlightsFresh'
  BY <1>2, <1>3, <1>4 DEF IInv, FlightsFresh
<1>6. UsageHeld'
  BY <1>2, <1>3, <1>4 DEF IInv, FlightsFresh, UsageHeld, Waiting
<1>7. StopsLast'
  BY <1>2, <1>3, <1>4 DEF IInv, StopsLast, Of
<1>8. QED
  BY <1>1, <1>5, <1>6, <1>7 DEF IInv

LEMMA AnsweredKeeps ==
    ASSUME IInv, NEW c \in Calls, Answered(c)
    PROVE  IInv'
<1>1. /\ call[c] = "asked" /\ c \in Of(by[c]) /\ by[c] \in Processes
      /\ UNCHANGED <<row, age, phase, left, flushing, failing, kind, immediate>>
  BY DEF IInv, TypeOK, Answered, Of, InFlight, ledger, procs, fixed
<1>2. CASE c \notin known /\ Over(c) /\ UNCHANGED <<buffer, usage>>
  <2>1. TypeOK'
    BY <1>1, <1>2, OverCalls DEF IInv, TypeOK
  <2>2. FlightsFresh' /\ UsageHeld'
    BY <1>1, <1>2, OverCalls DEF IInv, FlightsFresh, UsageHeld, Waiting, InFlight
  <2>3. StopsLast'
    BY <1>1, <1>2, OverCalls DEF IInv, StopsLast
  <2>4. QED
    BY <2>1, <2>2, <2>3 DEF IInv
<1>3. CASE Over(c) /\ Enqueued(by[c], c)
  <2>1. /\ buffer' \in [Processes -> Seq(Calls)] /\ usage' \in [Calls -> {"none", "kept", "lost"}]
        /\ \A q \in Processes \ {by[c]} : buffer'[q] = buffer[q]
        /\ \A d \in Calls : d # c /\ usage'[d] # "lost" => usage'[d] = usage[d]
        /\ \A d \in Calls : usage'[d] = "kept" /\ (d = c \/ Waiting(d)) => Waiting(d)'
    BY <1>1, <1>3, EnqueueKeeps DEF IInv
  <2>2. /\ call' \in [Calls -> InFlight \union {"idle", "over"}]
        /\ by' \in [Calls -> Processes \union {None}]
        /\ call'[c] = "over"
        /\ \A d \in Calls \ {c} : call'[d] = call[d] /\ by'[d] = by[d]
        /\ \A d \in Calls : call'[d] \in InFlight => by'[d] \in Processes
        /\ \A p \in Processes : Of(p)' \subseteq Of(p)
    BY <1>3, OverCalls DEF IInv
  <2>3. TypeOK'
    BY <1>1, <2>1, <2>2 DEF IInv, TypeOK
  <2>4. ASSUME NEW d \in Calls
        PROVE  /\ call'[d] \in InFlight => age'[d] = 0 /\ row'[d] # "unknown"
               /\ call'[d] \in {"idle", "asked", "failing", "unknowing"} => usage'[d] # "kept"
               /\ call'[d] = "idle" => row'[d] = "none" /\ age'[d] = 0
    BY <1>1, <2>1, <2>2 DEF IInv, FlightsFresh, InFlight
  <2>5. UsageHeld'
    BY <1>1, <2>1, <2>2 DEF IInv, FlightsFresh, UsageHeld, InFlight
  <2>6. phase[by[c]] # "stopping"
    BY <1>1 DEF IInv, StopsLast
  <2>7. StopsLast'
    BY <1>1, <2>1, <2>2, <2>6 DEF IInv, StopsLast
  <2>8. QED
    BY <2>3, <2>4, <2>5, <2>7 DEF IInv, FlightsFresh
<1>4. CASE /\ Goes(c, "closing") /\ UNCHANGED <<by, known, buffer>>
           /\ usage' = [usage EXCEPT ![c] = "kept"]
  <2>1. TypeOK'
    BY <1>1, <1>4 DEF IInv, TypeOK, Goes, InFlight
  <2>2. FlightsFresh' /\ UsageHeld'
    BY <1>1, <1>4 DEF IInv, TypeOK, FlightsFresh, UsageHeld, Waiting, InFlight, Goes
  <2>3. StopsLast'
    BY <1>1, <1>4 DEF IInv, TypeOK, StopsLast, Of, InFlight, Goes
  <2>4. QED
    BY <2>1, <2>2, <2>3 DEF IInv
<1>5. QED
  BY <1>2, <1>3, <1>4 DEF Answered

LEMMA NotAnsweredKeeps ==
    ASSUME IInv, NEW c \in Calls, NotAnswered(c)
    PROVE  IInv'
<1>1. /\ call[c] = "asked"
      /\ UNCHANGED <<row, age, phase, left, buffer, flushing, failing, usage, kind, immediate>>
  BY DEF NotAnswered, ledger, procs, fixed
<1>2. CASE Over(c)
  <2>1. TypeOK'
    BY <1>1, <1>2, OverCalls DEF IInv, TypeOK
  <2>2. FlightsFresh' /\ UsageHeld' /\ StopsLast'
    BY <1>1, <1>2, OverCalls DEF IInv, FlightsFresh, UsageHeld, StopsLast, Waiting, InFlight
  <2>3. QED
    BY <2>1, <2>2 DEF IInv
<1>3. CASE (Goes(c, "failing") \/ Goes(c, "unknowing")) /\ UNCHANGED <<by, known>>
  <2>1. TypeOK'
    BY <1>1, <1>3 DEF IInv, TypeOK, Goes, InFlight
  <2>2. /\ call'[c] \in {"failing", "unknowing"} /\ \A d \in Calls \ {c} : call'[d] = call[d]
        /\ \A d \in Calls : Waiting(d)' <=> Waiting(d)
    BY <1>1, <1>3 DEF IInv, TypeOK, Goes, Waiting
  <2>3. FlightsFresh' /\ UsageHeld'
    BY <1>1, <2>2 DEF IInv, FlightsFresh, UsageHeld, InFlight
  <2>4. StopsLast'
    BY <1>1, <1>3 DEF IInv, TypeOK, StopsLast, Of, InFlight, Goes
  <2>5. QED
    BY <2>1, <2>3, <2>4 DEF IInv
<1>4. QED
  BY <1>2, <1>3 DEF NotAnswered

LEMMA CloseKeeps ==
    ASSUME IInv, NEW c \in Calls, Close(c)
    PROVE  IInv'
<1>1. /\ call[c] \in {"failing", "unknowing"} /\ Over(c)
      /\ UNCHANGED <<age, phase, left, buffer, flushing, failing, usage, kind, immediate>>
  BY DEF Close, procs, fixed
<1>2. /\ row' \in [Calls -> Settled \union {"none", "started"}]
      /\ \A d \in Calls \ {c} : row'[d] = row[d]
      /\ row'[c] = row[c] \/ (row[c] = "started" /\ row'[c] \in {"failed", "unknown"})
  BY DEF Close, Closes, IInv, TypeOK, Settled
<1>3. TypeOK'
  BY <1>1, <1>2, OverCalls DEF IInv, TypeOK
<1>4. FlightsFresh'
  BY <1>1, <1>2, OverCalls DEF IInv, FlightsFresh, InFlight
<1>5. UsageHeld'
  BY <1>1, <1>2, OverCalls DEF IInv, FlightsFresh, UsageHeld, Waiting
<1>6. StopsLast'
  BY <1>1, OverCalls DEF IInv, StopsLast
<1>7. QED
  BY <1>3, <1>4, <1>5, <1>6 DEF IInv

LEMMA FlushStartsKeeps ==
    ASSUME IInv, NEW p \in Processes, FlushStarts(p)
    PROVE  IInv'
<1>1. /\ flushing[p] = << >> /\ flushing'[p] = buffer[p] /\ buffer'[p] = << >>
      /\ \A q \in Processes \ {p} :
            /\ buffer'[q] = buffer[q] /\ flushing'[q] = flushing[q] /\ left'[q] = left[q]
      /\ UNCHANGED <<row, age, call, by, phase, failing, usage, kind, immediate>>
  BY DEF IInv, TypeOK, FlushStarts, ledger, calls, fixed
<1>2. TypeOK'
  BY DEF IInv, TypeOK, FlushStarts, ledger, calls, fixed
<1>3. \A c \in Calls : Waiting(c) => Waiting(c)'
  BY <1>1 DEF Waiting
<1>4. FlightsFresh' /\ UsageHeld'
  BY <1>1, <1>3 DEF IInv, FlightsFresh, UsageHeld
<1>5. StopsLast'
  BY <1>1 DEF IInv, StopsLast, Of
<1>6. QED
  BY <1>2, <1>4, <1>5 DEF IInv

LEMMA FlushEndsKeeps ==
    ASSUME IInv, NEW p \in Processes, FlushEnds(p)
    PROVE  IInv'
<1> DEFINE done == Elems(flushing[p])
<1>1. /\ flushing[p] # << >> /\ flushing' = [flushing EXCEPT ![p] = << >>]
      /\ UNCHANGED <<age, call, by, phase, left, kind, immediate>>
      /\ done \in SUBSET Calls
  BY DEF IInv, TypeOK, FlushEnds, Elems, calls, procs, fixed
<1>2. /\ flushing' \in [Processes -> Seq(Calls)] /\ flushing'[p] = << >>
      /\ \A q \in Processes \ {p} : flushing'[q] = flushing[q]
  BY <1>1 DEF IInv, TypeOK
<1>3. UNCHANGED row => row' \in [Calls -> Settled \union {"none", "started"}]
  BY DEF IInv, TypeOK
<1>4. CASE Completes(done) /\ failing' = failing \ {p} /\ UNCHANGED <<buffer, usage>>
  <2>1. /\ row' \in [Calls -> Settled \union {"none", "started"}]
        /\ \A c \in Calls : row'[c] = row[c] \/ row'[c] \in {"completed", "unpriced"}
        /\ \A c \in done : row'[c] # "started"
        /\ \A c \in Calls : row[c] # "started" => row'[c] = row[c]
    BY <1>1, <1>4, CompletesRows DEF IInv
  <2> HIDE DEF done
  <2>2. TypeOK'
    BY <1>1, <1>2, <1>4, <2>1 DEF IInv, TypeOK
  <2>3. FlightsFresh'
    BY <1>1, <1>4, <2>1 DEF IInv, FlightsFresh
  <2>4. ASSUME NEW c \in Calls, Waiting(c) PROVE c \in done \/ Waiting(c)'
    BY <1>2, <1>4, <2>4 DEF Waiting, done
  <2>5. UsageHeld'
    BY <1>1, <1>4, <2>1, <2>4 DEF IInv, UsageHeld
  <2>6. StopsLast'
    BY <1>1, <1>2, <1>4 DEF IInv, StopsLast, Of
  <2>7. QED
    BY <2>2, <2>3, <2>5, <2>6 DEF IInv
<1>5. CASE (Completes(done) \/ UNCHANGED row) /\ failing' = failing \union {p} /\ PutBack(p)
  <2>1. /\ row' \in [Calls -> Settled \union {"none", "started"}]
        /\ \A c \in Calls : row'[c] = row[c] \/ row'[c] \in {"completed", "unpriced"}
        /\ \A c \in Calls : row[c] # "started" => row'[c] = row[c]
    BY <1>1, <1>3, <1>5, CompletesRows DEF IInv
  <2>2. /\ buffer' \in [Processes -> Seq(Calls)] /\ usage' \in [Calls -> {"none", "kept", "lost"}]
        /\ \A q \in Processes \ {p} : buffer'[q] = buffer[q]
        /\ \A d \in Calls : usage'[d] # "lost" => usage'[d] = usage[d]
        /\ \A d \in Calls : usage'[d] = "kept" /\ Waiting(d) => Waiting(d)'
    BY <1>1, <1>5, PutBackKeeps DEF IInv
  <2>3. TypeOK'
    BY <1>1, <1>2, <2>1, <2>2 DEF IInv, TypeOK
  <2>4. FlightsFresh'
    BY <1>1, <2>1, <2>2 DEF IInv, FlightsFresh
  <2>5. UsageHeld'
    BY <1>1, <2>1, <2>2 DEF IInv, UsageHeld
  <2>6. StopsLast'
    BY <1>1, <1>2, <1>5, <2>2 DEF IInv, StopsLast, Of
  <2>7. QED
    BY <2>3, <2>4, <2>5, <2>6 DEF IInv
<1>6. QED
  BY <1>4, <1>5 DEF FlushEnds

LEMMA CloseNowKeeps ==
    ASSUME IInv, NEW c \in Calls, CloseNow(c)
    PROVE  IInv'
<1>1. /\ call[c] = "closing" /\ Over(c) /\ c \in Of(by[c]) /\ by[c] \in Processes
      /\ UNCHANGED <<age, phase, left, flushing, failing, kind, immediate>>
  BY DEF IInv, TypeOK, CloseNow, Of, InFlight, procs, fixed
<1>2. /\ call' \in [Calls -> InFlight \union {"idle", "over"}]
      /\ by' \in [Calls -> Processes \union {None}]
      /\ call'[c] = "over"
      /\ \A d \in Calls \ {c} : call'[d] = call[d] /\ by'[d] = by[d]
      /\ \A d \in Calls : call'[d] \in InFlight => by'[d] \in Processes
      /\ \A p \in Processes : Of(p)' \subseteq Of(p)
  BY <1>1, OverCalls DEF IInv
<1>3. phase[by[c]] # "stopping"
  BY <1>1 DEF IInv, StopsLast
<1>4. /\ row' \in [Calls -> Settled \union {"none", "started"}]
      /\ \A d \in Calls : row'[d] = row[d] \/ row'[d] \in {"completed", "unpriced"}
      /\ \A d \in Calls : row[d] # "started" => row'[d] = row[d]
      /\ Completes({c}) => row'[c] # "started"
  <2>1. CASE Completes({c})
    BY <2>1, CompletesRows DEF IInv
  <2>2. CASE ~Completes({c})
    BY <2>2 DEF CloseNow, IInv, TypeOK
  <2>3. QED
    BY <2>1, <2>2
<1>5. /\ buffer' \in [Processes -> Seq(Calls)] /\ usage' \in [Calls -> {"none", "kept", "lost"}]
      /\ \A q \in Processes \ {by[c]} : buffer'[q] = buffer[q]
      /\ \A d \in Calls : d # c /\ usage'[d] # "lost" => usage'[d] = usage[d]
      /\ \A d \in Calls : d # c /\ usage'[d] = "kept" /\ Waiting(d) => Waiting(d)'
      /\ usage'[c] = "kept" /\ row'[c] = "started" => Waiting(c)'
  <2>1. CASE Completes({c}) /\ UNCHANGED <<buffer, usage>>
    BY <1>1, <1>4, <2>1 DEF IInv, TypeOK, Waiting
  <2>2. CASE UNCHANGED <<row, buffer>> /\ Loses({c})
    BY <1>1, <2>2 DEF IInv, TypeOK, Waiting, Loses
  <2>3. CASE Enqueued(by[c], c)
    BY <1>1, <2>3, EnqueueKeeps DEF IInv
  <2>4. QED
    BY <2>1, <2>2, <2>3 DEF CloseNow
<1>6. TypeOK'
  BY <1>1, <1>2, <1>4, <1>5 DEF IInv, TypeOK
<1>7. FlightsFresh'
  BY <1>1, <1>2, <1>4, <1>5 DEF IInv, FlightsFresh, InFlight
<1>8. UsageHeld'
  BY <1>1, <1>2, <1>4, <1>5 DEF IInv, FlightsFresh, UsageHeld, InFlight
<1>9. StopsLast'
  BY <1>1, <1>2, <1>3, <1>5 DEF IInv, StopsLast
<1>10. QED
  BY <1>6, <1>7, <1>8, <1>9 DEF IInv

\* The reconciler closes rows of a day ago, which nobody holds the usage of.
LEMMA ReconcileKeeps ==
    ASSUME IInv, NEW p \in Processes, Reconcile(p)
    PROVE  IInv'
<1>1. /\ row' \in [Calls -> Settled \union {"none", "started"}]
      /\ \A c \in Calls : row'[c] = row[c] \/ (age[c] > 0 /\ row[c] = "started")
      /\ UNCHANGED <<age, call, by, phase, left, buffer, flushing, failing, usage, kind, immediate>>
  BY DEF IInv, TypeOK, Reconcile, Closes, Settled, calls, procs, fixed
<1>2. \A c \in Calls : age[c] = 0 => row'[c] = row[c]
  BY <1>1
<1>3. \A c \in Calls : row'[c] \in {"started", "unknown"} => row[c] \in {"started", "unknown"}
  BY <1>1
<1>4. TypeOK' /\ StopsLast'
  BY <1>1 DEF IInv, TypeOK, StopsLast, Of
<1>5. FlightsFresh'
  BY <1>1, <1>2 DEF IInv, FlightsFresh
<1>6. UsageHeld'
  BY <1>1, <1>2, <1>3 DEF IInv, UsageHeld, Waiting
<1>7. QED
  BY <1>4, <1>5, <1>6 DEF IInv

LEMMA RollupKeeps ==
    ASSUME IInv, Rollup
    PROVE  IInv'
<1>1. /\ row' \in [Calls -> Settled \union {"none", "started"}]
      /\ \A c \in Calls : row'[c] = row[c] \/ (row[c] \in {"completed", "failed"} /\ row'[c] = "summed")
      /\ UNCHANGED <<age, call, by, phase, left, buffer, flushing, failing, usage, kind, immediate>>
  BY DEF IInv, TypeOK, Rollup, Settled, calls, procs, fixed
<1>2. TypeOK' /\ StopsLast'
  BY <1>1 DEF IInv, TypeOK, StopsLast, Of
<1>3. FlightsFresh' /\ UsageHeld'
  BY <1>1 DEF IInv, FlightsFresh, UsageHeld, Waiting
<1>4. QED
  BY <1>2, <1>3 DEF IInv

LEMMA PhaseKeeps ==
    ASSUME IInv, NEW p \in Processes, Stop(p) \/ Restart(p) \/ Drained(p)
    PROVE  IInv'
<1>1. /\ phase' \in [Processes -> {"up", "draining", "stopping", "down"}]
      /\ left' \in [Processes -> Nat]
      /\ \A q \in Processes \ {p} : phase'[q] = phase[q] /\ left'[q] = left[q]
      /\ phase'[p] = "stopping" => Of(p) = {} /\ left'[p] # 0
      /\ UNCHANGED <<row, age, call, by, buffer, flushing, failing, usage, kind, immediate>>
  <2>1. CASE Stop(p) \/ Restart(p)
    BY <2>1 DEF IInv, TypeOK, Stop, Restart, ledger, calls, fixed
  <2>2. CASE Drained(p)
    BY <2>2 DEF IInv, TypeOK, Drained, ledger, calls, fixed
  <2>3. QED
    BY <2>1, <2>2
<1>2. TypeOK'
  BY <1>1 DEF IInv, TypeOK
<1>3. FlightsFresh' /\ UsageHeld'
  BY <1>1 DEF IInv, FlightsFresh, UsageHeld, Waiting
<1>4. StopsLast'
  BY <1>1 DEF IInv, StopsLast, Of
<1>5. QED
  BY <1>2, <1>3, <1>4 DEF IInv

LEMMA GoneProcess ==
    ASSUME TypeOK, NEW p \in Processes, Gone(p)
    PROVE  /\ phase' \in [Processes -> {"up", "draining", "stopping", "down"}]
           /\ left' \in [Processes -> Nat] /\ phase'[p] = "down"
           /\ buffer' \in [Processes -> Seq(Calls)] /\ flushing' \in [Processes -> Seq(Calls)]
           /\ \A q \in Processes \ {p} :
                 /\ phase'[q] = phase[q] /\ left'[q] = left[q] /\ buffer'[q] = buffer[q]
                 /\ flushing'[q] = flushing[q] /\ (q \in failing' <=> q \in failing)
  BY DEF TypeOK, Gone

LEMMA EndsKeeps ==
    ASSUME IInv, NEW p \in Processes, Ends(p)
    PROVE  IInv'
<1> DEFINE lost == IF p \in failing THEN Elems(buffer[p]) ELSE {}
<1>1. /\ phase[p] = "stopping" /\ left[p] = 0 /\ flushing[p] = << >> /\ Gone(p) /\ Loses(lost)
      /\ UNCHANGED <<row, age, call, by, kind, immediate>>
  BY DEF Ends, ledger, calls, fixed
<1>2. Elems(flushing[p]) = {} /\ Elems(buffer[p]) \subseteq lost
  BY <1>1 DEF IInv, StopsLast, Elems
<1> HIDE DEF lost
<1>3. usage' \in [Calls -> {"none", "kept", "lost"}]
      /\ \A c \in Calls : usage'[c] = "kept" => usage[c] = "kept" /\ c \notin lost
  BY <1>1 DEF IInv, TypeOK, Loses
<1>4. TypeOK'
  BY <1>1, <1>3, GoneProcess DEF IInv, TypeOK
<1>5. FlightsFresh'
  BY <1>1, <1>3 DEF IInv, FlightsFresh
<1>6. ASSUME NEW c \in Calls, Waiting(c), c \notin lost PROVE Waiting(c)'
  BY <1>1, <1>2, <1>6, GoneProcess DEF IInv, Waiting
<1>7. UsageHeld'
  BY <1>1, <1>3, <1>6 DEF IInv, UsageHeld
<1>8. StopsLast'
  BY <1>1, GoneProcess DEF IInv, StopsLast, Of
<1>9. QED
  BY <1>4, <1>5, <1>7, <1>8 DEF IInv

\* A crash takes the buffers of its process and the calls in it.
LEMMA CrashKeeps ==
    ASSUME IInv, NEW p \in Processes, Crash(p)
    PROVE  IInv'
<1> DEFINE lost == Elems(buffer[p]) \union Elems(flushing[p]) \union {c \in Of(p) : usage[c] = "kept"}
<1>1. /\ Gone(p) /\ Loses(lost) /\ UNCHANGED <<row, age, kind, immediate>>
      /\ call' = [c \in Calls |-> IF c \in Of(p) THEN "over" ELSE call[c]]
      /\ by' = [c \in Calls |-> IF c \in Of(p) THEN None ELSE by[c]]
  BY DEF Crash, ledger, fixed
<1>2. /\ call' \in [Calls -> InFlight \union {"idle", "over"}]
      /\ by' \in [Calls -> Processes \union {None}]
      /\ \A c \in Calls \ Of(p) : call'[c] = call[c] /\ by'[c] = by[c]
      /\ \A c \in Of(p) : call'[c] = "over"
  <2>1. Of(p) \subseteq Calls
    BY DEF Of
  <2>2. QED
    BY <1>1, <2>1 DEF IInv, TypeOK
<1>3. \A c \in Calls : call'[c] \in InFlight => call[c] \in InFlight /\ c \notin Of(p)
  BY <1>2 DEF InFlight
<1>4. usage' \in [Calls -> {"none", "kept", "lost"}]
      /\ \A c \in Calls : usage'[c] = "kept" => usage[c] = "kept" /\ c \notin lost
  BY <1>1 DEF IInv, TypeOK, Loses
<1>5. TypeOK'
  BY <1>1, <1>2, <1>3, <1>4, GoneProcess DEF IInv, TypeOK
<1>6. FlightsFresh'
  BY <1>1, <1>2, <1>3, <1>4 DEF IInv, FlightsFresh
<1>7. ASSUME NEW c \in Calls, Waiting(c), c \notin lost PROVE Waiting(c)'
  BY <1>1, <1>7, GoneProcess DEF IInv, Waiting
<1>8. ASSUME NEW c \in Calls, c \in Of(p), usage[c] = "kept" PROVE c \in lost
  BY <1>8
<1> HIDE DEF lost
<1>9. UsageHeld'
  BY <1>1, <1>2, <1>4, <1>7, <1>8 DEF IInv, UsageHeld
<1>10. StopsLast'
  <2>1. \A q \in Processes : Of(q)' \subseteq Of(q)
    BY <1>2, <1>3 DEF Of
  <2>2. QED
    BY <1>1, <2>1, GoneProcess DEF IInv, StopsLast
<1>11. QED
  BY <1>5, <1>6, <1>9, <1>10 DEF IInv

LEMMA DayKeeps ==
    ASSUME IInv, DayPasses
    PROVE  IInv'
<1> DEFINE held == UNION {Elems(buffer[p]) \union Elems(flushing[p]) : p \in Processes}
<1>1. /\ \A c \in Calls : call[c] \notin InFlight
      /\ age' = [c \in Calls |-> IF row[c] # "none" /\ age[c] = 0 THEN 1 ELSE age[c]]
      /\ Loses(held)
      /\ UNCHANGED <<row, call, by, phase, left, buffer, flushing, failing, kind, immediate>>
  BY DEF DayPasses, calls, procs, fixed
<1>2. \A c \in Calls : Waiting(c) => c \in held
  BY DEF Waiting
<1> HIDE DEF held
<1>3. usage' \in [Calls -> {"none", "kept", "lost"}]
      /\ \A c \in Calls : usage'[c] = "kept" => usage[c] = "kept" /\ ~Waiting(c)
  BY <1>1, <1>2 DEF IInv, TypeOK, Loses
<1>4. age' \in [Calls -> 0..2] /\ \A c \in Calls : row[c] = "none" => age'[c] = age[c]
  BY <1>1 DEF IInv, TypeOK
<1>5. TypeOK' /\ StopsLast'
  BY <1>1, <1>3, <1>4 DEF IInv, TypeOK, StopsLast, Of
<1>6. FlightsFresh'
  BY <1>1, <1>3, <1>4 DEF IInv, FlightsFresh
<1>7. UsageHeld'
  BY <1>1, <1>3 DEF IInv, UsageHeld, InFlight
<1>8. QED
  BY <1>5, <1>6, <1>7 DEF IInv

LEMMA SeasonKeeps ==
    ASSUME IInv, SeasonPasses
    PROVE  IInv'
<1>1. /\ age' = [c \in Calls |-> IF age[c] = 1 THEN 2 ELSE age[c]]
      /\ UNCHANGED <<row, call, by, phase, left, buffer, flushing, failing, usage, kind, immediate>>
  BY DEF SeasonPasses, calls, procs, fixed
<1>2. age' \in [Calls -> 0..2] /\ \A c \in Calls : age[c] = 0 => age'[c] = 0
  BY <1>1 DEF IInv, TypeOK
<1>3. TypeOK' /\ StopsLast'
  BY <1>1, <1>2 DEF IInv, TypeOK, StopsLast, Of
<1>4. FlightsFresh' /\ UsageHeld'
  BY <1>1, <1>2 DEF IInv, FlightsFresh, UsageHeld, Waiting
<1>5. QED
  BY <1>3, <1>4 DEF IInv

LEMMA UsageInvariant == Spec => []IInv
<1>1. IInv /\ UNCHANGED vars => IInv'
  <2> SUFFICES ASSUME IInv, UNCHANGED vars PROVE IInv'
    OBVIOUS
  <2>1. UNCHANGED <<row, age, call, by, phase, left, buffer, flushing, failing, usage, kind, immediate>>
    BY DEF vars, ledger, calls, procs, fixed
  <2>2. QED
    BY <2>1 DEF IInv, TypeOK, FlightsFresh, UsageHeld, StopsLast, Waiting, Of
<1>2. IInv /\ Next => IInv'
  <2> SUFFICES ASSUME IInv, Next PROVE IInv'
    OBVIOUS
  <2>1. ASSUME NEW c \in Calls, CallStep(c) PROVE IInv'
    BY <2>1, AnsweredKeeps, NotAnsweredKeeps, CloseKeeps, CloseNowKeeps DEF CallStep
  <2>2. ASSUME NEW c \in Calls, NEW p \in Processes, Open(c, p) PROVE IInv'
    BY <2>2, OpenKeeps
  <2>3. ASSUME NEW p \in Processes, ProcStep(p) PROVE IInv'
    BY <2>3, FlushStartsKeeps, FlushEndsKeeps, PhaseKeeps, EndsKeeps DEF ProcStep
  <2>4. ASSUME NEW p \in Processes, Reconcile(p) \/ Stop(p) \/ Crash(p) \/ Restart(p) PROVE IInv'
    BY <2>4, ReconcileKeeps, PhaseKeeps, CrashKeeps
  <2>5. CASE Rollup \/ DayPasses \/ SeasonPasses
    BY <2>5, RollupKeeps, DayKeeps, SeasonKeeps
  <2>6. QED
    BY <2>1, <2>2, <2>3, <2>4, <2>5 DEF Next
<1>3. QED
  BY UsageInit, <1>1, <1>2, PTL DEF Spec

-----------------------------------------------------------------------------
(* The theorems.                                                           *)

\* What a call measured reaches its row or is about to, unless a failure took
\* it: an orderly stop of a process loses nothing.
THEOREM UsageKept == Spec => []MeasuredUsageKept
<1>1. IInv => MeasuredUsageKept
  BY DEF IInv, UsageHeld, MeasuredUsageKept, Waiting
<1>2. QED
  BY UsageInvariant, <1>1, PTL

\* A settled row is never written again, but for being summed up.
THEOREM SettledStays == Spec => SettledForGood
<1> DEFINE Stays(c) == row[c] \in Settled =>
                           \/ row'[c] = row[c]
                           \/ row[c] \in {"completed", "failed"} /\ row'[c] = "summed"
<1>1. IInv /\ [Next]_vars => \A c \in Calls : Stays(c)
  <2> SUFFICES ASSUME IInv, [Next]_vars, NEW c \in Calls PROVE Stays(c)
    OBVIOUS
  <2>1. CASE UNCHANGED row
    BY <2>1
  <2>2. ASSUME NEW d \in Calls, NEW p \in Processes, Open(d, p) PROVE Stays(c)
    BY <2>2 DEF IInv, TypeOK, FlightsFresh, Open, Settled
  <2>3. ASSUME NEW d \in Calls, Close(d) PROVE Stays(c)
    BY <2>3 DEF Close, Closes, Settled
  <2>4. ASSUME NEW S \in SUBSET Calls, Completes(S) PROVE Stays(c)
    BY <2>4, CompletesRows DEF IInv, Settled
  <2>5. ASSUME NEW d \in Calls, CloseNow(d) PROVE Stays(c)
    BY <2>1, <2>4, <2>5 DEF CloseNow
  <2>6. ASSUME NEW p \in Processes, FlushEnds(p) PROVE Stays(c)
    <3>1. Elems(flushing[p]) \in SUBSET Calls
      BY DEF IInv, TypeOK, Elems
    <3>2. QED
      BY <2>1, <2>4, <2>6, <3>1 DEF FlushEnds
  <2>7. ASSUME NEW p \in Processes, Reconcile(p) PROVE Stays(c)
    BY <2>7 DEF Reconcile, Closes, Settled
  <2>8. CASE Rollup
    BY <2>8 DEF Rollup
  <2>9. ASSUME NEW d \in Calls, Answered(d) \/ NotAnswered(d) PROVE UNCHANGED row
    BY <2>9 DEF Answered, NotAnswered, ledger
  <2>10. ASSUME NEW p \in Processes,
                FlushStarts(p) \/ Drained(p) \/ Ends(p) \/ Stop(p) \/ Crash(p) \/ Restart(p)
         PROVE  UNCHANGED row
    BY <2>10 DEF FlushStarts, Drained, Ends, Stop, Crash, Restart, ledger
  <2>11. CASE DayPasses \/ SeasonPasses \/ UNCHANGED vars
    BY <2>1, <2>11 DEF DayPasses, SeasonPasses, vars, ledger
  <2> HIDE DEF Stays
  <2>12. QED
    BY <2>1, <2>2, <2>3, <2>5, <2>6, <2>7, <2>8, <2>9, <2>10, <2>11 DEF Next, CallStep, ProcStep
<1>2. QED
  BY UsageInvariant, <1>1, PTL DEF Spec, SettledForGood
=============================================================================
