------------------------------ MODULE DailyTick ------------------------------
(* What the ticks of a day do for one user: the diary of the night, then the   *)
(* pushes of 09h, 10h and 20h, each at most once; and the greeting that goes   *)
(* on from the evening's push when the user opens the app.                     *)
EXTENDS Diary

VARIABLES
    kind,      \* the push a tick is sending
    notified,  \* <<day, kind>> whose slot is taken, in user_daily_stats
    shown,     \* days with an evening_push_variant
    said,      \* messages so far
    talk,      \* a message of the user in flight: its day and whether the
               \* evening's push was noted before it
    spoke,     \* days with a message
    answered,  \* days with a message that began after the evening's push
    greeted,   \* <<day, context>> of greetings
    sent,      \* history: requests to FCM for a push
    accepted   \* history: pushes FCM accepted

chat  == <<said, talk, spoke, answered, greeted>>
push  == <<notified, shown, sent, accepted>>
kept  == <<kind, date, cand, tries>>
vars  == <<dvars, kind, push, chat>>

Kinds == {"routine", "morning", "evening"}

Init ==
    /\ DiaryInit
    /\ kind = [t \in Ticks |-> None]
    /\ notified = {} /\ shown = {} /\ accepted = {}
    /\ said = 0 /\ talk = None /\ spoke = {} /\ answered = {} /\ greeted = {}
    /\ sent = [x \in Days \X Kinds |-> 0]

-----------------------------------------------------------------------------
(* Pushes.                                                                     *)

HourOf == [routine |-> 8, morning |-> 9, evening |-> 10]

Idles(t) == Leaves(t) /\ kind' = [kind EXCEPT ![t] = None]

\* Whether the user wants it, has a device, and whether there is something to
\* say; the morning's is about an unread diary of the day before.  Only the
\* evening's push is authenticated later, while it is sent.
StartPush(t) ==
    /\ stage[t] = "idle"
    /\ \E k \in plan.kinds :
          /\ clock = HourOf[k]
          /\ k = "morning" => diary[day] # None
          /\ kind' = [kind EXCEPT ![t] = k]
          /\ Goes(t, IF k = "evening" THEN "booking" ELSE "preparing")
    /\ date' = [date EXCEPT ![t] = day]
    /\ UNCHANGED <<texts, days, time, cand, tries, claim, lock, told, push, chat>>

\* prepare_access_token: a failure leaves the slot to a later tick.
Prepare(t) ==
    /\ stage[t] = "preparing"
    /\ \/ Goes(t, "booking") /\ UNCHANGED kept
       \/ Idles(t)
    /\ UNCHANGED <<texts, days, time, claim, lock, told, push, chat>>

Slot(t) == <<date[t], kind[t]>>

\* Mutant: only an accepted push takes the slot.
TakenIfAccepted(t) == Slot(t) \in accepted

Taken(t) == Slot(t) \in notified

\* The evening's slot is taken with evening_push_variant = NULL.
WithoutVariant(t) == IF kind[t] = "evening" THEN shown \ {date[t]} ELSE shown

\* _claim_send_slot: one statement and its commit.
Book(t) ==
    /\ stage[t] = "booking"
    /\ \/ Taken(t) /\ Idles(t) /\ UNCHANGED <<notified, shown>>
       \/ /\ ~Taken(t)
          /\ notified' = notified \union {Slot(t)}
          /\ shown' = WithoutVariant(t)
          /\ Goes(t, "sending") /\ UNCHANGED kept
    /\ UNCHANGED <<texts, days, time, claim, lock, told>>
    /\ UNCHANGED <<sent, accepted, chat>>

\* FCM accepts it, or refuses it, or nobody knows; the evening's may fail before
\* it is sent.  A notice or a streak has no words a greeting could go on from.
Send(t) ==
    /\ stage[t] = "sending"
    /\ \/ kind[t] = "evening" /\ Idles(t) /\ UNCHANGED <<sent, accepted>>
       \/ /\ sent' = [sent EXCEPT ![Slot(t)] = @ + 1]
          /\ \/ Idles(t) /\ accepted' \in {accepted, accepted \union {Slot(t)}}
             \/ /\ kind[t] = "evening" /\ accepted' = accepted \union {Slot(t)}
                /\ Goes(t, "recording") /\ UNCHANGED kept
    /\ UNCHANGED <<texts, days, time, claim, lock, told>>
    /\ UNCHANGED <<notified, shown, chat>>

\* _record_evening_variant, or its failure.
Record(t) ==
    /\ stage[t] = "recording"
    /\ shown' \in {shown, shown \union {date[t]}}
    /\ Idles(t)
    /\ UNCHANGED <<texts, days, time, claim, lock, told>>
    /\ UNCHANGED <<notified, sent, accepted, chat>>

KillPush(t) ==
    /\ kind[t] # None
    /\ Idles(t)
    /\ UNCHANGED <<texts, days, time, claim, lock, told, push, chat>>

-----------------------------------------------------------------------------
(* The user.                                                                   *)

\* A message carries the time at which its request began.
Say ==
    /\ talk = None /\ said < plan.messages
    /\ said' = said + 1
    /\ talk' = <<day, <<day, "evening">> \in notified>>
    /\ UNCHANGED <<dvars, kind, push, spoke, answered, greeted>>

\* Its commit, under the user's lock; or it fails.
Hear ==
    /\ talk # None
    /\ talk' = None
    /\ \/ UNCHANGED <<spoke, answered>>
       \/ /\ lock = None
          /\ spoke' = spoke \union {talk[1]}
          /\ answered' = IF talk[2] THEN answered \union {talk[1]} ELSE answered
    /\ UNCHANGED <<dvars, kind, push, said, greeted>>

\* get_greeting under the user's lock: the evening's first, which goes on from
\* the push until the user has spoken, then the one of the day.
Greet ==
    /\ lock = None /\ plan.messages > 0
    /\ \/ /\ day \in shown \ answered /\ <<day, "evening">> \notin greeted
          /\ greeted' = greeted \union {<<day, "evening">>}
       \/ /\ day \notin shown \ answered \/ <<day, "evening">> \in greeted
          /\ day \notin spoke /\ \A x \in greeted : x[1] # day
          /\ greeted' = greeted \union {<<day, "usual">>}
    /\ UNCHANGED <<dvars, kind, push, said, talk, spoke, answered>>

-----------------------------------------------------------------------------
PushStep(t) ==
    StartPush(t) \/ Prepare(t) \/ Book(t) \/ Send(t) \/ Record(t) \/ KillPush(t)

Next ==
    \/ \E t \in Ticks : PushStep(t)
    \/ Say \/ Hear \/ Greet
    \/ /\ EditText \/ NextSlot \/ Move \/ \E t \in Ticks : DiaryStep(t)
       /\ UNCHANGED <<kind, push, chat>>

Spec == Init /\ [][Next]_vars

-----------------------------------------------------------------------------
(* Properties.                                                                 *)

\* A push of a day is sent once at most (notify.py:194), with ticks that overlap
\* or die and a user for whom the hour comes twice, and a greeting goes on only
\* from an evening's push that FCM accepted (chat.py:2828).
PushedOnce ==
    \A x \in Days \X Kinds :
        /\ sent[x] <= 1
        /\ x[2] = "evening" /\ x \in greeted => x \in accepted
=============================================================================
