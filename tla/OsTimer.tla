------------------------------ MODULE OsTimer -------------------------------
(***************************************************************************)
(* The event timers of system/ostimer.c.  The tick interrupt advances      *)
(* g_tick_count every 100 ms; the main loop calls update_timers, which     *)
(* compares and then copies the count in two separate reads, so an         *)
(* interrupt may come between them, and then visits the timers in order.   *)
(* Timers are added, started and stopped between the calls: the only       *)
(* callback of the program, cursor_timer_callback, touches no timer.       *)
(***************************************************************************)
EXTENDS Integers

CONSTANTS
  MaxTimers,  \* MAX_TIMERS
  Intervals,  \* the intervals callers ask for, in ticks
  WordSize,   \* 2^32
  NULL        \* an empty entry of g_timers

ASSUME SizeAssumption ==
  /\ MaxTimers \in Nat \ {0}
  /\ WordSize \in Nat /\ WordSize > 1
  /\ Intervals \subseteq 0 .. WordSize - 1

VARIABLES
  g_tick_count,
  last_tick,  \* update_timers' static copy of g_tick_count
  g_timers,   \* event_timer_t or NULL for each entry
  step,       \* where update_timers is: Outside, Copying, or the next entry to visit
  unseen,     \* history: ticks since last_tick was copied
  due,        \* history: ticks to be seen before the entry may fire
  event       \* history: what the last step did: a callback or a call, and the entry

vars == <<g_tick_count, last_tick, g_timers, step, unseen, due, event>>

Index == 0 .. MaxTimers - 1
Word == 0 .. WordSize - 1

Timers == [interval : Word, remaining : Word, count : Word, enabled : BOOLEAN]

ASSUME NullAssumption == NULL \notin Timers

Outside == -2
Copying == -1

Event(what, i) == [what |-> what, entry |-> i]
NoEvent == Event("none", 0)

TypeOK ==
  /\ g_tick_count \in Word
  /\ last_tick \in Word
  /\ g_timers \in [Index -> Timers \cup {NULL}]
  /\ step \in {Outside, Copying} \cup Index
  /\ unseen \in Word
  /\ due \in [Index -> Word]

-----------------------------------------------------------------------------

\* init_timer; last_tick starts at zero.
Init ==
  /\ g_tick_count = 0
  /\ last_tick = 0
  /\ g_timers = [i \in Index |-> NULL]
  /\ step = Outside
  /\ unseen = 0
  /\ due = [i \in Index |-> 0]
  /\ event = NoEvent

\* pit_timer.  The main loop is never away for 2^32 ticks, which is 13 years.
Tick ==
  /\ unseen < WordSize - 1
  /\ g_tick_count' = (g_tick_count + 1) % WordSize
  /\ unseen' = unseen + 1
  /\ event' = NoEvent
  /\ UNCHANGED <<last_tick, g_timers, step, due>>

-----------------------------------------------------------------------------
(* Calls of the main program between two calls of update_timers.           *)

Call(i, t) ==
  /\ step = Outside
  /\ g_timers' = [g_timers EXCEPT ![i] = t]
  /\ event' = Event("call", i)
  /\ UNCHANGED <<g_tick_count, last_tick, step, unseen>>

\* add_timer takes the first empty entry; with none it returns -1.
AddTimer(interval, start) ==
  \E i \in Index :
    /\ g_timers[i] = NULL
    /\ \A j \in Index : j < i => g_timers[j] # NULL
    /\ Call(i, [interval |-> interval, remaining |-> interval, count |-> 0,
                enabled |-> start])
    /\ due' = [due EXCEPT ![i] = interval]

DeleteTimer(i) ==
  /\ g_timers[i] # NULL
  /\ Call(i, NULL)
  /\ UNCHANGED due

StartTimer(i) ==
  /\ g_timers[i] # NULL
  /\ Call(i, [interval |-> g_timers[i].interval, remaining |-> g_timers[i].interval,
              count |-> 0, enabled |-> TRUE])
  /\ due' = [due EXCEPT ![i] = g_timers[i].interval]

StopTimer(i) ==
  /\ g_timers[i] # NULL
  /\ Call(i, [g_timers[i] EXCEPT !.enabled = FALSE])
  /\ UNCHANGED due

ResetTimer(i) ==
  /\ g_timers[i] # NULL
  /\ Call(i, [g_timers[i] EXCEPT !.remaining = g_timers[i].interval])
  /\ due' = [due EXCEPT ![i] = g_timers[i].interval]

\* The new interval counts from the next time the timer is loaded.
SetInterval(i, interval) ==
  /\ g_timers[i] # NULL
  /\ Call(i, [g_timers[i] EXCEPT !.interval = interval])
  /\ UNCHANGED due

-----------------------------------------------------------------------------
(* update_timers.                                                          *)

\* What is due after the ticks so far have been seen.
Seen(n) == IF n > unseen THEN n - unseen ELSE 0

\* Defective variants, for the checks that the properties can fail: a
\* comparison that fails once the count has wrapped; a copy that is forgotten.
CheckTick_Less ==
  /\ step = Outside
  /\ last_tick < g_tick_count
  /\ step' = Copying
  /\ event' = NoEvent
  /\ UNCHANGED <<g_tick_count, last_tick, g_timers, unseen, due>>
CopyTick_Forgotten ==
  /\ step = Copying
  /\ step' = 0
  /\ due' = [i \in Index |-> Seen(due[i])]
  /\ unseen' = 0
  /\ event' = NoEvent
  /\ UNCHANGED <<g_tick_count, last_tick, g_timers>>

\* last_tick != g_tick_count
CheckTick ==
  /\ step = Outside
  /\ last_tick # g_tick_count
  /\ step' = Copying
  /\ event' = NoEvent
  /\ UNCHANGED <<g_tick_count, last_tick, g_timers, unseen, due>>

\* last_tick = g_tick_count: ticks that came while the loop was busy count as one.
CopyTick ==
  /\ step = Copying
  /\ last_tick' = g_tick_count
  /\ step' = 0
  /\ due' = [i \in Index |-> Seen(due[i])]
  /\ unseen' = 0
  /\ event' = NoEvent
  /\ UNCHANGED <<g_tick_count, g_timers>>

\* The entry after one update, and whether its callback is called.
Remaining(t) == (t.remaining - 1) % WordSize
Expires(t) == t # NULL /\ t.enabled /\ Remaining(t) = 0
Updated(t) ==
  IF t = NULL \/ ~t.enabled THEN t
  ELSE [interval  |-> t.interval,
        remaining |-> IF Expires(t) THEN t.interval ELSE Remaining(t),
        count     |-> IF Expires(t) THEN (t.count + 1) % WordSize ELSE t.count,
        enabled   |-> t.enabled]

VisitTimer ==
  \E i \in Index :
    /\ step = i
    /\ g_timers' = [g_timers EXCEPT ![i] = Updated(g_timers[i])]
    /\ step' = IF i = MaxTimers - 1 THEN Outside ELSE i + 1
    /\ IF Expires(g_timers[i])
         THEN /\ event' = Event("callback", i)
              /\ due' = [due EXCEPT ![i] = g_timers[i].interval]
         ELSE /\ event' = NoEvent
              /\ UNCHANGED due
    /\ UNCHANGED <<g_tick_count, last_tick, unseen>>

UpdateTimers == CheckTick \/ CopyTick \/ VisitTimer

Next ==
  \/ Tick
  \/ \E n \in Intervals, start \in BOOLEAN : AddTimer(n, start)
  \/ \E i \in Index : DeleteTimer(i) \/ StartTimer(i) \/ StopTimer(i) \/ ResetTimer(i)
  \/ \E i \in Index, n \in Intervals : SetInterval(i, n)
  \/ UpdateTimers

Spec == Init /\ [][Next]_vars

\* The clock runs and the main loop keeps calling update_timers.
FairSpec == Spec /\ WF_vars(Tick) /\ WF_vars(UpdateTimers)

-----------------------------------------------------------------------------
(* Properties.                                                             *)

\* A callback comes no earlier than its interval after the timer was started or
\* last fired, in ticks the main loop has seen, wherever the interrupts fall;
\* in particular a loop that was busy for long does not catch up in a burst.
NeverEarly ==
  [][event'.what = "callback" => due[event'.entry] = 0]_vars

\* A running timer fires again and again, until the program touches it: no
\* tick is missed because the count wraps or an interrupt meets the comparison.
KeepsFiring ==
  \A i \in Index :
    (g_timers[i] # NULL /\ g_timers[i].enabled)
      ~> (event.what \in {"callback", "call"} /\ event.entry = i)

\* The strengthening of NeverEarly that is inductive: what a timer has
\* remaining covers what is due, with one to spare while the timer is still to
\* be visited in the present pass.
Pending(i) == step \in 0 .. i

RemainingCoversDue ==
  \A i \in Index :
    g_timers[i] # NULL =>
      LET r == g_timers[i].remaining
      IN  due[i] <= IF Pending(i) /\ r > 0 THEN r - 1 ELSE r

\* update_timers starts a pass only if a tick is unseen.
CountsAgree ==
  /\ g_tick_count = (last_tick + unseen) % WordSize
  /\ step = Copying => unseen > 0

IInv == TypeOK /\ CountsAgree /\ RemainingCoversDue
=============================================================================
