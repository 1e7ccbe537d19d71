---------------------------- MODULE DeviceProofs ----------------------------
(***************************************************************************)
(* The theorems of three drivers: the event timers, the text display,      *)
(* whose cursor one of them blinks, and the disk.  A timer never fires     *)
(* early, for any number of timers, any intervals and any width of the     *)
(* tick count; the screen agrees with the buffer and an erasure undoes a   *)
(* character, for any size of the screen; a read that returns, or is under *)
(* way, has what the medium holds, and what a write was answered for is    *)
(* stored, for a drive of any size, transfers of any length and any        *)
(* time-outs.                                                              *)
(***************************************************************************)
EXTENDS OsTimer, Display, DiskIO, SequenceTheorems, TLAPS

\* The two wrapping additions of ostimer.c, and the one of two words.
LEMMA WordArithmetic ==
  ASSUME NEW a \in Word, NEW b \in Word
  PROVE  /\ (a + 1) % WordSize = IF a = WordSize - 1 THEN 0 ELSE a + 1
         /\ (a - 1) % WordSize = IF a = 0 THEN WordSize - 1 ELSE a - 1
         /\ (a + b) % WordSize = IF a + b < WordSize THEN a + b
                                                     ELSE a + b - WordSize
<1> USE SizeAssumption DEF Word
<1>1. (a + 1) % WordSize = IF a = WordSize - 1 THEN 0 ELSE a + 1
  <2>1. CASE a = WordSize - 1
    BY <2>1
  <2>2. CASE a # WordSize - 1
    BY <2>2
  <2> QED BY <2>1, <2>2
<1>2. (a - 1) % WordSize = IF a = 0 THEN WordSize - 1 ELSE a - 1
  <2>1. CASE a = 0
    BY <2>1
  <2>2. CASE a # 0
    BY <2>2
  <2> QED BY <2>1, <2>2
<1>3. (a + b) % WordSize = IF a + b < WordSize THEN a + b ELSE a + b - WordSize
  <2>1. CASE a + b < WordSize
    BY <2>1
  <2>2. CASE a + b >= WordSize
    BY <2>2
  <2> QED BY <2>1, <2>2
<1> QED BY <1>1, <1>2, <1>3

\* An update keeps a timer a timer and an empty entry empty.
LEMMA UpdatedType ==
  ASSUME NEW t \in Timers \cup {NULL}
  PROVE  /\ Updated(t) \in Timers \cup {NULL}
         /\ Updated(t) = NULL <=> t = NULL
<1>1. CASE t = NULL
  BY <1>1 DEF Updated
<1>2. CASE t \in Timers
  <2>1. /\ t.interval \in Word /\ t.remaining \in Word /\ t.count \in Word
        /\ t.enabled \in BOOLEAN
    BY <1>2 DEF Timers
  <2>2. (t.remaining - 1) % WordSize \in Word /\ (t.count + 1) % WordSize \in Word
    BY <2>1, SizeAssumption DEF Word
  <2>3. Updated(t) \in Timers
    BY <1>2, <2>1, <2>2 DEF Updated, Remaining, Timers
  <2> QED BY <1>2, <2>3, NullAssumption
<1> QED BY <1>1, <1>2

-----------------------------------------------------------------------------
(* Type correctness.                                                       *)

\* Of the ticks gone by no more are seen than there were.
LEMMA SeenType ==
  ASSUME NEW n \in Word, unseen \in Word
  PROVE  Seen(n) \in Word /\ Seen(n) <= n
BY SizeAssumption DEF Seen, Word

\* Every step of the clock, of update_timers and of a caller keeps the types.
LEMMA TypeStep == TypeOK /\ [Next]_vars => TypeOK'
<1> SUFFICES ASSUME TypeOK, [Next]_vars PROVE TypeOK'
  OBVIOUS
<1> USE SizeAssumption
<1>0. Intervals \subseteq Word /\ 0 \in Word
  BY DEF Word
<1>1. CASE Tick
  BY <1>1, WordArithmetic DEF TypeOK, Tick, Word
<1>2. ASSUME NEW n \in Intervals, NEW start \in BOOLEAN, AddTimer(n, start)
      PROVE  TypeOK'
  <2>1. PICK i \in Index :
          /\ Call(i, [interval |-> n, remaining |-> n, count |-> 0, enabled |-> start])
          /\ due' = [due EXCEPT ![i] = n]
    BY <1>2 DEF AddTimer
  <2>2. [interval |-> n, remaining |-> n, count |-> 0, enabled |-> start] \in Timers
    BY <1>0 DEF Timers
  <2> QED BY <1>0, <2>1, <2>2 DEF TypeOK, Call
<1>3. ASSUME NEW i \in Index, DeleteTimer(i)
      PROVE  TypeOK'
  BY <1>3 DEF TypeOK, DeleteTimer, Call
<1>4. ASSUME NEW i \in Index, g_timers[i] # NULL
      PROVE  /\ g_timers[i] \in Timers
             /\ g_timers[i].interval \in Word /\ g_timers[i].remaining \in Word
             /\ g_timers[i].count \in Word /\ g_timers[i].enabled \in BOOLEAN
  BY <1>4 DEF TypeOK, Timers
<1>5. ASSUME NEW i \in Index, StartTimer(i)
      PROVE  TypeOK'
  <2>1. [interval |-> g_timers[i].interval, remaining |-> g_timers[i].interval,
         count |-> 0, enabled |-> TRUE] \in Timers
    BY <1>0, <1>4, <1>5 DEF StartTimer, Timers
  <2> QED BY <1>4, <1>5, <2>1 DEF TypeOK, StartTimer, Call
<1>6. ASSUME NEW i \in Index, StopTimer(i)
      PROVE  TypeOK'
  <2>1. [g_timers[i] EXCEPT !.enabled = FALSE] \in Timers
    BY <1>4, <1>6 DEF StopTimer, Timers
  <2> QED BY <1>6, <2>1 DEF TypeOK, StopTimer, Call
<1>7. ASSUME NEW i \in Index, ResetTimer(i)
      PROVE  TypeOK'
  <2>1. [g_timers[i] EXCEPT !.remaining = g_timers[i].interval] \in Timers
    BY <1>4, <1>7 DEF ResetTimer, Timers
  <2> QED BY <1>4, <1>7, <2>1 DEF TypeOK, ResetTimer, Call
<1>8. ASSUME NEW i \in Index, NEW n \in Intervals, SetInterval(i, n)
      PROVE  TypeOK'
  <2>1. [g_timers[i] EXCEPT !.interval = n] \in Timers
    BY <1>0, <1>4, <1>8 DEF SetInterval, Timers
  <2> QED BY <1>8, <2>1 DEF TypeOK, SetInterval, Call
<1>9. CASE CheckTick
  BY <1>9 DEF TypeOK, CheckTick
<1>10. CASE CopyTick
  <2>1. \A i \in Index : Seen(due[i]) \in Word
    BY SeenType DEF TypeOK
  <2>2. 0 \in Index
    BY DEF Index
  <2> QED BY <1>0, <1>10, <2>1, <2>2 DEF TypeOK, CopyTick
<1>11. CASE VisitTimer
  <2>1. PICK i \in Index : VisitTimer!(i)
    BY <1>11 DEF VisitTimer
  <2>2. Updated(g_timers[i]) \in Timers \cup {NULL}
    BY UpdatedType DEF TypeOK
  <2>3. step' \in {Outside} \cup Index
    BY <2>1 DEF Index
  <2>4. due' \in [Index -> Word]
    BY <1>4, <2>1 DEF TypeOK, Expires
  <2> QED BY <2>1, <2>2, <2>3, <2>4 DEF TypeOK
<1>12. CASE UNCHANGED vars
  BY <1>12 DEF TypeOK, vars
<1> QED BY <1>1, <1>2, <1>3, <1>5, <1>6, <1>7, <1>8, <1>9, <1>10, <1>11, <1>12
        DEF Next, UpdateTimers

\* Every counter stays a word and update_timers never leaves g_timers.
THEOREM TypeCorrect == Spec => []TypeOK
<1>1. Init => TypeOK
  BY SizeAssumption DEF Init, TypeOK, Word
<1> QED BY <1>1, TypeStep, PTL DEF Spec

-----------------------------------------------------------------------------
(* The inductive invariant.                                                *)

\* The history counts what the two counters say.
LEMMA CountsStep ==
  ASSUME TypeOK, CountsAgree, [Next]_vars
  PROVE  CountsAgree'
<1> USE SizeAssumption DEF CountsAgree
<1>0. /\ g_tick_count \in Word /\ last_tick \in Word /\ unseen \in Word
      /\ g_tick_count = IF last_tick + unseen < WordSize
                          THEN last_tick + unseen ELSE last_tick + unseen - WordSize
  BY WordArithmetic DEF TypeOK
<1>1. CASE Tick
  <2>1. /\ (g_tick_count + 1) % WordSize =
             IF g_tick_count = WordSize - 1 THEN 0 ELSE g_tick_count + 1
        /\ unseen + 1 \in Word
    BY <1>0, <1>1, WordArithmetic DEF Tick, Word
  <2>2. (last_tick + (unseen + 1)) % WordSize =
           IF last_tick + (unseen + 1) < WordSize THEN last_tick + (unseen + 1)
           ELSE last_tick + (unseen + 1) - WordSize
    BY <1>0, <2>1, WordArithmetic
  <2>3. (g_tick_count + 1) % WordSize = (last_tick + (unseen + 1)) % WordSize
    BY <1>0, <2>1, <2>2 DEF Word
  <2> QED BY <1>0, <1>1, <2>3 DEF Tick, Word
<1>2. ASSUME NEW i \in Index, NEW t, Call(i, t)
      PROVE  CountsAgree'
  BY <1>2 DEF Call, Outside, Copying
<1>3. CASE CheckTick
  <2>1. unseen # 0
    BY <1>0, <1>3 DEF CheckTick, Word
  <2> QED BY <1>0, <1>3, <2>1 DEF CheckTick, Word
<1>4. CASE CopyTick
  <2>1. (g_tick_count + 0) % WordSize = g_tick_count
    BY <1>0 DEF Word
  <2> QED BY <1>4, <2>1 DEF CopyTick, Copying
<1>5. CASE VisitTimer
  BY <1>5 DEF VisitTimer, Index, Outside, Copying
<1>6. CASE UNCHANGED vars
  BY <1>6 DEF vars
<1> QED BY <1>1, <1>2, <1>3, <1>4, <1>5, <1>6
        DEF Next, UpdateTimers, AddTimer, DeleteTimer, StartTimer, StopTimer,
            ResetTimer, SetInterval

Covered(i) ==
  g_timers[i] # NULL =>
    LET r == g_timers[i].remaining
    IN  due[i] <= IF Pending(i) /\ r > 0 THEN r - 1 ELSE r

\* A call leaves a timer with its whole interval to go, or as it was.
LEMMA CallCovered ==
  ASSUME TypeOK, RemainingCoversDue, NEW k \in Index, NEW t \in Timers \cup {NULL},
         Call(k, t), due' \in [Index -> Word],
         \A i \in Index \ {k} : due'[i] = due[i],
         t # NULL => due'[k] <= t.remaining
  PROVE  RemainingCoversDue'
<1> SUFFICES ASSUME NEW i \in Index PROVE Covered(i)'
  BY DEF RemainingCoversDue, Covered
<1>1. ~Pending(i) /\ ~Pending(i)'
  BY DEF Call, Pending, Outside, Index
<1>2. CASE i = k
  BY <1>1, <1>2 DEF Covered, Call, TypeOK
<1>3. CASE i # k
  BY <1>1, <1>3 DEF Covered, Call, TypeOK, RemainingCoversDue
<1> QED BY <1>2, <1>3

\* A step leaves no remaining count below the ticks due, whoever takes it.
LEMMA CoveredStep ==
  ASSUME TypeOK, CountsAgree, RemainingCoversDue, [Next]_vars
  PROVE  RemainingCoversDue'
<1> USE SizeAssumption
<1>0. Intervals \subseteq Word /\ 0 \in Word /\ TypeOK'
  BY TypeStep DEF Word
<1>1. ASSUME NEW i \in Index, g_timers[i] # NULL
      PROVE  /\ g_timers[i] \in Timers
             /\ g_timers[i].interval \in Word /\ g_timers[i].remaining \in Word
             /\ due[i] \in Word
             /\ due[i] <= g_timers[i].remaining
  <2>1. /\ g_timers[i] \in Timers
        /\ g_timers[i].interval \in Word /\ g_timers[i].remaining \in Word
        /\ due[i] \in Word
    BY <1>1 DEF TypeOK, Timers
  <2> QED BY <1>1, <2>1 DEF RemainingCoversDue, Word
<1>2. CASE Tick
  BY <1>2 DEF Tick, RemainingCoversDue, Pending
<1>3. ASSUME NEW n \in Intervals, NEW start \in BOOLEAN, AddTimer(n, start)
      PROVE  RemainingCoversDue'
  <2> DEFINE t == [interval |-> n, remaining |-> n, count |-> 0, enabled |-> start]
  <2>1. PICK i \in Index : Call(i, t) /\ due' = [due EXCEPT ![i] = n]
    BY <1>3 DEF AddTimer
  <2>2. t \in Timers /\ t.remaining = n
    BY <1>0 DEF Timers
  <2>3. due' \in [Index -> Word] /\ due'[i] <= n /\ \A j \in Index \ {i} : due'[j] = due[j]
    BY <1>0, <2>1 DEF TypeOK, Word
  <2> HIDE DEF t
  <2> QED BY <2>1, <2>2, <2>3, CallCovered
<1>4. ASSUME NEW i \in Index, DeleteTimer(i)
      PROVE  RemainingCoversDue'
  <2>1. Call(i, NULL) /\ due' = due /\ due' \in [Index -> Word]
    BY <1>0, <1>4 DEF DeleteTimer, TypeOK
  <2> QED BY <2>1, CallCovered
<1>5. ASSUME NEW i \in Index, NEW t \in Timers, g_timers[i] # NULL, Call(i, t),
             t.remaining = g_timers[i].interval,
             due' = [due EXCEPT ![i] = g_timers[i].interval]
      PROVE  RemainingCoversDue'
  <2>1. due' \in [Index -> Word] /\ due'[i] <= t.remaining
        /\ \A j \in Index \ {i} : due'[j] = due[j]
    BY <1>0, <1>1, <1>5 DEF TypeOK, Word
  <2> QED BY <1>5, <2>1, CallCovered
<1>6. ASSUME NEW i \in Index, NEW t \in Timers, g_timers[i] # NULL, Call(i, t),
             t.remaining = g_timers[i].remaining, due' = due
      PROVE  RemainingCoversDue'
  <2>1. due' \in [Index -> Word] /\ due'[i] <= t.remaining
    BY <1>0, <1>1, <1>6 DEF TypeOK
  <2> QED BY <1>6, <2>1, CallCovered
<1>7. ASSUME NEW i \in Index, StartTimer(i)
      PROVE  RemainingCoversDue'
  <2> DEFINE t == [interval |-> g_timers[i].interval,
                   remaining |-> g_timers[i].interval, count |-> 0, enabled |-> TRUE]
  <2>1. t \in Timers /\ t.remaining = g_timers[i].interval
    BY <1>0, <1>1, <1>7 DEF StartTimer, Timers
  <2>2. /\ g_timers[i] # NULL /\ Call(i, t)
        /\ due' = [due EXCEPT ![i] = g_timers[i].interval]
    BY <1>7 DEF StartTimer
  <2> HIDE DEF t
  <2> QED BY <1>5, <2>1, <2>2
<1>8. ASSUME NEW i \in Index, StopTimer(i)
      PROVE  RemainingCoversDue'
  <2> DEFINE t == [g_timers[i] EXCEPT !.enabled = FALSE]
  <2>1. t \in Timers /\ t.remaining = g_timers[i].remaining
    BY <1>1, <1>8 DEF StopTimer, Timers
  <2>2. g_timers[i] # NULL /\ Call(i, t) /\ due' = due
    BY <1>8 DEF StopTimer
  <2> HIDE DEF t
  <2> QED BY <1>6, <2>1, <2>2
<1>9. ASSUME NEW i \in Index, ResetTimer(i)
      PROVE  RemainingCoversDue'
  <2> DEFINE t == [g_timers[i] EXCEPT !.remaining = g_timers[i].interval]
  <2>1. t \in Timers /\ t.remaining = g_timers[i].interval
    BY <1>1, <1>9 DEF ResetTimer, Timers
  <2>2. /\ g_timers[i] # NULL /\ Call(i, t)
        /\ due' = [due EXCEPT ![i] = g_timers[i].interval]
    BY <1>9 DEF ResetTimer
  <2> HIDE DEF t
  <2> QED BY <1>5, <2>1, <2>2
<1>10. ASSUME NEW i \in Index, NEW n \in Intervals, SetInterval(i, n)
       PROVE  RemainingCoversDue'
  <2> DEFINE t == [g_timers[i] EXCEPT !.interval = n]
  <2>1. t \in Timers /\ t.remaining = g_timers[i].remaining
    BY <1>0, <1>1, <1>10 DEF SetInterval, Timers
  <2>2. g_timers[i] # NULL /\ Call(i, t) /\ due' = due
    BY <1>10 DEF SetInterval
  <2> HIDE DEF t
  <2> QED BY <1>6, <2>1, <2>2
<1>11. CASE CheckTick
  BY <1>11 DEF CheckTick, RemainingCoversDue, Pending, Outside, Copying, Index
<1>12. CASE CopyTick
  <2> SUFFICES ASSUME NEW i \in Index PROVE Covered(i)'
    BY DEF RemainingCoversDue, Covered
  <2>1. unseen > 0 /\ unseen \in Word
    BY <1>12 DEF CountsAgree, CopyTick, TypeOK
  <2>2. due'[i] = Seen(due[i]) /\ g_timers' = g_timers
    BY <1>12 DEF CopyTick
  <2>3. CASE g_timers[i] # NULL
    BY <1>1, <2>1, <2>2, <2>3 DEF Covered, Seen, Word
  <2> QED BY <2>2, <2>3 DEF Covered
<1>13. CASE VisitTimer
  <2>1. PICK k \in Index : VisitTimer!(k)
    BY <1>13 DEF VisitTimer
  <2> SUFFICES ASSUME NEW i \in Index PROVE Covered(i)'
    BY DEF RemainingCoversDue, Covered
  <2>2. CASE i = k
    <3>1. ~Pending(i)'
      BY <2>1, <2>2 DEF Pending, Outside, Index
    <3>2. g_timers'[i] = Updated(g_timers[i])
      BY <2>1, <2>2 DEF TypeOK
    <3>3. CASE g_timers[i] = NULL
      BY <3>2, <3>3 DEF Covered, Updated
    <3>4. CASE g_timers[i] # NULL /\ ~g_timers[i].enabled
      <4>1. g_timers'[i] = g_timers[i] /\ due'[i] = due[i]
        BY <2>1, <2>2, <3>2, <3>4 DEF Updated, Expires
      <4> QED BY <1>1, <3>1, <3>4, <4>1 DEF Covered
    <3>5. CASE Expires(g_timers[i])
      <4>1. g_timers'[i].remaining = g_timers[i].interval
        BY <3>2, <3>5 DEF Updated, Expires
      <4>2. due'[i] = g_timers[i].interval
        BY <2>1, <2>2, <3>5 DEF TypeOK
      <4>3. g_timers[i].interval \in Word
        BY <1>1, <3>5 DEF Expires
      <4> QED BY <3>1, <4>1, <4>2, <4>3 DEF Covered, Word
    <3>6. CASE g_timers[i] # NULL /\ g_timers[i].enabled /\ ~Expires(g_timers[i])
      <4>1. g_timers'[i].remaining = Remaining(g_timers[i]) /\ due'[i] = due[i]
        BY <2>1, <2>2, <3>2, <3>6 DEF Updated
      <4>2. Remaining(g_timers[i]) = IF g_timers[i].remaining = 0 THEN WordSize - 1
                                     ELSE g_timers[i].remaining - 1
        BY <1>1, <3>6, WordArithmetic DEF Remaining
      <4>3. Pending(i)
        BY <2>1, <2>2 DEF Pending, Index
      <4>4. due[i] <= Remaining(g_timers[i])
        BY <1>1, <3>6, <4>2, <4>3 DEF RemainingCoversDue, Word
      <4> QED BY <3>1, <4>1, <4>4 DEF Covered
    <3> QED BY <3>3, <3>4, <3>5, <3>6
  <2>3. CASE i # k
    <3>1. g_timers'[i] = g_timers[i] /\ due'[i] = due[i]
      BY <2>1, <2>3 DEF TypeOK
    <3>2. Pending(i)' => Pending(i)
      BY <2>1 DEF Pending, Outside, Index
    <3>3. CASE g_timers[i] # NULL
      BY <1>1, <2>3, <3>1, <3>2, <3>3 DEF Covered, RemainingCoversDue, Word
    <3> QED BY <3>1, <3>3 DEF Covered
  <2> QED BY <2>2, <2>3
<1>14. CASE UNCHANGED vars
  BY <1>14 DEF vars, RemainingCoversDue, Pending
<1> QED BY <1>2, <1>3, <1>4, <1>7, <1>8, <1>9, <1>10, <1>11, <1>12, <1>13, <1>14
        DEF Next, UpdateTimers

\* The invariant of the timers holds for all parameters.
THEOREM Invariance == Spec => []IInv
<1>1. Init => IInv
  <2>1. ASSUME Init PROVE TypeOK
    BY <2>1, SizeAssumption DEF Init, TypeOK, Word
  <2>2. ASSUME Init PROVE CountsAgree
    BY <2>2, SizeAssumption DEF Init, CountsAgree, Outside, Copying
  <2>3. ASSUME Init PROVE RemainingCoversDue
    BY <2>3 DEF Init, RemainingCoversDue
  <2> QED BY <2>1, <2>2, <2>3 DEF IInv
<1>2. IInv /\ [Next]_vars => IInv'
  BY TypeStep, CountsStep, CoveredStep DEF IInv
<1> QED BY <1>1, <1>2, PTL DEF Spec

\* What is left of a timer always covers the ticks it still has to see.
THEOREM CoveredCorrect == Spec => []RemainingCoversDue
<1>1. IInv => RemainingCoversDue
  BY DEF IInv
<1> QED BY <1>1, Invariance, PTL

\* No callback comes before its interval has been seen to pass.
THEOREM NeverEarlyCorrect == Spec => NeverEarly
<1>1. ASSUME IInv, [Next]_vars
      PROVE  [event'.what = "callback" => due[event'.entry] = 0]_vars
  <2>1. CASE VisitTimer
    <3>1. PICK k \in Index : VisitTimer!(k)
      BY <2>1 DEF VisitTimer
    <3>2. CASE Expires(g_timers[k])
      <4>1. event'.entry = k
        BY <3>1, <3>2 DEF Event
      <4>2. /\ g_timers[k] # NULL
            /\ g_timers[k].remaining \in Word /\ due[k] \in Word
        BY <1>1, <3>2 DEF Expires, IInv, TypeOK, Timers
      <4>3. g_timers[k].remaining = 1
        <5>1. Remaining(g_timers[k]) = IF g_timers[k].remaining = 0 THEN WordSize - 1
                                       ELSE g_timers[k].remaining - 1
          BY <4>2, WordArithmetic DEF Remaining
        <5> QED BY <3>2, <4>2, <5>1, SizeAssumption DEF Expires, Word
      <4>4. Pending(k)
        BY <3>1 DEF Pending, Index
      <4>5. due[k] <= 0
        BY <1>1, <4>2, <4>3, <4>4 DEF IInv, RemainingCoversDue
      <4> QED BY <4>1, <4>2, <4>5 DEF Word
    <3>3. CASE ~Expires(g_timers[k])
      BY <3>1, <3>3 DEF NoEvent, Event
    <3> QED BY <3>2, <3>3
  <2>2. CASE Tick \/ CheckTick \/ CopyTick
    BY <2>2 DEF Tick, CheckTick, CopyTick, NoEvent, Event
  <2>3. ASSUME NEW i \in Index, NEW t, Call(i, t)
        PROVE  event'.what = "call"
    BY <2>3 DEF Call, Event
  <2>4. CASE UNCHANGED vars
    BY <2>4
  <2> QED BY <1>1, <2>1, <2>2, <2>3, <2>4
          DEF Next, UpdateTimers, AddTimer, DeleteTimer, StartTimer, StopTimer,
              ResetTimer, SetInterval
<1> QED BY <1>1, Invariance, PTL DEF Spec, NeverEarly

-----------------------------------------------------------------------------
(* The text display.                                                       *)

Codes == Chars \cup {BLANK, CURSOR, PICTURE}

\* A text, whose position may be beyond the end of a row or of the buffer.
Texts == [buffer : [Cells -> Codes], screen : [Cells -> Codes], x : 0 .. Width, y : 0 .. Height]

\* From the position on the buffer is blank.
BlankAhead(t) == \A c \in Cells : c >= Cell(t) => t.buffer[c] = BLANK

\* The screen shows the buffer, apart from a cursor if one is drawn.
ShowsBuffer(t) == \A c \in Cells : t.screen[c] = t.buffer[c]
ShowsCursor(t, drawn) ==
  \A c \in Cells :
    t.screen[c] = t.buffer[c] \/ (c = Cell(t) /\ drawn /\ t.screen[c] = CURSOR)

DisplayInv ==
  /\ text \in Texts /\ text.x < Width /\ text.y < Height
  /\ g_has_display \in BOOLEAN /\ cursor_on \in BOOLEAN /\ cursor_state \in BOOLEAN
  /\ BlankAhead(text)
  /\ g_has_display => ShowsCursor(text, cursor_state)

\* Rows follow each other and the last one ends the cells.
LEMMA RowsAre ==
  /\ Width * Height \in Nat /\ Width <= Width * Height
  /\ Height * Width = Width * Height
  /\ \A y \in 0 .. Height : /\ y * Width \in Nat /\ (y + 1) * Width = y * Width + Width
                            /\ y * Width <= Width * Height
                            /\ y < Height => y * Width + Width <= Width * Height
<1>1. Width \in Nat /\ Width > 0 /\ Height \in Nat /\ Height > 1
  BY DisplayAssumption
<1>2. \A a, b \in Nat : a * b \in Nat /\ a * b = b * a /\ (a + 1) * b = a * b + b
  OBVIOUS
<1>3. \A a, b, n \in Nat : a <= b => a * n <= b * n
  OBVIOUS
<1>4. 1 * Width <= Height * Width
  BY <1>1, <1>3
<1>5. Width * Height \in Nat /\ Height * Width = Width * Height
  BY <1>1, <1>2
<1>6. Width <= Width * Height
  BY <1>1, <1>4, <1>5
<1>7. ASSUME NEW y \in 0 .. Height
      PROVE  /\ y * Width \in Nat /\ (y + 1) * Width = y * Width + Width
             /\ y * Width <= Width * Height
             /\ y < Height => y * Width + Width <= Width * Height
  <2>1. y \in Nat /\ y * Width \in Nat /\ (y + 1) * Width = y * Width + Width
    BY <1>1, <1>2
  <2>2. y * Width <= Height * Width
    BY <1>1, <1>3, <2>1
  <2>3. y < Height => (y + 1) * Width <= Height * Width
    <3>1. y < Height => y + 1 <= Height /\ y + 1 \in Nat
      BY <1>1, <2>1
    <3> QED BY <1>1, <1>3, <3>1
  <2> QED BY <1>5, <2>1, <2>2, <2>3
<1> QED BY <1>5, <1>6, <1>7

\* The cell of a position is that of its row and as many further.
LEMMA CellIs ==
  ASSUME NEW t \in Texts
  PROVE  /\ Cell(t) \in Nat /\ t.y * Width \in Nat /\ Cell(t) = t.y * Width + t.x
         /\ t.x \in Nat /\ t.y \in Nat
         /\ t.y < Height /\ t.x < Width => Cell(t) \in Cells
<1>1. t.x \in 0 .. Width /\ t.y \in 0 .. Height /\ Width \in Nat /\ Height \in Nat
  BY DisplayAssumption DEF Texts
<1>2. PICK r \in Nat : r = t.y * Width
  BY <1>1, RowsAre
<1>3. PICK n \in Nat : n = Width * Height
  BY RowsAre
<1>4. t.y < Height => r + Width <= n
  BY <1>1, <1>2, <1>3, RowsAre
<1>5. Cell(t) = r + t.x
  BY <1>2 DEF Cell
<1>6. t.y < Height /\ t.x < Width => r + t.x \in 0 .. n - 1
  BY <1>1, <1>4
<1> QED BY <1>1, <1>2, <1>3, <1>5, <1>6 DEF Cells

\* Drawing a character changes one cell of the screen.
LEMMA DrawnIs ==
  ASSUME NEW t \in Texts, NEW ch \in Codes
  PROVE  /\ Drawn(t, ch) \in Texts /\ Drawn(t, ch).buffer = t.buffer
         /\ Drawn(t, ch).x = t.x /\ Drawn(t, ch).y = t.y /\ Cell(Drawn(t, ch)) = Cell(t)
         /\ \A c \in Cells : Drawn(t, ch).screen[c] = IF c = Cell(t) THEN ch ELSE t.screen[c]
<1> DEFINE u == Drawn(t, ch)
<1>1. u = [t EXCEPT !.screen = [t.screen EXCEPT ![Cell(t)] = ch]]
  BY DEF Drawn
<1>2. t.screen \in [Cells -> Codes] /\ [t.screen EXCEPT ![Cell(t)] = ch] \in [Cells -> Codes]
  BY DEF Texts
<1>3. u.screen = [t.screen EXCEPT ![Cell(t)] = ch] /\ u.buffer = t.buffer
      /\ u.x = t.x /\ u.y = t.y
  BY <1>1 DEF Texts
<1>4. u \in Texts
  BY <1>1, <1>2 DEF Texts
<1> QED BY <1>2, <1>3, <1>4 DEF Cell

Buffered(t, ch) == [t EXCEPT !.buffer[Cell(t)] = ch]

\* In u the buffer of t has ch at the position.
HasBuffered(t, ch, u) ==
  /\ u \in Texts /\ u.screen = t.screen
  /\ u.x = t.x /\ u.y = t.y /\ Cell(u) = Cell(t)
  /\ \A c \in Cells : u.buffer[c] = IF c = Cell(t) THEN ch ELSE t.buffer[c]

\* Storing a character in the buffer.
LEMMA BufferedIs ==
  ASSUME NEW t \in Texts, NEW ch \in Codes
  PROVE  HasBuffered(t, ch, Buffered(t, ch))
<1> DEFINE u == Buffered(t, ch)
<1>0. u = [t EXCEPT !.buffer = [t.buffer EXCEPT ![Cell(t)] = ch]]
  BY DEF Buffered
<1>1. t.buffer \in [Cells -> Codes] /\ [t.buffer EXCEPT ![Cell(t)] = ch] \in [Cells -> Codes]
  BY DEF Texts
<1>2. u.buffer = [t.buffer EXCEPT ![Cell(t)] = ch] /\ u.screen = t.screen
      /\ u.x = t.x /\ u.y = t.y
  BY <1>0 DEF Texts
<1>3. u \in Texts
  BY <1>0, <1>1 DEF Texts
<1> HIDE DEF u
<1>4. HasBuffered(t, ch, u)
  BY <1>1, <1>2, <1>3 DEF HasBuffered, Cell
<1> QED BY <1>4 DEF u

\* A character is stored at the position, on the screen and in the buffer.
LEMMA StoredIs ==
  ASSUME NEW t \in Texts, NEW ch \in Codes, t.x < Width, t.y < Height, BlankAhead(t)
  PROVE  LET s == Stored(t, ch)
         IN  /\ s \in Texts /\ s.x = t.x + 1 /\ s.y = t.y /\ Cell(s) = Cell(t) + 1
             /\ BlankAhead(s)
             /\ \A c \in Cells : s.buffer[c] = IF c = Cell(t) THEN ch ELSE t.buffer[c]
             /\ \A d : ShowsCursor(t, d) => ShowsBuffer(s)
<1> DEFINE b == Buffered(t, ch)
           u == Drawn(b, ch)
           s == Stored(t, ch)
<1>1. /\ b \in Texts /\ b.screen = t.screen
      /\ b.x = t.x /\ b.y = t.y /\ Cell(b) = Cell(t)
      /\ \A c \in Cells : b.buffer[c] = IF c = Cell(t) THEN ch ELSE t.buffer[c]
  <2>1. HasBuffered(t, ch, b)
    BY BufferedIs
  <2> QED BY <2>1 DEF HasBuffered
<1> HIDE DEF b
<1>2. /\ u \in Texts /\ u.buffer = b.buffer /\ u.x = b.x /\ u.y = b.y /\ Cell(u) = Cell(b)
      /\ \A c \in Cells : u.screen[c] = IF c = Cell(b) THEN ch ELSE b.screen[c]
  BY <1>1, DrawnIs
<1>3. s = [u EXCEPT !.x = u.x + 1]
  BY DEF Stored, Buffered, b
<1> HIDE DEF u
<1>4. Cell(t) \in Cells /\ Cell(t) = t.y * Width + t.x /\ t.y * Width \in Nat
      /\ t.x + 1 \in 0 .. Width /\ t.x \in Nat
  BY CellIs, DisplayAssumption DEF Texts
<1>5. s \in Texts /\ s.x = t.x + 1 /\ s.y = t.y /\ s.buffer = u.buffer /\ s.screen = u.screen
  BY <1>1, <1>2, <1>3, <1>4 DEF Texts
<1>6. Cell(s) = Cell(t) + 1
  BY <1>4, <1>5 DEF Cell
<1>7. \A c \in Cells : s.buffer[c] = IF c = Cell(t) THEN ch ELSE t.buffer[c]
  BY <1>1, <1>2, <1>5
<1>8. \A c \in Cells : s.screen[c] = IF c = Cell(t) THEN ch ELSE t.screen[c]
  BY <1>1, <1>2, <1>5
<1>9. BlankAhead(s)
  <2> SUFFICES ASSUME NEW c \in Cells, c >= Cell(s) PROVE s.buffer[c] = BLANK
    BY DEF BlankAhead
  <2>1. c \in Int /\ Cell(t) \in Int
    BY <1>4 DEF Cells
  <2>2. c # Cell(t) /\ c >= Cell(t)
    BY <1>6, <2>1
  <2> QED BY <1>7, <2>2 DEF BlankAhead
<1>10. ASSUME NEW d, ShowsCursor(t, d) PROVE ShowsBuffer(s)
  BY <1>7, <1>8, <1>10 DEF ShowsCursor, ShowsBuffer
<1> HIDE DEF s
<1>11. /\ s \in Texts /\ s.x = t.x + 1 /\ s.y = t.y /\ Cell(s) = Cell(t) + 1
       /\ BlankAhead(s)
       /\ \A c \in Cells : s.buffer[c] = IF c = Cell(t) THEN ch ELSE t.buffer[c]
       /\ \A d : ShowsCursor(t, d) => ShowsBuffer(s)
  BY <1>5, <1>6, <1>7, <1>9, <1>10
<1> QED BY <1>11 DEF s

\* A newline clears the cell that a cursor may be at, which is blank.
LEMMA NewlineIs ==
  ASSUME NEW t \in Texts, t.x < Width, t.y < Height, BlankAhead(t)
  PROVE  LET s == Newline(t)
         IN  /\ s \in Texts /\ s.x = 0 /\ s.y = t.y + 1
             /\ BlankAhead(s)
             /\ \A d : ShowsCursor(t, d) => ShowsBuffer(s)
<1> DEFINE u == Drawn(t, BLANK)
           s == Newline(t)
<1>1. /\ u \in Texts /\ u.buffer = t.buffer /\ u.x = t.x /\ u.y = t.y
      /\ \A c \in Cells : u.screen[c] = IF c = Cell(t) THEN BLANK ELSE t.screen[c]
  BY DrawnIs DEF Codes
<1>2. s = [u EXCEPT !.x = 0, !.y = u.y + 1]
  BY DEF Newline
<1> HIDE DEF u
<1>3. 0 \in 0 .. Width /\ u.y + 1 \in 0 .. Height
  BY <1>1, CellIs, DisplayAssumption
<1>4. s \in Texts /\ s.x = 0 /\ s.y = t.y + 1 /\ s.buffer = t.buffer /\ s.screen = u.screen
  <2>1. s = [buffer |-> u.buffer, screen |-> u.screen, x |-> 0, y |-> u.y + 1]
    BY <1>1, <1>2 DEF Texts
  <2> HIDE DEF s
  <2> QED BY <1>1, <1>3, <2>1 DEF Texts
<1> HIDE DEF s
<1>5. Cell(t) = t.y * Width + t.x /\ t.y * Width \in Nat /\ Cell(t) \in Cells /\ t.x \in Nat
      /\ t.y \in 0 .. Height /\ Cell(s) = s.y * Width + s.x
  BY <1>4, CellIs DEF Texts
<1>6. (t.y + 1) * Width = t.y * Width + Width
  BY <1>5, RowsAre
<1>7. Cell(s) >= Cell(t) /\ Cell(s) \in Nat
  <2>1. Cell(s) = t.y * Width + Width
    <3>1. PICK r \in Nat : r = t.y * Width + Width
      BY <1>5, DisplayAssumption
    <3>2. Cell(s) = r + 0
      BY <1>4, <1>5, <1>6, <3>1
    <3> QED BY <3>1, <3>2
  <2>2. PICK r \in Nat : r = t.y * Width
    BY <1>5
  <2>3. Cell(s) = r + Width /\ Cell(t) = r + t.x
    BY <1>5, <2>1, <2>2
  <2> QED BY <1>5, <2>2, <2>3, DisplayAssumption
<1>8. BlankAhead(s)
  <2> SUFFICES ASSUME NEW c \in Cells, c >= Cell(s) PROVE s.buffer[c] = BLANK
    BY DEF BlankAhead
  <2>1. c \in Int /\ Cell(t) \in Int
    BY <1>5 DEF Cells
  <2>2. c >= Cell(t)
    BY <1>7, <2>1
  <2> QED BY <1>4, <2>2 DEF BlankAhead
<1>9. t.buffer[Cell(t)] = BLANK
  BY <1>5 DEF BlankAhead, Cells
<1>10. ASSUME NEW d, ShowsCursor(t, d) PROVE ShowsBuffer(s)
  BY <1>1, <1>4, <1>9, <1>10 DEF ShowsCursor, ShowsBuffer
<1>11. /\ s \in Texts /\ s.x = 0 /\ s.y = t.y + 1
       /\ BlankAhead(s)
       /\ \A d : ShowsCursor(t, d) => ShowsBuffer(s)
  BY <1>4, <1>8, <1>10
<1> QED BY <1>11 DEF s

\* The position before the present one, in the row or at the end of the one above.
LEMMA BackIs ==
  ASSUME NEW t \in Texts, t.x < Width, t.y < Height
  PROVE  LET u == Back(t)
         IN  /\ u \in Texts /\ u.x < Width /\ u.y < Height
             /\ u.buffer = t.buffer /\ u.screen = t.screen
             /\ Cell(u) = IF Cell(t) = 0 THEN 0 ELSE Cell(t) - 1
<1> DEFINE u == Back(t)
<1>1. /\ t.x \in 0 .. Width - 1 /\ t.y \in 0 .. Height - 1 /\ t.x \in Nat /\ t.y \in Nat
      /\ Cell(t) = t.y * Width + t.x /\ t.y * Width \in Nat
  BY CellIs, DisplayAssumption
<1>2. CASE t.x > 0
  <2>1. u = [t EXCEPT !.x = t.x - 1]
    BY <1>2 DEF Back
  <2>2. t.x - 1 \in 0 .. Width
    BY <1>1, <1>2, DisplayAssumption
  <2>3. u \in Texts /\ u.x = t.x - 1 /\ u.y = t.y /\ u.buffer = t.buffer /\ u.screen = t.screen
    BY <2>1, <2>2 DEF Texts
  <2>4. PICK r \in Nat : r = t.y * Width
    BY <1>1
  <2>5. Cell(u) = r + (t.x - 1) /\ Cell(t) = r + t.x
    BY <1>1, <2>3, <2>4 DEF Cell
  <2>6. Cell(u) = Cell(t) - 1 /\ Cell(t) # 0
    BY <1>1, <1>2, <2>4, <2>5
  <2> QED BY <1>1, <2>3, <2>6, DisplayAssumption
<1>3. CASE ~(t.x > 0) /\ t.y > 0
  <2>1. u = [t EXCEPT !.x = Width - 1, !.y = t.y - 1]
    BY <1>3 DEF Back
  <2>2. Width - 1 \in 0 .. Width /\ t.y - 1 \in 0 .. Height /\ t.y - 1 \in Nat
    BY <1>1, <1>3, DisplayAssumption
  <2>3. u \in Texts /\ u.x = Width - 1 /\ u.y = t.y - 1 /\ u.buffer = t.buffer /\ u.screen = t.screen
    <3>1. u = [buffer |-> t.buffer, screen |-> t.screen, x |-> Width - 1, y |-> t.y - 1]
      BY <2>1 DEF Texts
    <3> HIDE DEF u
    <3> QED BY <2>2, <3>1 DEF Texts
  <2>4. ((t.y - 1) + 1) * Width = (t.y - 1) * Width + Width /\ (t.y - 1) * Width \in Nat
    BY <2>2, RowsAre
  <2>5. t.y * Width = (t.y - 1) * Width + Width
    <3>1. (t.y - 1) + 1 = t.y
      BY <1>1
    <3> QED BY <2>4, <3>1
  <2>6. PICK r \in Nat : r = (t.y - 1) * Width
    BY <2>4
  <2>7. Cell(u) = r + (Width - 1) /\ Cell(t) = r + Width + 0
    <3>1. t.x = 0
      BY <1>1, <1>3
    <3> QED BY <1>1, <2>3, <2>5, <2>6, <3>1 DEF Cell
  <2>8. Cell(u) = Cell(t) - 1 /\ Cell(t) # 0
    BY <2>6, <2>7, DisplayAssumption
  <2> QED BY <1>1, <2>2, <2>3, <2>8, DisplayAssumption
<1>4. CASE ~(t.x > 0) /\ ~(t.y > 0)
  <2>1. u = t /\ t.x = 0 /\ t.y = 0
    BY <1>1, <1>4 DEF Back
  <2>2. Cell(t) = 0
    BY <1>1, <2>1, DisplayAssumption
  <2> QED BY <1>1, <2>1, <2>2, DisplayAssumption
<1> QED BY <1>2, <1>3, <1>4

\* An erasure clears the cell before the position, and one that a cursor was drawn in.
LEMMA ErasedIs ==
  ASSUME NEW t \in Texts, NEW d \in BOOLEAN, t.x < Width, t.y < Height, BlankAhead(t)
  PROVE  LET s == Erased(t, d)
         IN  /\ s \in Texts /\ s.x < Width /\ s.y < Height
             /\ Cell(s) = IF Cell(t) = 0 THEN 0 ELSE Cell(t) - 1
             /\ BlankAhead(s)
             /\ \A c \in Cells : s.buffer[c] = IF c = Cell(s) THEN BLANK ELSE t.buffer[c]
             /\ ShowsCursor(t, d) => ShowsBuffer(s)
<1> DEFINE e == IF d THEN Drawn(t, BLANK) ELSE t
           u == Back(e)
           b == Buffered(u, BLANK)
           s == Erased(t, d)
<1>1. BLANK \in Codes
  BY DEF Codes
<1>2. /\ e \in Texts /\ e.buffer = t.buffer /\ e.x = t.x /\ e.y = t.y /\ Cell(e) = Cell(t)
      /\ \A c \in Cells : e.screen[c] = IF d /\ c = Cell(t) THEN BLANK ELSE t.screen[c]
  BY <1>1, DrawnIs
<1>3. s = Drawn(b, BLANK)
  BY DEF Erased, Buffered
<1> HIDE DEF e
<1>4. /\ u \in Texts /\ u.x < Width /\ u.y < Height
      /\ u.buffer = e.buffer /\ u.screen = e.screen
      /\ Cell(u) = IF Cell(e) = 0 THEN 0 ELSE Cell(e) - 1
  BY <1>2, BackIs
<1> HIDE DEF u
<1>5. /\ b \in Texts /\ b.screen = u.screen
      /\ b.x = u.x /\ b.y = u.y /\ Cell(b) = Cell(u)
      /\ \A c \in Cells : b.buffer[c] = IF c = Cell(u) THEN BLANK ELSE u.buffer[c]
  <2>1. HasBuffered(u, BLANK, b)
    BY <1>1, <1>4, BufferedIs
  <2> QED BY <2>1 DEF HasBuffered
<1> HIDE DEF b, s
<1>6. /\ s \in Texts /\ s.buffer = b.buffer /\ s.x = b.x /\ s.y = b.y /\ Cell(s) = Cell(b)
      /\ \A c \in Cells : s.screen[c] = IF c = Cell(b) THEN BLANK ELSE b.screen[c]
  BY <1>1, <1>3, <1>5, DrawnIs
<1>7. Cell(t) \in Cells /\ Cell(t) \in Nat
  BY CellIs
<1>8. Cell(s) = IF Cell(t) = 0 THEN 0 ELSE Cell(t) - 1
  BY <1>2, <1>4, <1>5, <1>6
<1>9. \A c \in Cells : s.buffer[c] = IF c = Cell(s) THEN BLANK ELSE t.buffer[c]
  BY <1>2, <1>4, <1>5, <1>6
<1>10. BlankAhead(s)
  <2> SUFFICES ASSUME NEW c \in Cells, c >= Cell(s) PROVE s.buffer[c] = BLANK
    BY DEF BlankAhead
  <2>1. CASE c = Cell(s)
    BY <1>9, <2>1
  <2>2. CASE c # Cell(s)
    <3>1. c \in Int
      BY <1>7 DEF Cells
    <3>2. c >= Cell(t)
      BY <1>7, <1>8, <2>2, <3>1
    <3> QED BY <1>9, <2>2, <3>2 DEF BlankAhead
  <2> QED BY <2>1, <2>2
<1>11. ASSUME ShowsCursor(t, d) PROVE ShowsBuffer(s)
  <2> SUFFICES ASSUME NEW c \in Cells PROVE s.screen[c] = s.buffer[c]
    BY DEF ShowsBuffer
  <2>1. CASE c = Cell(s)
    BY <1>6, <1>9, <2>1
  <2>2. CASE c # Cell(s)
    <3>1. s.screen[c] = IF d /\ c = Cell(t) THEN BLANK ELSE t.screen[c]
      BY <1>2, <1>4, <1>5, <1>6, <2>2
    <3>2. s.buffer[c] = t.buffer[c]
      BY <1>9, <2>2
    <3>3. t.buffer[Cell(t)] = BLANK
      BY <1>7 DEF BlankAhead, Cells
    <3> QED BY <1>11, <3>1, <3>2, <3>3 DEF ShowsCursor
  <2> QED BY <2>1, <2>2
<1>12. s.x < Width /\ s.y < Height
  BY <1>4, <1>5, <1>6
<1>13. /\ s \in Texts /\ s.x < Width /\ s.y < Height
       /\ Cell(s) = (IF Cell(t) = 0 THEN 0 ELSE Cell(t) - 1)
       /\ BlankAhead(s)
       /\ \A c \in Cells : s.buffer[c] = IF c = Cell(s) THEN BLANK ELSE t.buffer[c]
       /\ ShowsCursor(t, d) => ShowsBuffer(s)
  BY <1>6, <1>8, <1>9, <1>10, <1>11, <1>12
<1> QED BY <1>13 DEF s

\* The end of a row is the beginning of the next.
LEMMA WrappedIs ==
  ASSUME NEW t \in Texts, t.y < Height \/ t.x = 0, BlankAhead(t)
  PROVE  LET s == Wrapped(t)
         IN  /\ s \in Texts /\ s.x < Width /\ Cell(s) = Cell(t)
             /\ s.y = Height => s.x = 0
             /\ BlankAhead(s) /\ s.buffer = t.buffer /\ s.screen = t.screen
<1> DEFINE s == Wrapped(t)
<1>1. t.x \in 0 .. Width /\ t.y \in 0 .. Height /\ Cell(t) = t.y * Width + t.x
      /\ Width \in Nat /\ Height \in Nat /\ Width > 0
  BY CellIs, DisplayAssumption DEF Texts
<1>2. CASE t.x = Width
  <2>1. s = [t EXCEPT !.x = 0, !.y = t.y + 1] /\ t.y < Height
    BY <1>1, <1>2 DEF Wrapped
  <2>2. s = [buffer |-> t.buffer, screen |-> t.screen, x |-> 0, y |-> t.y + 1]
    BY <2>1 DEF Texts
  <2>3. 0 \in 0 .. Width /\ t.y + 1 \in 0 .. Height
    BY <1>1, <2>1
  <2> HIDE DEF s
  <2>4. s \in Texts /\ s.x = 0 /\ s.y = t.y + 1 /\ s.buffer = t.buffer /\ s.screen = t.screen
    BY <2>2, <2>3 DEF Texts
  <2>5. (t.y + 1) * Width = t.y * Width + Width /\ t.y * Width \in Nat
    BY <1>1, RowsAre
  <2>6. Cell(s) = Cell(t)
    <3>1. PICK r \in Nat : r = t.y * Width + Width
      BY <1>1, <2>5
    <3>2. Cell(s) = r + 0 /\ Cell(t) = r
      BY <1>1, <1>2, <2>4, <2>5, <3>1 DEF Cell
    <3> QED BY <3>1, <3>2
  <2>7. BlankAhead(s)
    BY <2>4, <2>6 DEF BlankAhead
  <2> QED BY <1>1, <2>4, <2>6, <2>7 DEF s
<1>3. CASE t.x # Width
  <2>1. s = t
    BY <1>3 DEF Wrapped
  <2> QED BY <1>1, <1>3, <2>1
<1> QED BY <1>2, <1>3

\* A text that has run over its last row moves up.
LEMMA ScrolledIs ==
  ASSUME NEW t \in Texts, t.x < Width, t.y = Height => t.x = 0, BlankAhead(t)
  PROVE  LET s == Scrolled(t)
         IN  /\ s \in Texts /\ s.x < Width /\ s.y < Height
             /\ Cell(s) = IF t.y < Height THEN Cell(t) ELSE Cell(t) - Width
             /\ s.buffer = IF t.y < Height THEN t.buffer ELSE Up(t.buffer)
             /\ t.y = Height <=> Cell(t) = Width * Height
             /\ BlankAhead(s)
             /\ ShowsBuffer(t) => ShowsBuffer(s)
<1> DEFINE s == Scrolled(t)
<1>1. t.x \in 0 .. Width /\ t.y \in 0 .. Height /\ Cell(t) = t.y * Width + t.x
      /\ Width \in Nat /\ Height \in Nat /\ Width > 0 /\ Height > 1
      /\ (t.y < Height => Cell(t) \in Cells)
  BY CellIs, DisplayAssumption DEF Texts
<1>2. CASE t.y < Height
  <2>1. s = t
    BY <1>2 DEF Scrolled
  <2>2. Cell(t) # Width * Height
    BY <1>1, <1>2, RowsAre DEF Cells
  <2> QED BY <1>1, <1>2, <2>1, <2>2
<1>3. CASE ~(t.y < Height)
  <2>1. t.y = Height /\ t.x = 0
    BY <1>1, <1>3
  <2>2. Cell(t) = Width * Height /\ Cell(t) \in Nat
    BY <1>1, <2>1, RowsAre
  <2> DEFINE up == Up(t.buffer)
  <2>3. /\ up \in [Cells -> Codes]
        /\ \A c \in Cells : up[c] = IF c + Width \in Cells THEN t.buffer[c + Width] ELSE BLANK
    BY DEF Up, Texts, Codes
  <2>4. s = [t EXCEPT !.buffer = up, !.screen = up, !.y = t.y - 1]
    BY <1>3 DEF Scrolled
  <2> HIDE DEF up
  <2>5. s = [buffer |-> up, screen |-> up, x |-> t.x, y |-> t.y - 1]
    BY <2>4 DEF Texts
  <2>6. t.y - 1 \in 0 .. Height /\ t.y - 1 < Height /\ t.y - 1 \in Nat
    BY <1>1, <2>1
  <2>7. s \in Texts /\ s.buffer = up /\ s.screen = up /\ s.x = t.x /\ s.y = t.y - 1
    BY <1>1, <2>3, <2>5, <2>6 DEF Texts
  <2> HIDE DEF s
  <2>8. Cell(s) = Cell(t) - Width
    <3>1. ((t.y - 1) + 1) * Width = (t.y - 1) * Width + Width /\ (t.y - 1) * Width \in Nat
      BY <2>6, RowsAre
    <3>2. PICK r \in Nat : r = (t.y - 1) * Width
      BY <3>1
    <3>3. (t.y - 1) + 1 = t.y
      BY <1>1
    <3>4. Cell(t) = r + Width + 0 /\ Cell(s) = r + 0
      BY <1>1, <2>1, <2>7, <3>1, <3>2, <3>3 DEF Cell
    <3> QED BY <1>1, <3>2, <3>4
  <2>9. BlankAhead(s)
    <3> SUFFICES ASSUME NEW c \in Cells, c >= Cell(s) PROVE s.buffer[c] = BLANK
      BY DEF BlankAhead
    <3>1. c \in Int /\ c + Width \in Int
      BY <1>1, <2>2 DEF Cells
    <3>2. c + Width >= Cell(t)
      BY <1>1, <2>2, <2>8, <3>1
    <3> QED BY <2>3, <2>7, <3>2 DEF BlankAhead
  <2>10. ShowsBuffer(s)
    BY <2>7 DEF ShowsBuffer
  <2> QED BY <1>1, <1>3, <2>1, <2>2, <2>6, <2>7, <2>8, <2>9, <2>10 DEF s, up
<1> QED BY <1>2, <1>3

\* What any character does, from a position before the end.
LEMMA WrittenIs ==
  ASSUME NEW t \in Texts, NEW d \in BOOLEAN, NEW key \in Keys,
         t.x < Width, t.y < Height, BlankAhead(t)
  PROVE  LET s == Written(t, key, d)
         IN  /\ s \in Texts /\ s.x < Width /\ s.y < Height /\ BlankAhead(s)
             /\ ShowsCursor(t, d) => ShowsBuffer(s)
<1> DEFINE u == CASE key = NEWLINE -> Newline(t)
                  [] key = ERASE -> Erased(t, d)
                  [] OTHER -> Stored(t, key)
           w == Wrapped(u)
           s == Written(t, key, d)
<1>1. /\ u \in Texts /\ (u.y < Height \/ u.x = 0) /\ BlankAhead(u)
      /\ ShowsCursor(t, d) => ShowsBuffer(u)
  <2>1. CASE key = NEWLINE
    <3>1. u = Newline(t)
      BY <2>1 DEF NEWLINE, ERASE
    <3> HIDE DEF u
    <3> QED BY <3>1, NewlineIs
  <2>2. CASE key = ERASE
    <3>1. u = Erased(t, d)
      BY <2>2 DEF NEWLINE, ERASE
    <3> HIDE DEF u
    <3> QED BY <3>1, ErasedIs
  <2>3. CASE key \in Chars
    <3>1. u = Stored(t, key) /\ key \in Codes
      BY <2>3, CharsAssumption DEF Codes
    <3> HIDE DEF u
    <3> QED BY <3>1, StoredIs
  <2> QED BY <2>1, <2>2, <2>3 DEF Keys
<1> HIDE DEF u
<1>2. /\ w \in Texts /\ w.x < Width /\ (w.y = Height => w.x = 0)
      /\ BlankAhead(w) /\ w.buffer = u.buffer /\ w.screen = u.screen
  BY <1>1, WrappedIs
<1>3. ShowsBuffer(u) => ShowsBuffer(w)
  BY <1>2 DEF ShowsBuffer
<1>4. s = Scrolled(w)
  BY DEF Written, u
<1> HIDE DEF w, s
<1>5. s \in Texts /\ s.x < Width /\ s.y < Height /\ BlankAhead(s) /\ (ShowsBuffer(w) => ShowsBuffer(s))
  BY <1>2, <1>4, ScrolledIs
<1> QED BY <1>1, <1>3, <1>5 DEF s

\* The invariant holds after init_display and is kept by every call.
LEMMA DisplaySound ==
  /\ DisplayInit => DisplayInv
  /\ DisplayInv /\ [DisplayNext]_displayVars => DisplayInv'
<1>1. DisplayInit => DisplayInv
  <2> SUFFICES ASSUME DisplayInit PROVE DisplayInv
    OBVIOUS
  <2>1. text = [buffer |-> Empty, screen |-> Empty, x |-> 0, y |-> 0] /\ Empty \in [Cells -> Codes]
    BY DEF DisplayInit, Empty, Codes
  <2>2. text \in Texts /\ text.x = 0 /\ text.y = 0 /\ text.buffer = Empty /\ text.screen = Empty
    BY <2>1, DisplayAssumption DEF Texts
  <2>3. \A c \in Cells : Empty[c] = BLANK
    BY DEF Empty
  <2>4. BlankAhead(text) /\ ShowsCursor(text, cursor_state)
    BY <2>2, <2>3 DEF BlankAhead, ShowsCursor
  <2>5. g_has_display \in BOOLEAN /\ cursor_on \in BOOLEAN /\ cursor_state \in BOOLEAN
    BY DEF DisplayInit
  <2>6. text.x < Width /\ text.y < Height
    BY <2>2, DisplayAssumption
  <2> QED BY <2>2, <2>4, <2>5, <2>6 DEF DisplayInv
<1>2. DisplayInv /\ [DisplayNext]_displayVars => DisplayInv'
  <2> SUFFICES ASSUME DisplayInv, [DisplayNext]_displayVars PROVE DisplayInv'
    OBVIOUS
  <2>1. /\ text \in Texts /\ text.x < Width /\ text.y < Height /\ BlankAhead(text)
        /\ g_has_display \in BOOLEAN /\ cursor_on \in BOOLEAN /\ cursor_state \in BOOLEAN
        /\ g_has_display => ShowsCursor(text, cursor_state)
    BY DEF DisplayInv
  <2>2. ASSUME NEW key \in Keys, WriteChar(key) PROVE DisplayInv'
    <3>1. /\ g_has_display /\ text' = Written(text, key, cursor_state)
          /\ UNCHANGED <<g_has_display, cursor_on, cursor_state>>
      BY <2>2 DEF WriteChar
    <3>2. /\ text' \in Texts /\ text'.x < Width /\ text'.y < Height /\ BlankAhead(text')
          /\ ShowsBuffer(text')
      BY <2>1, <3>1, WrittenIs
    <3>3. ShowsCursor(text', cursor_state')
      BY <3>2 DEF ShowsBuffer, ShowsCursor
    <3> QED BY <2>1, <3>1, <3>2, <3>3 DEF DisplayInv
  <2>3. CASE ToggleCursor
    <3> DEFINE ch == IF cursor_state THEN BLANK ELSE CURSOR
    <3>1. /\ g_has_display /\ text' = Drawn(text, ch) /\ cursor_state' = ~cursor_state
          /\ UNCHANGED <<g_has_display, cursor_on>> /\ ch \in Codes
      BY <2>3 DEF ToggleCursor, Codes
    <3>2. ch = IF cursor_state THEN BLANK ELSE CURSOR
      OBVIOUS
    <3> HIDE DEF ch
    <3>3. /\ text' \in Texts /\ text'.buffer = text.buffer
          /\ text'.x = text.x /\ text'.y = text.y /\ Cell(text') = Cell(text)
          /\ \A c \in Cells : text'.screen[c] = IF c = Cell(text) THEN ch ELSE text.screen[c]
      BY <2>1, <3>1, DrawnIs
    <3>4. Cell(text) \in Cells /\ text.buffer[Cell(text)] = BLANK
      BY <2>1, CellIs DEF BlankAhead, Cells
    <3>5. BlankAhead(text')
      BY <2>1, <3>3 DEF BlankAhead
    <3>6. ShowsCursor(text', cursor_state')
      BY <2>1, <3>1, <3>2, <3>3, <3>4 DEF ShowsCursor
    <3> QED BY <2>1, <3>1, <3>3, <3>5, <3>6 DEF DisplayInv
  <2>4. CASE EnableCursor \/ DisableDisplay \/ UNCHANGED displayVars
    <3>1. /\ text' = text /\ cursor_state' = cursor_state
          /\ g_has_display' \in BOOLEAN /\ cursor_on' \in BOOLEAN
          /\ g_has_display' => g_has_display
      <4>1. CASE EnableCursor
        BY <2>1, <4>1 DEF EnableCursor
      <4>2. CASE DisableDisplay
        BY <2>1, <4>2 DEF DisableDisplay
      <4>3. CASE UNCHANGED displayVars
        BY <2>1, <4>3 DEF displayVars
      <4> QED BY <2>4, <4>1, <4>2, <4>3
    <3>2. BlankAhead(text') /\ ShowsCursor(text', cursor_state) = ShowsCursor(text, cursor_state)
      BY <2>1, <3>1
    <3> QED BY <2>1, <3>1, <3>2 DEF DisplayInv
  <2>5. CASE ProgramDraws
    <3> DEFINE picture == [c \in Cells |-> PICTURE]
    <3>1. /\ ~g_has_display' /\ UNCHANGED <<g_has_display, cursor_on, cursor_state>>
          /\ text' = [text EXCEPT !.screen = picture]
      BY <2>5 DEF ProgramDraws
    <3>2. picture \in [Cells -> Codes]
      BY DEF Codes
    <3> HIDE DEF picture
    <3>3. /\ text' \in Texts /\ text'.buffer = text.buffer /\ text'.x = text.x /\ text'.y = text.y
      BY <2>1, <3>1, <3>2 DEF Texts
    <3> QED BY <2>1, <3>1, <3>3 DEF DisplayInv, BlankAhead, Cell
  <2>6. CASE EnableDisplay
    <3>1. /\ g_has_display' /\ cursor_on' /\ UNCHANGED cursor_state
          /\ text' = [text EXCEPT !.screen = text.buffer]
      BY <2>6 DEF EnableDisplay
    <3>2. /\ text' \in Texts /\ text'.buffer = text.buffer /\ text'.screen = text.buffer
          /\ text'.x = text.x /\ text'.y = text.y
      BY <2>1, <3>1 DEF Texts
    <3>3. ShowsCursor(text', cursor_state')
      BY <3>2 DEF ShowsCursor
    <3>4. BlankAhead(text')
      BY <2>1, <3>2 DEF BlankAhead, Cell
    <3>5. g_has_display' \in BOOLEAN /\ cursor_on' \in BOOLEAN
      BY <2>6 DEF EnableDisplay
    <3> QED BY <2>1, <3>1, <3>2, <3>3, <3>4, <3>5 DEF DisplayInv
  <2> QED BY <2>2, <2>3, <2>4, <2>5, <2>6 DEF DisplayNext
<1> QED BY <1>1, <1>2

(* While the system owns the card the screen shows the buffer, and at most the  *)
(* cell of the position a cursor instead, for every size of screen and however  *)
(* characters, the blinking and programs that take the card follow each other   *)
(* (drivers/display.c:98-125, 157-241, 284-294).                                *)
THEOREM ScreenRight == DisplaySpec => []ScreenAgrees
<1>1. DisplayInv => ScreenAgrees
  BY DEF DisplayInv, ShowsCursor, ScreenAgrees
<1> QED BY <1>1, DisplaySound, PTL DEF DisplaySpec

(* A character and an erasure leave the buffer and the position as they were,  *)
(* across the end of a row too, and in the last cell all but the scroll: for   *)
(* every size of screen (drivers/display.c:181-238).                           *)
THEOREM ErasureUndoes == DisplaySpec => []EraseUndoes
<1>1. ASSUME DisplayInv, NEW ch \in Chars
      PROVE  LET t == Written(text, ch, cursor_state)
                 u == Written(t, ERASE, cursor_state)
                 last == Cell(text) = Width * Height - 1
             IN  /\ u.buffer = IF last THEN Up(text.buffer) ELSE text.buffer
                 /\ Cell(u) = IF last THEN Cell(text) - Width ELSE Cell(text)
  <2> DEFINE s == Stored(text, ch)
             w == Wrapped(s)
             t == Scrolled(w)
             e == Erased(t, cursor_state)
             v == Wrapped(e)
             u == Scrolled(v)
             last == Cell(text) = Width * Height - 1
  <2>1. /\ text \in Texts /\ text.x < Width /\ text.y < Height /\ BlankAhead(text)
        /\ cursor_state \in BOOLEAN /\ ch \in Codes
    BY <1>1 DEF DisplayInv, Codes
  <2>2. t = Written(text, ch, cursor_state) /\ u = Written(t, ERASE, cursor_state)
    <3>1. ch # NEWLINE /\ ch # ERASE /\ ERASE # NEWLINE
      BY CharsAssumption DEF NEWLINE, ERASE
    <3> QED BY <3>1 DEF Written
  <2>3. /\ Width \in Nat /\ Width > 0 /\ Height \in Nat /\ Height > 1
        /\ Width * Height \in Nat /\ Width <= Width * Height
        /\ Cell(text) \in Cells /\ Cell(text) \in Nat /\ Cells = 0 .. Width * Height - 1
    BY <2>1, CellIs, RowsAre, DisplayAssumption DEF Cells
  <2>4. /\ s \in Texts /\ s.x = text.x + 1 /\ s.y = text.y /\ Cell(s) = Cell(text) + 1
        /\ BlankAhead(s)
        /\ \A c \in Cells : s.buffer[c] = IF c = Cell(text) THEN ch ELSE text.buffer[c]
    BY <2>1, StoredIs
  <2> HIDE DEF s
  <2>5. w \in Texts /\ w.x < Width /\ Cell(w) = Cell(s) /\ (w.y = Height => w.x = 0)
        /\ BlankAhead(w) /\ w.buffer = s.buffer
    BY <2>1, <2>4, WrappedIs
  <2> HIDE DEF w
  <2>6. /\ t \in Texts /\ t.x < Width /\ t.y < Height /\ BlankAhead(t)
        /\ Cell(t) = (IF w.y < Height THEN Cell(w) ELSE Cell(w) - Width)
        /\ t.buffer = (IF w.y < Height THEN w.buffer ELSE Up(w.buffer))
        /\ w.y = Height <=> Cell(w) = Width * Height
    BY <2>5, ScrolledIs
  <2>7. w.y < Height <=> ~last
    <3>1. w.y \in 0 .. Height
      BY <2>5 DEF Texts
    <3>2. last <=> Cell(w) = Width * Height
      BY <2>3, <2>4, <2>5
    <3> QED BY <2>3, <2>6, <3>1, <3>2
  <2> HIDE DEF t
  <2>8. /\ e \in Texts /\ e.x < Width /\ e.y < Height
        /\ Cell(e) = (IF Cell(t) = 0 THEN 0 ELSE Cell(t) - 1)
        /\ BlankAhead(e)
        /\ \A c \in Cells : e.buffer[c] = IF c = Cell(e) THEN BLANK ELSE t.buffer[c]
    BY <2>1, <2>6, ErasedIs
  <2> HIDE DEF e
  <2>9. v \in Texts /\ v.x < Width /\ Cell(v) = Cell(e) /\ v.buffer = e.buffer /\ v.y < Height
    <3>1. e.x # Width
      <4>1. e.x \in 0 .. Width
        BY <2>8 DEF Texts
      <4> QED BY <2>3, <2>8, <4>1
    <3>2. v = e
      BY <3>1 DEF Wrapped
    <3> QED BY <2>8, <3>2
  <2> HIDE DEF v
  <2>10. Cell(u) = Cell(e) /\ u.buffer = e.buffer
    <3>1. u = v
      BY <2>9 DEF Scrolled
    <3> QED BY <2>9, <3>1
  <2> HIDE DEF u
  <2>11. Cell(u) = IF last THEN Cell(text) - Width ELSE Cell(text)
    <3>1. Cell(t) = IF last THEN Cell(text) + 1 - Width ELSE Cell(text) + 1
      <4>1. Cell(w) = Cell(text) + 1
        BY <2>4, <2>5
      <4>2. Cell(t) = IF last THEN Cell(w) - Width ELSE Cell(w)
        BY <2>6, <2>7
      <4> QED BY <2>3, <4>1, <4>2
    <3>2. Cell(t) # 0
      <4>1. CASE last
        <5>1. PICK n \in Nat : n = Width * Height
          BY <2>3
        <5>2. Width + Width <= n
          <6>1. 2 * Width <= Height * Width
            <7>1. \A a, b, c \in Nat : a <= b => a * c <= b * c
              OBVIOUS
            <7> QED BY <2>3, <7>1
          <6> QED BY <2>3, <5>1, <6>1, RowsAre
        <5> QED BY <2>3, <3>1, <4>1, <5>1, <5>2
      <4>2. CASE ~last
        BY <2>3, <3>1, <4>2
      <4> QED BY <4>1, <4>2
    <3> QED BY <2>3, <2>8, <2>10, <3>1, <3>2
  <2>12. u.buffer = IF last THEN Up(text.buffer) ELSE text.buffer
    <3>1. u.buffer \in [Cells -> Codes] /\ text.buffer \in [Cells -> Codes]
          /\ Up(text.buffer) \in [Cells -> Codes]
      BY <2>1, <2>8, <2>10 DEF Texts, Up, Codes
    <3>2. text.buffer[Cell(text)] = BLANK
      BY <2>1, <2>3 DEF BlankAhead
    <3>3. CASE ~last
      <4>1. \A c \in Cells : u.buffer[c] = text.buffer[c]
        BY <2>4, <2>5, <2>6, <2>7, <2>8, <2>10, <2>11, <3>2, <3>3
      <4> QED BY <3>1, <3>3, <4>1
    <3>4. CASE last
      <4>1. ASSUME NEW c \in Cells PROVE u.buffer[c] = Up(text.buffer)[c]
        <5>1. Up(text.buffer)[c] = IF c + Width \in Cells THEN text.buffer[c + Width] ELSE BLANK
          BY DEF Up
        <5>2. u.buffer[c] = IF c = Cell(text) - Width THEN BLANK
                            ELSE IF c + Width \in Cells THEN s.buffer[c + Width] ELSE BLANK
          BY <2>5, <2>6, <2>7, <2>8, <2>10, <2>11, <3>4 DEF Up
        <5>3. c = Cell(text) - Width <=> c + Width = Cell(text)
          BY <2>3
        <5> QED BY <2>3, <2>4, <3>2, <5>1, <5>2, <5>3
      <4> QED BY <3>1, <3>4, <4>1 DEF Up
    <3> QED BY <3>3, <3>4
  <2> QED BY <2>2, <2>11, <2>12
<1>2. DisplayInv => EraseUndoes
  BY <1>1 DEF EraseUndoes
<1> QED BY <1>2, DisplaySound, PTL DEF DisplaySpec

-----------------------------------------------------------------------------
(* The disk driver.                                                        *)

Operations == {"read", "write", "identify"}
Answered == {"wait_data", "check", "wait_idle", "wait_data2", "transfer"}

DiskTypeOK ==
    /\ disk \in [Addresses -> Contents] /\ acked \in [Addresses -> Contents]
    /\ drive \in [phase : {"idle", "working", "data_in", "data_out", "storing"},
                  cmd : Operations \cup {"reset"}, lba : Addresses, data : Contents,
                  err : BOOLEAN]
    /\ pc \in {"idle", "wait", "issue"} \cup Answered
    /\ op \in Operations \cup {"none", "ioctl"}
    /\ sector \in Nat /\ left \in Nat /\ buff \in Seq(Contents)

\* The sectors of the call that are still to be done.
CallSound ==
    pc # "idle" =>
        /\ op \in Operations
        /\ left > 0 /\ sector + left <= DriveSectors
        /\ op = "write" => Len(buff) = left

\* The drive is at the command the host is waiting for, at the sector of the call.
DriveFollows ==
    /\ pc = "issue" => ~Busy
    /\ pc \in Answered =>
        /\ drive.cmd = op /\ drive.lba = sector
        /\ IF op = "write"
           THEN /\ pc # "wait_data"
                /\ \/ drive.phase = "working" /\ pc \in {"check", "wait_idle"}
                   \/ drive.phase = "data_out"
                   \/ drive.phase = "idle" /\ WriteFaults
           ELSE \/ drive.phase = "working" /\ pc = "wait_data"
                \/ /\ drive.phase = "data_in"
                   /\ op = "read" => drive.data = disk[sector]
                \/ drive.phase = "idle" /\ drive.err /\ pc \in {"wait_data", "check"}

\* Nothing is stored while there are words in the buffer of a read.
ReadSound ==
    op = "read" /\ (pc # "idle" \/ result.code = "OK") =>
        /\ Len(buff) <= sector /\ sector <= DriveSectors
        /\ \A i \in DOMAIN buff : buff[i] = disk[sector - Len(buff) + i - 1]
        /\ drive.phase = "storing" => buff = <<>>

DiskIInv == DiskTypeOK /\ CallSound /\ DriveFollows /\ ReadSound

-----------------------------------------------------------------------------
(* The address registers.                                                  *)

\* Division has one quotient and one remainder.
LEMMA DivisionIs ==
  ASSUME NEW s \in Nat, NEW n \in Nat \ {0}
  PROVE  /\ s \div n \in Nat /\ s % n \in Nat /\ s % n < n
         /\ s = n * (s \div n) + (s % n)
OBVIOUS

\* A quotient below a product.
LEMMA QuotientBelow ==
  ASSUME NEW s \in Nat, NEW n \in Nat \ {0}, NEW m \in Nat, s < n * m
  PROVE  s \div n < m
<1> DEFINE q == s \div n
           r == s % n
<1>1. q \in Nat /\ r \in Nat /\ r < n /\ s = n * q + r
  BY DivisionIs
<1> HIDE DEF q, r
<1>2. ASSUME q >= m
      PROVE  FALSE
  <2>1. PICK d \in Nat : q = m + d
    <3>1. q - m \in Nat /\ q = m + (q - m)
      BY <1>1, <1>2
    <3> QED BY <3>1
  <2>2. n * q = n * m + n * d
    BY <1>1, <2>1
  <2>3. n * d \in Nat /\ n * m \in Nat
    BY <2>1
  <2> QED BY <1>1, <2>2, <2>3
<1> QED BY <1>1, <1>2 DEF q

\* Dividing twice is dividing by the product.
LEMMA DividedTwice ==
  ASSUME NEW s \in Nat, NEW n \in Nat \ {0}, NEW m \in Nat \ {0}
  PROVE  (s \div n) \div m = s \div (n * m)
<1> DEFINE q == s \div n
           p == q \div m
           b == s \div (n * m)
<1>1. n * m \in Nat \ {0}
  OBVIOUS
<1>2. PICK r \in Nat : r < n /\ s = n * q + r /\ q \in Nat
  BY DivisionIs
<1>3. PICK t \in Nat : t < m /\ q = m * p + t /\ p \in Nat
  BY <1>2, DivisionIs
<1>4. PICK u \in Nat : u < n * m /\ s = (n * m) * b + u /\ b \in Nat
  BY <1>1, DivisionIs
<1> HIDE DEF q, p, b
<1> DEFINE k == n * m
           v == n * t + r
<1>5. s = k * p + v
  <2>1. n * (m * p + t) = (n * m) * p + n * t
    BY <1>3
  <2> QED BY <1>2, <1>3, <2>1
<1>6. v \in Nat /\ v < k
  <2>1. PICK e \in Nat : m = t + 1 + e
    <3>1. m - t - 1 \in Nat /\ m = t + 1 + (m - t - 1)
      BY <1>3
    <3> QED BY <3>1
  <2>2. n * m = n * t + n + n * e /\ n * e \in Nat /\ n * t \in Nat
    BY <2>1, <1>3
  <2> QED BY <1>2, <2>2
<1>7. s = k * b + u /\ u < k /\ k \in Nat
  BY <1>1, <1>4
<1> HIDE DEF k, v
<1>8. ASSUME NEW x \in Nat, NEW y \in Nat, NEW w \in Nat, NEW z \in Nat,
             w < k, z < k, k * x + w = k * y + z, x < y
      PROVE  FALSE
  <2>1. PICK e \in Nat : y = x + 1 + e
    <3>1. y - x - 1 \in Nat /\ y = x + 1 + (y - x - 1)
      BY <1>8
    <3> QED BY <3>1
  <2>2. k * y = k * x + k + k * e /\ k * e \in Nat /\ k * x \in Nat
    BY <1>7, <2>1
  <2> QED BY <1>7, <1>8, <2>2
<1>9. ~(p < b)
  BY <1>3, <1>4, <1>5, <1>6, <1>7, <1>8
<1>10. ~(b < p)
  BY <1>3, <1>4, <1>5, <1>6, <1>7, <1>8
<1>11. p = b
  BY <1>3, <1>4, <1>9, <1>10
<1> QED BY <1>11 DEF p, b, q

\* The three registers hold the whole sector number.
LEMMA AddressIs ==
  ASSUME NEW s \in Addresses
  PROVE  Address(s) = s
<1> DEFINE n == RegisterSize
           q == s \div n
           p == q \div n
<1>1. n \in Nat \ {0} /\ s \in Nat /\ n * n \in Nat \ {0} /\ s < (n * n) * n
  BY DriveAssumption DEF Addresses
<1>2. s % n \in Nat /\ q \in Nat /\ s = n * q + (s % n)
  BY <1>1, DivisionIs
<1>3. q % n \in Nat /\ p \in Nat /\ q = n * p + (q % n)
  BY <1>1, <1>2, DivisionIs
<1>4. s \div (n * n) = p
  BY <1>1, DividedTwice
<1>5. p < n
  BY <1>1, <1>4, QuotientBelow
<1>6. p % n = p
  BY <1>1, <1>3, <1>5
<1>7. Address(s) = (s % n) + n * (q % n) + (n * n) * p
  BY <1>4, <1>6 DEF Address
<1> DEFINE a == s % n
           b == q % n
<1> HIDE DEF q, p, n, a, b
<1>8. s = n * (n * p + b) + a /\ a \in Nat /\ b \in Nat
  BY <1>2, <1>3 DEF a, b
<1>9. n * (n * p + b) = (n * n) * p + n * b
  BY <1>1, <1>3, <1>8
<1>10. n * b \in Nat /\ (n * n) * p \in Nat
  BY <1>1, <1>3, <1>8
<1>11. Address(s) = a + n * b + (n * n) * p
  BY <1>7 DEF a, b
<1> QED BY <1>8, <1>9, <1>10, <1>11

-----------------------------------------------------------------------------
(* The invariant.                                                          *)

\* The first sector of the drive.
LEMMA ZeroIs == 0 \in Addresses /\ DriveSectors \in Nat /\ DriveSectors > 0
BY DriveAssumption DEF Addresses

\* At power-up the drive is idle or resetting.
LEMMA InitSound == DiskInit => DiskIInv
<1> SUFFICES ASSUME DiskInit PROVE DiskIInv
  OBVIOUS
<1>1. PICK v \in Contents :
        /\ disk = [s \in Addresses |-> v] /\ acked = disk
        /\ drive \in {[phase |-> p, cmd |-> "reset", lba |-> 0, data |-> v, err |-> FALSE] :
                         p \in {"idle", "working"}}
  BY DEF DiskInit
<1>2. pc = "idle" /\ op = "none" /\ sector = 0 /\ left = 0 /\ buff = <<>>
  BY DEF DiskInit
<1>3. disk \in [Addresses -> Contents] /\ acked \in [Addresses -> Contents]
  BY <1>1
<1>4. drive \in [phase : {"idle", "working", "data_in", "data_out", "storing"},
                 cmd : Operations \cup {"reset"}, lba : Addresses, data : Contents,
                 err : BOOLEAN]
  <2>1. PICK p \in {"idle", "working"} :
          drive = [phase |-> p, cmd |-> "reset", lba |-> 0, data |-> v, err |-> FALSE]
    BY <1>1
  <2> QED BY <2>1, ZeroIs
<1>5. buff \in Seq(Contents)
  BY <1>2
<1>6. DiskTypeOK
  BY <1>2, <1>3, <1>4, <1>5 DEF DiskTypeOK
<1> QED BY <1>2, <1>6 DEF DiskIInv, CallSound, DriveFollows, ReadSound, Answered

\* The drive answers a command to read.
LEMMA ReadsSound == DiskIInv /\ DriveReads => DiskIInv'
<1> SUFFICES ASSUME DiskIInv, DriveReads PROVE DiskIInv'
  OBVIOUS
<1>1. PICK ok \in BOOLEAN :
        drive' = [drive EXCEPT !.phase = IF ok THEN "data_in" ELSE "idle",
                               !.data = IF ok /\ drive.cmd = "read" THEN disk[drive.lba] ELSE @,
                               !.err = ~ok]
  BY DEF DriveReads
<1>2. UNCHANGED <<disk, pc, op, sector, left, buff, result, acked>>
  BY DEF DriveReads, host
<1>3. /\ drive'.phase = IF ok THEN "data_in" ELSE "idle"
      /\ drive'.err = ~ok /\ drive'.cmd = drive.cmd /\ drive'.lba = drive.lba
      /\ drive'.data = IF ok /\ drive.cmd = "read" THEN disk[drive.lba] ELSE drive.data
  BY <1>1 DEF DiskIInv, DiskTypeOK
<1>4. DiskTypeOK'
  <2>1. disk[drive.lba] \in Contents
    BY DEF DiskIInv, DiskTypeOK
  <2> QED BY <1>1, <1>2, <2>1 DEF DiskIInv, DiskTypeOK
<1>5. CallSound' /\ ReadSound'
  BY <1>2, <1>3 DEF DiskIInv, CallSound, ReadSound
<1>6. DriveFollows'
  BY <1>2, <1>3 DEF DiskIInv, DriveFollows, DriveReads, Busy, Answered
<1> QED BY <1>4, <1>5, <1>6 DEF DiskIInv

\* The drive accepts a command to write, or ends a reset.
LEMMA AcceptsSound == DiskIInv /\ (DriveAccepts \/ DriveResets) => DiskIInv'
<1> SUFFICES ASSUME DiskIInv, DriveAccepts \/ DriveResets PROVE DiskIInv'
  OBVIOUS
<1>1. UNCHANGED <<disk, pc, op, sector, left, buff, result, acked>>
  BY DEF DriveAccepts, DriveResets, host
<1>2. /\ drive'.cmd = drive.cmd /\ drive'.lba = drive.lba /\ drive'.data = drive.data
      /\ drive.phase = "working" /\ drive.cmd \in {"write", "reset"}
      /\ drive'.phase \in {"data_out", "idle"} /\ DiskTypeOK'
      /\ drive.cmd = "write" /\ drive'.phase = "idle" => WriteFaults
  BY ZenonT(40), <1>1 DEF DriveAccepts, DriveResets, DiskIInv, DiskTypeOK
<1>3. CallSound' /\ ReadSound'
  BY <1>1, <1>2 DEF DiskIInv, CallSound, ReadSound
<1>4. DriveFollows'
  BY <1>1, <1>2 DEF DiskIInv, DriveFollows, Busy, Answered, CallSound, Operations
<1> QED BY <1>2, <1>3, <1>4 DEF DiskIInv

\* The drive stores a sector: nobody is reading then.
LEMMA StoresSound == DiskIInv /\ DriveStores => DiskIInv'
<1> SUFFICES ASSUME DiskIInv, DriveStores PROVE DiskIInv'
  OBVIOUS
<1>1. UNCHANGED <<pc, op, sector, left, buff, result, acked>> /\ drive.phase = "storing"
  BY DEF DriveStores, host
<1>2. /\ drive'.cmd = drive.cmd /\ drive'.lba = drive.lba /\ drive'.data = drive.data
      /\ drive'.phase = "idle" /\ DiskTypeOK'
  BY ZenonT(40), <1>1 DEF DriveStores, DiskIInv, DiskTypeOK
<1>3. CallSound'
  BY <1>1 DEF DiskIInv, CallSound
<1>4. ReadSound'
  <2>1. ASSUME op = "read" /\ (pc # "idle" \/ result.code = "OK")
        PROVE  buff = <<>> /\ Len(buff) <= sector /\ sector <= DriveSectors
    BY <1>1, <2>1 DEF DiskIInv, ReadSound
  <2>2. DOMAIN <<>> = {}
    OBVIOUS
  <2> QED BY <1>1, <1>2, <2>1, <2>2 DEF ReadSound
<1>5. DriveFollows'
  BY <1>1, <1>2 DEF DiskIInv, DriveFollows, Busy, Answered
<1> QED BY <1>2, <1>3, <1>4, <1>5 DEF DiskIInv

\* A call begins.
LEMMA CallStarts ==
  ASSUME DiskIInv, NEW o \in Operations, NEW v, NEW s \in Addresses, NEW n \in Nat \ {0},
         s + n <= DriveSectors, NEW words \in Seq(Contents), Start(o, v, s, n, words),
         o = "write" => Len(words) = n, o = "read" => words = <<>>
  PROVE  DiskIInv'
<1>1. /\ pc = "idle" /\ pc' = "wait" /\ op' = o /\ sector' = s /\ left' = n /\ buff' = words
      /\ UNCHANGED <<disk, drive, result, acked>>
  BY DEF Start
<1>2. s \in Nat /\ DriveSectors \in Nat
  BY ZeroIs DEF Addresses
<1>3. DiskTypeOK'
  BY <1>1, <1>2 DEF DiskIInv, DiskTypeOK
<1>4. CallSound' /\ DriveFollows'
  BY <1>1, <1>2 DEF CallSound, DriveFollows, Answered
<1>5. ReadSound'
  <2>1. Len(<<>>) = 0 /\ DOMAIN <<>> = {}
    OBVIOUS
  <2> QED BY <1>1, <1>2, <2>1 DEF ReadSound
<1> QED BY <1>3, <1>4, <1>5 DEF DiskIInv

\* The calls of FatFs.
LEMMA CallsSound == DiskIInv /\ DiskCall => DiskIInv'
<1> SUFFICES ASSUME DiskIInv, DiskCall PROVE DiskIInv'
  OBVIOUS
<1>0. MaxCount \in Nat /\ <<>> \in Seq(Contents) /\ DriveSectors \in Nat /\ DriveSectors > 0
  BY DriveAssumption, ZeroIs
<1>1. CASE CallRead
  <2>1. PICK v \in 0 .. Volumes - 1, s \in Addresses, n \in 1 .. MaxCount :
          s + n <= DriveSectors /\ Start("read", v, s, n, <<>>)
    BY <1>1 DEF CallRead
  <2>2. n \in Nat \ {0} /\ s + n <= DriveSectors
    BY <1>0, <2>1
  <2>3. "read" \in Operations /\ "read" # "write"
    BY DEF Operations
  <2> QED BY <1>0, <2>1, <2>2, <2>3, CallStarts
<1>2. CASE CallWrite
  <2>1. PICK v \in 0 .. Volumes - 1, s \in Addresses, n \in 1 .. MaxCount :
          /\ s + n <= DriveSectors
          /\ \E w \in [1 .. n -> Contents] : Start("write", v, s, n, w)
    BY <1>2 DEF CallWrite
  <2>0. PICK words \in [1 .. n -> Contents] : Start("write", v, s, n, words)
    BY <2>1
  <2>2. n \in Nat \ {0}
    BY <1>0
  <2>3. words \in Seq(Contents) /\ Len(words) = n
    BY <2>2
  <2>4. "write" \in Operations /\ "read" # "write" /\ s + n <= DriveSectors
    BY <2>1 DEF Operations
  <2> QED BY <2>0, <2>2, <2>3, <2>4, CallStarts
<1>3. CASE CallInitialize
  <2>1. PICK v \in 0 .. Volumes - 1 : Start("identify", v, 0, 1, <<>>)
    BY <1>3 DEF CallInitialize
  <2>2. "identify" \in Operations /\ "read" # "identify" /\ "write" # "identify"
    BY DEF Operations
  <2>3. 1 \in Nat \ {0} /\ 0 + 1 <= DriveSectors
    BY <1>0
  <2> QED BY <1>0, <2>1, <2>2, <2>3, ZeroIs, CallStarts
<1>4. CASE Refuse \/ Ioctl
  <2>1. /\ pc = "idle" /\ UNCHANGED <<disk, drive, pc, sector, left, buff, acked>>
        /\ op' \in {"read", "write", "ioctl"}
        /\ op' = "read" => result'.code # "OK"
    BY <1>4 DEF Refuse, Refused, Ioctl, Answer
  <2> QED BY <2>1 DEF DiskIInv, DiskTypeOK, CallSound, DriveFollows, ReadSound, Busy, Answered, Operations
<1> QED BY <1>1, <1>2, <1>3, <1>4 DEF DiskCall

\* Where a wait or a check leads, in a call that goes on.
LEMMA FollowingIs ==
  /\ pc = "wait" => Following = "issue"
  /\ pc = "issue" => Following = IF op = "write" THEN "check" ELSE "wait_data"
  /\ pc = "wait_data" => Following = "check"
  /\ pc = "check" => Following = "wait_idle"
  /\ pc = "wait_idle" => Following = "wait_data2"
  /\ pc = "wait_data2" => Following = "transfer"
BY DEF Following

\* A poll that ends, or a status without the error bit.
LEMMA GoesOn == DiskIInv /\ (NotBusy \/ CheckPasses) => DiskIInv'
<1> SUFFICES ASSUME DiskIInv, NotBusy \/ CheckPasses PROVE DiskIInv'
  OBVIOUS
<1>1. UNCHANGED <<disk, drive, op, sector, left, buff, result, acked>>
  BY DEF NotBusy, CheckPasses
<1>2. \/ pc = "wait" /\ pc' = "issue" /\ ~Busy
      \/ pc = "wait_data" /\ pc' = "check" /\ ~Busy
      \/ pc = "wait_idle" /\ pc' = "wait_data2" /\ ~Busy
      \/ pc = "wait_data2" /\ pc' = "transfer" /\ ~Busy
      \/ pc = "check" /\ pc' = "wait_idle" /\ (drive.phase = "idle" => ~drive.err)
  BY FollowingIs DEF NotBusy, CheckPasses, Waits, ErrorBit, Busy, DiskIInv, DiskTypeOK
<1>3. DiskTypeOK'
  BY <1>1, <1>2 DEF DiskIInv, DiskTypeOK, Answered
<1>4. CallSound' /\ ReadSound'
  BY <1>1, <1>2 DEF DiskIInv, CallSound, ReadSound
<1>5. DriveFollows'
  BY <1>1, <1>2 DEF DiskIInv, DriveFollows, Busy, Answered
<1> QED BY <1>3, <1>4, <1>5 DEF DiskIInv

\* A call that fails leaves the drive to itself.
LEMMA FailsSound == DiskIInv /\ (Timeout \/ CheckFails) => DiskIInv'
<1> SUFFICES ASSUME DiskIInv, Timeout \/ CheckFails PROVE DiskIInv'
  OBVIOUS
<1>1. /\ UNCHANGED <<disk, drive, op, sector, left, buff, acked>>
      /\ pc' = "idle" /\ result' = [code |-> "ERROR", count |-> 0]
  BY DEF Timeout, CheckFails, Fail, Return, Answer
<1>2. result'.code # "OK"
  BY <1>1
<1> QED BY <1>1, <1>2 DEF DiskIInv, DiskTypeOK, CallSound, DriveFollows, ReadSound, Busy, Answered

\* The sector a call is at is one of the drive.
LEMMA SectorIs == DiskIInv /\ pc # "idle" => sector \in Addresses
<1> SUFFICES ASSUME DiskIInv, pc # "idle" PROVE sector \in Addresses
  OBVIOUS
<1>1. sector \in Nat /\ left \in Nat /\ left > 0 /\ sector + left <= DriveSectors
  BY DEF DiskIInv, DiskTypeOK, CallSound
<1> QED BY <1>1, ZeroIs DEF Addresses

\* The command register is written: the drive was idle and starts on this sector.
LEMMA IssueSound == DiskIInv /\ Issue => DiskIInv'
<1> SUFFICES ASSUME DiskIInv, Issue PROVE DiskIInv'
  OBVIOUS
<1>1. /\ UNCHANGED <<disk, op, sector, left, buff, result, acked>>
      /\ pc = "issue" /\ pc' = IF op = "write" THEN "check" ELSE "wait_data"
  BY FollowingIs DEF Issue
<1>2. drive' = [phase |-> "working", cmd |-> op, lba |-> sector, data |-> drive.data,
                err |-> FALSE]
  BY <1>1, SectorIs, AddressIs DEF Issue, DiskIInv, DriveFollows, Command
<1>3. op \in Operations
  BY <1>1 DEF DiskIInv, CallSound
<1>4. DiskTypeOK'
  <2>1. drive' \in [phase : {"idle", "working", "data_in", "data_out", "storing"},
                    cmd : Operations \cup {"reset"}, lba : Addresses, data : Contents,
                    err : BOOLEAN]
    BY <1>1, <1>2, <1>3, SectorIs DEF DiskIInv, DiskTypeOK
  <2>2. pc' \in {"idle", "wait", "issue"} \cup Answered
    BY <1>1 DEF Answered
  <2> QED BY <1>1, <2>1, <2>2 DEF DiskIInv, DiskTypeOK
<1>5. CallSound' /\ ReadSound'
  BY <1>1, <1>2 DEF DiskIInv, CallSound, ReadSound
<1>6. DriveFollows'
  BY <1>1, <1>2 DEF DriveFollows, Busy, Answered
<1> QED BY <1>4, <1>5, <1>6 DEF DiskIInv

\* What NextSector does to a call that has a sector left.
LEMMA NextSectorIs ==
  ASSUME DiskIInv, pc = "transfer", NextSector
  PROVE  /\ sector' = sector + 1 /\ left' = left - 1
         /\ sector' \in Nat /\ left' \in Nat /\ sector' + left' <= DriveSectors
         /\ \/ pc' = "wait" /\ left' > 0
            \/ pc' = "idle"
<1>1. sector \in Nat /\ left \in Nat /\ left > 0 /\ sector + left <= DriveSectors
  BY DEF DiskIInv, DiskTypeOK, CallSound
<1> QED BY <1>1, ZeroIs DEF NextSector, Return

\* A word of a read comes from the drive, and is what the sector holds.
LEMMA TransferInSound == DiskIInv /\ TransferIn => DiskIInv'
<1> SUFFICES ASSUME DiskIInv, TransferIn PROVE DiskIInv'
  OBVIOUS
<1>1. /\ UNCHANGED <<disk, op, acked>> /\ pc = "transfer" /\ op = "read" /\ NextSector
      /\ drive.phase = "data_in" /\ drive.data = disk[sector]
  BY DEF TransferIn, DiskIInv, DriveFollows, Answered
<1>2. buff' = Append(buff, disk[sector])
  BY <1>1 DEF TransferIn
<1>3. drive' = [drive EXCEPT !.phase = "idle"]
  BY <1>1 DEF TransferIn
<1>4. disk[sector] \in Contents /\ buff \in Seq(Contents) /\ sector \in Nat
  BY <1>1, SectorIs DEF DiskIInv, DiskTypeOK
<1>5. /\ buff' \in Seq(Contents) /\ Len(buff') = Len(buff) + 1 /\ Len(buff) \in Nat
      /\ \A i \in 1 .. Len(buff) : buff'[i] = buff[i]
      /\ buff'[Len(buff) + 1] = disk[sector]
  BY <1>2, <1>4
<1>6. DiskTypeOK'
  <2>1. drive' \in [phase : {"idle", "working", "data_in", "data_out", "storing"},
                    cmd : Operations \cup {"reset"}, lba : Addresses, data : Contents,
                    err : BOOLEAN]
    BY <1>3 DEF DiskIInv, DiskTypeOK
  <2>2. pc' \in {"idle", "wait", "issue"} \cup Answered /\ sector' \in Nat /\ left' \in Nat
    BY <1>1, NextSectorIs
  <2> QED BY <1>1, <1>5, <2>1, <2>2 DEF DiskIInv, DiskTypeOK
<1>7. CallSound'
  BY <1>1, NextSectorIs DEF CallSound, Operations
<1>8. DriveFollows'
  BY <1>1, NextSectorIs DEF DriveFollows, Answered
<1>9. ReadSound'
  <2>1. /\ Len(buff) <= sector
        /\ \A i \in DOMAIN buff : buff[i] = disk[sector - Len(buff) + i - 1]
    BY <1>1 DEF DiskIInv, ReadSound
  <2>2. sector' = sector + 1 /\ sector' <= DriveSectors
    BY <1>1, NextSectorIs, <1>4, ZeroIs
  <2>3. ASSUME NEW i \in DOMAIN buff'
        PROVE  buff'[i] = disk[sector' - Len(buff') + i - 1]
    <3>1. i \in 1 .. Len(buff) + 1
      BY <1>5
    <3>2. sector' - Len(buff') + i - 1 = sector - Len(buff) + i - 1
      BY <1>4, <1>5, <2>2, <3>1
    <3>3. CASE i \in 1 .. Len(buff)
      <4>1. i \in DOMAIN buff
        BY <3>3, <1>4
      <4> QED BY <1>5, <2>1, <3>2, <3>3, <4>1
    <3>4. CASE i = Len(buff) + 1
      <4>1. sector - Len(buff) + i - 1 = sector
        BY <3>4, <1>4, <1>5
      <4> QED BY <1>5, <3>2, <3>4, <4>1
    <3> QED BY <3>1, <3>3, <3>4, <1>5
  <2>4. drive'.phase = "idle"
    BY <1>3 DEF DiskIInv, DiskTypeOK
  <2> QED BY <1>1, <1>4, <1>5, <2>1, <2>2, <2>3, <2>4 DEF ReadSound
<1> QED BY <1>6, <1>7, <1>8, <1>9 DEF DiskIInv

\* A word of a write goes to the drive, if it asked for it.
LEMMA TransferOutSound == DiskIInv /\ TransferOut => DiskIInv'
<1> SUFFICES ASSUME DiskIInv, TransferOut PROVE DiskIInv'
  OBVIOUS
<1>1. /\ UNCHANGED <<disk, op>> /\ pc = "transfer" /\ op = "write" /\ NextSector
      /\ acked' = [acked EXCEPT ![sector] = Head(buff)] /\ buff' = Tail(buff)
      /\ drive' = IF drive.phase = "data_out"
                  THEN [drive EXCEPT !.phase = "storing", !.data = Head(buff)] ELSE drive
  BY DEF TransferOut
<1>2. buff \in Seq(Contents) /\ Len(buff) = left /\ left > 0 /\ left \in Nat
  BY <1>1 DEF DiskIInv, DiskTypeOK, CallSound
<1>3. Head(buff) \in Contents /\ Tail(buff) \in Seq(Contents) /\ Len(Tail(buff)) = left - 1
  <2>1. buff # <<>>
    BY <1>2
  <2> QED BY <1>2, <2>1
<1>4. DiskTypeOK'
  <2>1. drive' \in [phase : {"idle", "working", "data_in", "data_out", "storing"},
                    cmd : Operations \cup {"reset"}, lba : Addresses, data : Contents,
                    err : BOOLEAN]
    BY <1>1, <1>3 DEF DiskIInv, DiskTypeOK
  <2>2. pc' \in {"idle", "wait", "issue"} \cup Answered /\ sector' \in Nat /\ left' \in Nat
    BY <1>1, NextSectorIs
  <2>3. acked' \in [Addresses -> Contents]
    BY <1>1, <1>3 DEF DiskIInv, DiskTypeOK
  <2> QED BY <1>1, <1>3, <2>1, <2>2, <2>3 DEF DiskIInv, DiskTypeOK
<1>5. CallSound'
  BY <1>1, <1>3, NextSectorIs DEF CallSound, Operations
<1>6. DriveFollows'
  BY <1>1, NextSectorIs DEF DriveFollows, Answered
<1>7. ReadSound'
  BY <1>1 DEF ReadSound
<1> QED BY <1>4, <1>5, <1>6, <1>7 DEF DiskIInv

\* The words of an identify.
LEMMA TransferIdentitySound == DiskIInv /\ TransferIdentity => DiskIInv'
<1> SUFFICES ASSUME DiskIInv, TransferIdentity PROVE DiskIInv'
  OBVIOUS
<1>1. /\ UNCHANGED <<disk, op, buff, acked>> /\ pc = "transfer" /\ op = "identify" /\ NextSector
      /\ drive' = IF drive.phase = "data_in" THEN [drive EXCEPT !.phase = "idle"] ELSE drive
  BY DEF TransferIdentity
<1>2. DiskTypeOK'
  <2>1. drive' \in [phase : {"idle", "working", "data_in", "data_out", "storing"},
                    cmd : Operations \cup {"reset"}, lba : Addresses, data : Contents,
                    err : BOOLEAN]
    BY <1>1 DEF DiskIInv, DiskTypeOK
  <2>2. pc' \in {"idle", "wait", "issue"} \cup Answered /\ sector' \in Nat /\ left' \in Nat
    BY <1>1, NextSectorIs
  <2> QED BY <1>1, <2>1, <2>2 DEF DiskIInv, DiskTypeOK
<1>3. CallSound'
  BY <1>1, NextSectorIs DEF CallSound, Operations
<1>4. DriveFollows' /\ ReadSound'
  BY <1>1, NextSectorIs DEF DriveFollows, ReadSound, Answered
<1> QED BY <1>2, <1>3, <1>4 DEF DiskIInv

\* Every step of the host and of the drive keeps the invariant.
LEMMA NextSound == DiskIInv /\ [DiskNext]_diskVars => DiskIInv'
<1> SUFFICES ASSUME DiskIInv, [DiskNext]_diskVars PROVE DiskIInv'
  OBVIOUS
<1>1. CASE DiskCall
  BY <1>1, CallsSound
<1>2. CASE Host
  BY <1>2, GoesOn, FailsSound, IssueSound, TransferInSound, TransferOutSound,
     TransferIdentitySound DEF Host
<1>3. CASE Drive
  BY <1>3, ReadsSound, AcceptsSound, StoresSound DEF Drive
<1>4. CASE UNCHANGED diskVars
  BY <1>4 DEF diskVars, host, DiskIInv, DiskTypeOK, CallSound, DriveFollows, ReadSound, Busy
<1> QED BY <1>1, <1>2, <1>3, <1>4 DEF DiskNext

(* Whatever the drive does and whenever a poll gives up, the host transfers *)
(* a sector only when the drive is at that sector of that command, and the  *)
(* next command waits until the drive is done (diskio.c:84-187, 279-314).   *)
THEOREM DiskSound == DiskSpec => []DiskIInv
<1>1. DiskInit => DiskIInv
  BY InitSound
<1>2. DiskIInv /\ [DiskNext]_diskVars => DiskIInv'
  BY NextSound
<1> QED BY <1>1, <1>2, PTL DEF DiskSpec

(* What disk_read has put in the buffer is what the medium holds at those   *)
(* sectors (diskio.c:84-127, 279-289).                                      *)
THEOREM ReadFaithful == DiskSpec => []ReadIsFaithful
<1>1. DiskIInv => ReadIsFaithful
  BY DEF DiskIInv, ReadSound, ReadIsFaithful
<1> QED BY <1>1, DiskSound, PTL

-----------------------------------------------------------------------------
(* Writes, on a drive that does not fail one.                              *)

\* The drive stores what a successful write put in it.
LEMMA StoresWhatWasAcked ==
  ASSUME ~WriteFaults
  PROVE  DiskIInv /\ AckedIsStored /\ Drive => AckedIsStored'
<1> SUFFICES ASSUME DiskIInv, AckedIsStored, Drive PROVE AckedIsStored'
  OBVIOUS
<1>1. CASE DriveStores
  <2>1. /\ drive.phase = "storing" /\ acked' = acked
        /\ disk' = [disk EXCEPT ![drive.lba] = drive.data] /\ drive'.phase = "idle"
    BY <1>1 DEF DriveStores, host, DiskIInv, DiskTypeOK
  <2>2. disk \in [Addresses -> Contents]
    BY DEF DiskIInv, DiskTypeOK
  <2> QED BY <2>1, <2>2 DEF AckedIsStored
<1>2. CASE DriveReads \/ DriveAccepts \/ DriveResets
  <2>1. UNCHANGED <<disk, acked>> /\ drive.phase # "storing" /\ drive'.phase # "storing"
    BY <1>2 DEF DriveReads, DriveAccepts, DriveResets, host, DiskIInv, DiskTypeOK
  <2> QED BY <2>1 DEF AckedIsStored
<1> QED BY <1>1, <1>2 DEF Drive

\* What is acknowledged is with the drive, which is at that sector.
LEMMA AcksWhatIsStored ==
  ASSUME ~WriteFaults
  PROVE  DiskIInv /\ AckedIsStored /\ (DiskCall \/ Host) => AckedIsStored'
<1> SUFFICES ASSUME DiskIInv, AckedIsStored, DiskCall \/ Host PROVE AckedIsStored'
  OBVIOUS
<1>1. CASE TransferOut
  <2>1. /\ UNCHANGED disk /\ pc = "transfer" /\ op = "write"
        /\ acked' = [acked EXCEPT ![sector] = Head(buff)]
    BY <1>1 DEF TransferOut
  <2>2. drive.phase = "data_out" /\ drive.lba = sector
    BY <2>1 DEF DiskIInv, DriveFollows, Answered
  <2>3. drive' = [drive EXCEPT !.phase = "storing", !.data = Head(buff)]
    BY <1>1, <2>2 DEF TransferOut
  <2>4. drive'.phase = "storing" /\ drive'.lba = sector /\ drive'.data = Head(buff)
    BY <2>2, <2>3 DEF DiskIInv, DiskTypeOK
  <2>5. acked \in [Addresses -> Contents]
    BY DEF DiskIInv, DiskTypeOK
  <2> QED BY <2>1, <2>2, <2>4, <2>5 DEF AckedIsStored
<1>2. CASE TransferIn \/ TransferIdentity
  <2>1. /\ UNCHANGED <<disk, acked>> /\ pc = "transfer" /\ op # "write"
        /\ drive' = IF drive.phase = "data_in" THEN [drive EXCEPT !.phase = "idle"] ELSE drive
    BY <1>2 DEF TransferIn, TransferIdentity
  <2>2. drive.phase # "storing"
    BY <2>1 DEF DiskIInv, DriveFollows, Answered
  <2>3. drive'.phase # "storing"
    BY <2>1, <2>2 DEF DiskIInv, DiskTypeOK
  <2> QED BY <2>1, <2>2, <2>3 DEF AckedIsStored
<1>3. CASE Issue
  <2>1. UNCHANGED <<disk, acked>> /\ ~Busy
    BY <1>3 DEF Issue, DiskIInv, DriveFollows
  <2>2. drive'.phase = "working"
    BY <1>3, <2>1 DEF Issue, Command
  <2> QED BY <2>1, <2>2 DEF AckedIsStored, Busy
<1>4. CASE DiskCall \/ NotBusy \/ Timeout \/ CheckPasses \/ CheckFails
  <2>1. UNCHANGED <<disk, drive, acked>>
    BY <1>4 DEF DiskCall, CallRead, CallWrite, CallInitialize, Refuse, Ioctl, Start,
       NotBusy, Timeout, CheckPasses, CheckFails, Fail
  <2> QED BY <2>1 DEF AckedIsStored
<1> QED BY <1>1, <1>2, <1>3, <1>4 DEF Host

(* On a drive that accepts and stores what it is given, every sector holds   *)
(* what the last successful ata_write_sector put there, or is being stored:  *)
(* no time-out loses a write, and none brings an older one back              *)
(* (diskio.c:129-187, 291-314).  A drive that fails a write breaks it, since *)
(* the host reads nothing from it after the words.                           *)
THEOREM AckedStored ==
  ASSUME ~WriteFaults
  PROVE  DiskSpec => []AckedIsStored
<1>1. DiskInit => AckedIsStored
  <2> SUFFICES ASSUME DiskInit PROVE AckedIsStored
    OBVIOUS
  <2>1. acked = disk /\ drive.phase # "storing"
    BY DEF DiskInit
  <2> QED BY <2>1 DEF AckedIsStored
<1>2. DiskIInv /\ AckedIsStored /\ [DiskNext]_diskVars => AckedIsStored'
  <2> SUFFICES ASSUME DiskIInv, AckedIsStored, [DiskNext]_diskVars PROVE AckedIsStored'
    OBVIOUS
  <2>1. CASE UNCHANGED diskVars
    BY <2>1 DEF diskVars, host, AckedIsStored
  <2> QED BY <2>1, StoresWhatWasAcked, AcksWhatIsStored DEF DiskNext
<1> QED BY <1>1, <1>2, DiskSound, PTL DEF DiskSpec

=============================================================================
