----------------------------- MODULE InputRead ------------------------------
(***************************************************************************)
(* bios_sys_input_read of system/syscall_sys.c on the console: a program   *)
(* that the shell runs asks for d0 characters and gets them, or fewer when *)
(* no key came for timeout ticks.  The tick interrupt (OsTimer) advances   *)
(* g_tick_count between any two of the reads, and the keys that the        *)
(* program does not take stay for the shell.                               *)
(***************************************************************************)
EXTENDS Console

CONSTANTS
  Timeout,   \* 1000 in the code
  Requests,  \* values of d0
  WordSize   \* 2^32

ASSUME ReadAssumption ==
  /\ Timeout \in Nat \ {0} /\ WordSize \in Nat /\ WordSize > 1
  /\ Requests \subseteq Nat

VARIABLES
  g_tick_count,
  lasttick, timeout, buffer, \* the locals of the call; charcount is Len(buffer)
  asked,     \* d0 at the call
  silence,   \* history: ticks since the call began or took a key
  unseen     \* history: ticks since lasttick was read

locals == <<lasttick, timeout, buffer, asked>>
readVars == <<g_tick_count, locals, silence, unseen>>
allVars == <<vars, readVars>>

Reading == pc \in {"compare", "copy", "key", "take"}

ReadInit ==
  /\ Init
  /\ g_tick_count = 0 /\ lasttick = 0 /\ timeout = 0 /\ buffer = <<>>
  /\ asked = 0 /\ silence = 0 /\ unseen = 0

-----------------------------------------------------------------------------
(* The tick interrupt, while a call runs.  The loop is never away for a    *)
(* whole word of ticks; of the ticks of silence only as many as the        *)
(* timeout are counted.                                                    *)
Tick ==
  /\ Reading /\ unseen < WordSize - 1
  /\ g_tick_count' = (g_tick_count + 1) % WordSize
  /\ unseen' = unseen + 1
  /\ silence' = IF silence < Timeout THEN silence + 1 ELSE silence
  /\ UNCHANGED <<vars, locals>>

-----------------------------------------------------------------------------
(* The call.                                                               *)

\* The command runs a program, which makes the call.
RunProgram ==
  /\ Executes
  /\ \E n \in Requests : asked' = n
  /\ timeout' = Timeout /\ buffer' = <<>>
  /\ lasttick' = g_tick_count
  /\ pc' = "compare"
  /\ silence' = 0 /\ unseen' = 0
  /\ UNCHANGED g_tick_count

\* while (timeout), and the comparison with the tick count.
Compare ==
  /\ pc = "compare"
  /\ pc' = CASE timeout = 0 -> "timers"
             [] timeout # 0 /\ lasttick # g_tick_count -> "copy"
             [] OTHER -> "key"
  /\ UNCHANGED <<codes, presses, serial, line, history, readVars>>

\* A defective variant: lasttick keeps its value.
Copy_Forgotten ==
  /\ pc = "copy"
  /\ timeout' = timeout - 1
  /\ pc' = "key"
  /\ UNCHANGED <<codes, presses, serial, line, history, g_tick_count,
                 lasttick, buffer, asked, silence, unseen>>

\* lasttick = get_tick_count(); timeout--.  However many ticks went by, one counts.
Copy ==
  /\ pc = "copy"
  /\ lasttick' = g_tick_count
  /\ timeout' = timeout - 1
  /\ pc' = "key"
  /\ unseen' = 0
  /\ UNCHANGED <<codes, presses, serial, line, history, g_tick_count,
                 buffer, asked, silence>>

\* if (has_key())
TestKey ==
  LET q == IF serial # <<>> THEN Queues ELSE Polled(Queues)
  IN  /\ pc = "key"
      /\ Becomes(q)
      /\ pc' = IF serial = <<>> /\ q.presses = <<>> THEN "compare" ELSE "take"
      /\ UNCHANGED <<serial, line, history, readVars>>

\* A key is stored; the call ends when it is the last one asked for.
ToProgram(src, ch) ==
  /\ taken' = [taken EXCEPT ![src] = Append(@, ch)]
  /\ IF ch = ERASED THEN UNCHANGED <<pc, timeout, buffer, silence>>
     ELSE /\ buffer' = Append(buffer, ch)
          /\ silence' = 0
          /\ IF Len(buffer') = asked
               THEN pc' = "timers" /\ UNCHANGED timeout
               ELSE pc' = "compare" /\ timeout' = Timeout

TakeKey ==
  /\ pc = "take"
  /\ GetKey(ToProgram, <<taken, pc, timeout, buffer, silence>>)
  /\ UNCHANGED <<line, typed, executed, lines, g_tick_count, lasttick, asked, unseen>>

Read == RunProgram \/ Compare \/ Copy \/ TestKey \/ TakeKey
Shell == Main /\ UNCHANGED readVars

Next == (Input /\ UNCHANGED readVars) \/ Tick \/ Shell \/ Read

Spec == ReadInit /\ [][Next]_allVars

\* The processor and the clock run; nobody has to type.
FairSpec == Spec /\ WF_allVars(Tick) /\ WF_allVars(Shell \/ Read)

-----------------------------------------------------------------------------
(* Properties.                                                             *)

\* Fewer characters than asked for are returned only after a silence.  The
\* silence can be one tick short of the timeout: a tick that comes before a
\* key is taken may be counted after it.
ShortOnlyAfterSilence ==
  pc = "timers" /\ Len(buffer) < asked => silence >= Timeout - 1

\* No more characters are stored than were asked for (syscall_sys.c:37).
NeverTooMany == Reading \/ pc = "timers" => Len(buffer) <= asked
=============================================================================
