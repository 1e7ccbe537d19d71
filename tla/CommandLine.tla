---------------------------- MODULE CommandLine -----------------------------
(***************************************************************************)
(* execute_cmd of shell/decodecmd.c: a command line is cut in place into   *)
(* its arguments, by zeroing the spaces after each.  A line is a sequence  *)
(* of letters and spaces: which letters they are does not matter.          *)
(***************************************************************************)
EXTENDS Integers, SequencesExt, FiniteSetsExt

CONSTANT MaxArgs \* MAXARGS

ASSUME ArgsAssumption == MaxArgs \in Nat \ {0}

LETTER == "letter"
SPACE == "space"
ZERO == "zero"

\* The first position of buffer b from p on that is not of the kind.
SkipSpaces(b, p) == Min({q \in DOMAIN b : q >= p /\ b[q] # SPACE})
SkipLetters(b, p) == Min({q \in DOMAIN b : q >= p /\ b[q] # LETTER})

\* A defective variant: the spaces after an argument are left as they are.
Zeroed_None(b, p, q) == b

Zeroed(b, p, q) == [i \in DOMAIN b |-> IF i \in p .. q - 1 THEN ZERO ELSE b[i]]

\* The line is cut at ptr when there are MAXARGS arguments.
Limited(s) ==
  IF Len(s.args) = MaxArgs THEN [s.buffer EXCEPT ![s.ptr] = ZERO] ELSE s.buffer

NextArg(b, s) ==
  LET start == SkipSpaces(b, s.ptr)
      stop  == SkipLetters(b, start)
      next  == SkipSpaces(b, stop)
  IN  [buffer |-> Zeroed(b, stop, next), ptr |-> next, args |-> Append(s.args, start)]

\* A round of the loop, which has no effect once the line is at its end.
Round(s) ==
  LET b == Limited(s)
  IN  IF b[s.ptr] = ZERO THEN [s EXCEPT !.buffer = b] ELSE NextArg(b, s)

\* Every round takes a character at least, so that the buffer has enough of them.
Cut(line) ==
  LET buffer == Append(line, ZERO)
  IN  FoldLeft(LAMBDA s, ch : Round(s), [buffer |-> buffer, ptr |-> 1, args |-> <<>>], buffer)

-----------------------------------------------------------------------------

\* The words of a line, each from its first letter to its last.
Words(line) ==
  {w \in (DOMAIN line) \X (DOMAIN line) :
     /\ w[1] <= w[2]
     /\ \A i \in w[1] .. w[2] : line[i] = LETTER
     /\ w[1] = 1 \/ line[w[1] - 1] = SPACE
     /\ w[2] = Len(line) \/ line[w[2] + 1] = SPACE}

\* What a command sees of the argument at a: the characters up to the zero.
Seen(b, a) == <<a, Min({q \in DOMAIN b : q >= a /\ b[q] = ZERO}) - 1>>

\* The arguments are the words of the line, in order, each ended by a zero, the
\* first MAXARGS of them; a line of spaces is a command with an empty name.
CutsIntoWords(line) ==
  LET cut == Cut(line)
      words == Words(line)
      seen == {Seen(cut.buffer, cut.args[i]) : i \in DOMAIN cut.args}
  IN  /\ \A i \in DOMAIN cut.args : i > 1 => cut.args[i - 1] < cut.args[i]
      /\ IF line # <<>> /\ words = {} THEN cut.args = <<Len(line) + 1>>
         ELSE /\ seen \subseteq words
              /\ Len(cut.args) = Min({Cardinality(words), MaxArgs})
              /\ \A w \in words \ seen : \A v \in seen : v[2] < w[1]
=============================================================================
