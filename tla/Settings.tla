------------------------------ MODULE Settings ------------------------------
(***************************************************************************)
(* The settings of the agent that are numbers of seconds (internal/config  *)
(* Load, seconds and loadDotEnv), and the file in which `service install'  *)
(* hands them to the service (internal/service writeServiceEnv).           *)
(*                                                                         *)
(* An environment, or a file of NAME=value lines, is a function from the   *)
(* variables to the text it has for them; of a text only what              *)
(* strconv.Atoi makes of it is kept.                                       *)
(***************************************************************************)
EXTENDS Integers

CONSTANTS
  Saved,    \* the variables that writeServiceEnv copies
  Others,   \* those that it does not (FORTMONT_METRICS_INTERVAL_SEC)
  Numbers,  \* the texts that Atoi reads, as the number it returns
  Junk,     \* a text that Atoi refuses
  Empty,    \* the empty text
  Unset,    \* the variable is not there
  Default,  \* the fallback, in seconds
  Second,   \* time.Second, in units of a time.Duration
  IntMax    \* the largest time.Duration

Variables == Saved \cup Others
Texts == Numbers \cup {Junk, Empty, Unset}
Env == [Variables -> Texts]

ASSUME VariablesAssumption == Saved \cap Others = {}
ASSUME NumbersAssumption == Numbers \subseteq Int
ASSUME TextsAssumption == {Junk, Empty, Unset} \cap Numbers = {}
ASSUME UnsetAssumption == Unset \notin {Junk, Empty} /\ Empty # Junk
ASSUME WidthAssumption ==
  /\ Default \in Nat \ {0} /\ Second \in Nat \ {0} /\ IntMax \in Nat
  /\ Default * Second <= IntMax

\* loadDotEnv: a file sets what is not set yet, be it to nothing.
LoadDotEnv(env, file) ==
  [v \in Variables |-> IF env[v] = Unset THEN file[v] ELSE env[v]]

Durations == -(IntMax + 1)..IntMax

\* Two's complement: what is left of n in the width of a duration.
Wrap(n) == ((n + IntMax + 1) % (2 * (IntMax + 1))) - (IntMax + 1)

\* seconds returns no error.
Accepted(text) == text \in {Empty, Unset} \/ (text \in Numbers /\ text > 0)

\* seconds: the duration.
Seconds(text) ==
  IF text \in Numbers THEN Wrap(text * Second) ELSE Default * Second

\* Load: its error, and its result.
Valid(env) == \A v \in Variables : Accepted(env[v])
Load(env) == [v \in Variables |-> Seconds(env[v])]

\* writeServiceEnv: a variable without a value gets no line.
WriteServiceEnv(env) ==
  [v \in Variables |-> IF v \in Saved /\ env[v] # Empty THEN env[v] ELSE Unset]

\* An environment with nothing in it.
NoLines == [v \in Variables |-> Unset]

=============================================================================
