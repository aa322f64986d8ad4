------------------------------ MODULE NoiseFilter ------------------------------
(***************************************************************************)
(* agents/self-healing/src/filters.ts: which log lines are worth a         *)
(* diagnosis.  A line is what the regular expressions find in it.          *)
(***************************************************************************)
EXTENDS Naturals

CONSTANTS None, Rule  \* the rules of ignore-rules.json

\* The level words that the formats know.
Word == {"trace", "debug", "info", "notice", "log", "detail", "warn", "warning", "err", "error",
         "critical", "fatal", "panic"}

\* number, word: the level of a JSON object.  rails, pg, kv: the level word in the format
\* of Rails, Postgres (DETAIL stands for STATEMENT, HINT and CONTEXT too) and key=value.
\* None: the line is not of that format.
Line ==
  [print : Nat, number : Nat \cup {None}, word : Word \cup {None}, rails : Word \cup {None},
   pg : Word \cup {None}, kv : Word \cup {None},
   postgres : BOOLEAN, psql : BOOLEAN, typo : BOOLEAN, parameterized : BOOLEAN, rules : SUBSET Rule]

\* normalizeLevelWord
NormalizeLevelWord(w) ==
  CASE w \in {"trace", "debug"} -> "debug"
    [] w \in {"info", "notice"} -> "info"
    [] w \in {"warn", "warning"} -> "warn"
    [] w \in {"err", "error"} -> "error"
    [] w \in {"fatal", "panic", "critical"} -> "fatal"
    [] OTHER -> "unknown"

\* pino's numbers.
NumberSeverity(n) ==
  CASE n >= 60 -> "fatal"
    [] n >= 50 /\ n < 60 -> "error"
    [] n >= 40 /\ n < 50 -> "warn"
    [] n >= 30 /\ n < 40 -> "info"
    [] OTHER -> "debug"

\* Postgres: whatever is no error or warning is not actionable.
PgSeverity(w) == IF w \in {"log", "detail"} THEN "info" ELSE NormalizeLevelWord(w)

\* extractSeverity: the first format that gives a level decides.
ExtractSeverity(line) ==
  CASE line.number # None -> NumberSeverity(line.number)
    [] line.number = None /\ line.word # None /\ NormalizeLevelWord(line.word) # "unknown" ->
         NormalizeLevelWord(line.word)
    [] OTHER ->
         IF line.rails # None THEN NormalizeLevelWord(line.rails)
         ELSE IF line.pg # None THEN PgSeverity(line.pg)
         ELSE IF line.kv # None THEN NormalizeLevelWord(line.kv) ELSE "unknown"

\* isInteractiveOperatorSession: psql names itself, or Postgres refuses a statement
\* that no application wrote.
IsInteractiveOperatorSession(line) ==
  line.psql \/ (line.postgres /\ line.typo /\ ~line.parameterized)

\* shouldFileIssue, with matchIgnoreRule.
ShouldFileIssue_NeedsLevel(line) ==
  /\ ExtractSeverity(line) \in {"error", "fatal"}
  /\ ~IsInteractiveOperatorSession(line)
  /\ line.rules = {}
ShouldFileIssue(line) ==
  /\ ExtractSeverity(line) \notin {"info", "debug", "warn"}
  /\ ~IsInteractiveOperatorSession(line)
  /\ line.rules = {}
===============================================================================
