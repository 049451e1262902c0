------------------------------ MODULE Configuration ------------------------------
(***************************************************************************)
(* How the gateway is configured when it starts: buildConfig of            *)
(* gateway-go/config.go, and whether the hotkey it arrives at opens the    *)
(* TUI once a user presses it, through TerminalInput.                      *)
(*                                                                         *)
(* The file, the environment and the command line give settings as words;  *)
(* a word in the file has a TOML type.  How words look is left out: how a  *)
(* number is written and what it says, the spellings of a word in upper    *)
(* and lower case, and the parts of a hotkey or of a window size are given *)
(* with the word.  Words come trimmed, and numbers without leading zeros,  *)
(* which flags alone read as octal.                                        *)
(***************************************************************************)
EXTENDS TerminalInput, Integers, FiniteSets, FiniteSetsExt, TLC

CONSTANTS
  Words,       \* for each setting the words the sources use; settings not in it are not given
  Numerals,    \* the words that are numbers: their form, and what they say in plain decimals
  Spellings,   \* the words with letters in both cases: all spellings of each, its lower and upper case
  HotkeySpec,  \* a hotkey cut at its "+": modifiers, in upper case, and the bytes of the key
  ResizeSpec,  \* a window size cut at its "x": its numbers
  MaxGiven     \* bound: settings the sources give, together

Strings  == {"host", "listen_host", "mode", "eol", "resize", "framing", "hotkey", "log_level"}
Integral == {"ws_port", "listen_port", "cols", "max_sessions", "reconnect_max"}
Delays   == {"cr_delay", "char_delay", "reconnect_delay"}
Switches == {"crlf_out", "throttle", "reconnect", "tui"}
Settings == Strings \cup Integral \cup Delays \cup Switches

Kind ==
  [s \in Settings |-> CASE s \in Strings -> "str" [] s \in Integral -> "int"
                       [] s \in Delays -> "float" [] s \in Switches -> "bool"]

Off    == {"", "off", "none", "no", "0", "false"}
On     == {"1", "true", "yes", "on"}
Levels == {"DEBUG", "INFO", "WARNING", "ERROR"}

\* "decimal": 80; "based": 0x50, 0o120, 1_000; "fraction": 0.5, 5e-1.
ASSUME ConfigAssumption ==
  /\ DOMAIN Words \subseteq Settings /\ MaxGiven \in Nat
  /\ \A w \in DOMAIN Numerals : Numerals[w].form \in {"decimal", "based", "fraction"}
  /\ \A f, g \in Spellings : f.all \cap g.all # {} => f = g
  /\ \A f \in Spellings : /\ {f.lower, f.upper} \subseteq f.all
                          /\ f.all \cap (Off \cup On) \subseteq {f.lower} /\ f.all \cap Levels \subseteq {f.upper}

defaultConfig ==
  [host |-> "", ws_port |-> "80", listen_host |-> "0.0.0.0", listen_port |-> "2323", mode |-> "auto",
   eol |-> "cr", crlf_out |-> TRUE, cols |-> "80", resize |-> "80x24", framing |-> "binary",
   throttle |-> TRUE, cr_delay |-> "0.100", char_delay |-> "0.020", max_sessions |-> "1",
   reconnect |-> TRUE, reconnect_delay |-> "2.0", reconnect_max |-> "0", tui |-> TRUE,
   hotkey |-> "Ctrl+\\", log_level |-> "INFO"]

VARIABLES
  pc,        \* where buildConfig is; "serving": it has returned, "dead": the process has exited
  file,      \* the file: settings at top level, and those in a [gateway] table
  env,       \* the settings of the environment
  flags,     \* the settings of the command line
  fileFatal, \* auxiliary: the file was one that ends the start
  cfg,       \* cfg
  hotkey,    \* cfg.HotkeyBytes
  window,    \* cfg.ResizeCols, cfg.ResizeRows
  opened     \* the user has pressed the hotkey, and the TUI has opened

vars == <<pc, file, env, flags, fileFatal, cfg, hotkey, window, opened>>

(* Reading a word.                                                         *)

Nothing == <<>>   \* nothing is given
NoFile  == [top |-> Nothing, tabled |-> FALSE, table |-> Nothing]

Number(w, forms) == w \in DOMAIN Numerals /\ Numerals[w].form \in forms

Literal(type, w) ==
  CASE type = "str" -> TRUE [] type = "int" -> Number(w, {"decimal", "based"})
    [] type = "float" -> Number(w, {"fraction"}) [] type = "bool" -> w \in {"true", "false"}

\* strings.ToLower and strings.ToUpper.
Spelled(w) == \E f \in Spellings : w \in f.all
Spelling(w) == CHOOSE f \in Spellings : w \in f.all

Lower(w) == IF Spelled(w) THEN Spelling(w).lower ELSE w
Upper(w) == IF Spelled(w) THEN Spelling(w).upper ELSE w

\* fileStr, fileInt, fileFloat, fileBool: a value of another type is not there.
FileReads(s, v) == v.type = Kind[s] \/ (Kind[s] = "float" /\ v.type = "int")

FileValue(s, v) ==
  CASE Kind[s] = "str" -> v.word [] Kind[s] \in {"int", "float"} -> Numerals[v.word].says
    [] Kind[s] = "bool" -> v.word = "true"

\* envStr, envInt, envFloat, envBool: Atoi and ParseFloat, a word they refuse is ignored.
EnvReads(s, w) ==
  CASE Kind[s] = "int" -> Number(w, {"decimal"})
    [] Kind[s] = "float" -> Number(w, {"decimal", "fraction"})
    [] Kind[s] \in {"str", "bool"} -> TRUE

\* Mutant: the word is not folded.
EnvValue_AsWritten(s, w) ==
  CASE Kind[s] = "str" -> w [] Kind[s] \in {"int", "float"} -> Numerals[w].says
    [] Kind[s] = "bool" -> w \in On

EnvValue(s, w) ==
  CASE Kind[s] = "str" -> w [] Kind[s] \in {"int", "float"} -> Numerals[w].says
    [] Kind[s] = "bool" -> Lower(w) \in On

\* strconv.ParseBool.
ParsedTrue  == {"1", "t", "T", "TRUE", "true", "True"}
ParsedFalse == {"0", "f", "F", "FALSE", "false", "False"}

\* What fs.Parse accepts; ParseInt takes the base from the word.
FlagReads(s, w) ==
  CASE Kind[s] = "str" -> TRUE
    [] Kind[s] = "int" -> Number(w, {"decimal", "based"})
    [] Kind[s] = "float" -> Number(w, {"decimal", "fraction"})
    [] Kind[s] = "bool" -> w \in ParsedTrue \cup ParsedFalse

\* The flags of booleans say "no".
FlagValue(s, w) ==
  CASE Kind[s] = "str" -> w [] Kind[s] \in {"int", "float"} -> Numerals[w].says
    [] Kind[s] = "bool" -> w \in ParsedFalse

parseResize(w) ==
  LET parts == ResizeSpec[w]
  IN IF Len(parts) = 2 /\ (\A i \in 1..2 : parts[i] > 0) THEN parts ELSE <<>>

BadResize(w) == Lower(w) \notin Off /\ parseResize(w) = <<>>

Ctrl  == {"CTRL", "CONTROL", "C"}
Alt   == {"ALT", "META", "OPTION"}
Shift == {"SHIFT"}

Has(spec, modifier) == \E i \in 1..Len(spec.mods) : spec.mods[i] \in modifier

UpperCase == 65..90
LowerCase == 97..122

\* Mutant: Shift is forgotten.
KeyByte_CtrlOnly(spec) == IF Has(spec, Ctrl) THEN spec.key[1] % 32 ELSE spec.key[1]

KeyByte(spec) ==
  LET upper == (Has(spec, Shift) \/ Has(spec, Ctrl)) /\ spec.key[1] \in LowerCase
      ch == IF upper THEN spec.key[1] - 32 ELSE spec.key[1]
  IN IF Has(spec, Ctrl) THEN ch % 32 ELSE ch

\* <<>>: an error.
parseHotkey(spec) ==
  CASE Len(spec.key) # 1 \/ \E i \in 1..Len(spec.mods) : spec.mods[i] \notin Ctrl \cup Alt \cup Shift -> <<>>
    [] Len(spec.key) = 1 /\ \A i \in 1..Len(spec.mods) : spec.mods[i] \in Ctrl \cup Alt \cup Shift ->
         IF Has(spec, Alt) THEN <<27, KeyByte(spec)>> ELSE <<KeyByte(spec)>>

(* The sources.                                                            *)

\* Functions that give at most n settings, each one of its values.
Giving(values(_), n) ==
  UNION {{f \in [S -> UNION {values(s) : s \in S}] : \A s \in S : f[s] \in values(s)} :
           S \in UNION {kSubset(k, DOMAIN Words) : k \in 0..n}}

FileValues(s) ==
  UNION {{[type |-> t, word |-> w] : w \in {v \in Words[s] : Literal(t, v)}} : t \in {"str", "int", "float", "bool"}}

Left(f) == MaxGiven - Cardinality(DOMAIN f)

\* The command line and the environment the process starts with.
Init ==
  /\ pc = "parse" /\ file = NoFile /\ fileFatal = FALSE
  /\ flags \in Giving(LAMBDA s : Words[s], MaxGiven)
  /\ env \in Giving(LAMBDA s : Words[s], Left(flags))
  /\ cfg = defaultConfig /\ hotkey = <<>> /\ window = <<>> /\ opened = FALSE

Readable == \A s \in DOMAIN flags : FlagReads(s, flags[s])

\* fs.Parse exits on a flag it cannot read.
ParseFlags ==
  /\ pc = "parse"
  /\ pc' = IF Readable THEN "file" ELSE "dead"
  /\ UNCHANGED <<file, env, flags, fileFatal, cfg, hotkey, window, opened>>

\* What loadConfigFile returns: in a file with a [gateway] table, that table.
Given(f) == IF f.tabled THEN f.table ELSE f.top

\* The files that give n settings: at top level, or in a table with at most one beside it.
Files(n) ==
  {[top |-> g, tabled |-> FALSE, table |-> Nothing] : g \in Giving(FileValues, n)}
  \cup UNION {{[top |-> g, tabled |-> TRUE, table |-> h] : h \in Giving(FileValues, n - Cardinality(DOMAIN g))}
               : g \in Giving(FileValues, IF n > 0 THEN 1 ELSE 0)}

\* loadConfigFile and its use: a file named by --config or the environment has to be
\* there, the default one has not.
LoadFile ==
  /\ pc = "file"
  /\ \E named \in BOOLEAN, state \in {"missing", "unreadable", "malformed", "fine"} :
       /\ fileFatal' = (state \in {"unreadable", "malformed"} \/ (state = "missing" /\ named))
       /\ IF state = "fine" THEN file' \in Files(Left(flags) - Cardinality(DOMAIN env)) ELSE file' = NoFile
  /\ pc' = IF fileFatal' THEN "dead" ELSE "env"
  /\ cfg' = [s \in Settings |->
               IF s \in DOMAIN Given(file') /\ FileReads(s, Given(file')[s]) THEN FileValue(s, Given(file')[s])
               ELSE cfg[s]]
  /\ UNCHANGED <<env, flags, hotkey, window, opened>>

ReadEnv ==
  /\ pc = "env"
  /\ cfg' = [s \in Settings |-> IF s \in DOMAIN env /\ EnvReads(s, env[s]) THEN EnvValue(s, env[s]) ELSE cfg[s]]
  /\ pc' = "flags"
  /\ UNCHANGED <<file, env, flags, fileFatal, hotkey, window, opened>>

ReadFlags ==
  /\ pc = "flags"
  /\ cfg' = [s \in Settings |-> IF s \in DOMAIN flags THEN FlagValue(s, flags[s]) ELSE cfg[s]]
  /\ pc' = "validate"
  /\ UNCHANGED <<file, env, flags, fileFatal, hotkey, window, opened>>

Allowed(s) ==
  CASE s = "mode" -> {"raw", "telnet", "auto"}
    [] s = "eol" -> {"cr", "crlf", "lf", "raw"}
    [] s = "framing" -> {"binary", "text"}
    [] s = "log_level" -> Levels

\* Mutant: the hotkey has to be right although nobody will use it.
HotkeyNeeded_Always(c) == TRUE

HotkeyNeeded(c) == c.tui

Acceptable(c) ==
  /\ c.host # ""
  /\ ~BadResize(c.resize)
  /\ \A s \in {"mode", "eol", "framing", "log_level"} : c[s] \in Allowed(s)
  /\ HotkeyNeeded(c) => parseHotkey(HotkeySpec[c.hotkey]) # <<>>

Validate ==
  LET c == [cfg EXCEPT !.log_level = Upper(@)]
  IN /\ pc = "validate"
     /\ cfg' = c
     /\ \/ /\ Acceptable(c) /\ pc' = "serving"
           /\ window' = IF Lower(c.resize) \in Off THEN <<>> ELSE parseResize(c.resize)
           /\ hotkey' = IF c.tui THEN parseHotkey(HotkeySpec[c.hotkey]) ELSE <<>>
        \/ ~Acceptable(c) /\ pc' = "dead" /\ UNCHANGED <<window, hotkey>>
     /\ UNCHANGED <<file, env, flags, fileFatal, opened>>

(* The hotkey, once a terminal is served.                                  *)

Modified(spec) == Has(spec, Ctrl \cup Alt \cup Shift)

\* The key that types the character, in lower case if it is a letter and modifiers are held.
Key(spec) == IF Modified(spec) /\ spec.key[1] \in UpperCase THEN spec.key[1] + 32 ELSE spec.key[1]

\* What terminals agree on: with Ctrl the letters and @ [ \ ] ^ _, with Shift the letters.
Agreed(spec) ==
  /\ spec.key[1] \in 33..126
  /\ Has(spec, Ctrl) => Key(spec) \in LowerCase \cup {64} \cup 91..95
  /\ Has(spec, Shift) => Key(spec) \in LowerCase

\* What they send then (meta sends ESC).
Sent(spec) ==
  LET ch == CASE Has(spec, Ctrl) /\ Key(spec) \in LowerCase -> Key(spec) - 96
              [] Has(spec, Ctrl) /\ Key(spec) \notin LowerCase -> Key(spec) - 64
              [] ~Has(spec, Ctrl) /\ Has(spec, Shift) -> Key(spec) - 32
              [] ~Has(spec, Ctrl) /\ ~Has(spec, Shift) -> Key(spec)
  IN IF Has(spec, Alt) THEN <<27, ch>> ELSE <<ch>>

\* handleInput finds the hotkey in what a read yields; a session that has just begun has
\* matched nothing of it yet.
Found(raw) == \E i \in 0..Len(raw) - Len(hotkey) : \A k \in 1..Len(hotkey) : raw[i + k] = hotkey[k]

PressHotkey ==
  /\ pc = "serving" /\ cfg.tui
  /\ LET spec == HotkeySpec[cfg.hotkey]
     IN IF Agreed(spec) THEN opened' = Found(Process(NewInput, cfg.mode, cfg.eol, Sent(spec)).raw)
        ELSE opened' \in BOOLEAN
  /\ pc' = "pressed"
  /\ UNCHANGED <<file, env, flags, fileFatal, cfg, hotkey, window>>

Next == ParseFlags \/ LoadFile \/ ReadEnv \/ ReadFlags \/ Validate \/ PressHotkey

Spec == Init /\ [][Next]_vars

--------------------------------------------------------------------------------
(* Properties.                                                             *)

\* How numbers may be written where.
Forms ==
  [flag |-> [int |-> {"decimal", "based"}, float |-> {"decimal", "fraction"}],
   env  |-> [int |-> {"decimal"}, float |-> {"decimal", "fraction"}],
   file |-> [int |-> {"decimal", "based"}, float |-> {"decimal", "based", "fraction"}]]

Numeric(s) == Kind[s] \in {"int", "float"}

Understood(source, s, w) ==
  /\ Numeric(s) => w \in DOMAIN Numerals /\ Numerals[w].form \in Forms[source][Kind[s]]
  /\ Kind[s] = "bool" /\ source = "flag" => w \in ParsedTrue \cup ParsedFalse

\* A word of the file: as a string only for a setting that is one, and so for true and false.
Typed(s, v) == (Kind[s] = "str" <=> v.type = "str") /\ (Kind[s] = "bool" <=> v.type = "bool")

\* The same word but for upper and lower case.
Alike(v, w) == v = w \/ \E f \in Spellings : {v, w} \subseteq f.all

\* What a word says; of a boolean, whether it says yes: in the environment the four words in
\* any case, and every other word there is, t among them, says no.
Says(source, s, w) ==
  IF Numeric(s) THEN Numerals[w].says
  ELSE IF s = "log_level" /\ \E l \in Levels : Alike(l, w) THEN CHOOSE l \in Levels : Alike(l, w)
  ELSE IF Kind[s] = "str" THEN w
  ELSE CASE source = "flag" -> w \notin ParsedTrue
         [] source = "env" -> \E y \in On : Alike(y, w)
         [] source = "file" -> w = "true"

\* What a setting is meant to be: "CLI flags > environment variables > TOML config file
\* > built-in defaults" (README.md:154), among the sources whose word is understood there.
Meant(s) ==
  IF s \in DOMAIN flags THEN Says("flag", s, flags[s])
  ELSE IF s \in DOMAIN env /\ Understood("env", s, env[s]) THEN Says("env", s, env[s])
  ELSE IF s \in DOMAIN Given(file) /\ Typed(s, Given(file)[s]) /\ Understood("file", s, Given(file)[s].word)
         THEN Says("file", s, Given(file)[s].word)
  ELSE defaultConfig[s]

\* The process serves with the settings that are meant, and it exits only for a flag or
\* a file nobody can read or for a meant setting that is wrong: never for one that is
\* overridden, or for the hotkey of a TUI that is off.
StartsAsConfigured ==
  LET meant      == [s \in Settings |-> Meant(s)]
      noWindow   == \E w \in Off : Alike(w, meant.resize)
      clear      == \A s \in DOMAIN flags : Understood("flag", s, flags[s])
      wrong == \/ meant.host = ""
               \/ ~noWindow /\ parseResize(meant.resize) = <<>>
               \/ \E s \in {"mode", "eol", "framing", "log_level"} : meant[s] \notin Allowed(s)
               \/ meant.tui /\ parseHotkey(HotkeySpec[meant.hotkey]) = <<>>
  IN /\ pc \in {"serving", "pressed"} =>
          /\ cfg = meant /\ clear /\ ~fileFatal /\ ~wrong
          /\ window = IF noWindow THEN <<>> ELSE ResizeSpec[meant.resize]
     /\ pc = "dead" => ~clear \/ fileFatal \/ wrong

\* The hotkeys that TerminalInput drops or makes into another Enter, and an Alt key named by
\* its upper-case letter, which is what the terminal sends with Shift.
Unreachable(spec) ==
  LET ch == hotkey[Len(hotkey)]
  IN \/ ch = NUL /\ cfg.eol # "raw"
     \/ ch = CR /\ cfg.eol = "lf"
     \/ ch = LF /\ (cfg.eol = "cr" \/ (cfg.eol = "crlf" /\ Has(spec, Alt)))
     \/ Has(spec, Alt) /\ ~Has(spec, Ctrl) /\ ~Has(spec, Shift) /\ spec.key[1] \in UpperCase

\* Pressing the hotkey opens the TUI, whatever the EOL setting (config.go:68-74), where terminals
\* agree on what it sends, but for the keys that are named above: those never do.
HotkeyOpens ==
  LET spec == HotkeySpec[cfg.hotkey]
  IN pc = "pressed" /\ Agreed(spec) => (opened <=> ~Unreachable(spec))

================================================================================
