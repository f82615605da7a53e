-------------------------------- MODULE Driver --------------------------------
(***************************************************************************)
(* The program utot: the command line, the inference of the language and   *)
(* format of the input, the output file, and what becomes of an error.     *)
(* Invocations follow each other, typically a retry after a failure; all   *)
(* those that name an output file name the same one.                       *)
(*                                                                         *)
(* The parser (UTAP), the file system and the translation proper are       *)
(* external here: each may fail.                                           *)
(***************************************************************************)
EXTENDS Naturals, Sequences

CONSTANTS
  Commands,    \* the command lines: [opts, names, input]
  MaxRuns      \* bound on the number of invocations

\* A command line has a sequence of options, then the name of the input, known
\* by its extension ("stdin" when it is not named), then that of the output.
\* "info" is an option that only displays something, "bad" any unknown one.
Options    == {"ta", "xta", "xml", "erase", "info", "bad"}
Extensions == {"stdin", ".ta", ".xta", ".xml", "other"}
CommandLines ==
  {c \in [opts : Seq(Options), names : 0 .. 3, input : Extensions] :
     c.input = "stdin" <=> c.names = 0}

ASSUME CommandsAssumption == Commands \subseteq CommandLines
ASSUME MaxRunsAssumption == MaxRuns \in Nat

VARIABLES
  pc,         \* the point main has reached; "exit" between two invocations
  runs,       \* how many invocations were started
  cmd,        \* the command line
  optsLeft,   \* its options that are still to parse
  enforced,   \* enforced_language and enforced_format
  erase,      \* erase_output
  info,       \* show_help or show_version
  lang, fmt,  \* the language and the format of the input
  thrown,     \* the class of the exception thrown, "" if there is none
  writeError, \* some write to the output file failed
  file,       \* the output file: [content, readable, writable]
  before,     \* the output file as this invocation found it
  status      \* the exit status of the last invocation

\* What the command line says, and what is known of the input.
commandLine == <<runs, cmd, optsLeft, enforced, erase, info>>
language == <<lang, fmt>>
vars == <<pc, commandLine, language, thrown, writeError, file, before, status>>

\* "old" is what the output file contained before the first invocation.
Contents == {"absent", "old", "partial", "complete"}

\* The second name is that of the output; the standard output is not a file.
HasOutput == cmd.names = 2

Init ==
  /\ pc = "exit" /\ runs = 0
  /\ cmd = [opts |-> <<>>, names |-> 0, input |-> "stdin"] /\ optsLeft = <<>>
  /\ enforced = [lang |-> "none", fmt |-> "none"] /\ erase = FALSE /\ info = FALSE
  /\ lang = "none" /\ fmt = "none"
  /\ thrown = "" /\ writeError = FALSE
  /\ file \in [content : {"absent"}, readable : {TRUE}, writable : BOOLEAN]
              \cup [content : {"old"}, readable : BOOLEAN, writable : BOOLEAN]
  /\ before = file
  /\ status = "success"

\* A new process: all its static variables have their initial values.
Start(c) ==
  /\ pc = "exit" /\ runs < MaxRuns
  /\ pc' = "options" /\ runs' = runs + 1
  /\ cmd' = c /\ optsLeft' = c.opts
  /\ enforced' = [lang |-> "none", fmt |-> "none"] /\ erase' = FALSE /\ info' = FALSE
  /\ lang' = "none" /\ fmt' = "none"
  /\ thrown' = "" /\ writeError' = FALSE
  /\ before' = file
  /\ UNCHANGED <<file, status>>

\* Mutated form: exceptions keep their class.
NotSliced(class) == class

\* err_ex throws a copy of its argument, with the class of its parameter: an
\* exception of a class derived from utot::exception is sliced.
Sliced(class) == "exception"

\* Leave the current point of main by an exception.
Throw(class) == pc' = "catch" /\ thrown' = class

LanguageOptions == {"ta", "xta", "xml"}

\* The language and the format that an option enforces.
LanguageOption(o) ==
  [lang |-> IF o = "ta" THEN "ta" ELSE "xta", fmt |-> IF o = "xml" THEN "xml" ELSE "plain"]

\* What is enforced after the option o.
Enforced(o) == IF o \in LanguageOptions THEN LanguageOption(o) ELSE enforced

\* An iteration of s_parse_options; the last language option prevails.
ParseOption ==
  /\ pc = "options" /\ optsLeft # <<>>
  /\ optsLeft' = Tail(optsLeft)
  /\ LET o == Head(optsLeft)
     IN  /\ erase' = (erase \/ o = "erase")
         /\ info' = (info \/ o = "info")
         /\ enforced' = Enforced(o)
         /\ IF o = "bad" THEN Throw("exception") ELSE UNCHANGED <<pc, thrown>>
  /\ UNCHANGED <<runs, cmd, lang, fmt, writeError, file, before, status>>

\* The names that follow the options; what is asked for is displayed at once.
ParseNames ==
  /\ pc = "options" /\ optsLeft = <<>>
  /\ \/ /\ cmd.names > 2
        /\ Throw(Sliced("exception")) /\ UNCHANGED status
     \/ /\ cmd.names <= 2 /\ info
        /\ pc' = "exit" /\ status' = "success" /\ UNCHANGED thrown
     \/ /\ cmd.names <= 2 /\ ~info
        /\ pc' = "language" /\ UNCHANGED <<thrown, status>>
  /\ UNCHANGED <<commandLine, language, writeError, file, before>>

\* Mutated form: the format of an xml file is taken for its language.
SwappedExtension(x) ==
  IF x = ".xml" THEN [lang |-> "xml", fmt |-> "xta"]
  ELSE IF x \in {".ta", ".xta"} THEN [lang |-> "xta", fmt |-> "plain"]
  ELSE [lang |-> "none", fmt |-> "none"]

\* What an extension says of the language and the format of a file.
OfExtension(x) ==
  IF x = ".ta" THEN [lang |-> "ta", fmt |-> "plain"]
  ELSE IF x = ".xta" THEN [lang |-> "xta", fmt |-> "plain"]
  ELSE IF x = ".xml" THEN [lang |-> "xta", fmt |-> "xml"]
  ELSE [lang |-> "none", fmt |-> "none"]

\* s_compute_input_language: what is enforced prevails over the extension.
ComputeLanguage ==
  /\ pc = "language"
  /\ LET x == IF enforced.lang # "none" THEN enforced ELSE OfExtension(cmd.input)
     IN  /\ lang' = x.lang /\ fmt' = x.fmt
         /\ IF x.lang = "none" THEN Throw(Sliced("exception"))
                               ELSE pc' = "read" /\ UNCHANGED thrown
  /\ UNCHANGED <<commandLine, writeError, file, before, status>>

\* s_read_inputfile, then the parser: a file that cannot be opened or a model
\* with errors ends the run.
ReadInput(ok) ==
  /\ pc = "read"
  /\ ok \/ cmd.input # "stdin"
  /\ IF ok THEN pc' = "parse" /\ UNCHANGED thrown ELSE Throw(Sliced("exception"))
  /\ UNCHANGED <<commandLine, language, writeError, file, before, status>>

ParseInput(ok) ==
  /\ pc = "parse"
  /\ IF ok THEN pc' = "open" /\ UNCHANGED thrown ELSE Throw("exception")
  /\ UNCHANGED <<commandLine, language, writeError, file, before, status>>

\* Mutated form: no file is found to exist.
NothingExists == FALSE

\* s_file_exists tries to read the file.
FileExists == file.content # "absent" /\ file.readable

\* s_open_output_file: opening the file empties it.
OpenOutput ==
  /\ pc = "open"
  /\ IF HasOutput /\ ((FileExists /\ ~erase) \/ ~file.writable)
       THEN Throw(Sliced("exception")) /\ UNCHANGED file
       ELSE /\ pc' = "translate"
            /\ file' = IF HasOutput THEN [file EXCEPT !.content = "partial"] ELSE file
            /\ UNCHANGED thrown
  /\ UNCHANGED <<commandLine, language, writeError, before, status>>

\* translate_model writes the model to its end, if every write succeeds; nobody
\* looks at the state of the output stream.
TranslateModel(written) ==
  /\ pc = "translate"
  /\ written \/ HasOutput
  /\ pc' = "exit" /\ status' = "success"
  /\ writeError' = ~written
  /\ file' = IF HasOutput /\ written THEN [file EXCEPT !.content = "complete"] ELSE file
  /\ UNCHANGED <<commandLine, language, thrown, before>>

\* tr_err: translate_model catches the translation exceptions and returns false,
\* which main ignores; the others reach main.
FailTranslation ==
  /\ pc = "translate"
  /\ IF Sliced("translation_exception") = "translation_exception"
       THEN pc' = "exit" /\ status' = "success" /\ UNCHANGED thrown
       ELSE Throw(Sliced("translation_exception")) /\ UNCHANGED status
  /\ UNCHANGED <<commandLine, language, writeError, file, before>>

\* An assertion of the translation fails: nothing is caught.
AbortTranslation ==
  /\ pc = "translate"
  /\ pc' = "exit" /\ status' = "aborted"
  /\ UNCHANGED <<commandLine, language, thrown, writeError, file, before>>

\* Mutated form: the output is removed whatever the exception.
CatchAll ==
  /\ pc = "catch"
  /\ pc' = "exit" /\ status' = "failure"
  /\ file' = IF HasOutput THEN [file EXCEPT !.content = "absent"] ELSE file
  /\ UNCHANGED <<commandLine, language, thrown, writeError, before>>

\* The handler of main, meant to remove the output of a failed translation.
Catch ==
  /\ pc = "catch"
  /\ pc' = "exit" /\ status' = "failure"
  /\ file' = IF thrown = "translation_exception" /\ HasOutput
               THEN [file EXCEPT !.content = "absent"] ELSE file
  /\ UNCHANGED <<commandLine, language, thrown, writeError, before>>

Next ==
  \/ \E c \in Commands : Start(c)
  \/ ParseOption \/ ParseNames \/ ComputeLanguage \/ OpenOutput
  \/ FailTranslation \/ AbortTranslation \/ Catch
  \/ \E ok \in BOOLEAN : ReadInput(ok) \/ ParseInput(ok) \/ TranslateModel(ok)

Spec == Init /\ [][Next]_vars

-----------------------------------------------------------------------------
\* The type invariant: the command line as it is read, then what comes of it.
CommandOK ==
  /\ runs \in 0 .. MaxRuns
  /\ cmd \in CommandLines /\ optsLeft \in Seq(Options)
  /\ enforced \in [lang : {"none", "ta", "xta"}, fmt : {"none", "plain", "xml"}]
  /\ erase \in BOOLEAN /\ info \in BOOLEAN

OutcomeOK ==
  /\ pc \in {"exit", "options", "language", "read", "parse", "open", "translate", "catch"}
  /\ lang \in {"none", "ta", "xta"} /\ fmt \in {"none", "plain", "xml"}
  /\ thrown \in {"", "exception", "translation_exception"}
  /\ writeError \in BOOLEAN
  /\ status \in {"success", "failure", "aborted"}

File == [content : Contents, readable : BOOLEAN, writable : BOOLEAN]

TypeOK == CommandOK /\ OutcomeOK /\ file \in File /\ before \in File

\* An invocation that exits with success, translates and names an output file
\* has written all of the model, unless a write failed: the exit status tells a failed
\* translation (main ignores the result of translate_model, and is saved by
\* the exception that translate_model fails to catch).
SuccessMeansComplete ==
  pc = "exit" /\ status = "success" /\ HasOutput /\ ~info /\ ~writeError =>
    file.content = "complete"

\* Without --erase, an output file that can be read is left as it was found,
\* all along the invocation (s_open_output_file).
ReadableOutputKept ==
  ~erase /\ before.content # "absent" /\ before.readable => file = before

\* A failed translation leaves its partial output behind, and as this output
\* then exists, a retry that does not erase it fails too, whatever its input.
FailedOutputBlocksRetry ==
  before.content = "partial" /\ before.readable /\ HasOutput /\ ~erase =>
    /\ file.content = "partial"
    /\ pc = "exit" /\ ~info => status = "failure"

\* An existing output file is never removed, even by a failed translation.
NeverRemoved == [][file.content # "absent" => file'.content # "absent"]_file

\* README.md: "If the specified output file already exists, utot does not erase
\* its content; this behavior can be changed using option -e."
ExistingOutputKept == ~erase /\ before.content # "absent" => file = before
=============================================================================
