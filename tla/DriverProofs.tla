----------------------------- MODULE DriverProofs -----------------------------
(***************************************************************************)
(* Proofs about the driver, for any set of command lines and any number of *)
(* invocations.                                                            *)
(***************************************************************************)
EXTENDS Driver, TLAPS

\* What the options and the extension of the input may say.
LEMMA LanguageTypes ==
  /\ \A o : LanguageOption(o) \in [lang : {"ta", "xta"}, fmt : {"plain", "xml"}]
  /\ \A x : OfExtension(x) \in [lang : {"none", "ta", "xta"}, fmt : {"none", "plain", "xml"}]
BY DEF LanguageOption, OfExtension

-----------------------------------------------------------------------------
(***************************************************************************)
(* Types.                                                                  *)
(***************************************************************************)
LEMMA CommandStep == CommandOK /\ [Next]_vars => CommandOK'
<1> SUFFICES ASSUME CommandOK, [Next]_vars PROVE CommandOK'
  OBVIOUS
<1>1. ASSUME NEW c \in Commands, Start(c) PROVE CommandOK'
  <2>1. c \in CommandLines /\ c.opts \in Seq(Options)
    BY CommandsAssumption DEF CommandLines
  <2>2. runs' \in 0 .. MaxRuns
    <3>1. runs \in 0 .. MaxRuns
      BY DEF CommandOK
    <3>2. runs < MaxRuns /\ runs' = runs + 1
      BY <1>1 DEF Start
    <3> QED  BY <3>1, <3>2, MaxRunsAssumption
  <2>3. enforced' \in [lang : {"none", "ta", "xta"}, fmt : {"none", "plain", "xml"}]
    BY <1>1 DEF Start
  <2>4. cmd' = c /\ optsLeft' = c.opts /\ erase' = FALSE /\ info' = FALSE
    BY <1>1 DEF Start
  <2> QED  BY <2>1, <2>2, <2>3, <2>4 DEF CommandOK
<1>2. CASE ParseOption
  <2>1. Head(optsLeft) \in Options /\ Tail(optsLeft) \in Seq(Options)
    BY <1>2 DEF ParseOption, CommandOK
  <2> QED  BY <1>2, <2>1, LanguageTypes DEF ParseOption, Enforced, CommandOK
<1>3. CASE UNCHANGED commandLine
  BY <1>3 DEF commandLine, CommandOK
<1> QED
  BY <1>1, <1>2, <1>3 DEF Next, vars, ParseNames, ComputeLanguage, ReadInput, ParseInput,
     OpenOutput, TranslateModel, FailTranslation, AbortTranslation, Catch

\* Every step keeps the types of what comes of the command line.
LEMMA OutcomeStep == CommandOK /\ OutcomeOK /\ [Next]_vars => OutcomeOK'
<1> SUFFICES ASSUME CommandOK, OutcomeOK, [Next]_vars PROVE OutcomeOK'
  OBVIOUS
<1> USE DEF OutcomeOK
<1>1. ASSUME NEW c \in Commands, Start(c) PROVE OutcomeOK'
  BY <1>1 DEF Start
<1>2. CASE ParseOption
  BY <1>2 DEF ParseOption, Throw
<1>3. CASE ParseNames
  BY <1>3 DEF ParseNames, Throw, Sliced, language
<1>4. CASE ComputeLanguage
  BY <1>4, LanguageTypes DEF CommandOK, ComputeLanguage, Throw, Sliced
<1>5. CASE OpenOutput
  BY <1>5 DEF OpenOutput, Throw, Sliced, language
<1>6. CASE FailTranslation
  BY <1>6 DEF FailTranslation, Throw, Sliced, language
<1>7. CASE AbortTranslation
  BY <1>7 DEF AbortTranslation, language
<1>8. CASE Catch
  BY <1>8 DEF Catch, language
<1>9. ASSUME NEW ok \in BOOLEAN, ReadInput(ok) PROVE OutcomeOK'
  BY <1>9 DEF ReadInput, Throw, Sliced, language
<1>10. ASSUME NEW ok \in BOOLEAN, ParseInput(ok) PROVE OutcomeOK'
  BY <1>10 DEF ParseInput, Throw, language
<1>11. ASSUME NEW ok \in BOOLEAN, TranslateModel(ok) PROVE OutcomeOK'
  BY <1>11 DEF TranslateModel, language
<1>12. CASE UNCHANGED vars
  BY <1>12 DEF vars, language
<1> QED  BY <1>1, <1>2, <1>3, <1>4, <1>5, <1>6, <1>7, <1>8, <1>9, <1>10, <1>11,
            <1>12 DEF Next

\* Only a translation changes the output file, and only its content.
LEMMA FileStep ==
  ASSUME file \in File, [Next]_vars
  PROVE  /\ file' \in File
         /\ file'.readable = file.readable /\ file'.writable = file.writable
<1> USE DEF File, Contents
<1>1. CASE OpenOutput
  BY <1>1 DEF OpenOutput
<1>2. ASSUME NEW ok \in BOOLEAN, TranslateModel(ok)
      PROVE  /\ file' \in File
             /\ file'.readable = file.readable /\ file'.writable = file.writable
  BY <1>2 DEF TranslateModel
<1>3. CASE Catch
  BY <1>3 DEF Catch
<1>4. CASE UNCHANGED file
  BY <1>4
<1> QED
  BY <1>1, <1>2, <1>3, <1>4 DEF Next, vars, Start, ParseOption, ParseNames, ComputeLanguage,
     ReadInput, ParseInput, FailTranslation, AbortTranslation

\* Only a new invocation looks at the output file anew.
LEMMA BeforeStep == [Next]_vars => before' \in {before, file}
BY DEF Next, vars, Start, ParseOption, ParseNames, ComputeLanguage, ReadInput, ParseInput,
   OpenOutput, TranslateModel, FailTranslation, AbortTranslation, Catch

\* Every step keeps the types.
LEMMA TypeStep == TypeOK /\ [Next]_vars => TypeOK'
BY BeforeStep, CommandStep, OutcomeStep, FileStep DEF TypeOK

\* The variables of the driver keep their types.
THEOREM TypeCorrect == Spec => []TypeOK
<1>1. Init => TypeOK
  <2> SUFFICES ASSUME Init PROVE TypeOK
    OBVIOUS
  <2>1. optsLeft \in Seq(Options)
    <3>1. optsLeft = <<>>
      BY DEF Init
    <3> QED  BY <3>1
  <2>2. cmd \in CommandLines
    <3>1. cmd = [opts |-> <<>>, names |-> 0, input |-> "stdin"]
      BY DEF Init
    <3>2. <<>> \in Seq(Options) /\ "stdin" \in Extensions
      BY DEF Extensions
    <3> QED  BY <3>1, <3>2 DEF CommandLines
  <2>3. CommandOK
    <3>1. runs = 0 /\ erase = FALSE /\ info = FALSE
          /\ enforced = [lang |-> "none", fmt |-> "none"]
      BY DEF Init
    <3>2. runs \in 0 .. MaxRuns
      BY <3>1, MaxRunsAssumption
    <3> QED  BY <2>1, <2>2, <3>1, <3>2 DEF CommandOK
  <2>4. OutcomeOK
    BY DEF Init, OutcomeOK
  <2>5. file \in File /\ before \in File
    BY DEF Init, File, Contents
  <2> QED  BY <2>3, <2>4, <2>5 DEF TypeOK
<1> QED  BY <1>1, TypeStep, PTL DEF Spec

-----------------------------------------------------------------------------
(***************************************************************************)
(* What an exit status means.                                              *)
(***************************************************************************)
\* A translation that fails never exits with success, because translate_model
\* fails to catch the exception that would make it return false.
THEOREM SuccessTold == Spec => []SuccessMeansComplete
<1>1. Init => SuccessMeansComplete
  <2> SUFFICES ASSUME Init PROVE ~HasOutput
    BY DEF SuccessMeansComplete
  <2>1. cmd = [opts |-> <<>>, names |-> 0, input |-> "stdin"]
    BY DEF Init
  <2> QED  BY <2>1 DEF HasOutput
<1>2. TypeOK /\ SuccessMeansComplete /\ [Next]_vars => SuccessMeansComplete'
  <2> SUFFICES ASSUME TypeOK, SuccessMeansComplete, [Next]_vars
               PROVE  SuccessMeansComplete'
    OBVIOUS
  <2> USE DEF SuccessMeansComplete, HasOutput
  <2>1. ASSUME NEW c \in Commands, Start(c) PROVE SuccessMeansComplete'
    BY <2>1 DEF Start
  <2>2. CASE ParseOption
    BY <2>2 DEF ParseOption, Throw
  <2>3. CASE ParseNames
    BY <2>3 DEF ParseNames, Throw, commandLine
  <2>4. CASE ComputeLanguage
    BY <2>4 DEF ComputeLanguage, Throw
  <2>5. CASE OpenOutput
    BY <2>5 DEF OpenOutput, Throw
  <2>6. CASE FailTranslation
    BY <2>6 DEF FailTranslation, Throw, Sliced
  <2>7. CASE AbortTranslation \/ Catch
    BY <2>7 DEF AbortTranslation, Catch
  <2>8. ASSUME NEW ok \in BOOLEAN, ReadInput(ok) \/ ParseInput(ok)
        PROVE  SuccessMeansComplete'
    BY <2>8 DEF ReadInput, ParseInput, Throw
  <2>9. ASSUME NEW ok \in BOOLEAN, TranslateModel(ok) PROVE SuccessMeansComplete'
    BY <2>9 DEF TranslateModel, commandLine, TypeOK, File
  <2>10. CASE UNCHANGED vars
    BY <2>10 DEF vars, commandLine
  <2> QED  BY <2>1, <2>2, <2>3, <2>4, <2>5, <2>6, <2>7, <2>8, <2>9, <2>10 DEF Next
<1> QED  BY <1>1, <1>2, TypeCorrect, PTL DEF Spec

-----------------------------------------------------------------------------
(***************************************************************************)
(* What becomes of the output file.  An invocation that has not opened it  *)
(* has not touched it; one that has, had the right to.                     *)
(***************************************************************************)
Untouched == pc \in {"options", "language", "read", "parse", "open"} => file = before

MayWrite ==
  pc = "translate" /\ HasOutput => erase \/ before.content = "absent" \/ ~before.readable

RetryBlocked ==
  before.content = "partial" /\ before.readable /\ HasOutput /\ ~erase /\ pc = "exit" /\ ~info
    => status = "failure"

Rights ==
  /\ thrown # "translation_exception"
  /\ Untouched /\ MayWrite /\ ReadableOutputKept /\ RetryBlocked

OutputInv == TypeOK /\ Rights

\* Every step keeps the rights of the invocation on the output file.
LEMMA RightsStep == OutputInv /\ [Next]_vars => Rights'
<1> SUFFICES ASSUME OutputInv, [Next]_vars PROVE Rights'
  OBVIOUS
<1>0. UNCHANGED commandLine =>
        /\ UNCHANGED erase /\ UNCHANGED info /\ HasOutput' = HasOutput
  BY DEF commandLine, HasOutput
<1> USE DEF OutputInv, Rights, Untouched, MayWrite, ReadableOutputKept, RetryBlocked
<1>1. ASSUME NEW c \in Commands, Start(c) PROVE Rights'
  BY <1>1 DEF Start
<1>2. CASE ParseOption
  BY <1>2 DEF ParseOption, Throw
<1>3. CASE ParseNames
  BY <1>0, <1>3 DEF ParseNames, Throw, Sliced
<1>4. CASE ComputeLanguage
  BY <1>0, <1>4 DEF ComputeLanguage, Throw, Sliced
<1>5. CASE OpenOutput
  BY <1>0, <1>5 DEF OpenOutput, Throw, Sliced, FileExists, TypeOK, File
<1>6. CASE FailTranslation
  BY <1>0, <1>6 DEF FailTranslation, Throw, Sliced
<1>7. CASE AbortTranslation
  BY <1>0, <1>7 DEF AbortTranslation, TypeOK, File, Contents
<1>8. CASE Catch
  BY <1>0, <1>8 DEF Catch
<1>9. ASSUME NEW ok \in BOOLEAN, ReadInput(ok) \/ ParseInput(ok) PROVE Rights'
  BY <1>0, <1>9 DEF ReadInput, ParseInput, Throw, Sliced
<1>10. ASSUME NEW ok \in BOOLEAN, TranslateModel(ok) PROVE Rights'
  BY <1>0, <1>10 DEF TranslateModel
<1>11. CASE UNCHANGED vars
  BY <1>0, <1>11 DEF vars
<1> QED  BY <1>1, <1>2, <1>3, <1>4, <1>5, <1>6, <1>7, <1>8, <1>9, <1>10, <1>11 DEF Next

\* The invariant on the output file is inductive,
LEMMA OutputStep == OutputInv /\ [Next]_vars => OutputInv'
BY TypeStep, RightsStep DEF OutputInv

\* and holds of every behaviour.
LEMMA OutputInvariance == Spec => []OutputInv
<1>1. Init /\ TypeOK => OutputInv
  BY DEF Init, OutputInv, Rights, Untouched, MayWrite, ReadableOutputKept, RetryBlocked
<1> QED  BY <1>1, OutputStep, TypeCorrect, PTL DEF Spec

\* Without --erase no invocation touches an output file that it can read.
THEOREM OutputKept == Spec => []ReadableOutputKept
<1>1. OutputInv => ReadableOutputKept
  BY DEF OutputInv, Rights
<1> QED  BY <1>1, OutputInvariance, PTL

\* What a failed translation leaves makes every retry without --erase fail.
THEOREM RetryFails == Spec => []FailedOutputBlocksRetry
<1>1. OutputInv => FailedOutputBlocksRetry
  BY DEF OutputInv, Rights, ReadableOutputKept, RetryBlocked, FailedOutputBlocksRetry
<1> QED  BY <1>1, OutputInvariance, PTL

\* The code of main that removes the output of a failed translation is dead.
THEOREM OutputNeverRemoved == Spec => NeverRemoved
<1>1. OutputInv /\ [Next]_vars => [file.content # "absent" => file'.content # "absent"]_file
  <2> SUFFICES ASSUME OutputInv, Next, file.content # "absent"
               PROVE  file'.content # "absent" \/ UNCHANGED file
    BY DEF vars
  <2>1. CASE OpenOutput
    BY <2>1 DEF OpenOutput, OutputInv, TypeOK, File
  <2>2. ASSUME NEW ok \in BOOLEAN, TranslateModel(ok)
        PROVE  file'.content # "absent" \/ UNCHANGED file
    BY <2>2 DEF TranslateModel, OutputInv, TypeOK, File
  <2>3. CASE Catch
    BY <2>3 DEF Catch, OutputInv, Rights
  <2> QED
    BY <2>1, <2>2, <2>3 DEF Next, Start, ParseOption, ParseNames, ComputeLanguage,
       ReadInput, ParseInput, FailTranslation, AbortTranslation
<1> QED  BY <1>1, OutputInvariance, PTL DEF Spec, NeverRemoved
=============================================================================
