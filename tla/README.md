# A verification of uppaal-to-tchecker

`utot` translates a network of timed automata written for Uppaal into the input
language of TChecker. It is a sequential compiler: UTAP parses and type-checks
the input, `utot` walks the result and writes the TChecker model as it goes.
What is hard in it is not concurrency of the program but of the *models*: Uppaal
synchronises processes by channels, TChecker by synchronisation vectors, and one
pass computes the vectors from tables that another pass filled, label by label.
A wrong vector does not crash anything; it silently adds or removes behaviours
of the network that the user then model-checks.

Before that the model goes through UTAP, the parser of Uppaal that the
repository carries in `utap/`: what it takes a document, a type, an expression
or an instantiation for is what gets translated, and the translation rests on
rules of its type checker that it never states. Both are modelled.

The repository's own code is `src/`; paths below are relative to the
repository.

## Inventory

| Part | Source | State | Operations |
|---|---|---|---|
| Driver | `src/utot.cpp`, `src/utot.hh` | options, language and format, output file, exit status | parse options, infer the language, read, parse, open the output, translate, handle errors |
| XML reader | `utap/src/xmlreader.cpp` | the element it looks at, names by id | read templates, locations, branchpoints, transitions, labels |
| Builders | `utap/src/systembuilder.cpp`, `statementbuilder.cpp`, `expressionbuilder.cpp` | stacks of types and expressions, frames, current template and edge | one callback per construct of the grammar |
| System | `utap/src/system.cpp`, `symbols.cpp`, `type.cpp`, `expression.cpp` | templates, instances, processes, frames | add, look up, instantiate |
| Type checker | `utap/src/typechecker.cpp` | errors, the kind of synchronisation met | visit edges, instances, processes, IO sections; type expressions; relate types |
| Process translation | `src/utot-translate.cc` | the process, its parameters and selections, `local_events` | enumerate unbound parameters and selections, write processes, locations, edges |
| Event tables | `src/utot-translate.cc` (`global_events_t`) | `emitters`, `receivers`, `csp`, `allowed_csp`, `labels`, `brodcasts` | `s_register_iodecl`, `s_build_edge_label` |
| Synchronisation vectors | `src/utot-translate.cc` | the tables, `add_stuck_process` | `s_generate_sync_vectors` and what it calls |
| Expressions | `src/utot-expr.cc` | none | constant evaluation, translation of expressions, assignments, event names |
| Declarations | `src/utot-decl.cc` | none | bounds, flattening of arrays, initial values |
| Outputter | `src/utot-tchecker.hh` | `tau_generated` | one function per kind of line |
| Context prefix | `src/utot-contextprefix.hh` | none | joins names with `_` |
| Lexer and grammar | `utap/src/lexer.cc`, `parser.cc` | generated | call the builders |

How they interact: `main` calls UTAP. The XML reader walks over the document
and gives each text to the generated parser, which calls the builders; these
fill the system, and the type checker visits it if there was no error. Then
`translate_model` registers the IO sections, translates each process (writing
its lines and filling the tables), and finally runs `s_generate_sync_vectors` on
the tables. The two passes share nothing but the tables: labels computed by the
first are looked up and suffixed again by the second. Errors of the translation
are exceptions thrown from anywhere in the middle of the output; the driver
decides what becomes of the file.

What is hard, component by component (the list with its lines is in
`PROJECT.json`, "hazards"):

* *Vectors.* The erasure of receivers during the first loop, processes that are
  both emitter and receiver, channels with no or one participant, one `Stuck`
  process for three loops. Correct when the vectors allow the moves of Uppaal,
  no fewer and no more.
* *Tables and names.* Local and global channels, arrays, selections, unbound
  parameters; a label must mean the same event in both passes. The broadcast
  flag depends on the first edge seen. Correct when the labels keep channels
  apart, and every name used is declared, once.
* *Driver.* A failed translation leaves a partial file; what the exit status
  says, what a retry meets, what an existing file becomes.
* *Declarations.* Empty ranges, two ways of computing a default initial value,
  arrays that are declared flattened or not by one test and used by another.
  Correct when a use finds the cell that was declared for it.
* *Types.* Constancy and equivalence are decided by several recursions over
  prefixes, names, arrays and structures that look inside types in different
  ways. Correct when a reference never changes a variable beyond its range and
  a constant always has a value.
* *Expressions.* Numeric edges; evaluation while compiling against evaluation
  while running; precedence and parentheses; the order of assignments. Correct
  when what is written reads back with the meaning of the model.
* *Instances.* Arguments along chains of instantiations, parameters that arrays
  depend on, free parameters, processes that are named twice. Correct when each
  process stands for the arguments Uppaal passes.
* *Documents.* One stack and one current edge for all elements, names kept from
  template to template, elements out of place. Correct when what is written is
  what is drawn.

## Modules

| Module | What it is |
|---|---|
| `SyncVectors` | `s_generate_sync_vectors`: one action per iteration of each loop |
| `SyncSemantics` | the moves of Uppaal and of TChecker, and their comparison |
| `EventTables` | the walk over processes and edges that names events and fills the tables |
| `Translation` | `translate_model`: `EventTables`, then an instance of `SyncVectors` on its tables |
| `Driver` | `main`: one invocation after the other on the same output file |
| `Declarations` | `utot-decl.cc`, and the references of `utot-expr.cc` to what it declares |
| `Types` | the types the builders make of declarations, and the relations of the type checker |
| `TypedExpressions` | declarations and arguments, expressions built and typed; constants evaluated, guards accepted |
| `Expressions` | `TypedExpressions` with the trees and the text written of them; a reader of that text |
| `Instances` | templates, instantiations, processes; the visits of the type checker; the processes written |
| `Documents` | the XML reader and the template builder; the locations and edges written |
| `SyncProofs`, `TranslationProofs`, `DriverProofs`, `DeclarationsProofs`, `TypedExpressionsProofs`, `InstancesProofs`, `DocumentsProofs` | theorems and proofs |
| `ListLemmas` | lemmas about sequences that the proofs share |
| `MC...` | small instances |

### SyncVectors

`emitters`, `receivers`, `csp`, `broadcasts` and `allowedCsp` are the fields of
`global_events_t`, as functions from labels to sets: an absent key is mapped to
the empty set, which the code never stores. `erased` is the set of keys erased
from the table of receivers, `todo` the keys the current loop has still to
visit, `vectors` the `sync` lines written. A `std::map` is walked in the order
of its keys; the model walks it in any order, which shows that the order does
not matter and covers the real one. An iteration of a loop is one action,
chosen by the code's own tests: `EmitUnreceived` (the `continue` branch),
`EmitPairwise`, `EmitBroadcast`, `BlockReceivers`, `SyncCsp`. A vector maps the
processes it names to an event and a "weak" mark; as in the code it is built by
key, so that two entries for one process collapse.

`TablesOK` is the set of tables the pass may be called with. It includes the
rule of UTAP (`utap/src/typechecker.cpp`) that a model does not mix CSP
synchronisations with emissions and receptions. `Translation` checks that the
tables really filled always satisfy it (`TablesReady`).

### SyncSemantics

A process *offers* the events of its enabled edges; a *move* is the set of
events of one step. `UppaalMove` states handshakes, broadcasts and, following
the comment over `s_generate_strong_sync`, CSP channels; `TCheckerMove` states
that a vector needs its strong participants and takes along the ready weak ones,
and that an event in no vector is asynchronous. Both tools are external to the
repository, and these rules are those its documentation relies on. `NoMoveLost`
and `NoMoveInvented` compare them for every set of offers. Edges without a label
are on `tau`, which is in no table and no vector.

### EventTables and Translation

A name is the sequence of what `_` separates in it, and joining names is
concatenation: `a[1]` is `<<"a", "1">>`, and so is an identifier `a_1`. Labels
clash in the model exactly when they do in the code; `LabelsApart` says that this
takes an identifier with an underscore, and `SameMoves` compares the moves when it
does not happen, when no IO section names a channel by the label of another
(`IOApart`), and when no broadcast flag is lost in a parameter (`FlagsAgree`). `RegisterIO`, `BeginProcess`, `TranslateTauEdge`,
`TranslateSyncEdge` and `EndProcesses` follow the code in order; an edge is
taken once for each valuation of its selections, a process once for each
valuation of the parameters left unbound; processes and edges keep the order of
the code, the valuations of one of them come in any order. `FailIO` and `FailEdge` are the index
errors. `Translation` compares the model written with the Uppaal system
*itself*, not with the tables: `SameMoves` would fail if two channels shared a
label, or one channel had two.

### Driver

`pc` is the point `main` has reached. A command line is a sequence of options
and at most three names; the file system, the parser and the translation may
fail at each call. The slicing of exceptions by `err_ex` is an operator,
`Sliced`, used wherever an exception is thrown through it. Several invocations
follow each other on the same output file, because what the first leaves is
what the second meets.

### Declarations

A program is a sequence of variables with a base type, dimensions, the
dimensions whose type has a name, and initial values. `DeclareVariable`,
`DeclareArray` and `FlattenArray` follow the tests of `translate_declarations`;
a flattened array is then declared cell by cell (`DeclareCell`, or `AbortCell`
where the assertion fails). After the declarations, up to `MaxUses` uses refer
to a variable, directly or through reference parameters, with constant or
computed indices. `UsesFindCells` compares what a use names with what was
declared; `DefaultsAgree` says that a variable and the cell of an array start
with the same value.

### Types

The state is the stack of type fragments and the symbols declared so far;
actions are the callbacks (`WriteWord`, `WriteName`, `TypeArrayOfSize`,
`TypeStruct`, ...). Types are the trees of `type_t`, prefixes and labels
included, since what goes wrong is which of them a recursion passes through.
`EquivalentAsMeant` compares `areEquivalent` with a meaning of types that knows
no prefixes. Bounds are compared by the code as they are written
(`expression_t::equal`), so a bound is a number or a difference in the model, and
the size `n` of an array is the type `int[0, n - 1]` as `typeArrayOfSize` leaves
it; types that are equivalent have the same values, and types of the same values
are equivalent when their bounds are written alike. `ReferencesSafe` says that a reference that may be written refers
to a variable of the same range that is not constant.

### TypedExpressions and Expressions

The callbacks build an expression from its leaves, and `checkExpression` types
it. Each node is decided from what is known of its operands, so an expression on
the stack is that knowledge and not a tree: `type`, `modifiable` and `unique` as
the type checker asks for them, `name` of an identifier, `value` as
`eval_integer_constant` finds it, `flags` of what occurs in it (an assignment, a
cell of a variable or of a parameter, a symbol that is not computable when the
model is compiled), and `means`, what it means to Uppaal in each store of cells.
The order of the code is kept: a failure on the left hides one on the right, `&&`,
`||` and `?:` look at one branch. Ints are those from `Min` to `Max` and wrap; a
division by zero, or of `Min` by -1, and a null dereference are `Crash`; a shift
beyond the width is any int, since it is undefined behaviour. None of these
divisions and shifts means anything to Uppaal, and nor does a result that is not
an int.

What is declared comes first, in `scope.declarations`: `DeclareVariable`,
`DeclareConstant` with an initialiser built in the same way, and `BindParameter`
with an argument, checked as `visitVariable` and `visitInstance` do and known
afterwards by an `Entry`. Clocks are not passed as parameters here. Whole arrays are
indexed and passed, and never compared, chosen by `?:`, assigned or put in a list
(`WholeArrays`), which the type checker accepts of equivalent ones: by this bound
only names are of an array type, and `ConstantsEvaluated` and `GuardsAreConvex`
rest on it. Then an
expression is built and evaluated (`EvaluateConstant`) or accepted as a guard, an
invariant or an assignment.

`Expressions` extends this: each action also grows the tree of the expression
(`trees`), and `bodies` keeps the trees of initialisers and arguments, which
`translate_expression` writes in the place of parameters. A guard, an invariant
or an assignment that is accepted is written as a sequence of tokens. Its steps
are those of `TypedExpressions`, so that one run checks the properties of both. The second
half of the module is what the text is compared with: a reader of expressions by
the usual precedences, and the meaning of trees and the effects of assignments
in a store.

### Instances

A symbol carries its mode and range, an expression the symbols it reads.
`Instantiate` and `Process` are the lines of a model; `VisitEdge`,
`VisitSymbol` and `VisitSection` are the visits, in the order of `accept`;
`TranslateProcess` enumerates free parameters and substitutes arguments. The
variable `lines` keeps what was written in the model, from which
`ArgumentsAsPassed` computes what Uppaal passes. Trees are walked without
recursive operators, so that the module can be proved about: by closures of the
relation to the operands, and by functions on the levels up to `MaxDepth`.

### Documents

The reader looks only for the starts of elements, so a document is the sequence
of these. Each function of the reader that consumes an element is an action,
with the calls it makes to the builder. `fragments` is the stack of expressions,
`currentEdge` the edge that labels go to, even if it is that of an earlier
transition. What is read keeps the position of its element in fields `at`, which
no action looks at. The properties read the document in another way: what is
between an element and the next one of its level belongs to it. They compare the
locations, the edges and the labels of all documents that are translated; what a
reference finds they compare where ids are bound once (`OwnIds`) and references
are to nodes of their own template (`Closed`), since a second node of an id, or a
node of the same name in the template before, is found otherwise.

## Runs

| Run | Instance | Shows |
|---|---|---|
| `sync_one_channel` | 4 processes, 1 channel, process symmetry | the vectors lose and invent no move; two processes in each |
| `sync_two_channels` | 2 processes, 2 channels | loops over several keys, in any order |
| `self_trap` | 2 processes, 1 channel | *violated*: a reception with nobody emitting |
| `stuck_name` | 2 processes, one named `Stuck` | *violated*: a vector with one element |
| `translation` | up to 3 processes of up to 2 edges, 3 channels, others whose names clash or that are passed by reference as something else, IO sections | labels, tables and vectors together, and they mean the moves of Uppaal; the type invariant of the vectors, as `TablesReady` |
| `driver` | 2 invocations, every command line of up to 2 options and 3 names | exit status, output file kept, retries blocked |
| `unreadable_output` | 1 invocation | *violated*: an unreadable file is emptied |
| `declarations` | up to 2 variables of up to 2 dimensions, 2 uses | lines are well formed, uses find their cells, no two cells have one name |
| `types` | 2 declarations of any types, 3 of a name, a variable and a parameter | equivalence, references, constants and broadcast channels |
| `expressions` | constants, variables, arrays and parameters of each kind declared, expressions of up to 7 nodes from 22 scopes, ints of 4 bits, 3 to 18 stores | constants are evaluated to what they mean, guards are convex, guards and invariants keep their meaning, assignments their effects |
| `instances` | 10 templates, chains of up to 2 instantiations, 2 processes; 6 lists of labels and 7 of IO sections | arguments, sizes, one kind of synchronisation, failures |
| `documents` | some 7000 documents in 5 families | locations and edges as drawn, one initial location, distinct names, failures; the reader ends |

Bounds. Vectors of one channel depend on that channel alone (`WrittenSoFar`,
proved in general), so one channel shows all that vectors can do. Four
processes can fill all the roles at once (emitter, receiver, both, neither), and
two of them any single role; the theorems below hold for any number. Two
channels are what the interference of iterations needs. In `translation` each
process has up to two edges on a plain channel, an array of broadcast channels,
a process-local channel or no channel, one with a selection that ranges over the
array and one with an index out of bounds; some processes and channels have
the name of another, of a cell or of a local channel; two instances of a template
with an unbound parameter make three processes; indices are up to 3 (`Ints`). `MaxRuns = 2` is an invocation and its
retry, and two options are enough for one to stop or override another. `MaxUses = 2`
sets one use against another, and two dimensions are the fewest that are
flattened. Types have up to two levels of arrays or structures under a name,
which is where one recursion stops and another goes on. A wrong parenthesis
needs two operators of different precedence, that is five nodes, and a
difference of clocks in a disjunction seven; four bits hold every wrap, division
and shift there is. A chain of two instantiations is where the arguments of one
mention the parameters of the other. In documents two locations, two transitions
and two templates are enough for one element to be taken for another's.

Deadlock is not checked: a compiler stops.

Fairness. The translator is sequential, every loop of the translation is over a
finite table and every loop of the reader moves on in the document: weak
fairness of the whole next-state relation says that the program is run. It is
used by `Completes` and `Ends` only; the other modules need none.

## Findings

1. **Self-trapped receptions.** Let `P` be the only emitter of a channel, let it
   receive on it too, and let another process receive on it. The pair with the
   other process is written, all the receivers of the channel are erased
   (`src/utot-translate.cc:525`), and the reception of `P` ends up in no vector.
   TChecker takes it as asynchronous: `P` receives although nobody emits.
   `doc/translation.md:170,181` says it should be blocked. `NoMoveInvented` says,
   and the proof shows, that this is the only move the translation invents.
2. **A process named `Stuck`** makes the vector that blocks it have a single
   element, against the assertion of `src/utot-tchecker.hh:138`.
3. **Unreadable output.** `s_file_exists` opens the file for reading; one that
   exists, cannot be read but can be written is emptied without `-e`, against
   `README.md:107`.

Two more facts of the driver are stated as properties that hold. `err_ex` throws
a sliced copy, so no handler ever sees a `translation_exception`: the removal of
a partial output is dead code (`NeverRemoved`), and a retry without `-e` then
fails whatever its input (`FailedOutputBlocksRetry`). And `main` ignores the
result of `translate_model`, so it is *because of* the slicing that a failed
translation does not exit with success (`SuccessMeansComplete`; with exceptions
that keep their class it is violated).

## What the code does besides

Facts met while modelling, each at its place in the models. No line of the
repository says otherwise, so they are not findings; a property that leaves one
out says so.

* Names. Parts are joined with `_`, which identifiers may contain: with a
  channel `a_1` and an array `a`, the tables of `a_1` and `a[1]` are one, and
  the model that is written moves as if they were one channel (`NamesApart` in
  `Translation`). So does an IO section that names `b_1` where the edges are on
  `b[1]`: it lets the events of the edges happen alone (`IOApart`).
* A CSP channel named `tau` is declared a second time by the edges it labels
  (`TauDeclared` in `EventTables`), and shares its event with the edges that
  have no label.
* A broadcast channel passed by reference takes its flag from the type of the
  parameter, and the first edge met settles it for the channel, so that the
  order of the processes may change the vectors (`FlagsAgree`).
* An array of two dimensions is flattened when declared; one row of it passed by
  reference to a one-dimensional parameter is used with a subscript
  (`Misjudged` in `Declarations`). An array whose elements are of a named type
  ends in an assertion.
* `isSameScalarType` has EF where REF is meant (`utap/src/typechecker.cpp:1784`),
  so that references to scalars are not looked through. Constant fields and
  arrays of constants need no initialiser in some shapes.
* Bounds are compared as they are written: with `typedef int[0,1] S`, the arrays
  `int[0,1] a[2]` and `int[0,1] b[S]` are not equivalent, since the last index of
  `a` is `2-1`, and neither are `int[0,1]` and `int[0,2-1]` (`EquivalentAsMeant`).
* The type checker accepts whole arrays in `==`, `!=` and `?:`. A cell of
  `(1 ? C : D)`, of two constant arrays, is then refused by
  `eval_integer_constant` (`src/utot-expr.cc:114`), and in a guard such an
  expression is written with whole arrays, which TChecker cannot read. The models
  leave this out (`WholeArrays`).
* An index that reads a cell of a variable, as `b[b[0]]`, is evaluated in the
  initial values. A cell of an array parameter is looked for in the data of the
  parameter, which is null.
* A parameter taken by value that is assigned to is written with its argument,
  as `3=3+1`; a conditional l-value is written as one.
* Typing numbers for statistics makes `c <= (n == 1)` a Boolean, so that some
  guards that are not convex are accepted (`TypedAsNumbers` in `TypedExpressions`).
* The range of a free parameter that depends on another free parameter cannot be
  evaluated, though the parser accepts it (`AcceptedTranslates`), unless a
  parameter after it has an empty range, when it is not read (`Enumerable`).
* An IO section without CSP channels after an error makes the type checker take
  the first element of an empty list (`VisitSection`, "crashed").
* A rate that comes before the invariant of a location is exchanged with it, and
  accepted when both are integers.
* The map from ids to names is kept from template to template: a reference to a
  location of another template finds one of the same name in its own.
* An edge of a branchpoint dereferences a null location, a transition with an
  `action` fails an assertion, and a label of a first transition whose end is
  unknown dereferences a null edge (`CrashesKnown`). A reference to an unknown
  id, or the end of the document, is an exception that only `main` catches
  ("aborted").

## Proofs

TLAPS proves, for every set of processes and channels, under the assumption
`StuckNotProcess` (no process is named `Stuck`; finding 2 shows it is needed):

* `TypeCorrect`, `StuckIsDeclared`, `WrittenOnce`: from the inductive invariant
  `IInv == TypeOK /\ WrittenSoFar /\ StuckDeclared`. `WrittenSoFar` is the
  strengthening that carries everything: the vectors are *exactly* those of the
  keys visited, and the erased keys exactly the visited ones with a partner.
  `InitInv` and `StepInv` have one step per action, by way of a lemma for each.
* `VectorsSynchronise` (`AtLeastTwo`) and `BlockedOrSynchronised`
  (`NotBlockedAndSynchronised`): by cases on the form of a vector
  (`VectorKinds`), which follows from the invariant.
* `NothingLost` and `NothingInvented`: at the end all keys are visited, so each
  move of Uppaal picks the vector of its channel, or an event that no vector
  names; conversely each form of vector yields a move of its kind, and an event
  in no vector is a broadcast emission, a lone CSP event or a self-trapped
  reception.

For every set of systems (`TranslationProofs`), under
`SystemsAssumption` (identifiers are not empty; a system is of one kind, CSP or
not, which `OneKindAccepted` shows of the type checker; IO sections, which are
global, name global channels), `LabelsAssumption` (the sets of labels contain
those that the systems give rise to) and `StuckNotProcess`; `LabelsKeptApart` also
under `ScopesAssumption` (UTAP reports a name declared twice in a scope,
`utap/src/system.cpp:1168` and `systembuilder.cpp:201,381`; an index is a literal,
a parameter or a selection, with values in `Ints`) and `NumeralsAssumption`
(`std::to_string` writes different ints differently):

* `TInvariance`: `TInv` relates the edges still to translate to the system, the
  tables to the edges written, and, once the second pass has begun, is the
  invariant `IInv` of `SyncVectors`, whose proofs are used through an instance on
  the tables (`SP`). From it `TablesTaken` (`TablesReady`): what the first pass
  fills is what the second takes for granted; and `VectorsHaveEdges`
  (`ElementsHaveEdges`).
* `EventsOnce` (`EventsDeclared`): `OnceInv` says which tables remember the
  events declared so far, and who may have declared one twice.
* `LabelsKeptApart` (`LabelsApart`): a label is read back part by part. Its first
  part tells its scope (`SameScope`), the scope how many parts are the process's,
  the next is the channel's name, and the rest are numerals (`OfferParts`).
* `ModelMovesTheSame` (`SameMoves`). `FullInv` says that the tables are complete
  and sound when the first pass ends: each edge of each valuation is recorded
  (`NoneForgotten`, `AllTranslated`), each entry is an offer of the system
  (`TablesOffered`), and so are the broadcast flags and the IO sections
  (`BroadcastsRight`, `AllowedRight`). `Seen` is then a one-to-one map from the
  offers of the Uppaal system to the events of `SyncSemantics`, and `Written` one
  to the labels of the output, that carry moves to moves (`UppaalMoveTold`,
  `TCheckerMoveTold`); `MovesKept` and `MovesMeant` of `SyncProofs` do the rest.
  The attempt showed that two hypotheses were missing, `IOApart` and
  `FlagsAgree`; TLC then found a system for each.

For every set of command lines and every number of invocations
(`DriverProofs`): `TypeCorrect`; `SuccessTold`; and `OutputKept`, `RetryFails`
and `OutputNeverRemoved`, from the invariant `OutputInv`, which adds to the types
that no exception keeps its class, that an invocation which has not opened the
output has not touched it, and that one which has was allowed to.

For every set of programs (`DeclarationsProofs`), under `ProgramsAssumption`
(variables of at most two dimensions whose bounds are ints, names that differ,
as UTAP demands): `WellFormed`, `Defaults`, `CellsFound` and `CellsApart`, from
`PositionOK` (where the walk is), `LinesInv` (what each line comes from, and that
none comes twice), `CellsHaveLines` (every cell passed has its line) and `RefsOK`.

For every set of templates and instantiations (`InstancesProofs`), under
`ModelsAssumption` (the parameters of a line are new, and their lists finite):
`ArgumentsComplete` (`MappingComplete`), as every instance in the frame maps what
it has bound and lists what it has not (`ArgumentsInv`); and `OneKindAccepted`
(`OneKindOfSync`): unless an error was reported, `syncUsed` is the kind of
everything visited (`SyncInv`).

For every set of documents that end with the system tag (`DocumentsProofs`,
`FamiliesAssumption`): `ReaderInDocument`, that no loop of the reader runs past
the end; `LocationsKept` (`LocationsWellFormed`) and `CrashesAreKnown`
(`CrashesKnown`), from `ReadingInv`, which relates the symbols of a template to
its states, its initial location and its edges unless an error was reported, and
`WrittenInv`, which relates what is written to the templates. `LocationsDrawn`
(`LocationsAsDrawn`) and `EdgesDrawn` (`EdgesAsDrawn`) need to know of everything
that is read which elements it was read from. `DrawnInv` says it at each step of
the reader, for the part of the document that is passed: the templates, the nodes
and the edges list the elements of their kind in order (`PlacesOK`, `NodesOK`,
`EdgesListed`); each has what belongs to its own element, up to the first that
does not (`LocationFits`, `EdgeFits`, where `Ended` leaves the end of the last
element open); the edge that labels go to is the one of the last transition,
unless an error was reported (`LastOK`); and as long as ids are bound once a
reference finds the node it is drawn to (`Refers`, `NamesOK`). `EdgesWritten`
says which edges are written, and at the system tag the part that is passed is
the whole (`Whole`). The first form of these properties was false: the proof
attempt found documents in which an id is bound twice, or a reference is to
another template.

For every set of scopes (declarations of any length, expressions of any size) and
every width of ints (`TypedExpressionsProofs`), under `RangeAssumption` and
`ScopesAssumption` (stores hold ints; a constant array holds the values of its
initialiser; clocks are known by their names and are not constants): `ExpressionsRight`, from which follow `ConstantsEvaluated`
(`ConstantsRight`) and `GuardsAreConvex` (`GuardsConvex`). Both are statements
about expressions of every shape, and would need induction over trees; since a
node is decided from what is known of its operands, it is an induction over the
callbacks of the builder instead, with `TypedInv` as the invariant. It says of
each expression on the stack, and of each identifier, that it is `Right`: its
value is its meaning, or the flags say why not (`ValueRight`); in three stores,
one half way between the others, ints do not depend on clocks, clocks and
differences are linear, invariants and guards convex (`ZoneRight`); what reads a
clock is not computable when the model is compiled (`FlagsRight`); and meanings
are ints or nothing (`MeansRight`). One lemma for each operator says that it keeps
this of its operands. For the convexity of a disjunction of a guard and a
condition on variables the proof needs the meaning half way to be defined, as
`GuardsConvex` says.

Only model-checked:

* `Completes` and `Ends`: liveness under fairness is out of the prover's reach.
* The four properties of `Types`, and `TextMeansTheSame` and `EffectsTheSame` of
  `Expressions`, whose trees are walked by recursive operators; and `ArgumentsAsPassed`, `SizesIndependent` and `AcceptedTranslates` of `Instances`:
  what evaluation and substitution compute needs induction over expressions.

## Not modelled, and the plan

Out of reach: `utap/src/lexer.cc` and `parser.cc`, generated tables of 11600
lines, a third of the code that is there; the models start from the callbacks.
Not called by `utot`: the pretty printer, the signal-flow analysis, the tracer,
the XML writer, queries, live sequence charts. Reached, and refused by the
translation: bodies of functions, quantifiers, records in expressions,
statistical operators. Formatting only: verbose messages, positions of errors,
the system identifier. Verbose messages go to the standard output, where the
model goes when no output file is named; warnings are not modelled.

Next, in this order:

1. `Network`: an abstract network of processes that move by Uppaal's rules,
   unlabelled edges included, and the network of the vectors shown to implement
   it step by step.
2. `Initialisers`: `checkInitialiser` (`utap/src/typechecker.cpp:1852`), lists
   and named fields against the shape of the variable.

## Checking

    tlc -config MCSyncOneChannel.cfg MCSyncSemantics
    tlapm SyncProofs.tla

and likewise for the other runs and proofs.
