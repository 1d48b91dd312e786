# Verification of Exam Generator NG

Exam Generator NG turns a *workspace* (a directory with program templates
`01.cpp`, `02.cpp`, ... and a document template `template.odt`) into exam
documents: for each group (A and B) it realizes every program template,
compiles it with g++, runs it, and fills the placeholders of the document with
the program's source and output, once for the students and once for the
teacher. This directory holds TLA+ modules that model that program, TLC
configurations that check them on small instances, and proofs that TLAPS checks
for all instances.

Source paths below are relative to
`src/src/main/java/pl/edu/pg/examgeneratorng/`.

## 1. Inventory

| Component | State | Operations | Hard behaviour |
|---|---|---|---|
| Generation task: `ui/model/ProjectTask`, `ui/util/PromiseContext`, `ui/util/PromiseUtils` | the jobs of the pool, the promises and their callbacks, `workDone`, `workTotal`, `exception`, `diagnostics` | `supplyAsync`, the suppliers, the `then` callbacks, `getState`, `getProgress` | worker threads against the JavaFX thread; callbacks of different promises in any order; the state is derived from counters that move one callback at a time; exceptions of some jobs while others run |
| Application and project: `ui/model/Application`, `ui/model/Project`, `ui/controllers/MainWindowController`, `ui/Main` | the open project, its last task | open a project, press Generate, close the window | a new task or project while an older task still runs; two tasks write the same files; the window is closed in the middle of a save |
| Views of a task: `ProjectTask.getPrograms`, `ui/model/Program`, `ui/model/GroupProgram`, `ui/views/ProgramView`, `ui/views/GroupProgramView`, `ui/controllers/ProgramTabController` | the tabs, the outputs in them | register callbacks on the promises of the task | an output before its tab, a failure between the two |
| Batch generation: `Main`, `ExamGeneration`, `ProgramTemplateCompilation`, `ProgramRunning` | the maps passed from stage to stage, the `outputs` directory, the exam documents | `generateAllExamVariants` | fails half way after it has deleted and partly rewritten files |
| Process execution: `util/ProcessUtils`, `GccCompiler`, `CppProgram` | a child process and its two pipes | `execute` | waits for the process before reading what it writes |
| Program templates: `ProgramTemplateLoading`, `ProgramTemplateParsing`, `LineTemplateParsing`, `LineTemplate` | none (pure) | load, parse | numbering gaps, trailing newline, order of markers, gaps with underscores |
| Realization of programs: `ProgramTemplateRealization` | none (pure) | realize for COMPILER, STUDENT, TEACHER | what the student may see; the variants must keep the same shape |
| Exam document: `ExamTemplateLoading`, `ExamTemplateRealization`, `Placeholder`, `LinePlaceholder`, `MatrixPlaceholder`, `PlaceholderRef`, `util/DomUtils` | the DOM of the document | find placeholders, fill them | cells in tables in cells; references collected before the tree changes; indices taken from the document against lengths taken from the programs |
| Utilities: `util/ListUtils`, `util/StringUtils`, `util/MapUtils`, `util/RegexUtils` | none | pure functions | list algorithms |
| Start and frame of the window: the rest of `ui`, the fxml files | widgets | layout | none of interest |
| `MinGW` | - | a vendored compiler | third-party |

Components interact by calls (the task calls loading, compilation, running and
`generateExamVariantsForGroup`), by promises between the pool's threads and the
JavaFX thread, by bindings (the window follows `getState`, the Generate button
follows `canStartTask`), and through the files of the workspace.

What makes each component correct:

- *Generation task*: the state shown agrees with the jobs; documents come from
  complete outputs only; errors are listed before the end they cause is shown;
  nothing is submitted after a failure; a throw always surfaces; the task comes
  to rest unless a process hangs.
- *Application and project*: a task writes to its own workspace; as long as no
  two tasks work on the same documents, the files are those of the last task
  and a broken one is one that was given up, by the task or with the window.
- *Views*: every output that was computed is shown in the end.
- *Process execution*: nothing that is written is lost, and the results are
  those the task distinguishes; it is known which processes never return.
- *Batch generation*: nothing is touched before all outputs are there; whatever
  an aborted run has left, the next one does not trip over it; new documents
  stand beside outputs of the same run only.
- *Templates and realization*: lines, gaps, markers and numbers are found as
  their patterns say; what students and teacher are shown has the same shape, and
  the students see no answer.
- *Exam document*: every outermost placeholder is found once, filling one takes
  no other out of the document, placeholders are filled with what they ask for, the students'
  document has nothing that is for the teacher, the two documents correspond,
  and what stops the teacher's document only is known.
- *Utilities*: the list algorithms keep order, length and neighbours.

## 2. How the modules fit together

```
TaskLifecycle                        abstract: state shown, documents written
  ^ implemented by      ^                          ^
ProjectTask          Workspace (each task)      ExamDocument (documents of a group)
  |     ^ outcomes of jobs                         | cells       | lengths of lines
  |  ProgramExecution                           ContentTree   ProgramTemplates
TaskView (the window's tabs)                                     |    |
                                                          ListUtils   Texts --- Paragraph
BatchGeneration (Main without the window)
```

- `TaskLifecycle` is what the window and the files may rely on of a task. It is
  stated once and implemented three times: by the promises of `ProjectTask`
  (`ImplementsLifecycle`), by each task of `Workspace`, where saving takes two
  steps (`TasksFollowLifecycle`), and by the documents of one group in
  `ExamDocument` (`ImplementsDocuments`). `Workspace` therefore composes many
  tasks without their promises.
- `ProgramExecution` shows that a compilation and a run end in the ways
  `ProjectTask` lets its jobs end, and in no other (`OutcomesOfProjectTask`), and
  what its "hung" jobs are.
- `TaskView` extends `ProjectTask` with the callbacks the views register on the
  same promises.
- `ContentTree` shows that a document is, to the algorithm that fills it, a
  sequence of cells in which filling one leaves the others alone
  (`FoundAreOutermost`, `NoneIsLost`, `DocumentIsFilled`); `ExamDocument` starts
  from there.
- `ProgramTemplates` shows that what students and teacher are shown has the same
  shape (`SameShape`), which is why `ExamDocument` needs one list of line
  lengths for both variants.
- `ListUtils` holds the list operators that `ProgramTemplates`, `ExamDocument`
  and `Paragraph` extend; `Texts` composes the first and the last, from the text
  of a file to the paragraph of a document.

They were written in this order: the task and its abstract specification, the
window and the workspace, the process, the batch program, templates, documents
and paragraphs, the tree of a document, the views.

## 3. Modules and code

**`ProjectTask`** - `ui/model/ProjectTask`, `ui/util/PromiseContext`,
`ui/util/PromiseUtils`, the suppliers in `ExamGeneration`,
`ProgramTemplateCompilation`, `ProgramRunning`. A *job* is a supplier handed to
`supplyAsync`. `job` is where it is (queued, on a worker, how it ended),
`pending` the next thing it leaves to the JavaFX thread: the diagnostic handed
to `Platform.runLater`, the `thenRun` that counts, the `then` of the pipeline, or
the `onException`. Worker actions: `Start`, `LoadTemplates`, `CompileProgram`,
`RunProgram`, `SaveStudent`, `SaveTeacher`, `FailDocuments`, `Hang`. JavaFX
actions, one per callback: `ShowDiagnostic`, `CountDone`, `SetException`,
`BuildProgramPipelines`, `BuildExamPipeline`, `StartRun`, `DeliverOutput`,
`MergeOutputs`, `StartDocuments`. `SupplyAsync`/`SupplyRefused` are the two ways
`supplyAsync` ends: its `checkState` holds, or throws out of the callback.
`Stopped` spells out where nothing is left to do; `AtRest` is what remains there,
a step that changes nothing, so that TLC reports any other state without a step
as a deadlock.

The promise library is not in the repository. The model takes from it that the
callbacks of one promise run in the order of their registration, each as an
event of its own on the JavaFX thread, and that callbacks of different promises
are not ordered. A library that runs several callbacks of one promise in one
event has fewer behaviours than this model, so safety properties carry over.

**`TaskView`** - `ProjectTask.getPrograms`, `PromiseUtils.promiseToObservableValue`,
`ProgramView`, `ProgramTabController`. `ShowTabs` is the callback that builds the
tabs once the pipelines exist, `ShowOutput` the one that puts an output into its
tab. Both run on the JavaFX thread, in any order with the callbacks of the task.

**`Workspace`** - `Application.openProject`, `Project.startTask` and
`canStartTask`, `MainWindowController`; the documents as files. `file` is, per
workspace, group and variant, which task began to write it last and whether it
is complete; `last` and `overlap` are history variables of the properties.
`OpenProject` makes a new project without a task, also for the one that is open;
the tasks left behind go on. `CloseWindow` is the end of the application
and its next start: the pool's workers are daemon threads, so the tasks in `gone`
stop wherever they are and leave the files as they are. `EndSave` may leave anything in the file when two
tasks have been on the documents of a group at once.

**`ProgramExecution`** - `util/ProcessUtils.execute` under `GccCompiler.compile`,
`compileProgramTemplate` and `runProgram`, with the process and its two pipes as
an actor. The pipe and its capacity belong to the operating system and are marked
external.

**`BatchGeneration`** - `Main`, `ExamGeneration`: `generateAllExamVariants` with
one action per compilation, run and file operation. `Init` has every part of an
`outputs` tree an earlier run can have left, `Abort` ends the program between any
two operations. `group` and `inner` are the loop over the groups whose documents
are made and the loop inside it that writes the outputs of every group; `pass` has
the entries the current call of `generateFilesWithProgramsOutputs` is done with, and
drives its loops, while `outputs` is what the directory holds. `createDirectory` is
modelled as it is (`CreateDirectory`): on any entry of that name, an older run's or
this run's own, it throws, and `pc` is "clash". What keeps it from that is only
that `deleteDirectory` comes before each pass and leaves nothing (`DeletedOutputs`).

**`ProgramTemplates`** - `ProgramTemplateLoading`, `ProgramTemplateParsing`,
`LineTemplateParsing`, `ProgramTemplateRealization` as operators over sequences of
symbols. A marker (`%hidden`, `%a`) is one symbol. The loop of
`loadProgramTemplates` is a function of the number of its turns (`LoadTurn`): a turn
puts the program of its file into the map, or breaks the loop if there is no such
file.

**`Texts`** - the algorithms of `ProgramTemplates`, `ListUtils` and `Paragraph`, one
after another, on a text. Its only variable is the text, and a step writes one
more symbol of one of the alphabets it is given, so that its states are all
texts. Its properties compare what the operators return with definitions by
position in the text. `MCTexts` gives it three alphabets of bounded length.

**`ExamDocument`** - `ExamTemplateLoading`, `ExamTemplateRealization`,
`Placeholder`, `LinePlaceholder`, `MatrixPlaceholder` and the loop of
`generateExamVariantsForGroup`. A template is the sequence of its table cells, a
program its line lengths and the number of its output lines; each line of a
document says where it comes from. `saved` holds the documents that exist.

**`ContentTree`** - `findPlaceholders`, `isNotLineOrMatrixPlaceholder`,
`fillPlaceholderWithContent`, `DomUtils.removeAllChildren`. The nodes of the
template are numbered in document order; `children` is the tree as it changes,
`RemoveFirstChild` one turn of the loop that empties a cell. A text is a sequence
of three pieces, so that a placeholder may be spread over several nodes.

**`Paragraph`** - `lineStringToParagraph` and `combineNodesWithChar`, the state machine over the characters of
a line that turns rows of spaces into `text:s` elements. What a reader of the
document sees of the nodes is not code of this program: `Texts` states it as an
assumption (`Shown`, `ShownParagraph`). The format drops each space of a text that
follows another one in it, and a space of a text at the beginning of the paragraph;
a `text:s` or a line break ends a row of spaces, so that a space behind it is kept.
Spaces at the end of a paragraph, where they are not visible, count as kept. Under
this assumption a content whose first symbol is a space loses it: `combineNodesWithChar`
makes a plain text of the first space of a line, also of the first line of the
paragraph. A program rarely begins with a space; the output of a program may,
and a placeholder for one line of it is a paragraph of its own.
`ParagraphShowsLines` says so, and that nothing else is lost.

**`ListUtils`** - the functions of `util/ListUtils` that the above use
(`mapPairs` is only used by its tests).

**`ProjectTaskProofs`** (with those of `TaskView`), **`WorkspaceProofs`,
`ProgramExecutionProofs`, `BatchGenerationProofs`, `ExamDocumentProofs`,
`ContentTreeProofs`, `TextsProofs`** hold the theorems, **`SequenceLemmas`** what the
last two need to know of sequences and of concatenating many of them; `MC...`
modules hold the instances for TLC and, where a property is about inputs, the
inputs.

Definitions that begin with "Mutation:" in their comment are plausible mistakes,
`Operator_Mistake`, next to the operator `Operator` they would replace. With each
of them in place some property fails, which is how the properties were tried.

## 4. Runs

| Run | Question | Bounds | Distinct states |
|---|---|---|---|
| `task_wide` | Do the counters, the state and the order of stages stay right in every interleaving? | 2 programs, 2 groups, 2 workers, at most one surprise (warning, failure, throw, hang) | 138,641 |
| `task_live` | What has a stopped task achieved, is it a `TaskLifecycle`, does a throw always surface, does the task come to rest, is every output shown? | 1 program, 2 groups, 2 workers, all outcomes, with the views | 35,428 |
| `task_precondition` (violated) | Does the precondition of `supplyAsync` hold of its callers? | 2 programs, 1 group | - |
| `task_error` (violated) | Does a task with an ERROR listed end other than SUCCEEDED? | 1 program, 2 groups | - |
| `workspace_tasks` | Does the last task explain the files, also after the window was closed, does a task keep to its workspace and implement `TaskLifecycle`? | 2 workspaces, 3 tasks, 1 group | 1,747,018 |
| `workspace_start` (violated) | Is a predecessor over when a task starts? | 1 workspace, 2 tasks | - |
| `program_execution` | Is anything lost, what returns, with which results? | pipes of 2 units, outputs of 0 to 3 | 964 |
| `batch` | What does the workspace hold after an abort at any point? | 2 programs, 2 groups, every earlier tree | 677,613 |
| `texts` | Which lines, gaps, markers and programs are found, who sees what of them, does a paragraph show its text? | every text of up to 11 underscores and others, of up to 5 of 6 symbols with markers, of up to 7 letters, spaces and line ends; every set of files | 16,334 |
| `document_tree` | Which placeholders are found, does filling one lose another, what is the document in the end? | every tree of 6 nodes that a text document can have | 1,226,452 |
| `document_fill` | What do the two documents show, and what stops which? | templates of up to 3 cells of 12, 10 exams | 276,180 |
| `document_kind` (violated) | Has every line placeholder a kind? | templates of up to 2 cells | - |

Why the bounds are enough. In `task_wide` two programs for two groups are the
least with which a stage waits for several jobs while another group is ahead,
and two workers the least with which suppliers overlap; no definition tells
programs or groups apart, hence the symmetry. `FewSurprises` leaves out
combinations of failures; `task_live` has all of them for one program, without
a constraint or symmetry, since it checks liveness. The proofs cover all sizes
and all outcomes. In `workspace_tasks` a third task is what can follow two that
overlap, and two workspaces are what it takes to leave one; no definition tells
them apart. `NothingLeftToOpen` cuts states that differ only in a project opened
after the last task of the bound has been started and left: no later step reads
which project is open. In `program_execution` an output may be empty, less than, equal to
and more than a pipe. In `batch` two programs and two groups make every loop run
twice, and the second group rewrites the outputs after the first one's
documents. In `texts` eleven symbols hold two gaps and a separator, and
underscores that close one gap and might open the next; five hold both markers
in either order with white space around; seven hold rows of spaces on both
sides of a line end. Six nodes hold a table in a placeholder's cell with
a cell of its own, two placeholders side by side, and a placeholder spread over
two texts. Templates of three cells hold a placeholder that succeeds,
one that fails and one that is never reached; exams lack a program, an output
line or room in the placeholder.

`task_live` checks for deadlock: a state in which no thread of the task can take a
step is one that `Stopped` describes, in every interleaving. `CHECK_DEADLOCK FALSE`
stands in the other configurations because the programs modelled end: a batch run
is done, an algorithm has its result, no further task is started.

### Fairness

`ProjectTask.FairSpec` has weak fairness of the workers together and of the
JavaFX thread together: the pool runs what it can as long as a worker is free, a
supplier that does not hang ends (`Hang` is a choice of its own), and the event
loop of JavaFX keeps running what it was given. Each such step uses up a callback
or a stage of a job, so no callback is passed over for ever although the fairness
is not per callback. `TaskView.ViewSpec` puts the callbacks of the views under
the same fairness of the JavaFX thread: they are events of the same loop.
`ProgramExecution.FairSpec` has weak fairness of the thread
and of the process: the operating system schedules both, and `execute` is about
processes that end on their own; processes that never end are the "hung" jobs of
`ProjectTask`. The other modules claim no liveness and assume no fairness.

### Disagreements the runs show

1. `task_precondition`: `PromiseContext.supplyAsync` requires that no exception
   is set, and its callers in `ProjectTask` do not see to it. The
   `IllegalStateException` rejects a promise nobody observes; in effect the check
   acts as the guard that stops the pipeline (`NoSubmissionAfterFailure`).
2. `task_error`: a program with a non-zero exit code is reported as an ERROR, and
   the task ends SUCCEEDED without the documents of the group.
3. `workspace_start`: FAILED is taken for "over", while other suppliers of the
   failed task still save documents in the workspace of the new one.
4. `document_kind`: `$g` is recognized as a placeholder in any letter case and
   its kind in one only, so that the check in `LinePlaceholder` throws.

## 5. Proofs

Each of these theorems holds for all values of the constants that satisfy the
named assumption; the run in brackets checks the same formula on an instance.

**`ProjectTaskProofs`**, from `ConstantsAssumption` (finite sets of programs and
groups, at least one worker, `None` is no job): `TypeCorrect`, `Invariance`
(`Inv`), `SucceededIsIdle`, `DocumentsComeFromOutputs`, `ErrorsComeFirst`,
`FailureStopsSubmission` [`task_wide`], and `LifecycleImplemented`,
`StopsWithOutcome` [`task_live`]. The state shown is `workDone = workTotal`, so
the argument is about what the two numbers count. `Inv` says it: `workTotal` is
the number of jobs that are not idle and `workDone` of those whose `thenRun` has
run (`CountersAreExact`); a pending callback fits the result of its job
(`CallbacksFit`), a stage is only entered when its predecessor has delivered
(`StagesInOrder`), what was reported is listed (`ErrorsAreKept`), and what is
over has left its outcome behind (`OutcomesAreKept`). Without `StagesInOrder` a
stage could be submitted twice and `workTotal` would count it twice; without
`CallbacksFit` a thrown job could be counted. When the numbers are equal, the
counted jobs, a subset of the finite set of submitted ones, are all of them;
hence nothing is queued, running, hung or thrown. The same argument shows that no
document is saved while the task shows SUCCEEDED, the one step of the refinement
that needs the counters.

The end of a task is `Stopped`, written without ENABLED: `StopsWithOutcome` says
what the task has then achieved and what it shows, and `StoppedIsFinal` that no
thread takes a step from there. It needs `OutcomesAreKept`: a thrown job has set
the exception once its callback has run, a rejected exam pipeline has an
exception or a null output behind it, a document job that ended well has saved
both documents, and the workers in use are no more than the pool has.

`StepsAreUsedUp` is what proofs can say of termination: `StepsAhead` counts what
the jobs, their callbacks, the exam pipelines and the documents still have to go
through, and every step of a thread makes it smaller. So no callback and no stage
comes twice, in any interleaving and whatever fails, and a task of any size takes
a bounded number of steps. What it leaves to fairness is that the threads take
them.

Of the views: `ViewsLeaveTheTask` (the callbacks of the window leave the behaviour
of the task as it is), hence `ViewedTaskImplementsLifecycle` and
`ViewedTaskStopsWithOutcome`, which are the properties of `task_live` under the
specification that run checks, and `ShownComesFromRuns` (an output in a tab is that
of a run that ended well, in every later state, too).

**`WorkspaceProofs`**, from `WorkspaceAssumption` (any sets of workspaces and
groups, any number of tasks): `TypeCorrect`, `Invariance`, `WorkspaceExplained` and `LifecyclesFollowed` [`workspace_tasks`]. The invariant adds to the types what a task's progress says
of its own documents (`Progressing`), that the last task on the documents of a
group is recorded (`Recorded`), that a document broken by a task is one it is
writing or has given up (`BrokenWhileWriting`), and that a task that is not
started has done nothing (`NotStarted`).

**`ProgramExecutionProofs`**, from `ExecutionAssumption` (pipes of any capacity):
`TypeCorrect`, `NothingLost`, `OnlyWhatFits`, `OutcomesHold` and `WorkerIsLost`
[`program_execution`]. The invariant accounts for every unit a process is to
write (`Accounted`), says that nobody has read before the end of the process
(`ReadAfterTheEnd`) and orders the two phases (`PhasesInOrder`). `OnlyWhatFits`
follows: at the end of a process all it wrote is still in the pipes.
`WorkerIsLost` is the safety half of `ExecuteReturns`.

**`BatchGenerationProofs`**, from `BatchAssumption` (any programs, at least one
group): `TypeCorrect`, `UntouchedUntilAllRan`, `DirectoriesNeverClash`,
`OutputsAreBeside` and `DocumentsAreInOrder` [`batch`]. What an aborted run has
left is a tree (`IsTree`), so deleting the leaves first empties it; while the
tree is written there is no directory in it that the pass has not made itself, what
the pass is done with is new, and the groups behind the inner loop are complete
(`InnerLoop`); the groups behind the outer loop have new documents and those ahead
old ones (`OuterLoop`); files are touched only after the last run (`RunsComplete`).
`NeverClashes` is about every `createDirectory` of every pass. It needs `InnerLoop`
for what a pass is to create inside the tree, and for `outputs` itself that the tree
of an aborted run, or of the pass for the group before, is gone when the pass begins.
`OutputsAreBeside` is about the group at hand only: while the outputs are deleted and
written anew for the next group, the documents of the group before have none beside
them.

**`ExamDocumentProofs`**, from `DocumentAssumption` (templates are sequences of
cells of any length, programs have lengths and a number of output lines):
`TypeCorrect`, `StudentsSeeNoSecrets`, `SavedDocumentsAreFilled`,
`VariantsCorrespond`, `OnlySecretsStopTheTeacher` and `DocumentsImplemented`
[`document_fill`]. The lemmas `LineContent`, `OutputContent`, `SecretContent` and
`CodeContent` say what each kind of placeholder is replaced with. The invariant
says that what was found is in the template and all that was passed was found
(`Found`), that the placeholders behind `at` hold their content and texts are
as they were (`Filling`), and that a saved document is filled (`SavedSoFar`),
the students' in particular as soon as the teacher's is begun. The last part
carries the results about two documents: for each cell, either both variants of
its content exist or what the teacher lacks is a secret line.

**`ContentTreeProofs`**, from `TemplateAssumption` (templates are trees of any size,
their nodes numbered in document order): `FoundAreOutermostCells`,
`NoPlaceholderIsLost` and `TheDocumentIsFilled` [`document_tree`]. The descents
of the code are recursive functions over the children of a node, the properties
speak of parents. Both become statements about segments of numbers: what is below
a node is the run of nodes behind it whose parents are not before it (`Below`,
`Sub`), so the text of a node, a concatenation over its children, is the
concatenation of the texts of one segment (`Mask`, by position), and what the
descent finds is the list of a set of numbers. `Inv` says that a cell before `at`
holds its paragraph alone and that every node which is not the cell of a
placeholder has the children it had. `NoPlaceholderIsLost` follows because the cells
found are outermost: none is below another, so no emptied cell is above one that is
still to be filled.

**`TextsProofs`**, from `TemplatesAssumption` (no symbol of the syntax is the marker of
a group), for any alphabets and texts of any length: `ProgramsAreNumbered`,
`GapsFoundAreLeftmost`, `NodesSpellTheirLine`, `AnswersAreHidden`,
`SourcesHaveTheSameShape`, `ParagraphKeepsTheText` and `MarkersDecideWhoReads`
[`texts`]. They are about what loops compute, and the library's induction theorems
are out of reach of the provers. The arguments are therefore about least elements:
a set of numbers that contains 0, and with each number the next, contains all,
because the least one outside it could be neither (`Induction`, `DownInduction`,
`Least` in `SequenceLemmas`). A loop over a sequence is then a recursive function
of the part behind or before it of which only the equation of one step is used
(`StepByStep`, `GoesOn`).

- *Programs*: after each turn of the loop the map holds the programs of the files
  up to the first hole and no other, and past the hole the loop is broken
  (`AfterTurns`, `FirstAreLoaded`).
- *Gaps*: what `findAll` returns from a position on is leftmost, going down from the
  end of the line.
- *Nodes and answers*: the gaps are the inner vertices of a path through the line,
  the texts its edges (`MapPathFacts`, `VertexFacts`); whatever is written for the
  single positions of the line comes together along that path (`AlongPath`), once
  with the markers put back and once with underscores for the answers.
- *Shape*: nodes of a line are realized to as many symbols for both variants.
- *Paragraphs*: one case for each branch of `combineNodesWithChar` shows that one more
  character is shown behind what the nodes showed (`CombineStep`); the lines of a
  text, joined again, are the text (`LinesOfText`). So the nodes show the text
  (`NodesSeen`) before the format drops a space in front. That happens for a text that
  begins with a space and for no other (`FirstSpace`), since counted spaces are never
  the first node (`CombineLeads`).
- *Markers*: two lines that differ only in white space behind them have the same
  markers, and so do the lines left when these are taken off (`AlikeFacts`).

**`SequenceLemmas`** has the facts about sequences these rest on: taking prefixes and
suffixes, the concatenation of a sequence of sequences (`FlattenSeq`) by its number
of parts (`Flat`), of two such sequences, and of those at the positions in a set
(`Mask`), which turns a disjoint union into a concatenation.

**Only model-checked**: liveness under fairness, `ThrownSurfaces`,
`EventuallySettles`, `OutputsAreShown` and the first half of `ExecuteReturns`, which
the provers cannot treat, and that a task which is not stopped can take a step,
which mentions ENABLED (the deadlock check of `task_live`). Every invariant, action
property and refinement that a run checks is a theorem.

## 6. What is not modelled

- The start and frame of the window (`ui/Main` but for its end, `ui/About`, the
  layout, the bindings of widgets): they display modelled state and decide
  nothing.
- Logging, build files, the vendored `MinGW`. The latter's headers are nearly all
  the C and C++ of the repository; the program is the Java code under
  `src/src/main`, of which every class with behaviour is in a module here.
- Command lines, temporary directories, the search path and the text of
  diagnostics: no property depends on them. That a process cannot be started, or
  a stream of it not be read, is modelled as a throw; `waitFor` throws in a thread
  that is interrupted, and none is.
- Styles of the document but for the one a new paragraph takes, and the copying
  of attributes.
- Regular expressions character by character: a marker or placeholder is one
  symbol with the fields the code takes from it, or a short sequence of pieces.
- `MapUtils` and `SystemUtils`: maps are TLA+ functions wherever they are used,
  and a directory is a constant. `ListUtils.mapPairs` is only called by its tests.

## 7. Plan

What could follow, in this order:

1. *Compose*: `Workspace` with the batch program's `outputs` directory, since both
   write to one workspace; the task's jobs with `ProgramExecution` for liveness
   in terms of process output rather than "hung".
2. *Prove*: measures like `StepsAhead` for `BatchGeneration`, `ExamDocument` and
   `ProgramExecution`, which bound their steps for inputs of any size; that
   `NoneIsLost` and `FoundAreOutermost` make `ContentTree` an implementation of the
   sequence of cells `ExamDocument` starts from.
3. *Liveness*: that `BatchGeneration` and `ExamDocument` end, under fairness of
   their single thread.
4. *Model*: the fractions `getProgress` shows between two changes of the counters.
