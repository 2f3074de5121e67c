# Formal model of `src/scripts/process_doxygen_xml.py`

The repository's only source under `src/` is `process_doxygen_xml.py`, a Python 2 script.
It reads doxygen XML files and prints the linker version script of libmiral.
That output is the frozen `OLD_STANZAS` text followed by a new stanza listing every
published symbol that is not already covered. This directory holds:

- TLA+ modules of the script;
- the TLC configurations that check them;
- TLAPS proofs of the main invariants.

## 1. The system

| Part | Code | What it does |
|---|---|---|
| Record model and text helpers | `_get_text`, `_get_text_for_element`, `_get_file_location`, `_has_element`, `_get_attribs`, `_concat_text_from_tags` (13-63) | Read attributes and child text of a DOM node. A missing attribute raises `KeyError`. A compound without `<location>` gives `None`. |
| Tree walker | `_parse_compound_defs` (514-556) | Walks each `<compounddef>` and decides what to do with it: skip pages, files, examples and unions; walk group and namespace members; raise `TypeError` on a missing location; skip examples, tests, `[generated]`, `[STL]` and templates; report a class's vtable and typeinfo; walk the members of a published compound. |
| Classifier | `_parse_member_def` (450-488), `_should_publish` (491-511) | Handles each `<memberdef>`. It has early returns for enums, typedefs, templates, inline functions and `__attribute__`. It makes a publish decision from kind, static, prot, virt and the `=0` argsstring. It reports the member symbol, and for a virtual function also a thunk. |
| Symbol registry | `SYMBOLS`, `_report` (65-80) | Two global sets, `public` and `private`, that persist across documents. `~` is replaced by `?`. |
| Script renderer | `OLD_STANZAS` (84-430), `END_NEW_STANZA`, `_print_report` (435-441) | Prints the baseline, then every sorted public symbol whose line `"    s;"` is not a substring of the baseline and is not in `miral::toolkit::`. |
| CLI driver | main block (558-574) | Prints the help text and exits when there are no arguments or a help flag. Otherwise it parses each argument in a `try` and prints `Error: arg error` on stdout for any exception. Finally it prints the report. |
| Debug output | `_print_debug_info`, `_print_attribs`, `_print_location` | Dead code: `DEBUG = False` (line 11). Not modelled. |

The script is single threaded. The only state is `SYMBOLS` and the loop positions.
Nothing is persisted between runs, and nothing is concurrent.

The behaviours a test hardly reaches come from combining documents and exceptions:

- An exception part way through a document leaves behind what that document already reported (line 568).
- The primary symbol is reported before `virt` is read (485, then 487).
- One operator name collapses overloads into one symbol (465). Together with the never-shrinking registry, a symbol can end up in both sets.
- A missing location aborts a whole document (538).
- Members of a private class are never walked (554).
- The baseline filter is a substring test (439). Spec §3 and §4.4 describe exactly this test, and the commented-out `#    s;` lines of the baseline (392-406) rely on it to keep retired wildcards out of the new stanza. The model keeps the test, with `BaselineComments`, and no property treats it as a fault.
- Errors share stdout with the version script (569).

`PROJECT.json` lists each of these as a hazard at its line.

## 2. Modules

- **`SymbolClassifier.tla`** holds the data and the pure decisions.
  - A `<memberdef>` is a `MemberRecord`: kind, name, prot, static, virt, inline, templ and argsstring class. A `<compounddef>` is a `CompoundRecord`. `Missing` stands for an absent attribute.
  - Names are abstracted to their form (identifier, `~id`, `operator…`, `__attribute__`). This keeps what lines 458, 465 and 69 distinguish.
  - A symbol is a record `[form, ctx, name]`, which is injective on the strings the script builds.
  - Operators: `NormalName` (465), `MemberSymbol` (468-471), `Thunk` (488), `Vtable`/`Typeinfo` (551-552), `Marked` (69).
  - The classifier's early returns and exceptions: `InlineKeyError`, `IgnoredMember`, `ShouldPublishKeyError`, `ShouldPublish`.
  - The renderer's filter is `NewStanza`. The baseline text is abstracted to two sets: symbols whose line is a line of `OLD_STANZAS` (`BaselineLines`), and symbols whose line occurs only inside a `#` comment (`BaselineComments`). Every occurrence of `"    s;"` in `OLD_STANZAS` is one of the two, so substring containment is exactly `InOldStanzas`.
- **`ProcessDoxygenXml.tla`** is the run of the script.
  - `pc` is the loop position. `doc`, `ncomp` and `nmem` are the loop indices. `context_name` and `is_class` are the arguments of `_parse_member_def`.
  - `SYMBOLS` is the registry, and `stdout` is the sequence of printed entries.
  - There are two ghosts. `docPublic` holds the symbols published by the current document. `okPublic` holds those published by documents that ran to their end.
  - Actions:

    | Action | Code |
    |---|---|
    | `PrintHelp` | 559-561 |
    | `BeginProcessing` | 563 |
    | `ParseDocument` / `ParseFails` | 567, where `minidom.parse` succeeds or raises |
    | `NextCompound` | one iteration of the loop of 516 |
    | `EndDocument` | that loop runs out |
    | `NextMember` | one call of `_parse_member_def` |
    | `EndMembers` | the member loop runs out |
    | `PrintReport` | 574 |

  - An exception is `AbortDocument(cause)`: the `except` of 568-569.
  - Each handler is one action, with every early return and every exception as a disjunct, in the order the code meets them. For example, `ParseMemberDef` reports the primary symbol and then aborts when `virt` is missing.
  - Input is read lazily: each compound or member step picks the next element from `Compounds` or `Members`. Each element is read once, in order, so this is the same as fixing every file in advance.
- **`MCProcessDoxygenXml.tla`** instantiates the model for TLC. It has:
  - ids `a`, `b`;
  - classes `C` and `T`, where `T` stands for the toolkit namespace;
  - namespace `N`;
  - one other compound name `O`;
  - 11 members, one for each outcome of the classifier: public function, public virtual destructor, private virtual operator, private non-virtual operator, pure virtual, variable, define, `__attribute__`, inline missing, prot missing, virt missing;
  - 10 compounds, one for each branch of the walker: public, private, prot-less and location-less class, a test class, a public toolkit struct, namespace, group, interface and file;
  - a baseline holding `C::?a` and `vtable for C` as lines and `N::a` inside a comment.
- **`SymbolExport.tla`** is the abstract specification of the registry and the report: what the script promises, without the walk. Its state is `published`, `suppressed`, `printed` and `report`. It has two actions:
  - `Record`: before the report, both sets may grow, never shrink. Every symbol is written with `?` for `~`, and the published set stays class-closed (each member or thunk of a class comes with the class's vtable and typeinfo).
  - `Emit`: the report is printed once, as `NewStanza(published)`.
- **`ProcessDoxygenXml.tla`** defines the refinement mapping `Export == INSTANCE SymbolExport WITH ...`: `published <- SYMBOLS.public`, `suppressed <- SYMBOLS.private`, `printed <- LastIsReport` (the last entry of stdout is the report) and `report <-` that entry's lines. `ExportSpec == Export!Spec` is the property that the script implements it.
- **`ProcessDoxygenXmlProofs.tla`** holds the TLAPS proofs of `TypeOK` and `VtableCoversMembers`, **`OutputProofs.tla`** the proof of `OutputShape`, and **`ExportRefinementProofs.tla`** the proof of the refinement.

## 3. Runs

All runs use `MaxDocs = 2`, `MaxCompounds = 1` and `MaxMembers = 2`.

| Run | cfg | Expect | Checks |
|---|---|---|---|
| walk | `MCProcessDoxygenXml.cfg` | pass | `TypeOK`, `VtableCoversMembers`, `OutputShape`, `ReportEventuallyPrinted` |
| refinement | `MCExport.cfg` | pass | `ExportSpec` (the script implements `SymbolExport`) |
| failed_docs | `MCFailedDocuments.cfg` | violation | `FailedDocumentsContributeNothing` (spec §7) |
| disjoint | `MCDisjointSets.cfg` | violation | `PublishedSuppressedDisjoint` (spec §3) |
| locationless | `MCLocationless.cfg` | violation | `LocationlessCompoundSkipped` (spec §7) |
| errors_stdout | `MCErrorsOffStdout.cfg` | violation | `ErrorsOffStdout` (spec §6) |

**walk** passes with about 71,000 distinct states.

- **`VtableCoversMembers`** says that a class member or thunk is published only together with its class's vtable and typeinfo. This must hold across documents: a class can be published in one document and private in another. It holds because of the `if publish` at line 554. The spec's §8 and §9 say the opposite of the code here: that a private class's public static members are still evaluated. The mutant `ClassMembersAlways` follows the spec's reading, and TLC then breaks the property.
- **`OutputShape`** says what stdout holds, in order:
  - at most one `Error:` line per argument, because the `except` of lines 568-569 ends that document;
  - the error lines in the order of argv;
  - nothing else before the run is done;
  - when it is done, the help text alone (lines 559-561), or else the report of line 574 as the last entry, printed only after every argument of argv was tried (`doc = nargs + 1`).

  It is broken by the mutant `AbortDocumentRetry`, where the failed argument is tried again instead of the loop moving on.
- **`ReportEventuallyPrinted`** says that once there are arguments and no help flag, the report is printed however many documents fail. It is broken by the mutant `AbortRun`, where an exception ends the run.
- **`TypeOK`** includes the bound on the document index. It is broken by the mutant `ParseDocumentPastEnd`, an off-by-one in the argument loop.

**refinement** passes on the same instance. Every step of the script is a `Record` step, an `Emit` step or a stutter of `SymbolExport`. It is broken by the mutant `ReportLastWins`: `_report` taking a reclassified symbol out of the other set, the "last classification wins" that spec §3 mentions. With that mutant, a class that is public in one document and private in the next leaves the published set, and the order of the arguments would then decide the output.

Each violation run checks one statement of the spec and finds the counterexample the code produces:

- **failed_docs:** a member with no `virt` attribute is reported at line 485 and then raises at line 487. Its symbol stays published even though its document failed.
- **disjoint:** a private virtual and a private non-virtual operator of one class become one symbol, which lands in both sets.
- **locationless:** the `TypeError` at line 538 ends the document.
- **errors_stdout:** any failing document puts an error line on stdout.

`PROJECT.json` records each as a finding.

**Why the bounds suffice.** Every property is about at most two documents, one compound each, and two members, in any order. Examples:

- a class published in one document and private in the other;
- two operator overloads in one class;
- a failure after a report.

Each of these needs exactly these bounds. More compounds per document only repeat the same cases. Each representative member and compound takes a different outcome of the walker and the classifier, and together they reach every outcome: skip, abort with each cause, publish and suppress. Some branches that lead to an outcome already covered have no representative: an enum or typedef member, `inline="yes"`, a templated member or compound, and a static class member. The proofs cover every value of the constants, and so those branches too.

**Fairness.** `WF_vars(Next)`: the script is one sequential loop, and while it has not reached the end some step is always enabled. `CHECK_DEADLOCK FALSE` is set because the script stops at `pc = "done"` after printing.

## 4. Proofs

`ProcessDoxygenXmlProofs.tla` is checked with `tlapm` for all values of the constants. It assumes only `ConstantsAssumption` and `BoundsAssumption`.

- **`TypeCorrect`**: `Spec => []TypeOK`. `TypeOK` is not inductive on its own, because an action can only move `doc` within range if it knows the current document is a real argument. The strengthening `TypeInv` adds two facts: `doc <= nargs + 1`, and while walking a document, `doc <= nargs`. The proof uses lemmas on the symbol helpers (`MarkedSymbol`, `MemberSymbolType`, `ClassSymbolType`, `ReportType`) and proves one step per action.
- **`VtableCoversMembersHolds`**: `Spec => []VtableCoversMembers`. The invariant alone is not inductive. The strengthening `WalkInv` states the loop context:
  - while walking members with `is_class`, the context's vtable and typeinfo are already public;
  - while walking with `~is_class`, the context is not a class name. This relies on the assumption that namespace and other compound names are not class names.

  `ParseMemberDef` adds only symbols of the current context, and `Report` only grows the sets (lemma `CoverGrows`). So each step keeps the invariant. The proof has one case for each disjunct of `ParseCompoundDef`.

`ExportRefinementProofs.tla` proves **`ExportRefinement`**: `Spec => ExportSpec`, the refinement for every value of the constants. The invariant it rests on is `RefInv`:
- `CoverInv` above;
- `SymbolsWritten`: no symbol in `SYMBOLS` has a destructor name (lemma `MarkedWritten` for line 69);
- the report is last on stdout only when `pc = "done"`.

The step proof splits in two:
- The report step is `Emit` (`ReportMaps`).
- Every other step is `Record` (`StepMaps`). This rests on `StepShape`: such a step leaves `SYMBOLS` alone or calls `_report` (lemma `ReportGrows`), and appends to stdout nothing or an entry that is not the report.

The lemma `InstanceSame` equates the operators that `SymbolExport` takes from `SymbolClassifier` with the ones the script uses.

`OutputProofs.tla` proves **`OutputShapeHolds`**: `Spec => []OutputShape`. `OutputShape` is not inductive: an abort appends an error for `doc`, and the proof must know that every earlier error names a smaller argument. The strengthening `OutInv` adds four facts to `TypeInv`:
- stdout is empty before the first step;
- the loop runs only with arguments and no help flag;
- every error line names an argument below `doc`;
- `OutputShape` itself, whose third conjunct says that stdout holds only errors while the loop runs.

TLC checked `OutInv` as an invariant of the walk instance before it was proved. The step proof uses three lemmas:
- `AbortOutInv`: the `except` keeps `OutInv`, since the new error's argument `doc` is above every earlier one and below `doc + 1`;
- `QuietOutInv`: a step that leaves stdout alone inside the loop keeps it;
- `CompoundOut` and `MemberOut`: every compound or member step is one of those two.

The report step closes the loop. It comes after errors only, with arguments and no help flag, so the report is the last entry. Its guard `doc > nargs` and the bound `doc <= nargs + 1` of `TypeInv` give `doc = nargs + 1`. The last conjunct of `OutputShape` is the safety half of `ReportEventuallyPrinted`: if the run ends, it ends with the report.

Out of the prover's reach, and checked by TLC only:

- the liveness property `ReportEventuallyPrinted`, which needs temporal reasoning under fairness and `ENABLED`; its safety half is proved as part of `OutputShape`;
- the violation runs.

## 5. Not modelled

- **Debug printing:** dead code.
- **Text layout:**
  - The exact text of `OLD_STANZAS`, the help text and the error messages are abstracted. Only which symbols sit in the baseline matters to the properties.
  - Output order: `sorted` only fixes the order of the new stanza's lines, and no property is about order.
- **XML parsing:** minidom is an external collaborator. Its failure is the `ParseFails` action.

## 6. Plan for later work

1. **A run with two compounds per document.** Members of one compound would then follow another in the same document.
2. **Liveness in `SymbolExport`** (the report is eventually emitted once processing started). This needs a flag for the help path.

The pure-virtual test of line 509 reads the argsstring while the thunk decision at line 487 reads `virt`. Doxygen writes `=0` at the end of the argsstring of exactly the functions it marks `virt="pure-virtual"`, so the two cannot disagree on doxygen's output. The model's members keep them consistent, and no hazard is listed for it.
