------------------------- MODULE ProcessDoxygenXml -------------------------
(***************************************************************************)
(* The run of src/scripts/process_doxygen_xml.py: the main loop over the   *)
(* argument files (lines 558-574), the walk of each document's compounds   *)
(* (_parse_compound_defs, lines 514-556) and of each compound's members    *)
(* (_parse_member_def, lines 450-488), the global registry SYMBOLS that    *)
(* _report fills (lines 68-74) and the final _print_report (lines          *)
(* 435-441).  DEBUG is False, so the debug prints are dead code.           *)
(*                                                                         *)
(* The input tree is read lazily: each step that takes the next            *)
(* <compounddef> or <memberdef> chooses it from Compounds or Members, which *)
(* is the same as fixing every input file in advance since each element   *)
(* is read once, in document order.  An exception ends the document        *)
(* (the try/except of lines 564-569) and the loop goes on with the next.   *)
(***************************************************************************)
EXTENDS SymbolClassifier, Naturals, Sequences

CONSTANTS
    MaxDocs,       \* bound on the number of file arguments
    MaxCompounds,  \* bound on the <compounddef> elements of a document
    MaxMembers     \* bound on the <memberdef> elements of a compound

ASSUME BoundsAssumption ==
    /\ MaxDocs \in Nat
    /\ MaxCompounds \in Nat
    /\ MaxMembers \in Nat

VARIABLES
    pc,            \* "start", "doc" (loop head), "compounds", "members", "done"
    nargs,         \* len(argv) - 1
    help,          \* '-h' or '--help' in argv
    doc,           \* index of the current argument in argv[1:]
    ncomp,         \* <compounddef> elements read in the current document
    nmem,          \* <memberdef> elements read in the current compound
    context_name,  \* the compound name passed to _parse_member_def
    is_class,      \* the is_class flag passed to _parse_member_def
    SYMBOLS,       \* the global dict {'public': set(), 'private': set()}
    stdout,        \* what the script prints, one entry per print
    docPublic,     \* ghost: symbols published by the current document
    okPublic       \* ghost: symbols published by documents that completed

vars == <<pc, nargs, help, doc, ncomp, nmem, context_name, is_class,
          SYMBOLS, stdout, docPublic, okPublic>>

(* The exceptions a document can end with: the parse error of minidom,     *)
(* KeyError for a missing attribute, TypeError for "'/examples/' in None". *)
Causes == {"ParseError", "KeyError", "TypeError"}

(* Printed entries: the help text, an "Error: arg error" line, and the     *)
(* report (OLD_STANZAS, the new stanza's lines, END_NEW_STANZA).           *)
Output ==
    [kind : {"help", "error", "report"}, arg : 0..MaxDocs,
     cause : Causes \cup {None}, lines : SUBSET Symbols]

HelpText == [kind |-> "help", arg |-> 0, cause |-> None, lines |-> {}]
ErrorLine(d, e) == [kind |-> "error", arg |-> d, cause |-> e, lines |-> {}]
ReportText(S) == [kind |-> "report", arg |-> 0, cause |-> None, lines |-> S]

-----------------------------------------------------------------------------
Init ==
    /\ pc = "start"
    /\ nargs \in 0..MaxDocs
    /\ help \in BOOLEAN
    /\ doc = 1
    /\ ncomp = 0
    /\ nmem = 0
    /\ context_name = None
    /\ is_class = FALSE
    /\ SYMBOLS = [public |-> {}, private |-> {}]
    /\ stdout = <<>>
    /\ docPublic = {}
    /\ okPublic = {}

(* Mutant: "last classification wins" (spec section 3): a symbol reported *)
(* with one disposition is taken out of the other set.                     *)
ReportLastWins(publish, syms) ==
    LET marked == {Marked(s) : s \in syms} IN
    /\ SYMBOLS' = IF publish
                  THEN [public |-> SYMBOLS.public \cup marked,
                        private |-> SYMBOLS.private \ marked]
                  ELSE [public |-> SYMBOLS.public \ marked,
                        private |-> SYMBOLS.private \cup marked]
    /\ docPublic' = IF publish THEN docPublic \cup marked ELSE docPublic \ marked

(* _report (lines 68-74), for a set of symbols with one disposition.       *)
Report(publish, syms) ==
    LET marked == {Marked(s) : s \in syms} IN
    /\ SYMBOLS' = IF publish THEN [SYMBOLS EXCEPT !.public = @ \cup marked]
                             ELSE [SYMBOLS EXCEPT !.private = @ \cup marked]
    /\ docPublic' = IF publish THEN docPublic \cup marked ELSE docPublic

(* Mutant: the exception ends the run instead of the document.             *)
AbortRun(e) ==
    /\ stdout' = Append(stdout, ErrorLine(doc, e))
    /\ doc' = doc + 1
    /\ pc' = "done"

(* Mutant: the failed argument is tried again (the index is not moved).   *)
AbortDocumentRetry(e) ==
    /\ stdout' = Append(stdout, ErrorLine(doc, e))
    /\ doc' = doc
    /\ pc' = "doc"

(* The except clause of lines 568-569: print the error, next argument.     *)
AbortDocument(e) ==
    /\ stdout' = Append(stdout, ErrorLine(doc, e))
    /\ doc' = doc + 1
    /\ pc' = "doc"

(* Lines 559-561: no argument or a help flag prints the help and exits.    *)
PrintHelp ==
    /\ pc = "start"
    /\ nargs = 0 \/ help
    /\ stdout' = Append(stdout, HelpText)
    /\ pc' = "done"
    /\ UNCHANGED <<nargs, help, doc, ncomp, nmem, context_name, is_class,
                   SYMBOLS, docPublic, okPublic>>

BeginProcessing ==
    /\ pc = "start"
    /\ nargs > 0 /\ ~help
    /\ pc' = "doc"
    /\ UNCHANGED <<nargs, help, doc, ncomp, nmem, context_name, is_class,
                   SYMBOLS, stdout, docPublic, okPublic>>

(* Mutant: the loop over argv[1:] runs one index too far.                  *)
ParseDocumentPastEnd ==
    /\ pc = "doc"
    /\ doc <= nargs + 1
    /\ pc' = "compounds"
    /\ ncomp' = 0
    /\ docPublic' = {}
    /\ UNCHANGED <<nargs, help, doc, nmem, context_name, is_class,
                   SYMBOLS, stdout, okPublic>>

(* Line 567: minidom.parse(arg) succeeds ...                               *)
ParseDocument ==
    /\ pc = "doc"
    /\ doc <= nargs
    /\ pc' = "compounds"
    /\ ncomp' = 0
    /\ docPublic' = {}
    /\ UNCHANGED <<nargs, help, doc, nmem, context_name, is_class,
                   SYMBOLS, stdout, okPublic>>

(* ... or raises (unreadable file, malformed XML).                         *)
ParseFails ==
    /\ pc = "doc"
    /\ doc <= nargs
    /\ AbortDocument("ParseError")
    /\ UNCHANGED <<nargs, help, ncomp, nmem, context_name, is_class,
                   SYMBOLS, docPublic, okPublic>>

(* The loop of line 516 runs out of <compounddef> elements.                *)
EndDocument ==
    /\ pc = "compounds"
    /\ pc' = "doc"
    /\ doc' = doc + 1
    /\ okPublic' = okPublic \cup docPublic
    /\ UNCHANGED <<nargs, help, ncomp, nmem, context_name, is_class,
                   SYMBOLS, stdout, docPublic>>

-----------------------------------------------------------------------------
(* _parse_compound_defs, one iteration of the loop of lines 516-556 up to  *)
(* its inner loop over the members.                                        *)

EnterMembers(name, cls) ==
    /\ pc' = "members"
    /\ nmem' = 0
    /\ context_name' = name
    /\ is_class' = cls

SkipCompound ==
    UNCHANGED <<pc, doc, nmem, context_name, is_class, SYMBOLS, stdout,
                docPublic>>

(* Mutant: the members of a private class are walked too (the reading of   *)
(* spec section 4.2).                                                      *)
ClassMembersAlways(publish, name) == EnterMembers(name, TRUE)

(* Lines 554-556 for a class or struct: its members are walked only when  *)
(* the class itself is published.                                          *)
ClassMembers(publish, name) ==
    IF publish THEN EnterMembers(name, TRUE)
               ELSE UNCHANGED <<pc, nmem, context_name, is_class>>

ParseCompoundDef(c) ==
    LET classlike == c.kind \in {"class", "struct"}
        publish == c.prot # "private"
    IN
    \* lines 519-520: pages, files, examples and unions
    \/ /\ c.kind \in {"page", "file", "example", "union"}
       /\ SkipCompound
    \* lines 522-525: group members have no context
    \/ /\ c.kind = "group"
       /\ EnterMembers(None, FALSE)
       /\ UNCHANGED <<doc, SYMBOLS, stdout, docPublic>>
    \* lines 527-531
    \/ /\ c.kind = "namespace"
       /\ EnterMembers(c.name, FALSE)
       /\ UNCHANGED <<doc, SYMBOLS, stdout, docPublic>>
    \* line 538: _get_file_location returned None: '/examples/' in None
    \/ /\ c.kind \notin {"page", "file", "example", "union", "group", "namespace"}
       /\ c.location = Missing
       /\ AbortDocument("TypeError")
       /\ UNCHANGED <<nmem, context_name, is_class, SYMBOLS, docPublic>>
    \* lines 538-540: examples, tests, generated, STL and templates
    \/ /\ c.kind \notin {"page", "file", "example", "union", "group", "namespace"}
       /\ c.location # Missing
       /\ c.location \in {"examples", "test", "generated", "STL"} \/ c.templ
       /\ SkipCompound
    \* lines 542-556 for the remaining compounds
    \/ /\ c.kind \notin {"page", "file", "example", "union", "group", "namespace"}
       /\ c.location = "header" /\ ~c.templ
       /\ \/ \* line 548: a class or struct without prot
             /\ classlike /\ c.prot = Missing
             /\ AbortDocument("KeyError")
             /\ UNCHANGED <<nmem, context_name, is_class, SYMBOLS, docPublic>>
          \/ \* lines 549-556
             /\ classlike /\ c.prot # Missing
             /\ Report(publish, {Vtable(c.name), Typeinfo(c.name)})
             /\ ClassMembers(publish, c.name)
             /\ UNCHANGED <<doc, stdout>>
          \/ \* lines 554-556 for any other kind: no prot, no vtable
             /\ ~classlike
             /\ EnterMembers(c.name, FALSE)
             /\ UNCHANGED <<doc, SYMBOLS, stdout, docPublic>>

NextCompound ==
    /\ pc = "compounds"
    /\ ncomp < MaxCompounds
    /\ ncomp' = ncomp + 1
    /\ \E c \in Compounds : ParseCompoundDef(c)
    /\ UNCHANGED <<nargs, help, okPublic>>

(* The inner loop of line 555 runs out of <memberdef> elements.            *)
EndMembers ==
    /\ pc = "members"
    /\ pc' = "compounds"
    /\ UNCHANGED <<nargs, help, doc, ncomp, nmem, context_name, is_class,
                   SYMBOLS, stdout, docPublic, okPublic>>

-----------------------------------------------------------------------------
(* _parse_member_def (lines 450-488) with _should_publish (491-511).       *)
ParseMemberDef(m) ==
    LET is_function == m.kind = "function"
        symbol == MemberSymbol(context_name, m.name)
        publish == ShouldPublish(is_class, is_function, m)
        classified == /\ ~InlineKeyError(m)
                      /\ ~IgnoredMember(m)
                      /\ ~ShouldPublishKeyError(is_class, is_function, m)
    IN
    \/ \* line 455: missing inline attribute
       /\ InlineKeyError(m)
       /\ AbortDocument("KeyError")
       /\ UNCHANGED <<SYMBOLS, docPublic>>
    \/ \* lines 456 and 463: early returns
       /\ ~InlineKeyError(m) /\ IgnoredMember(m)
       /\ UNCHANGED <<pc, doc, SYMBOLS, stdout, docPublic>>
    \/ \* line 483: _should_publish raises
       /\ ~InlineKeyError(m) /\ ~IgnoredMember(m)
       /\ ShouldPublishKeyError(is_class, is_function, m)
       /\ AbortDocument("KeyError")
       /\ UNCHANGED <<SYMBOLS, docPublic>>
    \/ \* line 485 reports, then line 487 reads a missing virt
       /\ classified
       /\ is_function /\ m.virt = Missing
       /\ Report(publish, {symbol})
       /\ AbortDocument("KeyError")
    \/ \* lines 485-488
       /\ classified
       /\ is_function => m.virt # Missing
       /\ Report(publish, {symbol} \cup
                  IF is_function /\ m.virt = "virtual" THEN {Thunk(symbol)}
                                                       ELSE {})
       /\ UNCHANGED <<pc, doc, stdout>>

NextMember ==
    /\ pc = "members"
    /\ nmem < MaxMembers
    /\ nmem' = nmem + 1
    /\ \E m \in Members : ParseMemberDef(m)
    /\ UNCHANGED <<nargs, help, ncomp, context_name, is_class, okPublic>>

(* Line 574: _print_report after the last argument.                        *)
PrintReport ==
    /\ pc = "doc"
    /\ doc > nargs
    /\ stdout' = Append(stdout, ReportText(NewStanza(SYMBOLS.public)))
    /\ pc' = "done"
    /\ UNCHANGED <<nargs, help, doc, ncomp, nmem, context_name, is_class,
                   SYMBOLS, docPublic, okPublic>>

Next ==
    \/ PrintHelp
    \/ BeginProcessing
    \/ ParseDocument
    \/ ParseFails
    \/ NextCompound
    \/ NextMember
    \/ EndMembers
    \/ EndDocument
    \/ PrintReport

(* The script is a single-threaded loop that runs to its end: every step   *)
(* that is enabled is eventually taken.                                    *)
Spec == Init /\ [][Next]_vars /\ WF_vars(Next)

-----------------------------------------------------------------------------
(* Properties.                                                             *)

(* Every variable has the type the script gives it; the document index    *)
(* never runs past the argument list.                                      *)
TypeOK ==
    /\ pc \in {"start", "doc", "compounds", "members", "done"}
    /\ nargs \in 0..MaxDocs
    /\ help \in BOOLEAN
    /\ doc \in 1..MaxDocs + 1
    /\ ncomp \in 0..MaxCompounds
    /\ nmem \in 0..MaxMembers
    /\ context_name \in Contexts \cup {None}
    /\ is_class \in BOOLEAN
    /\ SYMBOLS \in [public : SUBSET Symbols, private : SUBSET Symbols]
    /\ stdout \in Seq(Output)
    /\ docPublic \subseteq Symbols
    /\ okPublic \subseteq Symbols

ReportPrinted == \E i \in DOMAIN stdout : stdout[i].kind = "report"

(* The last entry printed is the report (line 574 is the script's last     *)
(* print).                                                                 *)
LastIsReport == stdout # <<>> /\ stdout[Len(stdout)].kind = "report"

(* The refinement mapping: the registry is SYMBOLS, the report is the last *)
(* entry of stdout once it is the report.                                  *)
Export == INSTANCE SymbolExport
            WITH published <- SYMBOLS.public,
                 suppressed <- SYMBOLS.private,
                 printed <- LastIsReport,
                 report <- IF LastIsReport THEN stdout[Len(stdout)].lines ELSE {}

(* The script implements SymbolExport: every step of _report only adds to  *)
(* SYMBOLS, stores no '~', keeps each exported class member with its      *)
(* class's vtable and typeinfo, and happens before the one report, which   *)
(* _print_report builds from the final SYMBOLS['public'].                  *)
ExportSpec == Export!Spec

(* A member of a class or struct is exported only together with the       *)
(* class's vtable and typeinfo: _parse_compound_defs walks the members of  *)
(* a class only after reporting its vtable and typeinfo as published (the  *)
(* "if publish" of line 554), in whatever document the member comes from.  *)
VtableCoversMembers ==
    \A s \in SYMBOLS.public :
        s.form \in {"member", "thunk"} /\ s.ctx \in ClassNames =>
            {Vtable(s.ctx), Typeinfo(s.ctx)} \subseteq SYMBOLS.public

(* The report is printed once every argument has been tried, however many *)
(* of the documents failed: the except clause of lines 568-569 keeps the   *)
(* loop going and line 574 runs after it (spec section 7).                 *)
ReportEventuallyPrinted ==
    (nargs > 0 /\ ~help) ~> ReportPrinted

(* What the script prints, in order: at most one "Error:" line per       *)
(* argument (the except clause of lines 568-569 ends the document), naming *)
(* the arguments in the order of argv; nothing else until the run is done; *)
(* and then the help text alone (lines 559-561) or, after the errors, the  *)
(* report of line 574 as the last entry, printed only once every argument  *)
(* of argv was tried.                                                      *)
OutputShape ==
    LET errs == {i \in DOMAIN stdout : stdout[i].kind = "error"} IN
    /\ \A i \in errs : stdout[i].arg \in 1..nargs
    /\ \A i, j \in errs : i < j => stdout[i].arg < stdout[j].arg
    /\ \A i \in DOMAIN stdout \ errs : i = Len(stdout) /\ pc = "done"
    /\ pc = "done" =>
          IF nargs = 0 \/ help THEN stdout = <<HelpText>>
                              ELSE LastIsReport /\ doc = nargs + 1

-----------------------------------------------------------------------------
(* Statements of the spec that the script does not keep (violation runs). *)

(* Spec section 7: "the final incremental script is ... built only from   *)
(* the documents that succeeded".  Every line of the new stanza names a    *)
(* symbol published by a document that was processed to its end.          *)
FailedDocumentsContributeNothing ==
    \A i \in DOMAIN stdout :
        stdout[i].kind = "report" => stdout[i].lines \subseteq okPublic

(* Spec section 3: "a symbol must never appear in both sets                *)
(* simultaneously"; _report adds to either set of SYMBOLS and never        *)
(* removes from the other.                                                 *)
PublishedSuppressedDisjoint ==
    SYMBOLS.public \cap SYMBOLS.private = {}

(* Spec section 7: a compound with no resolvable source file is non-fatal *)
(* and skipped, so no document is abandoned with the TypeError that line   *)
(* 538 raises on a None file name.                                         *)
LocationlessCompoundSkipped ==
    \A i \in DOMAIN stdout : stdout[i].cause # "TypeError"

(* Spec section 6: per-path errors go to a diagnostic stream and standard *)
(* output holds the version script only; line 569 prints them with the     *)
(* script.                                                                 *)
ErrorsOffStdout ==
    \A i \in DOMAIN stdout : stdout[i].kind # "error"

=============================================================================
