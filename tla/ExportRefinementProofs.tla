----------------------- MODULE ExportRefinementProofs -----------------------
(***************************************************************************)
(* Proof that ProcessDoxygenXml implements SymbolExport under the mapping *)
(* Export, for every value of the constants.                               *)
(***************************************************************************)
EXTENDS ProcessDoxygenXmlProofs

USE BoundsAssumption DEF BoundsAssumption

(* The registry holds symbols as _report writes them, and the report is   *)
(* only last on stdout once the script is done.  CoverInv gives the class *)
(* cover of the published set.                                             *)
SymbolsWritten == SYMBOLS.public \cup SYMBOLS.private \subseteq Export!Written

RefInv ==
    /\ CoverInv
    /\ SymbolsWritten
    /\ LastIsReport => pc = "done"

(* The operators SymbolExport takes from SymbolClassifier are the ones    *)
(* ProcessDoxygenXml uses.                                                 *)
LEMMA InstanceSame ==
    /\ \A P : Export!NewStanza(P) = NewStanza(P)
    /\ \A c : Export!Vtable(c) = Vtable(c) /\ Export!Typeinfo(c) = Typeinfo(c)
    /\ Export!Symbols = Symbols
BY DEF Export!NewStanza, NewStanza, Export!InOldStanzas, InOldStanzas,
       Export!InToolkit, InToolkit, Export!Vtable, Vtable, Export!Typeinfo,
       Typeinfo, Export!NoName, NoName, Export!Symbols, Symbols, Export!Forms,
       Forms, Export!Contexts, Contexts, Export!Names, Names, Export!NameKinds,
       NameKinds

(* The '~' replacement of line 69 leaves no destructor name.               *)
LEMMA MarkedWritten ==
    ASSUME NEW s \in Symbols
    PROVE  Marked(s) \in Export!Written
<1>1. s.name \in Names
  BY DEF Symbols
<1>2. Marked(s).name.k # "dtor"
  <2>1. CASE s.name.k = "dtor"
    BY <1>1, <2>1 DEF Marked, Names
  <2>2. CASE s.name.k # "dtor"
    BY <2>2 DEF Marked
  <2>. QED
    BY <2>1, <2>2
<1>. QED
  BY <1>2, MarkedSymbol, InstanceSame DEF Export!Written

(* _report only adds to SYMBOLS, and what it adds is written.             *)
LEMMA ReportGrows ==
    ASSUME NEW publish \in BOOLEAN, NEW syms \in SUBSET Symbols,
           SYMBOLS \in [public : SUBSET Symbols, private : SUBSET Symbols],
           SymbolsWritten, Report(publish, syms)
    PROVE  /\ SYMBOLS.public \subseteq SYMBOLS'.public
           /\ SYMBOLS.private \subseteq SYMBOLS'.private
           /\ SymbolsWritten'
<1>1. {Marked(s) : s \in syms} \subseteq Export!Written
  BY MarkedWritten
<1>. QED
  BY <1>1 DEF Report, SymbolsWritten

(* Apart from the report, every step leaves SYMBOLS alone or calls         *)
(* _report, and appends to stdout nothing or an entry that is not the      *)
(* report; and no step starts from pc = "done".                            *)
StepShape ==
    /\ pc # "done"
    /\ \/ stdout' = stdout
       \/ \E o \in Output : o.kind # "report" /\ stdout' = Append(stdout, o)
    /\ \/ UNCHANGED SYMBOLS
       \/ \E publish \in BOOLEAN, syms \in SUBSET Symbols : Report(publish, syms)

LEMMA AbortShape ==
    ASSUME TypeInv, doc <= nargs, NEW e \in Causes, AbortDocument(e)
    PROVE  \E o \in Output : o.kind # "report" /\ stdout' = Append(stdout, o)
<1>1. ErrorLine(doc, e) \in Output
  BY DEF TypeInv, TypeOK, ErrorLine, Output
<1>. QED
  BY <1>1 DEF AbortDocument, ErrorLine

LEMMA CompoundShape ==
    ASSUME TypeInv, NextCompound
    PROVE  StepShape
<1>. SUFFICES ASSUME NEW c \in Compounds, ParseCompoundDef(c), pc = "compounds"
              PROVE  StepShape
  BY DEF NextCompound
<1>1. c.name \in Contexts \cup {None}
  BY ConstantsAssumption DEF CompoundRecord
<1>2. {Vtable(c.name), Typeinfo(c.name)} \in SUBSET Symbols
  BY <1>1, ClassSymbolType
<1>3. doc <= nargs
  BY DEF TypeInv
<1>4. (c.prot # "private") \in BOOLEAN
  OBVIOUS
<1>5. \/ stdout' = stdout
      \/ \E e \in Causes : AbortDocument(e)
  BY DEF ParseCompoundDef, SkipCompound, Causes
<1>6. \/ UNCHANGED SYMBOLS
      \/ Report(c.prot # "private", {Vtable(c.name), Typeinfo(c.name)})
  BY DEF ParseCompoundDef, SkipCompound
<1>. QED
  BY <1>2, <1>3, <1>4, <1>5, <1>6, AbortShape DEF StepShape

LEMMA MemberShape ==
    ASSUME TypeInv, NextMember
    PROVE  StepShape
<1>. SUFFICES ASSUME NEW m \in Members, ParseMemberDef(m), pc = "members"
              PROVE  StepShape
  BY DEF NextMember
<1>. DEFINE sym == MemberSymbol(context_name, m.name)
            pub == ShouldPublish(is_class, m.kind = "function", m)
<1>1. /\ sym \in Symbols /\ Thunk(sym) \in Symbols
  BY ConstantsAssumption, MemberSymbolType DEF MemberRecord, TypeInv, TypeOK
<1>2. pub \in BOOLEAN
  BY DEF ShouldPublish, PublishBeforeArgs
<1>3. doc <= nargs
  BY DEF TypeInv
<1>4. \/ stdout' = stdout
      \/ \E e \in Causes : AbortDocument(e)
  BY DEF ParseMemberDef, Causes
<1>5. \/ UNCHANGED SYMBOLS
      \/ Report(pub, {sym})
      \/ Report(pub, {sym} \cup IF m.kind = "function" /\ m.virt = "virtual"
                                THEN {Thunk(sym)} ELSE {})
  BY DEF ParseMemberDef
<1>6. /\ {sym} \in SUBSET Symbols
      /\ ({sym} \cup IF m.kind = "function" /\ m.virt = "virtual"
                     THEN {Thunk(sym)} ELSE {}) \in SUBSET Symbols
  BY <1>1
<1>. QED
  BY <1>2, <1>3, <1>4, <1>5, <1>6, AbortShape DEF StepShape

LEMMA NextShape ==
    ASSUME TypeInv, Next, ~PrintReport
    PROVE  StepShape
<1>1. HelpText \in Output /\ HelpText.kind # "report"
  BY DEF HelpText, Output
<1>2. CASE PrintHelp
  BY <1>1, <1>2 DEF PrintHelp, StepShape
<1>3. CASE ParseFails
  BY <1>3, AbortShape DEF ParseFails, StepShape, Causes, AbortDocument
<1>4. CASE BeginProcessing \/ ParseDocument \/ EndMembers \/ EndDocument
  BY <1>4 DEF BeginProcessing, ParseDocument, EndMembers, EndDocument, StepShape
<1>. QED
  BY <1>2, <1>3, <1>4, CompoundShape, MemberShape DEF Next

(* A step that is not the report keeps the report off the end of stdout.   *)
LEMMA NotLastReport ==
    ASSUME stdout \in Seq(Output), ~LastIsReport, StepShape
    PROVE  ~LastIsReport'
BY DEF LastIsReport, StepShape

-----------------------------------------------------------------------------
LEMMA InitRefInv == Init => RefInv
BY InitCoverInv DEF Init, RefInv, SymbolsWritten, LastIsReport

LEMMA NextRefInv == RefInv /\ [Next]_vars => RefInv'
<1>. SUFFICES ASSUME RefInv, [Next]_vars PROVE RefInv'
  OBVIOUS
<1>1. CoverInv'
  BY NextCoverInv DEF RefInv
<1>2. stdout \in Seq(Output)
  BY DEF RefInv, CoverInv, TypeInv, TypeOK
<1>3. CASE PrintReport
  BY <1>1, <1>3 DEF PrintReport, RefInv, SymbolsWritten
<1>4. CASE Next /\ ~PrintReport
  <2>1. StepShape
    BY <1>4, NextShape DEF RefInv, CoverInv
  <2>2. ~LastIsReport
    BY <2>1 DEF RefInv, StepShape
  <2>3. ~LastIsReport'
    BY <1>2, <2>1, <2>2, NotLastReport
  <2>4. SymbolsWritten'
    BY <2>1, ReportGrows DEF StepShape, RefInv, CoverInv, TypeInv, TypeOK, SymbolsWritten
  <2>. QED
    BY <1>1, <2>3, <2>4 DEF RefInv
<1>5. CASE UNCHANGED vars
  BY <1>5 DEF vars, RefInv, CoverInv, TypeInv, TypeOK, VtableCoversMembers,
              WalkInv, SymbolsWritten, LastIsReport
<1>. QED
  BY <1>3, <1>4, <1>5

-----------------------------------------------------------------------------
LEMMA InitMaps == Init => Export!Init
BY DEF Init, Export!Init, LastIsReport

(* The report step of line 574 is Emit.                                    *)
LEMMA ReportMaps ==
    ASSUME RefInv, PrintReport
    PROVE  Export!Emit
<1>1. stdout \in Seq(Output)
  BY DEF RefInv, CoverInv, TypeInv, TypeOK
<1>2. ~LastIsReport
  BY DEF RefInv, PrintReport
<1>3. /\ LastIsReport'
      /\ stdout'[Len(stdout')].lines = NewStanza(SYMBOLS.public)
  BY <1>1 DEF PrintReport, LastIsReport, ReportText
<1>4. (IF LastIsReport THEN stdout[Len(stdout)].lines ELSE {})'
          = Export!NewStanza(SYMBOLS.public)
  BY <1>3, InstanceSame
<1>. QED
  BY <1>2, <1>3, <1>4 DEF PrintReport, Export!Emit

(* Every other step of the script is Record.                               *)
LEMMA StepMaps ==
    ASSUME RefInv, RefInv', Next, ~PrintReport
    PROVE  Export!Record
<1>1. StepShape
  BY NextShape DEF RefInv, CoverInv
<1>2. stdout \in Seq(Output)
  BY DEF RefInv, CoverInv, TypeInv, TypeOK
<1>3. ~LastIsReport /\ ~LastIsReport'
  BY <1>1, <1>2, NotLastReport DEF RefInv, StepShape
<1>4. /\ SYMBOLS.public \subseteq SYMBOLS'.public
      /\ SYMBOLS.private \subseteq SYMBOLS'.private
  BY <1>1, ReportGrows DEF StepShape, RefInv, CoverInv, TypeInv, TypeOK
<1>5. /\ SYMBOLS'.public \subseteq Export!Written
      /\ SYMBOLS'.private \subseteq Export!Written
  BY DEF RefInv, SymbolsWritten
<1>6. Export!ClassClosed(SYMBOLS'.public)
  BY InstanceSame DEF RefInv, CoverInv, VtableCoversMembers, Export!ClassClosed
<1>7. /\ (IF LastIsReport THEN stdout[Len(stdout)].lines ELSE {}) = {}
      /\ (IF LastIsReport THEN stdout[Len(stdout)].lines ELSE {})' = {}
  BY <1>3
<1>8. UNCHANGED <<LastIsReport,
                  IF LastIsReport THEN stdout[Len(stdout)].lines ELSE {}>>
  BY <1>3, <1>7 DEF LastIsReport
<1>. QED
  BY <1>3, <1>4, <1>5, <1>6, <1>8 DEF Export!Record

(* ProcessDoxygenXml implements SymbolExport: the registry only grows,     *)
(* stores no '~', keeps class members with their class's vtable and        *)
(* typeinfo, and the report is printed once from the final public set     *)
(* (checked by TLC as ExportSpec).                                         *)
THEOREM ExportRefinement == Spec => ExportSpec
<1>1. Spec => []RefInv
  BY InitRefInv, NextRefInv, PTL DEF Spec
<1>2. RefInv /\ RefInv' /\ [Next]_vars => [Export!Next]_Export!avars
  <2>. SUFFICES ASSUME RefInv, RefInv', [Next]_vars
                PROVE  [Export!Next]_Export!avars
    OBVIOUS
  <2>1. CASE PrintReport
    BY <2>1, ReportMaps DEF Export!Next
  <2>2. CASE Next /\ ~PrintReport
    BY <2>2, StepMaps DEF Export!Next
  <2>3. CASE UNCHANGED vars
    BY <2>3 DEF vars, Export!avars, LastIsReport
  <2>. QED
    BY <2>1, <2>2, <2>3
<1>. QED
  BY <1>1, <1>2, InitMaps, PTL DEF Spec, ExportSpec, Export!Spec

=============================================================================
