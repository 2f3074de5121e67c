---------------------- MODULE ProcessDoxygenXmlProofs ----------------------
(***************************************************************************)
(* Proofs about ProcessDoxygenXml for every value of the constants.        *)
(***************************************************************************)
EXTENDS ProcessDoxygenXml, TLAPS

(* The symbol builders of SymbolClassifier return symbols, and the '~'     *)
(* replacement keeps a symbol's form and context.                          *)
LEMMA MarkedSymbol ==
    ASSUME NEW s \in Symbols
    PROVE  /\ Marked(s) \in Symbols
           /\ Marked(s).form = s.form
           /\ Marked(s).ctx = s.ctx
BY DEF Marked, Symbols, Names, NameKinds

LEMMA MemberSymbolType ==
    ASSUME NEW ctx \in Contexts \cup {None}, NEW n \in Names
    PROVE  /\ MemberSymbol(ctx, n) \in Symbols
           /\ Thunk(MemberSymbol(ctx, n)) \in Symbols
           /\ MemberSymbol(ctx, n).form = "member"
           /\ Thunk(MemberSymbol(ctx, n)).form = "thunk"
           /\ MemberSymbol(ctx, n).ctx = ctx
           /\ Thunk(MemberSymbol(ctx, n)).ctx = ctx
BY DEF MemberSymbol, Thunk, NormalName, Symbols, Names, NameKinds, Forms

LEMMA ClassSymbolType ==
    ASSUME NEW c \in Contexts \cup {None}
    PROVE  /\ Vtable(c) \in Symbols /\ Typeinfo(c) \in Symbols
           /\ Vtable(c).form = "vtable" /\ Typeinfo(c).form = "typeinfo"
BY DEF Vtable, Typeinfo, NoName, Symbols, Names, NameKinds, Forms

(* _report keeps both sets of SYMBOLS within Symbols.                      *)
LEMMA ReportType ==
    ASSUME NEW publish \in BOOLEAN, NEW syms \in SUBSET Symbols,
           SYMBOLS \in [public : SUBSET Symbols, private : SUBSET Symbols],
           docPublic \subseteq Symbols,
           Report(publish, syms)
    PROVE  /\ SYMBOLS' \in [public : SUBSET Symbols, private : SUBSET Symbols]
           /\ docPublic' \subseteq Symbols
<1>1. {Marked(s) : s \in syms} \subseteq Symbols
  BY MarkedSymbol
<1>. QED
  BY <1>1 DEF Report

-----------------------------------------------------------------------------
(* TypeOK is not inductive: a document opened with doc <= nargs must keep *)
(* doc <= nargs while its compounds and members are read, so that the     *)
(* error line of an abort names an argument and the index ends at         *)
(* nargs + 1.                                                              *)
TypeInv ==
    /\ TypeOK
    /\ doc <= nargs + 1
    /\ pc \in {"compounds", "members"} => doc <= nargs

USE BoundsAssumption DEF BoundsAssumption

LEMMA InitTypeInv == Init => TypeInv
<1>. SUFFICES ASSUME Init PROVE TypeInv
  OBVIOUS
<1>1. SYMBOLS \in [public : SUBSET Symbols, private : SUBSET Symbols]
  BY DEF Init
<1>2. stdout \in Seq(Output)
  BY DEF Init
<1>3. doc \in 1..MaxDocs + 1 /\ doc <= nargs + 1
  BY DEF Init
<1>4. context_name \in Contexts \cup {None}
  BY DEF Init
<1>5. help \in BOOLEAN /\ is_class \in BOOLEAN
  BY DEF Init
<1>6. /\ pc \in {"start", "doc", "compounds", "members", "done"}
      /\ nargs \in 0..MaxDocs
      /\ ncomp \in 0..MaxCompounds /\ nmem \in 0..MaxMembers
      /\ docPublic \subseteq Symbols /\ okPublic \subseteq Symbols
  BY DEF Init
<1>7. TypeOK
  BY <1>1, <1>2, <1>3, <1>4, <1>5, <1>6 DEF TypeOK
<1>. QED
  BY <1>3, <1>7 DEF Init, TypeInv

LEMMA AbortType ==
    ASSUME TypeInv, pc \in {"doc", "compounds", "members"}, doc <= nargs,
           NEW e \in Causes, AbortDocument(e)
    PROVE  /\ stdout' \in Seq(Output)
           /\ doc' \in 1..MaxDocs + 1 /\ doc' <= nargs + 1
           /\ pc' = "doc"
<1>1. ErrorLine(doc, e) \in Output
  BY DEF TypeInv, TypeOK, ErrorLine, Output
<1>. QED
  BY <1>1 DEF AbortDocument, TypeInv, TypeOK

LEMMA CompoundTypeInv ==
    ASSUME TypeInv, NextCompound
    PROVE  TypeInv'
<1>. SUFFICES ASSUME NEW c \in Compounds, ParseCompoundDef(c),
                     pc = "compounds", ncomp < MaxCompounds,
                     ncomp' = ncomp + 1, UNCHANGED <<nargs, help, okPublic>>
              PROVE  TypeInv'
  BY DEF NextCompound
<1>1. c \in CompoundRecord
  BY ConstantsAssumption
<1>2. /\ c.name \in Contexts \cup {None}
      /\ {Vtable(c.name), Typeinfo(c.name)} \subseteq Symbols
  BY <1>1, ClassSymbolType DEF CompoundRecord
<1>3. ncomp' \in 0..MaxCompounds
  BY DEF TypeInv, TypeOK
<1>4. doc <= nargs
  BY DEF TypeInv
<1>5. ASSUME NEW e \in Causes, AbortDocument(e),
             UNCHANGED <<nmem, context_name, is_class, SYMBOLS, docPublic>>
      PROVE  TypeInv'
  BY <1>3, <1>4, <1>5, AbortType DEF TypeInv, TypeOK
<1>6. ASSUME NEW publish \in BOOLEAN, Report(publish, {Vtable(c.name), Typeinfo(c.name)}),
             ClassMembers(publish, c.name), UNCHANGED <<doc, stdout>>
      PROVE  TypeInv'
  <2>1. /\ SYMBOLS' \in [public : SUBSET Symbols, private : SUBSET Symbols]
        /\ docPublic' \subseteq Symbols
    BY <1>2, <1>6, ReportType DEF TypeInv, TypeOK
  <2>2. CASE publish
    BY <1>2, <1>3, <1>4, <1>6, <2>1, <2>2 DEF ClassMembers, EnterMembers, TypeInv, TypeOK
  <2>3. CASE ~publish
    BY <1>3, <1>4, <1>6, <2>1, <2>3 DEF ClassMembers, TypeInv, TypeOK
  <2>. QED
    BY <2>2, <2>3
<1>7. ASSUME NEW name \in Contexts \cup {None}, NEW cls \in BOOLEAN,
             EnterMembers(name, cls), UNCHANGED <<doc, SYMBOLS, stdout, docPublic>>
      PROVE  TypeInv'
  BY <1>3, <1>4, <1>7 DEF EnterMembers, TypeInv, TypeOK
<1>8. SkipCompound => TypeInv'
  BY <1>3 DEF SkipCompound, TypeInv, TypeOK
<1>. QED
  BY <1>2, <1>5, <1>6, <1>7, <1>8 DEF ParseCompoundDef, Causes

LEMMA MemberTypeInv ==
    ASSUME TypeInv, NextMember
    PROVE  TypeInv'
<1>. SUFFICES ASSUME NEW m \in Members, ParseMemberDef(m),
                     pc = "members", nmem < MaxMembers, nmem' = nmem + 1,
                     UNCHANGED <<nargs, help, ncomp, context_name, is_class, okPublic>>
              PROVE  TypeInv'
  BY DEF NextMember
<1>1. m \in MemberRecord
  BY ConstantsAssumption
<1>2. /\ MemberSymbol(context_name, m.name) \in Symbols
      /\ Thunk(MemberSymbol(context_name, m.name)) \in Symbols
  BY <1>1, MemberSymbolType DEF MemberRecord, TypeInv, TypeOK
<1>3. nmem' \in 0..MaxMembers
  BY DEF TypeInv, TypeOK
<1>4. doc <= nargs
  BY DEF TypeInv
<1>5. ASSUME NEW e \in Causes, AbortDocument(e),
             UNCHANGED <<SYMBOLS, docPublic>>
      PROVE  TypeInv'
  BY <1>3, <1>4, <1>5, AbortType DEF TypeInv, TypeOK
<1>6. ASSUME NEW publish \in BOOLEAN, NEW syms \in SUBSET Symbols,
             Report(publish, syms)
      PROVE  /\ SYMBOLS' \in [public : SUBSET Symbols, private : SUBSET Symbols]
             /\ docPublic' \subseteq Symbols
  BY <1>6, ReportType DEF TypeInv, TypeOK
<1>7. CASE UNCHANGED <<pc, doc, SYMBOLS, stdout, docPublic>>
  BY <1>3, <1>7 DEF TypeInv, TypeOK
<1>. DEFINE sym == MemberSymbol(context_name, m.name)
            pub == ShouldPublish(is_class, m.kind = "function", m)
<1>10. pub \in BOOLEAN
  BY DEF ShouldPublish, PublishBeforeArgs
<1>8. ASSUME Report(pub, {sym}), AbortDocument("KeyError")
      PROVE  TypeInv'
  <2>1. /\ SYMBOLS' \in [public : SUBSET Symbols, private : SUBSET Symbols]
        /\ docPublic' \subseteq Symbols
    BY <1>2, <1>6, <1>8, <1>10
  <2>2. /\ stdout' \in Seq(Output)
        /\ doc' \in 1..MaxDocs + 1 /\ doc' <= nargs + 1
        /\ pc' = "doc"
    BY <1>4, <1>8, AbortType DEF Causes
  <2>. QED
    BY <1>3, <2>1, <2>2 DEF TypeInv, TypeOK
<1>9. ASSUME Report(pub, {sym} \cup IF m.kind = "function" /\ m.virt = "virtual"
                                   THEN {Thunk(sym)} ELSE {}),
             UNCHANGED <<pc, doc, stdout>>
      PROVE  TypeInv'
  <2>1. ({sym} \cup IF m.kind = "function" /\ m.virt = "virtual"
                     THEN {Thunk(sym)} ELSE {}) \in SUBSET Symbols
    BY <1>2
  <2>2. /\ SYMBOLS' \in [public : SUBSET Symbols, private : SUBSET Symbols]
        /\ docPublic' \subseteq Symbols
    BY <1>6, <1>9, <1>10, <2>1
  <2>. QED
    BY <1>3, <1>9, <2>2 DEF TypeInv, TypeOK
<1>. QED
  BY <1>5, <1>7, <1>8, <1>9 DEF ParseMemberDef, Causes

LEMMA NextTypeInv == TypeInv /\ [Next]_vars => TypeInv'
<1>. SUFFICES ASSUME TypeInv, [Next]_vars PROVE TypeInv'
  OBVIOUS
<1>1. CASE PrintHelp
  <2>1. HelpText \in Output
    BY DEF HelpText, Output
  <2>. QED
    BY <1>1, <2>1 DEF PrintHelp, TypeInv, TypeOK
<1>2. CASE BeginProcessing
  BY <1>2 DEF BeginProcessing, TypeInv, TypeOK
<1>3. CASE ParseDocument
  BY <1>3 DEF ParseDocument, TypeInv, TypeOK
<1>4. CASE ParseFails
  BY <1>4, AbortType DEF ParseFails, TypeInv, TypeOK, Causes
<1>5. CASE NextCompound
  BY <1>5, CompoundTypeInv
<1>6. CASE NextMember
  BY <1>6, MemberTypeInv
<1>7. CASE EndMembers
  BY <1>7 DEF EndMembers, TypeInv, TypeOK
<1>8. CASE EndDocument
  BY <1>8 DEF EndDocument, TypeInv, TypeOK
<1>9. CASE PrintReport
  <2>1. NewStanza(SYMBOLS.public) \subseteq Symbols
    BY DEF NewStanza, TypeInv, TypeOK
  <2>2. ReportText(NewStanza(SYMBOLS.public)) \in Output
    BY <2>1 DEF ReportText, Output
  <2>. QED
    BY <1>9, <2>2 DEF PrintReport, TypeInv, TypeOK
<1>10. CASE UNCHANGED vars
  BY <1>10 DEF vars, TypeInv, TypeOK
<1>. QED
  BY <1>1, <1>2, <1>3, <1>4, <1>5, <1>6, <1>7, <1>8, <1>9, <1>10 DEF Next

(* Every reachable state is well typed (checked by TLC as TypeOK).         *)
THEOREM TypeCorrect == Spec => []TypeOK
<1>1. TypeInv => TypeOK
  BY DEF TypeInv
<1>. QED
  BY InitTypeInv, NextTypeInv, <1>1, PTL DEF Spec

-----------------------------------------------------------------------------
(* VtableCoversMembers.  It is not inductive by itself: a member step adds *)
(* a symbol with the current context, so while members are walked the     *)
(* context of a class must already have its vtable and typeinfo published *)
(* (they were reported just before EnterMembers), and a context that is   *)
(* not walked as a class must not be a class name.                        *)
WalkInv ==
    /\ pc = "members" /\ is_class =>
          {Vtable(context_name), Typeinfo(context_name)} \subseteq SYMBOLS.public
    /\ pc = "members" /\ ~is_class => context_name \notin ClassNames

CoverInv == TypeInv /\ VtableCoversMembers /\ WalkInv

(* Adding to the published set symbols that keep the cover condition     *)
(* keeps VtableCoversMembers.                                              *)
LEMMA CoverGrows ==
    ASSUME NEW P, NEW Q, P \subseteq Q,
           \A s \in P : s.form \in {"member", "thunk"} /\ s.ctx \in ClassNames =>
                          {Vtable(s.ctx), Typeinfo(s.ctx)} \subseteq P,
           \A s \in Q \ P : s.form \in {"member", "thunk"} /\ s.ctx \in ClassNames =>
                              {Vtable(s.ctx), Typeinfo(s.ctx)} \subseteq Q
    PROVE  \A s \in Q : s.form \in {"member", "thunk"} /\ s.ctx \in ClassNames =>
                         {Vtable(s.ctx), Typeinfo(s.ctx)} \subseteq Q
OBVIOUS

LEMMA InitCoverInv == Init => CoverInv
BY InitTypeInv DEF Init, CoverInv, VtableCoversMembers, WalkInv

(* The published vtable and typeinfo of a class are not form "member" or  *)
(* "thunk" and need no cover themselves.                                   *)
LEMMA ClassReportCover ==
    ASSUME NEW c \in Contexts \cup {None}
    PROVE  /\ Marked(Vtable(c)) = Vtable(c)
           /\ Marked(Typeinfo(c)) = Typeinfo(c)
BY DEF Marked, Vtable, Typeinfo, NoName

LEMMA CompoundCoverInv ==
    ASSUME CoverInv, NextCompound
    PROVE  CoverInv'
<1>. SUFFICES ASSUME NEW c \in Compounds, ParseCompoundDef(c),
                     pc = "compounds", UNCHANGED <<nargs, help, okPublic>>
              PROVE  VtableCoversMembers' /\ WalkInv'
  BY CompoundTypeInv DEF NextCompound, CoverInv
<1>1. c \in CompoundRecord
  BY ConstantsAssumption
<1>2. c.name \in Contexts \cup {None}
  BY <1>1 DEF CompoundRecord
<1>3. ASSUME pc' # "members", UNCHANGED SYMBOLS
      PROVE  VtableCoversMembers' /\ WalkInv'
  BY <1>3 DEF CoverInv, VtableCoversMembers, WalkInv
<1>4. ASSUME NEW name, NEW cls \in BOOLEAN, EnterMembers(name, cls),
             UNCHANGED SYMBOLS, name \notin ClassNames, ~cls
      PROVE  VtableCoversMembers' /\ WalkInv'
  BY <1>4 DEF EnterMembers, CoverInv, VtableCoversMembers, WalkInv
<1>5. ASSUME NEW publish \in BOOLEAN,
             Report(publish, {Vtable(c.name), Typeinfo(c.name)}),
             ClassMembers(publish, c.name)
      PROVE  VtableCoversMembers' /\ WalkInv'
  <2>1. /\ Marked(Vtable(c.name)) = Vtable(c.name)
        /\ Marked(Typeinfo(c.name)) = Typeinfo(c.name)
    BY <1>2, ClassReportCover
  <2>2. SYMBOLS'.public = IF publish
                          THEN SYMBOLS.public \cup {Vtable(c.name), Typeinfo(c.name)}
                          ELSE SYMBOLS.public
    BY <1>5, <2>1 DEF Report, CoverInv, TypeInv, TypeOK
  <2>3. VtableCoversMembers'
    <3>1. \A s \in SYMBOLS'.public \ SYMBOLS.public :
             s.form \in {"vtable", "typeinfo"}
      BY <2>2 DEF Vtable, Typeinfo
    <3>. QED
      BY <2>2, <3>1, CoverGrows DEF CoverInv, VtableCoversMembers
  <2>4. CASE publish
    <3>1. pc' = "members" /\ is_class' = TRUE /\ context_name' = c.name
      BY <2>4, <1>5 DEF ClassMembers, EnterMembers
    <3>. QED
      BY <2>2, <2>3, <2>4, <3>1 DEF WalkInv
  <2>5. CASE ~publish
    <3>1. pc' = "compounds"
      BY <2>5, <1>5 DEF ClassMembers
    <3>. QED
      BY <2>3, <3>1 DEF WalkInv
  <2>. QED
    BY <2>4, <2>5
<1>6. None \notin ClassNames
  BY ConstantsAssumption DEF Contexts
<1>. DEFINE skipped == {"page", "file", "example", "union", "group", "namespace"}
<1>7. CASE c.kind \in {"page", "file", "example", "union"} /\ SkipCompound
  BY <1>3, <1>7 DEF SkipCompound
<1>8. CASE c.kind = "group" /\ EnterMembers(None, FALSE)
           /\ UNCHANGED <<doc, SYMBOLS, stdout, docPublic>>
  BY <1>4, <1>6, <1>8
<1>9. CASE c.kind = "namespace" /\ EnterMembers(c.name, FALSE)
           /\ UNCHANGED <<doc, SYMBOLS, stdout, docPublic>>
  <2>1. c.name \notin ClassNames
    BY <1>9, ConstantsAssumption
  <2>. QED
    BY <1>4, <1>9, <2>1
<1>10. ASSUME NEW e, AbortDocument(e), UNCHANGED SYMBOLS
       PROVE  VtableCoversMembers' /\ WalkInv'
  BY <1>3, <1>10 DEF AbortDocument
<1>11. CASE c.kind \notin skipped /\ c.location # Missing
            /\ (c.location \in {"examples", "test", "generated", "STL"} \/ c.templ)
            /\ SkipCompound
  BY <1>3, <1>11 DEF SkipCompound
<1>12. CASE c.kind \notin skipped /\ ~(c.kind \in {"class", "struct"})
            /\ EnterMembers(c.name, FALSE)
            /\ UNCHANGED <<doc, SYMBOLS, stdout, docPublic>>
  <2>1. c.kind \in {"dir", "interface"}
    BY <1>1, <1>12 DEF CompoundRecord, CompoundKinds
  <2>2. c.name \notin ClassNames
    BY <2>1, ConstantsAssumption
  <2>. QED
    BY <1>4, <1>12, <2>2
<1>13. CASE c.kind \in {"class", "struct"} /\ Report(c.prot # "private", {Vtable(c.name), Typeinfo(c.name)})
            /\ ClassMembers(c.prot # "private", c.name)
  BY <1>5, <1>13
<1>. QED
  BY <1>7, <1>8, <1>9, <1>10, <1>11, <1>12, <1>13 DEF ParseCompoundDef

LEMMA MemberCoverInv ==
    ASSUME CoverInv, NextMember
    PROVE  CoverInv'
<1>. SUFFICES ASSUME NEW m \in Members, ParseMemberDef(m),
                     pc = "members",
                     UNCHANGED <<nargs, help, ncomp, context_name, is_class, okPublic>>
              PROVE  VtableCoversMembers' /\ WalkInv'
  BY MemberTypeInv DEF NextMember, CoverInv
<1>. DEFINE sym == MemberSymbol(context_name, m.name)
<1>1. m \in MemberRecord
  BY ConstantsAssumption
<1>2. /\ context_name \in Contexts \cup {None}
      /\ m.name \in Names
  BY <1>1 DEF CoverInv, TypeInv, TypeOK, MemberRecord
<1>3. ASSUME NEW publish \in BOOLEAN, NEW syms,
             syms \subseteq {sym, Thunk(sym)}, Report(publish, syms),
             pc' \in {"members", "doc"}
      PROVE  VtableCoversMembers' /\ WalkInv'
  <2>1. \A s \in syms : /\ Marked(s).form \in {"member", "thunk"}
                        /\ Marked(s).ctx = context_name
    BY <1>2, <1>3, MemberSymbolType, MarkedSymbol
  <2>2. SYMBOLS.public \subseteq SYMBOLS'.public
    BY <1>3 DEF Report, CoverInv, TypeInv, TypeOK
  <2>3. \A s \in SYMBOLS'.public \ SYMBOLS.public :
           s.form \in {"member", "thunk"} /\ s.ctx = context_name
    BY <1>3, <2>1 DEF Report, CoverInv, TypeInv, TypeOK
  <2>4. context_name \in ClassNames =>
           {Vtable(context_name), Typeinfo(context_name)} \subseteq SYMBOLS.public
    BY DEF CoverInv, WalkInv
  <2>5. VtableCoversMembers'
    BY <2>2, <2>3, <2>4, CoverGrows DEF CoverInv, VtableCoversMembers
  <2>6. WalkInv'
    BY <2>2, <2>4 DEF CoverInv, WalkInv
  <2>. QED
    BY <2>5, <2>6
<1>4. ShouldPublish(is_class, m.kind = "function", m) \in BOOLEAN
  BY DEF ShouldPublish, PublishBeforeArgs
<1>5. ASSUME UNCHANGED SYMBOLS
      PROVE  VtableCoversMembers' /\ WalkInv'
  BY <1>5 DEF CoverInv, VtableCoversMembers, WalkInv
<1>. QED
  BY <1>3, <1>4, <1>5 DEF ParseMemberDef, AbortDocument

LEMMA NextCoverInv == CoverInv /\ [Next]_vars => CoverInv'
<1>. SUFFICES ASSUME CoverInv, [Next]_vars PROVE CoverInv'
  OBVIOUS
<1>1. TypeInv'
  BY NextTypeInv DEF CoverInv
<1>2. CASE NextCompound
  BY <1>2, CompoundCoverInv
<1>3. CASE NextMember
  BY <1>3, MemberCoverInv
<1>4. CASE ~NextCompound /\ ~NextMember
  <2>1. (UNCHANGED SYMBOLS /\ pc' # "members") \/ UNCHANGED vars
    BY <1>4 DEF Next, PrintHelp, BeginProcessing, ParseDocument, ParseFails,
                EndMembers, EndDocument, PrintReport, AbortDocument
  <2>. QED
    BY <1>1, <2>1 DEF CoverInv, VtableCoversMembers, WalkInv, vars
<1>. QED
  BY <1>2, <1>3, <1>4

(* A member or thunk of a class is never exported without the class's      *)
(* vtable and typeinfo (checked by TLC as VtableCoversMembers).            *)
THEOREM VtableCoversMembersHolds == Spec => []VtableCoversMembers
<1>1. CoverInv => VtableCoversMembers
  BY DEF CoverInv
<1>. QED
  BY InitCoverInv, NextCoverInv, <1>1, PTL DEF Spec

=============================================================================
