-------------------------- MODULE SymbolClassifier --------------------------
(***************************************************************************)
(* The data of src/scripts/process_doxygen_xml.py and its pure decisions.  *)
(*                                                                         *)
(* A <memberdef> or <compounddef> element is abstracted to a record of the *)
(* attributes and child elements the script reads.  An attribute that the *)
(* XML lacks is Missing: reading it raises KeyError in the script.  Names  *)
(* are abstracted to what the script tells apart: an ordinary identifier,  *)
(* a destructor "~X", an operator "operatorX" and the doxygen artifact     *)
(* "__attribute__".  A symbol is the string the script builds, kept as a   *)
(* record of its form (the prefix), its context (compound name or None)    *)
(* and its member name; that encoding is injective on the strings the      *)
(* script builds, so set membership on records is membership on strings.   *)
(***************************************************************************)

CONSTANTS
    Ids,              \* identifier texts a member name is built from
    ClassNames,       \* <compoundname> of class and struct compounds
    NsNames,          \* <compoundname> of namespace compounds
    OtherNames,       \* <compoundname> of compounds of any other kind
    Toolkit,          \* compound names whose symbols contain "miral::toolkit::"
    BaselineLines,    \* symbols s such that "    s;" is a line of OLD_STANZAS
    BaselineComments, \* symbols s such that "    s;" occurs in OLD_STANZAS only
                      \* inside a commented-out line "#    s;"
    Members,          \* the <memberdef> elements an input may contain
    Compounds,        \* the <compounddef> elements an input may contain
    None,             \* Python's None
    Missing           \* an attribute or child element the XML lacks

Contexts == ClassNames \cup NsNames \cup OtherNames

(* <name> texts.  "ident": an ordinary name; "dtor": "~" followed by id;   *)
(* "operator": "operator" followed by id (the operator's spelling);        *)
(* "attribute": the text "__attribute__"; "marked": "?" followed by id,    *)
(* which only arises from the script's replace('~', '?').                  *)
NameKinds == {"ident", "dtor", "operator", "attribute", "marked"}
Names == [k : NameKinds, id : Ids \cup {None}]

MemberKinds == {"function", "variable", "enum", "typedef", "define", "friend"}
Prots == {"public", "protected", "private", "package"}
Virts == {"non-virtual", "virtual", "pure-virtual"}
YesNo == {"yes", "no"}

(* <argsstring>: absent ("none"), a text not ending in "=0" ("plain"), or  *)
(* a text ending in "=0" ("pure").                                         *)
ArgsStrings == {"none", "plain", "pure"}

MemberRecord ==
    [kind : MemberKinds, name : Names, prot : Prots \cup {Missing},
     static : YesNo \cup {Missing}, virt : Virts \cup {Missing},
     inline : YesNo \cup {Missing}, templ : BOOLEAN, args : ArgsStrings]

CompoundKinds == {"class", "struct", "union", "namespace", "group", "file",
                  "page", "example", "dir", "interface"}

(* The file attribute of <location>: an ordinary header, a path with       *)
(* "/examples/" or "/test/", the pseudo files "[generated]" and "[STL]",   *)
(* or Missing when the compound has no <location> child.                  *)
Locations == {"header", "examples", "test", "generated", "STL", Missing}

CompoundRecord ==
    [kind : CompoundKinds, name : Contexts \cup {None},
     prot : Prots \cup {Missing}, location : Locations, templ : BOOLEAN]

ASSUME ConstantsAssumption ==
    /\ ClassNames \cap NsNames = {}
    /\ ClassNames \cap OtherNames = {}
    /\ NsNames \cap OtherNames = {}
    /\ None \notin Contexts \cup Ids
    /\ Missing \notin Contexts
    /\ Toolkit \subseteq Contexts
    /\ Members \subseteq MemberRecord
    /\ Compounds \subseteq CompoundRecord
    \* doxygen writes <name> texts and never the marker "?"
    /\ \A m \in Members : m.name.k # "marked"
    \* the compound name agrees with the compound's kind
    /\ \A c \in Compounds :
          /\ c.kind \in {"class", "struct"} => c.name \in ClassNames
          /\ c.kind = "namespace" => c.name \in NsNames
          /\ c.kind \in {"dir", "interface"} => c.name \in OtherNames

-----------------------------------------------------------------------------
(* Symbols.  form "member": context::name*; "thunk":                       *)
(* non-virtual?thunk?to?context::name*; "vtable": vtable?for?context;      *)
(* "typeinfo": typeinfo?for?context.                                       *)

Forms == {"member", "thunk", "vtable", "typeinfo"}
NoName == [k |-> "ident", id |-> None]
Symbols == [form : Forms, ctx : Contexts \cup {None}, name : Names]

(* _parse_member_def line 465: every operator collapses to "operator".     *)
NormalName(n) ==
    IF n.k = "operator" THEN [k |-> "operator", id |-> None] ELSE n

(* _parse_member_def lines 468-471 and 485.                                *)
MemberSymbol(context_name, n) ==
    [form |-> "member", ctx |-> context_name, name |-> NormalName(n)]

(* _parse_member_def line 488.                                             *)
Thunk(s) == [s EXCEPT !.form = "thunk"]

(* _parse_compound_defs lines 551-552.                                     *)
Vtable(c) == [form |-> "vtable", ctx |-> c, name |-> NoName]
Typeinfo(c) == [form |-> "typeinfo", ctx |-> c, name |-> NoName]

(* _report line 69: symbol.replace('~', '?').  Only a destructor name      *)
(* holds a "~".                                                            *)
Marked(s) ==
    IF s.name.k = "dtor" THEN [s EXCEPT !.name.k = "marked"] ELSE s

-----------------------------------------------------------------------------
(* _parse_member_def lines 451-463, in the order the script reads.         *)

(* Line 455 reads the inline attribute of a function that is neither an   *)
(* enum/typedef nor templated; a missing one raises KeyError.              *)
InlineKeyError(m) ==
    /\ m.kind = "function"
    /\ ~m.templ
    /\ m.inline = Missing

(* Lines 453-456 and 460-463: members that are not classified at all.      *)
IgnoredMember(m) ==
    \/ m.kind \in {"enum", "typedef"}
    \/ m.templ
    \/ m.kind = "function" /\ m.inline = "yes"
    \/ m.name.k = "attribute"

(* _should_publish lines 494-506: the decision before the argsstring test. *)
PublishBeforeArgs(is_class, is_function, m) ==
    /\ m.kind # "define"
    /\ is_class => (is_function \/ m.static = "yes")
    /\ m.prot = "private" => (is_function /\ m.virt = "virtual")

(* _should_publish raises KeyError: _get_attribs (line 492) reads static   *)
(* and prot; line 504 reads virt when the decision is still true for a     *)
(* private function.                                                       *)
ShouldPublishKeyError(is_class, is_function, m) ==
    \/ m.static = Missing
    \/ m.prot = Missing
    \/ /\ m.kind # "define"
       /\ is_class => (is_function \/ m.static = "yes")
       /\ m.prot = "private" /\ is_function /\ m.virt = Missing

(* _should_publish lines 491-511.                                          *)
ShouldPublish(is_class, is_function, m) ==
    /\ PublishBeforeArgs(is_class, is_function, m)
    /\ m.args # "pure"

-----------------------------------------------------------------------------
(* _print_report lines 437-440: a published symbol gets a line in the new  *)
(* stanza unless '    s;' is a substring of OLD_STANZAS or the line        *)
(* contains 'miral::toolkit::'.  In OLD_STANZAS every occurrence of        *)
(* "    s;" is a whole line or a line commented out with "#".              *)
InOldStanzas(s) == s \in BaselineLines \cup BaselineComments
InToolkit(s) == s.ctx \in Toolkit

NewStanza(published) ==
    {s \in published : ~InOldStanzas(s) /\ ~InToolkit(s)}

=============================================================================
