------------------------ MODULE MCProcessDoxygenXml ------------------------
(***************************************************************************)
(* A small instance of ProcessDoxygenXml for TLC.  Two classes (one of     *)
(* them inside miral::toolkit), one namespace and one compound of another  *)
(* kind; one identifier, so that a destructor, two spellings of an         *)
(* operator and the __attribute__ artifact can name the same member.       *)
(***************************************************************************)
EXTENDS ProcessDoxygenXml

MCIds == {"a", "b"}
MCClassNames == {"C", "T"}
MCNsNames == {"N"}
MCOtherNames == {"O"}
MCToolkit == {"T"}

Mem(kind, name, prot, static, virt, inline, templ, args) ==
    [kind |-> kind, name |-> name, prot |-> prot, static |-> static,
     virt |-> virt, inline |-> inline, templ |-> templ, args |-> args]

X == [k |-> "ident", id |-> "a"]
Dtor == [k |-> "dtor", id |-> "a"]
OpA == [k |-> "operator", id |-> "a"]
OpB == [k |-> "operator", id |-> "b"]
Attr == [k |-> "attribute", id |-> None]

(* One <memberdef> for each way _parse_member_def can end: published with  *)
(* and without a thunk, suppressed (pure virtual, private non-virtual, a   *)
(* data member, a define), ignored, and each KeyError.  The two operators  *)
(* collapse to one symbol with opposite dispositions.                      *)
MCMembers ==
    { Mem("function", X, "public", "no", "non-virtual", "no", FALSE, "plain"),
      Mem("function", Dtor, "public", "no", "virtual", "no", FALSE, "plain"),
      Mem("function", OpA, "private", "no", "virtual", "no", FALSE, "plain"),
      Mem("function", OpB, "private", "no", "non-virtual", "no", FALSE, "plain"),
      Mem("function", X, "public", "no", "pure-virtual", "no", FALSE, "pure"),
      Mem("variable", X, "public", "no", Missing, Missing, FALSE, "plain"),
      Mem("define", X, "public", "no", Missing, Missing, FALSE, "none"),
      Mem("function", Attr, "public", "no", "non-virtual", "no", FALSE, "plain"),
      Mem("function", X, "public", "no", "non-virtual", Missing, FALSE, "plain"),
      Mem("function", X, Missing, "no", "non-virtual", "no", FALSE, "plain"),
      Mem("function", X, "public", "no", Missing, "no", FALSE, "plain") }

(* One <compounddef> for each way an iteration of _parse_compound_defs can *)
(* go; the same class C can be public in one document and private in       *)
(* another.                                                                *)
Cmp(kind, name, prot, location, templ) ==
    [kind |-> kind, name |-> name, prot |-> prot, location |-> location,
     templ |-> templ]

MCCompounds ==
    { Cmp("class", "C", "public", "header", FALSE),
      Cmp("class", "C", "private", "header", FALSE),
      Cmp("struct", "T", "public", "header", FALSE),
      Cmp("class", "C", Missing, "header", FALSE),
      Cmp("class", "C", "public", Missing, FALSE),
      Cmp("class", "C", "public", "test", FALSE),
      Cmp("namespace", "N", Missing, Missing, FALSE),
      Cmp("group", None, Missing, Missing, FALSE),
      Cmp("interface", "O", Missing, "header", FALSE),
      Cmp("file", None, Missing, "header", FALSE) }

(* OLD_STANZAS holds C's destructor and its vtable as entries, and         *)
(* N::a* only inside a commented-out line.                                 *)
MCBaselineLines ==
    {[form |-> "member", ctx |-> "C", name |-> [k |-> "marked", id |-> "a"]],
     [form |-> "vtable", ctx |-> "C", name |-> NoName]}
MCBaselineComments ==
    {[form |-> "member", ctx |-> "N", name |-> [k |-> "ident", id |-> "a"]]}

=============================================================================
