---------------------------- MODULE OutputProofs ----------------------------
(***************************************************************************)
(* Proof of OutputShape, what the script prints and in which order, for    *)
(* every value of the constants.                                           *)
(***************************************************************************)
EXTENDS ProcessDoxygenXmlProofs

USE BoundsAssumption DEF BoundsAssumption

(* OutputShape is not inductive: an abort must know that every error      *)
(* printed so far names an earlier argument than the current one, that   *)
(* stdout holds only errors while the loop runs, and that the loop runs    *)
(* only when there are arguments and no help flag.                         *)
OutInv ==
    /\ TypeInv
    /\ pc = "start" => stdout = <<>>
    /\ pc \in {"doc", "compounds", "members"} => nargs > 0 /\ ~help
    /\ \A i \in DOMAIN stdout :
          stdout[i].kind = "error" => stdout[i].arg \in 1..(doc - 1)
    /\ OutputShape

LEMMA InitOutInv == Init => OutInv
BY InitTypeInv DEF Init, OutInv, OutputShape

(* While the loop runs, stdout holds only error lines.                     *)
LEMMA OnlyErrors ==
    ASSUME OutInv, pc # "done", NEW i \in DOMAIN stdout
    PROVE  stdout[i].kind = "error"
BY DEF OutInv, OutputShape

(* The except clause of lines 568-569 keeps OutInv.                        *)
LEMMA AbortOutInv ==
    ASSUME OutInv, TypeInv', pc \in {"doc", "compounds", "members"},
           doc <= nargs, NEW e \in Causes, AbortDocument(e),
           UNCHANGED <<nargs, help>>
    PROVE  OutInv'
<1>. DEFINE s == stdout
            n == Len(stdout)
<1>1. s \in Seq(Output) /\ doc \in Nat /\ doc >= 1 /\ nargs \in Nat
  BY DEF OutInv, TypeInv, TypeOK
<1>2. /\ Len(s') = n + 1
      /\ \A i \in 1..n : s'[i] = s[i]
      /\ s'[n + 1] = ErrorLine(doc, e)
      /\ DOMAIN s' = 1..(n + 1)
  BY <1>1 DEF AbortDocument
<1>3. \A i \in 1..n : s[i].kind = "error" /\ s[i].arg \in 1..(doc - 1)
  BY OnlyErrors DEF OutInv
<1>4. \A i \in 1..(n + 1) : s'[i].kind = "error" /\ s'[i].arg \in 1..doc
  <2>. SUFFICES ASSUME NEW i \in 1..(n + 1)
                PROVE  s'[i].kind = "error" /\ s'[i].arg \in 1..doc
    OBVIOUS
  <2>1. CASE i = n + 1
    BY <1>1, <1>2, <2>1 DEF ErrorLine
  <2>2. CASE i # n + 1
    BY <1>1, <1>2, <1>3, <2>2
  <2>. QED
    BY <2>1, <2>2
<1>5. \A i, j \in 1..(n + 1) : i < j => s'[i].arg < s'[j].arg
  <2>. SUFFICES ASSUME NEW i \in 1..(n + 1), NEW j \in 1..(n + 1), i < j
                PROVE  s'[i].arg < s'[j].arg
    OBVIOUS
  <2>1. CASE j = n + 1
    BY <1>1, <1>2, <1>3, <2>1 DEF ErrorLine
  <2>2. CASE j # n + 1
    <3>1. i \in 1..n /\ j \in 1..n
      BY <1>1, <2>2
    <3>2. s'[i] = s[i] /\ s'[j] = s[j]
      BY <1>2, <3>1
    <3>3. s[i].kind = "error" /\ s[j].kind = "error" /\ i \in DOMAIN s /\ j \in DOMAIN s
      BY <1>1, <1>3, <3>1
    <3>4. s[i].arg < s[j].arg
      BY <3>3 DEF OutInv, OutputShape
    <3>. QED
      BY <3>2, <3>4
  <2>. QED
    BY <2>1, <2>2
<1>6. pc' = "doc" /\ doc' = doc + 1
  BY DEF AbortDocument
<1>7. (nargs > 0 /\ ~help)'
  BY DEF OutInv
<1>8. \A i \in DOMAIN s' :
         s'[i].kind = "error" => s'[i].arg \in 1..(doc' - 1)
  BY <1>1, <1>2, <1>4, <1>6
<1>9. \A i \in DOMAIN s' : s'[i].arg \in 1..nargs
  BY <1>1, <1>2, <1>4
<1>10. OutputShape'
  BY <1>2, <1>4, <1>5, <1>6, <1>9 DEF OutputShape
<1>. QED
  BY <1>6, <1>7, <1>8, <1>10 DEF OutInv

(* Each step of _parse_compound_defs either stays in the walk of the same  *)
(* document with stdout unchanged or ends the document with an error.      *)
LEMMA CompoundOut ==
    ASSUME NextCompound
    PROVE  \/ /\ UNCHANGED <<stdout, doc>>
              /\ pc' \in {"compounds", "members"}
           \/ \E e \in Causes : AbortDocument(e)
<1>. SUFFICES ASSUME NEW c \in Compounds, ParseCompoundDef(c), pc = "compounds"
              PROVE  \/ /\ UNCHANGED <<stdout, doc>>
                        /\ pc' \in {"compounds", "members"}
                     \/ \E e \in Causes : AbortDocument(e)
  BY DEF NextCompound
<1>1. ASSUME NEW publish, ClassMembers(publish, c.name)
      PROVE  pc' \in {"compounds", "members"}
  BY <1>1 DEF ClassMembers, EnterMembers
<1>. QED
  BY <1>1 DEF ParseCompoundDef, SkipCompound, EnterMembers, Causes

LEMMA MemberOut ==
    ASSUME NextMember
    PROVE  \/ /\ UNCHANGED <<stdout, doc>>
              /\ pc' = "members"
           \/ \E e \in Causes : AbortDocument(e)
BY DEF NextMember, ParseMemberDef, Causes

(* A step that leaves stdout alone and keeps the loop running, with doc    *)
(* not decreasing, keeps OutInv.                                           *)
LEMMA QuietOutInv ==
    ASSUME OutInv, TypeInv', pc \in {"doc", "compounds", "members"},
           pc' \in {"doc", "compounds", "members"},
           UNCHANGED <<stdout, nargs, help>>, doc <= doc', doc' \in Nat
    PROVE  OutInv'
<1>1. \A i \in DOMAIN stdout :
         stdout[i].kind = "error" => stdout[i].arg \in 1..(doc' - 1)
  BY DEF OutInv, TypeInv, TypeOK
<1>. QED
  BY <1>1 DEF OutInv, OutputShape

LEMMA NextOutInv == OutInv /\ [Next]_vars => OutInv'
<1>. SUFFICES ASSUME OutInv, [Next]_vars PROVE OutInv'
  OBVIOUS
<1>1. TypeInv'
  BY NextTypeInv DEF OutInv
<1>2. doc \in Nat /\ doc' \in Nat
  BY <1>1 DEF OutInv, TypeInv, TypeOK
<1>3. CASE PrintHelp
  <2>1. stdout' = <<HelpText>>
    BY <1>3 DEF PrintHelp, OutInv
  <2>2. HelpText.kind = "help"
    BY DEF HelpText
  <2>. QED
    BY <1>1, <1>3, <2>1, <2>2 DEF PrintHelp, OutInv, OutputShape
<1>4. CASE BeginProcessing
  BY <1>1, <1>4 DEF BeginProcessing, OutInv, OutputShape
<1>5. CASE ParseDocument \/ EndMembers \/ EndDocument
  BY <1>1, <1>2, <1>5, QuietOutInv DEF ParseDocument, EndMembers, EndDocument
<1>6. CASE ParseFails
  <2>1. "ParseError" \in Causes
    BY DEF Causes
  <2>. QED
    BY <1>1, <1>6, <2>1, AbortOutInv DEF ParseFails
<1>7. CASE NextCompound
  <2>1. pc = "compounds" /\ doc <= nargs /\ UNCHANGED <<nargs, help>>
    BY <1>7 DEF NextCompound, OutInv, TypeInv
  <2>. QED
    BY <1>1, <1>2, <1>7, <2>1, CompoundOut, QuietOutInv, AbortOutInv
<1>8. CASE NextMember
  <2>1. pc = "members" /\ doc <= nargs /\ UNCHANGED <<nargs, help>>
    BY <1>8 DEF NextMember, OutInv, TypeInv
  <2>. QED
    BY <1>1, <1>2, <1>8, <2>1, MemberOut, QuietOutInv, AbortOutInv
<1>9. CASE PrintReport
  <2>. DEFINE s == stdout
              n == Len(stdout)
  <2>1. s \in Seq(Output)
    BY DEF OutInv, TypeInv, TypeOK
  <2>2. /\ Len(s') = n + 1
        /\ \A i \in 1..n : s'[i] = s[i]
        /\ s'[n + 1].kind = "report"
        /\ DOMAIN s' = 1..(n + 1)
    BY <2>1, <1>9 DEF PrintReport, ReportText
  <2>3. \A i \in 1..n : s[i].kind = "error"
    BY <1>9, OnlyErrors DEF PrintReport
  <2>4. nargs > 0 /\ ~help /\ pc' = "done" /\ UNCHANGED <<nargs, help, doc>>
    BY <1>9 DEF PrintReport, OutInv
  <2>5. LastIsReport'
    BY <2>2 DEF LastIsReport
  <2>6. \A i \in DOMAIN s' \ {n + 1} : s'[i].kind = "error"
    BY <2>2, <2>3
  <2>7. doc' = nargs' + 1
    BY <1>9 DEF PrintReport, OutInv, TypeInv, TypeOK
  <2>8. OutputShape'
    BY <2>1, <2>2, <2>4, <2>5, <2>6, <2>7 DEF OutInv, OutputShape
  <2>9. \A i \in DOMAIN s' :
           s'[i].kind = "error" => s'[i].arg \in 1..(doc' - 1)
    BY <2>1, <2>2, <2>4 DEF OutInv
  <2>. QED
    BY <1>1, <2>4, <2>8, <2>9 DEF OutInv
<1>10. CASE UNCHANGED vars
  BY <1>1, <1>10 DEF vars, OutInv, OutputShape, LastIsReport
<1>. QED
  BY <1>3, <1>4, <1>5, <1>6, <1>7, <1>8, <1>9, <1>10 DEF Next

(* The script prints at most one error per argument, in argument order,    *)
(* and ends with the help text alone or with the report (checked by TLC   *)
(* as OutputShape).                                                        *)
THEOREM OutputShapeHolds == Spec => []OutputShape
<1>1. OutInv => OutputShape
  BY DEF OutInv
<1>. QED
  BY InitOutInv, NextOutInv, <1>1, PTL DEF Spec

=============================================================================
