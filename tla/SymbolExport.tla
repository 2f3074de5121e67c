---------------------------- MODULE SymbolExport ----------------------------
(***************************************************************************)
(* What src/scripts/process_doxygen_xml.py promises of the symbols it      *)
(* exports, without the walk that finds them.  The registry is two sets    *)
(* that only grow while documents are read; each symbol in them is         *)
(* already written with '?' in place of '~'; a member of a class is        *)
(* published only together with the class's vtable and typeinfo; and the   *)
(* report is printed once, at the end, from the final published set.       *)
(*                                                                         *)
(* ProcessDoxygenXml implements this specification under the refinement   *)
(* mapping Export defined there.                                           *)
(***************************************************************************)
EXTENDS SymbolClassifier

VARIABLES
    published,   \* SYMBOLS['public']
    suppressed,  \* SYMBOLS['private']
    printed,     \* the report has been printed
    report       \* the lines of the new stanza in the printed report

avars == <<published, suppressed, printed, report>>

(* A symbol as _report stores it: a destructor's "~" is already "?".       *)
Written == {s \in Symbols : s.name.k # "dtor"}

(* Each member or thunk of a class comes with its vtable and typeinfo.     *)
ClassClosed(P) ==
    \A s \in P : s.form \in {"member", "thunk"} /\ s.ctx \in ClassNames =>
                    {Vtable(s.ctx), Typeinfo(s.ctx)} \subseteq P

Init ==
    /\ published = {}
    /\ suppressed = {}
    /\ printed = FALSE
    /\ report = {}

(* Reading more of the input adds symbols to either set and never removes *)
(* one; this happens only before the report is printed.                    *)
Record ==
    /\ ~printed
    /\ published \subseteq published' /\ published' \subseteq Written
    /\ suppressed \subseteq suppressed' /\ suppressed' \subseteq Written
    /\ ClassClosed(published')
    /\ UNCHANGED <<printed, report>>

(* The report is printed once, from the published set as it then is.       *)
Emit ==
    /\ ~printed
    /\ printed' = TRUE
    /\ report' = NewStanza(published)
    /\ UNCHANGED <<published, suppressed>>

Next == Record \/ Emit

Spec == Init /\ [][Next]_avars

=============================================================================
