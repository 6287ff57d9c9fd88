-------------------------- MODULE OptionsResearch --------------------------
(***************************************************************************)
(* The two kinds of options backtests the commands offer: on daily chains   *)
(* (OptionsStudy) and on the minutes of a session (ZeroDte).  A command     *)
(* runs one of them.                                                        *)
(***************************************************************************)
EXTENDS OptionsStudy, ZeroDte

VARIABLE command    \* "daily" or "zero_dte"

researchVars == <<command, allVars, zvars>>

(* The one that does not run stays as one of its initial states. *)
ResearchInit ==
    /\ StudyInit /\ ZeroDteInit
    /\ \/ command = "daily" /\ session = CHOOSE s \in Sessions : TRUE
       \/ command = "zero_dte" /\ study = CHOOSE s \in Studies : TRUE

ResearchNext ==
    /\ \/ command = "daily" /\ StudyNext /\ UNCHANGED zvars
       \/ command = "zero_dte" /\ ZeroDteNext /\ UNCHANGED allVars
    /\ UNCHANGED command

ResearchSpec == ResearchInit /\ [][ResearchNext]_researchVars
=============================================================================
