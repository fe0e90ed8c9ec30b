----------------------------- MODULE MCMachine -----------------------------
(***************************************************************************)
(* Machine and its history on the default limits and a posted form with a  *)
(* negative low limit, which the getter returns as 65535: low above high.  *)
(***************************************************************************)
EXTENDS MachineHistory

MCForms == { [low |-> -1, high |-> 50, afterrun |-> 1] }

\* Below every limit, between the defaults, above both.
MCPM == {0, 60, 150}

============================================================================
