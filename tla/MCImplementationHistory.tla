---------------------- MODULE MCImplementationHistory ----------------------
(* Small instances of ImplementationHistory for TLC: every constant is given in the
   configuration. *)
EXTENDS ImplementationHistory

============================================================================
