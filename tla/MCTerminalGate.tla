--------------------------- MODULE MCTerminalGate ---------------------------
(* A material mutation mission: three required obligations and a note.     *)
EXTENDS TerminalGate

MCBinds == [realized |-> "realization", integrity |-> "architecture",
            idempotency |-> "architecture"]
=============================================================================
