----------------------------- MODULE MCWorkspace -----------------------------
(* An instance of Workspace for TLC. *)
EXTENDS Workspace, TLC

CONSTANTS pa, pb   \* two processes

MCEdits ==
    pa :> <<"replace_expected", "create_file">> @@
    pb :> (2 :> "delete_file")

\* The exploration stops where a lease was stolen, since the exclusion of the
\* processes and the atomicity of their batches are not claimed from there on,
\* and at the third interference by the user, an operator and the disk.
FewDisturbances == ~stolen /\ userEdits + recoveries + Cardinality(errors) <= 2
=============================================================================
