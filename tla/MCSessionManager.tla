-------------------------- MODULE MCSessionManager --------------------------
(* Instances of SessionManager: file systems a process may find. *)
EXTENDS SessionManager, TLC

CONSTANT todo

\* A session of version 1, one of version 2.
OldEntry(type) == Entry(type, Null, Null, Null, NoLabel)
Version1 == <<Header(1), OldEntry("other"), OldEntry("assistant")>>
Version2 == <<Header(2), Entry("other", 1, Null, Null, NoLabel),
              Entry("assistant", 2, 1, Null, NoLabel)>>

AnyVersion == {<<>>, 1 :> Version1, 1 :> Version2}
WithIds == {<<>>, 1 :> Version2}
=============================================================================
