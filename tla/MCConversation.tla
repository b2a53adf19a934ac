--------------------------- MODULE MCConversation ---------------------------
(***************************************************************************)
(* The modules about conversations and about the file that keeps them,     *)
(* checked together: a behaviour is one of TranscriptCheck, of             *)
(* SessionRestore, of Compaction or of SessionManager, and the others keep *)
(* their initial states.                                                   *)
(***************************************************************************)
EXTENDS TranscriptCheck, SessionRestore, Compaction, MCSessionManager

\* Transcripts over two call ids and the blank one.
MCMessages ==
    {User, SessionMessage, FailedAssistant(<<1>>)}
      \cup {Assistant(c) : c \in {<<>>, <<1>>, <<2>>, <<1, 2>>, <<1, 1>>, <<Blank>>}}
      \cup {ToolResult(id) : id \in {1, 2, Blank}}

ConversationInit == CheckInit /\ RestoreInit /\ CompactionInit /\ SessionInit

NoSession == disk = <<>> /\ mgr = NoManager /\ ~up

ConversationNext ==
    \/ /\ file = <<>> /\ path = <<>> /\ NoSession
       /\ CheckNext /\ UNCHANGED <<restoreVars, compactionVars, vars>>
    \/ /\ transcript = <<>> /\ path = <<>> /\ NoSession
       /\ RestoreNext /\ UNCHANGED <<checkVars, compactionVars, vars>>
    \/ /\ transcript = <<>> /\ file = <<>> /\ NoSession
       /\ CompactionNext /\ UNCHANGED <<checkVars, restoreVars, vars>>
    \/ /\ transcript = <<>> /\ file = <<>> /\ path = <<>>
       /\ SessionNext /\ UNCHANGED <<checkVars, restoreVars, compactionVars>>

ConversationSpec ==
    ConversationInit /\ [][ConversationNext]_<<checkVars, restoreVars, compactionVars, vars>>
=============================================================================
