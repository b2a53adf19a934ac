---------------------------- MODULE MCLongHorizon ----------------------------
(***************************************************************************)
(* The three records of the long-horizon execution, checked together: a    *)
(* behaviour is one of ExecutionRecord, of Continuation or of              *)
(* RequirementLedger, and the other two keep their initial states.         *)
(***************************************************************************)
EXTENDS ExecutionRecord, Continuation, RequirementLedger

\* One requirement with a criterion that only a passing test proves, and one that
\* anything proves that is not a claim.
MCRules ==
    ("tested" :> [requirement |-> "r", minAuthority |-> 3, mustPass |-> TRUE])
      @@ ("seen" :> [requirement |-> "r", minAuthority |-> 0, mustPass |-> FALSE])

LongHorizonInit == ExecutionInit /\ ContinuationInit /\ LedgerInit

LongHorizonNext ==
    \/ ContinuationInit /\ LedgerInit /\ ExecutionNext /\ UNCHANGED <<continuationVars, ledger>>
    \/ ExecutionInit /\ LedgerInit /\ ContinuationNext /\ UNCHANGED <<execution, ledger>>
    \/ ExecutionInit /\ ContinuationInit /\ LedgerNext /\ UNCHANGED <<execution, continuationVars>>

LongHorizonSpec ==
    LongHorizonInit /\ [][LongHorizonNext]_<<execution, continuationVars, ledger>>
=============================================================================
