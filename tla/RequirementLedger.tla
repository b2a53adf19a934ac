-------------------------- MODULE RequirementLedger --------------------------
(***************************************************************************)
(* packages/coding-agent/src/core/long-horizon/requirement-ledger.ts,      *)
(* transition-policy.ts and ledger-reducer.ts: the ledger of a contract's  *)
(* requirements, to which evidence and transitions are added, and its      *)
(* authoritative validation, which replays both.                           *)
(*                                                                         *)
(* Evidence is identified by its place.  The authority of evidence is the  *)
(* rank of its kind; what an agent says has rank 0 and is a claim.  The    *)
(* contract and the sources of evidence are those the trusted contexts     *)
(* know, and requests carry the reasons they need.                         *)
(***************************************************************************)
EXTENDS Integers, Sequences, SequencesExt, FiniteSetsExt

CONSTANTS
    Requirements,          \* contract.requirements
    Rules,                 \* [criterion -> [requirement, minAuthority, mustPass]]
    InitiallyOut,          \* requirements that start NOT_APPLICABLE
    Authorities,           \* ranks of the evidence trusted collectors may add
    MaxEvidence,           \* bound on the evidence
    MaxLedgerTransitions   \* bound on the transitions

Criteria == DOMAIN Rules
CriteriaOf(r) == {c \in Criteria : Rules[c].requirement = r}

ASSUME LedgerAssumption ==
    /\ InitiallyOut \subseteq Requirements
    /\ \A c \in Criteria : Rules[c].requirement \in Requirements
    /\ \A r \in Requirements : CriteriaOf(r) # {}
    /\ Authorities \subseteq 1..6 /\ {MaxEvidence, MaxLedgerTransitions} \subseteq Nat

VARIABLE ledger    \* RequirementLedgerV1

AgentClaim == 0    \* rank of what an agent claims
NeverRegressed == 0

Statuses == {"UNASSESSED", "PENDING", "IN_PROGRESS", "IMPLEMENTED_UNVERIFIED",
             "SATISFIED", "BLOCKED", "NOT_APPLICABLE", "FAILED"}

PERMITTED_TRANSITIONS(from) ==
    CASE from = "UNASSESSED" -> {"PENDING", "IN_PROGRESS", "IMPLEMENTED_UNVERIFIED", "NOT_APPLICABLE"}
      [] from = "PENDING" -> {"IN_PROGRESS", "IMPLEMENTED_UNVERIFIED", "BLOCKED", "NOT_APPLICABLE"}
      [] from = "IN_PROGRESS" -> {"IMPLEMENTED_UNVERIFIED", "BLOCKED", "FAILED"}
      [] from = "IMPLEMENTED_UNVERIFIED" -> {"SATISFIED", "IN_PROGRESS", "FAILED", "BLOCKED"}
      [] from = "SATISFIED" -> {"IMPLEMENTED_UNVERIFIED", "IN_PROGRESS", "FAILED"}
      [] from = "BLOCKED" -> {"IN_PROGRESS", "PENDING", "FAILED", "NOT_APPLICABLE"}
      [] from = "NOT_APPLICABLE" -> {"PENDING", "UNASSESSED"}
      [] from = "FAILED" -> {"IN_PROGRESS", "PENDING", "BLOCKED"}

\* The principals of the trusted contexts and what they may do.
Capabilities(principal) ==
    CASE principal = "agent" -> {}
      [] principal = "collector" -> {"evidence"}
      [] principal = "reviewer" -> {"transition:satisfy", "transition:not-applicable"}

LedgerRevision(l) == Len(l.evidence) + Len(l.transitions)
InitialStatus(r) == IF r \in InitiallyOut THEN "NOT_APPLICABLE" ELSE "UNASSESSED"

-----------------------------------------------------------------------------
(* The rules for evidence *)

\* checkCriterionEvidenceRequirements: evidence about a criterion obeys its rules,
\* whoever gave it.
ObeysRules(e) ==
    \A c \in e.criteria :
        /\ e.authority >= Rules[c].minAuthority
        /\ Rules[c].mustPass => e.status = "pass"

\* evidenceMeetsRequirement, evidenceMeetsRequirementReplay
Meets(e, c) ==
    e.status = "pass" /\ e.authority # AgentClaim /\ e.authority >= Rules[c].minAuthority

\* isCriterionSatisfied for every criterion of r
CriteriaMet(l, r, ids) ==
    \A c \in CriteriaOf(r) : \E i \in ids : c \in l.evidence[i].criteria /\ Meets(l.evidence[i], c)

\* isSatisfactionAuthorized, for a principal who may satisfy
SatisfactionAuthorized(l, r, ids) ==
    /\ ids # {}
    /\ \A i \in ids :
         /\ l.evidence[i].authority # AgentClaim /\ l.evidence[i].status = "pass"
         /\ l.evidence[i].criteria \cap CriteriaOf(r) # {}
    /\ CriteriaMet(l, r, ids)

\* Mutant: one fresh piece of evidence is enough for all criteria.
EvidenceIsFresh_Any(l, r, ids) ==
    l.regressed[r] # NeverRegressed => \E i \in ids : l.evidence[i].addedAt > l.regressed[r]

\* checkEvidenceFreshnessAfterRegression
EvidenceIsFresh(l, r, ids) ==
    l.regressed[r] # NeverRegressed =>
        \A c \in CriteriaOf(r) : \E i \in ids :
            c \in l.evidence[i].criteria /\ l.evidence[i].addedAt > l.regressed[r]

-----------------------------------------------------------------------------
(* validateRequirementLedger *)

\* A transition as the replay sees it, with the evidence it names.
TransitionReplays(l, t) ==
    /\ \A i \in t.evidenceIds : i \in DOMAIN l.evidence /\ l.evidence[i].addedAt < t.after
    /\ t.to = "SATISFIED" =>
         /\ t.by # "agent" /\ "transition:satisfy" \in Capabilities(t.by)
         /\ CriteriaMet(l, t.requirement, t.evidenceIds)
    /\ t.to = "NOT_APPLICABLE" /\ t.from # "UNASSESSED" =>
         "transition:not-applicable" \in Capabilities(t.by)

\* The statuses the transitions lead to from the initial ones; ok tells whether each
\* starts where the previous one ended.
ReplayStatus(run, t) ==
    [ok |-> run.ok /\ run.status[t.requirement] = t.from,
     status |-> [run.status EXCEPT ![t.requirement] = t.to]]

ReplayStatuses(l) ==
    FoldLeft(ReplayStatus, [ok |-> TRUE, status |-> [r \in Requirements |-> InitialStatus(r)]], l.transitions)

\* buildMutationSequence: evidence and transitions together have the revisions 1 to n.
RevisionsAreSequential(l) ==
    {l.evidence[i].addedAt : i \in DOMAIN l.evidence} \cup {l.transitions[i].after : i \in DOMAIN l.transitions}
        = 1..LedgerRevision(l)

ValidateRequirementLedger(l) ==
    /\ \A i \in DOMAIN l.evidence :
         /\ l.evidence[i].authority # AgentClaim =>
              l.evidence[i].by # "agent" /\ "evidence" \in Capabilities(l.evidence[i].by)
         /\ ObeysRules(l.evidence[i])
    /\ \A i \in DOMAIN l.transitions : TransitionReplays(l, l.transitions[i])
    /\ RevisionsAreSequential(l)
    /\ ReplayStatuses(l).ok /\ ReplayStatuses(l).status = l.status
    /\ \A r \in Requirements : l.status[r] = "SATISFIED" =>
         EvidenceIsFresh(l, r, l.transitions[SelectLastInSeq(l.transitions,
             LAMBDA t : t.requirement = r /\ t.to = "SATISFIED")].evidenceIds)

-----------------------------------------------------------------------------
(* The mutations *)

LedgerInit ==
    ledger = [status |-> [r \in Requirements |-> InitialStatus(r)],
              regressed |-> [r \in Requirements |-> NeverRegressed],
              evidence |-> <<>>, transitions |-> <<>>]

\* Mutant: evidence of the collectors is not replayed.
AddLedgerEvidence_NoClosure(by, criteria, status, authority) ==
    LET e == [criteria |-> criteria, status |-> status, by |-> by, addedAt |-> LedgerRevision(ledger) + 1,
              authority |-> IF "evidence" \in Capabilities(by) THEN authority ELSE AgentClaim]
    IN  /\ Len(ledger.evidence) < MaxEvidence
        /\ ledger' = [ledger EXCEPT !.evidence = Append(@, e)]

\* addLedgerEvidence: only what is not a claim is replayed before it is accepted.
AddLedgerEvidence(by, criteria, status, authority) ==
    LET e == [criteria |-> criteria, status |-> status, by |-> by, addedAt |-> LedgerRevision(ledger) + 1,
              authority |-> IF "evidence" \in Capabilities(by) THEN authority ELSE AgentClaim]
        new == [ledger EXCEPT !.evidence = Append(@, e)]
    IN  /\ Len(ledger.evidence) < MaxEvidence
        /\ e.authority # AgentClaim => ValidateRequirementLedger(new)
        /\ ledger' = new

\* authorizeTransition
AuthorizeTransition(by, to) ==
    /\ to = "SATISFIED" => "transition:satisfy" \in Capabilities(by)
    /\ to = "NOT_APPLICABLE" => "transition:not-applicable" \in Capabilities(by)

\* Mutant: the record says that every transition starts from the initial status.
WithTransition_FromInitial(l, by, r, to, ids) ==
    LET after == LedgerRevision(l) + 1
    IN  [l EXCEPT !.status[r] = to,
                  !.regressed[r] = IF l.status[r] = "SATISFIED" THEN after ELSE @,
                  !.transitions = Append(@, [requirement |-> r, from |-> InitialStatus(r), to |-> to,
                                             by |-> by, evidenceIds |-> ids, after |-> after])]

\* The ledger with the transition; leaving SATISFIED is noted as a regression.
WithTransition(l, by, r, to, ids) ==
    LET after == LedgerRevision(l) + 1
    IN  [l EXCEPT !.status[r] = to,
                  !.regressed[r] = IF l.status[r] = "SATISFIED" THEN after ELSE @,
                  !.transitions = Append(@, [requirement |-> r, from |-> l.status[r], to |-> to,
                                             by |-> by, evidenceIds |-> ids, after |-> after])]

\* applyRequirementTransition: only privileged transitions are replayed before they
\* are accepted.
ApplyRequirementTransition(by, r, to, ids) ==
    LET new == WithTransition(ledger, by, r, to, ids)
    IN  /\ Len(ledger.transitions) < MaxLedgerTransitions
        /\ to \in PERMITTED_TRANSITIONS(ledger.status[r])
        /\ AuthorizeTransition(by, to)
        /\ to = "SATISFIED" => SatisfactionAuthorized(ledger, r, ids) /\ EvidenceIsFresh(ledger, r, ids)
        /\ (to \in {"SATISFIED", "NOT_APPLICABLE"} \/ ledger.status[r] = "SATISFIED") =>
             ValidateRequirementLedger(new)
        /\ ledger' = new

\* The requests: agents add claims, collectors evidence of any authority.  Reviewers
\* request what needs their capabilities, naming the evidence for SATISFIED, and agents
\* the other transitions (an agent's request for one of the first is refused).
LedgerNext ==
    \/ \E criteria \in SUBSET Criteria \ {{}}, status \in {"pass", "fail"} :
         \/ AddLedgerEvidence("agent", criteria, status, AgentClaim)
         \/ \E authority \in Authorities : AddLedgerEvidence("collector", criteria, status, authority)
    \/ \E r \in Requirements :
         \/ \E to \in Statuses : ApplyRequirementTransition("agent", r, to, {})
         \/ \E ids \in SUBSET DOMAIN ledger.evidence : ApplyRequirementTransition("reviewer", r, "SATISFIED", ids)
         \/ ApplyRequirementTransition("reviewer", r, "NOT_APPLICABLE", {})

LedgerSpec == LedgerInit /\ [][LedgerNext]_ledger

-----------------------------------------------------------------------------
(* ledger-reducer.ts *)

\* deriveCurrentStates starts from the statuses of today and applies each transition
\* that starts where it stands.
DeriveStep(status, t) ==
    IF status[t.requirement] = t.from THEN [status EXCEPT ![t.requirement] = t.to] ELSE status

DeriveCurrentStates(l) == FoldLeft(DeriveStep, l.status, l.transitions)

\* verifyLedgerConsistency: the replay skips a transition that does not fit.
VerifyStep(run, t) ==
    IF run.status[t.requirement] # t.from THEN [run EXCEPT !.ok = FALSE]
    ELSE [run EXCEPT !.status[t.requirement] = t.to]

LedgerIsConsistent(l) ==
    LET run == FoldLeft(VerifyStep, [ok |-> TRUE, status |-> [r \in Requirements |-> InitialStatus(r)]],
                        l.transitions)
    IN  run.ok /\ run.status = l.status

-----------------------------------------------------------------------------
\* Mutations that are not replayed when they are accepted keep the ledger replayable:
\* the strict validation only ever fails on a claim about a criterion with stricter
\* rules, which is accepted unchecked.
OnlyClaimsInvalidate ==
    \/ ValidateRequirementLedger(ledger)
    \/ \E i \in DOMAIN ledger.evidence :
         ledger.evidence[i].authority = AgentClaim /\ ~ObeysRules(ledger.evidence[i])

\* A satisfied requirement has, for each of its criteria, passing evidence of
\* sufficient authority that no agent gave and that was added after the requirement
\* last ceased to be satisfied: read off the history, not off the recorded revision.
SatisfiedIsProven ==
    \A r \in Requirements : ledger.status[r] = "SATISFIED" =>
        LET left == {t \in ToSet(ledger.transitions) : t.requirement = r /\ t.from = "SATISFIED"}
        IN  \A c \in CriteriaOf(r) : \E e \in ToSet(ledger.evidence) :
                /\ c \in e.criteria /\ Meets(e, c) /\ e.by # "agent"
                /\ \A t \in left : e.addedAt > t.after

\* The two reducers agree with the recorded statuses.  deriveCurrentStates replays the
\* whole history from its end state, which ends there again only because every
\* transition starts where the previous one of its requirement ended.
ReducersAgree == DeriveCurrentStates(ledger) = ledger.status /\ LedgerIsConsistent(ledger)

\* What every ledger that the mutations leave has to be.
LedgerIsSound == OnlyClaimsInvalidate /\ SatisfiedIsProven /\ ReducersAgree
=============================================================================
